SPECIFICATION Spec
CHECK_DEADLOCK FALSE
CONSTANTS
  r1 = r1
  r2 = r2
  s1 = s1
  Reviewers = {r1, r2}
  Sweepers = {s1}
  MaxFaults = 0
INVARIANTS
  ToldReleasedIsRight
