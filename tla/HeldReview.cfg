SPECIFICATION FairSpec
CHECK_DEADLOCK FALSE
CONSTANTS
  r1 = r1
  r2 = r2
  s1 = s1
  s2 = s2
  Reviewers = {r1, r2}
  Sweepers = {s1, s2}
  MaxFaults = 2
INVARIANTS
  DecisionStands
  ReviewableIsKept
  VerdictAnnouncedOnce
PROPERTIES
  OnlyReleasedIsSent
  HeldEventuallyLeaves
