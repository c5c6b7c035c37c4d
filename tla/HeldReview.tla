------------------------------ MODULE HeldReview ------------------------------
(***************************************************************************)
(* An outbound message held by a filter rule, from the hold to its end:    *)
(* the HELD outbox row and the review record beside it, reviewers who      *)
(* release or reject it, the retention pass of every instance that expires *)
(* it, discards its payload and prunes what is left.                       *)
(*                                                                         *)
(* Messages are held and reviewed independently of one another, so the     *)
(* module follows one.                                                     *)
(***************************************************************************)
EXTENDS Naturals, FiniteSets, TLAPS

CONSTANTS
  Reviewers,  \* requests to release or reject, each made once
  Sweepers,   \* the retention worker of each instance
  MaxFaults   \* bound on crashes and failed database calls together

ASSUME MaxFaultsAssumption == MaxFaults \in Nat

VARIABLES
  row,        \* the outbox row; "QUEUED" is any status the queue worker owns
  record,     \* the status of the review record
  admission,  \* how far the send that is being held has come
  review,     \* each reviewer's request: where it is, and its verdict
  sweep,      \* where each instance's expiry sweep is
  due,        \* the record's expires_at has passed
  rowOld,     \* the row is older than a retention would keep it
  recordOld,  \* the record was decided longer ago than that
  retention,  \* there is a quarantine retention: zero, the default, keeps for ever
  deadline,   \* the record was given an expires_at
  faults,
  told,       \* what each reviewer was answered
  announced,  \* HISTORY: how often each outcome was announced, up to 2
  decision,   \* HISTORY: the first terminal status the record took
  queued      \* HISTORY: the queue worker was given the message

clocks == <<due, rowOld, recordOld, retention, deadline>>
vars == <<row, record, admission, review, sweep, clocks, faults, told, announced, decision,
          queued>>

Verdicts == {"RELEASED", "REJECTED"}
Outcomes == Verdicts \cup {"EXPIRED"}
Undecided == "none"

Fault == faults < MaxFaults /\ faults' = faults + 1

Announce(outcome) ==
  announced' = [announced EXCEPT ![outcome] = IF @ < 2 THEN @ + 1 ELSE @]

Decide(outcome) ==
  /\ record' = outcome
  /\ decision' = IF decision = Undecided THEN outcome ELSE decision
-----------------------------------------------------------------------------
Init ==
  /\ row = "NONE" /\ record = "NONE" /\ admission = "start"
  /\ review = [r \in Reviewers |-> [at |-> "idle", verdict |-> Undecided]]
  /\ sweep = [s \in Sweepers |-> "idle"]
  /\ due = FALSE /\ rowOld = FALSE /\ recordOld = FALSE /\ faults = 0
  /\ retention \in BOOLEAN /\ deadline = FALSE
  /\ told = [r \in Reviewers |-> "nothing"]
  /\ announced = [o \in Outcomes |-> 0]
  /\ decision = Undecided /\ queued = FALSE

\* SendEmail on a hold: the row is committed first, the record after it.  When
\* the record cannot be written the send is accepted all the same.
QueueHeld ==
  /\ admission = "start"
  /\ row' = "HELD" /\ admission' = "queued"
  /\ UNCHANGED <<record, review, sweep, clocks, faults, told, announced,
                 decision, queued>>

\* Record: a hold gets a deadline only under a retention.
RecordHeld ==
  /\ admission = "queued"
  /\ admission' = "done"
  /\ \/ record' = "PENDING" /\ deadline' = retention /\ UNCHANGED faults
     \/ Fault /\ UNCHANGED <<record, deadline>>
  /\ UNCHANGED <<row, review, sweep, due, rowOld, recordOld, retention, told, announced,
                 decision, queued>>

\* An administrator sets the quarantine retention, or sets it back to for ever.  The
\* deadline a record was given stays.
SetRetention ==
  /\ retention' = ~retention
  /\ UNCHANGED <<row, record, admission, review, sweep, due, rowOld, recordOld, deadline,
                 faults, told, announced, decision, queued>>

\* The clocks: the hold's own deadline, and retention's cutoff for the row and
\* for a decided record.  A send or a review under way takes no such time.
Reviewing == \E r \in Reviewers : review[r].at \in {"decided", "moving"}

PassTime ==
  /\ admission = "done"
  /\ \/ record # "NONE" /\ deadline /\ ~due /\ due' = TRUE /\ UNCHANGED <<rowOld, recordOld>>
     \/ ~rowOld /\ rowOld' = TRUE /\ UNCHANGED <<due, recordOld>>
     \/ /\ ~recordOld /\ record \in Outcomes
        /\ record = "EXPIRED" \/ ~Reviewing
        /\ recordOld' = TRUE /\ UNCHANGED <<due, rowOld>>
  /\ UNCHANGED <<row, record, admission, review, sweep, retention, deadline, faults, told,
                 announced, decision, queued>>
-----------------------------------------------------------------------------
Step(r, at) == review' = [review EXCEPT ![r].at = at]
Tell(r, answer) == told' = [told EXCEPT ![r] = answer]

\* Mutant of Review: the status is not part of the write's condition.
ReviewAnyway(r, verdict) ==
  /\ review[r].at = "idle" /\ record \in Outcomes \cup {"PENDING"}
  /\ Decide(verdict)
  /\ review' = [review EXCEPT ![r] = [at |-> "decided", verdict |-> verdict]]
  /\ UNCHANGED <<row, admission, sweep, clocks, faults, told, announced, queued>>

\* The decision is claimed first: one conditional write, then the record is read
\* back.  A reviewer who loses is told so.
Review(r, verdict) ==
  /\ review[r].at = "idle" /\ record # "NONE"
  /\ \/ /\ record = "PENDING"
        /\ Decide(verdict)
        /\ \/ /\ review' = [review EXCEPT ![r] = [at |-> "decided", verdict |-> verdict]]
              /\ UNCHANGED <<faults, told>>
           \/ Fault /\ Step(r, "done") /\ Tell(r, "error")
     \/ /\ record # "PENDING"
        /\ Step(r, "done") /\ Tell(r, "too late")
        /\ UNCHANGED <<record, decision, faults>>
  /\ UNCHANGED <<row, admission, sweep, clocks, announced, queued>>

Finished(r) ==
  /\ Step(r, "done") /\ Tell(r, review[r].verdict) /\ Announce(review[r].verdict)
Failed(r) ==
  /\ Step(r, "done") /\ Tell(r, "error") /\ UNCHANGED announced

\* ReleaseHeld and DiscardHeld read the row.  A release that finds none, or a
\* read that fails, is reported; a reject stands whatever becomes of the row.
ReadRow(r) ==
  /\ review[r].at = "decided"
  /\ LET release == review[r].verdict = "RELEASED" IN
     \/ row = "HELD" /\ Step(r, "moving") /\ UNCHANGED <<faults, told, announced>>
     \/ row # "HELD" /\ UNCHANGED faults
        /\ IF release /\ row = "GONE" THEN Failed(r) ELSE Finished(r)
     \/ Fault /\ IF release THEN Failed(r) ELSE Finished(r)
  /\ UNCHANGED <<row, record, admission, sweep, clocks, decision, queued>>

\* Mutant of MoveRow: the row is updated where it was read, gone or not.
MoveRowBack(r) ==
  /\ review[r].at = "moving"
  /\ row' = IF review[r].verdict = "RELEASED" THEN "QUEUED" ELSE "GONE"
  /\ queued' = (queued \/ row' = "QUEUED")
  /\ Finished(r)
  /\ UNCHANGED <<record, admission, sweep, clocks, faults, decision>>

\* The write by id: an update or a delete of a row that is gone changes nothing
\* and reports nothing.
MoveRow(r) ==
  /\ review[r].at = "moving"
  /\ LET release == review[r].verdict = "RELEASED" IN
     \/ /\ row' = IF row # "GONE" /\ release THEN "QUEUED" ELSE "GONE"
        /\ queued' = (queued \/ row' = "QUEUED")
        /\ Finished(r) /\ UNCHANGED faults
     \/ /\ Fault /\ UNCHANGED <<row, queued>>
        /\ IF release THEN Failed(r) ELSE Finished(r)
  /\ UNCHANGED <<record, admission, sweep, clocks, decision>>

\* The process of a reviewer's request dies in the middle of it.
CrashReview(r) ==
  /\ review[r].at \in {"decided", "moving"}
  /\ Fault /\ Failed(r)
  /\ UNCHANGED <<row, record, admission, sweep, clocks, decision, queued>>
-----------------------------------------------------------------------------
\* The expiry sweep: select what is due, mark it, read back what is EXPIRED,
\* discard each payload, announce each.
Sweep(s, at) == sweep' = [sweep EXCEPT ![s] = at]

SelectDue(s) ==
  /\ sweep[s] = "idle" /\ record = "PENDING" /\ due
  /\ Sweep(s, "marking")
  /\ UNCHANGED <<row, record, admission, review, clocks, faults, told,
                 announced, decision, queued>>

\* Mutant of MarkExpired: whatever became of the record since it was selected.
MarkExpiredAnyway(s) ==
  /\ sweep[s] = "marking"
  /\ Decide("EXPIRED")
  /\ Sweep(s, "reading")
  /\ UNCHANGED <<row, admission, review, clocks, faults, told, announced, queued>>

MarkExpired(s) ==
  /\ sweep[s] = "marking"
  /\ IF record = "PENDING" THEN Decide("EXPIRED") ELSE UNCHANGED <<record, decision>>
  /\ Sweep(s, "reading")
  /\ UNCHANGED <<row, admission, review, clocks, faults, told, announced, queued>>

ReadExpired(s) ==
  /\ sweep[s] = "reading"
  /\ Sweep(s, IF record = "EXPIRED" THEN "discarding" ELSE "idle")
  /\ UNCHANGED <<row, record, admission, review, clocks, faults, told,
                 announced, decision, queued>>

\* discard.  Its read and its delete are one step here: nobody else moves the
\* row of an expired message except to delete it.
Discard(s) ==
  /\ sweep[s] = "discarding"
  /\ \/ row' = (IF row = "HELD" THEN "GONE" ELSE row) /\ UNCHANGED faults
     \/ Fault /\ UNCHANGED row
  /\ Sweep(s, "announcing")
  /\ UNCHANGED <<record, admission, review, clocks, told, announced, decision,
                 queued>>

NotifyExpired(s) ==
  /\ sweep[s] = "announcing"
  /\ Announce("EXPIRED")
  /\ Sweep(s, "idle")
  /\ UNCHANGED <<row, record, admission, review, clocks, faults, told, decision,
                 queued>>

CrashSweep(s) ==
  /\ sweep[s] # "idle"
  /\ Fault /\ Sweep(s, "idle")
  /\ UNCHANGED <<row, record, admission, review, clocks, told, announced,
                 decision, queued>>

\* pruneTerminalFiltered.  Without a retention there is no cutoff and no prune.
PruneTerminal ==
  /\ retention /\ record \in Outcomes /\ recordOld
  /\ record' = "GONE"
  /\ UNCHANGED <<row, admission, review, sweep, clocks, faults, told, announced,
                 decision, queued>>

\* Mutants of Prunable: by age alone, or only where a decided record exists.
PrunableByAge == retention /\ row = "HELD" /\ rowOld
PrunableDecided == retention /\ row = "HELD" /\ rowOld /\ record \in Outcomes

\* prune_held_outbox.sql: never a row whose review is still pending.
Prunable == retention /\ row = "HELD" /\ rowOld /\ record # "PENDING"

PruneHeld ==
  /\ Prunable
  /\ row' = "GONE"
  /\ UNCHANGED <<record, admission, review, sweep, clocks, faults, told,
                 announced, decision, queued>>

\* The queue worker finishes with a message that was given back to it.
Deliver ==
  /\ row = "QUEUED"
  /\ row' = "GONE"
  /\ UNCHANGED <<record, admission, review, sweep, clocks, faults, told,
                 announced, decision, queued>>

SweepStep(s) ==
  SelectDue(s) \/ MarkExpired(s) \/ ReadExpired(s) \/ Discard(s) \/ NotifyExpired(s)

Next ==
  \/ QueueHeld \/ RecordHeld \/ SetRetention \/ PassTime
  \/ \E r \in Reviewers :
       \/ \E verdict \in Verdicts : Review(r, verdict)
       \/ ReadRow(r) \/ MoveRow(r) \/ CrashReview(r)
  \/ \E s \in Sweepers : SweepStep(s) \/ CrashSweep(s)
  \/ PruneTerminal \/ PruneHeld \/ Deliver

Spec == Init /\ [][Next]_vars

\* The send finishes, time passes, every instance's retention worker runs its
\* passes and the queue worker delivers.
Fairness ==
  /\ WF_vars(RecordHeld) /\ WF_vars(PassTime) /\ WF_vars(PruneHeld) /\ WF_vars(Deliver)
  /\ \A s \in Sweepers : WF_vars(SweepStep(s))
  /\ \A r \in Reviewers : WF_vars(ReadRow(r) \/ MoveRow(r))

FairSpec == Spec /\ Fairness
-----------------------------------------------------------------------------
TypeOK ==
  /\ row \in {"NONE", "HELD", "QUEUED", "GONE"}
  /\ record \in {"NONE", "PENDING", "GONE"} \cup Outcomes
  /\ admission \in {"start", "queued", "done"}
  /\ review \in [Reviewers -> [at: {"idle", "decided", "moving", "done"},
                               verdict: Verdicts \cup {Undecided}]]
  /\ sweep \in [Sweepers -> {"idle", "marking", "reading", "discarding", "announcing"}]
  /\ due \in BOOLEAN /\ rowOld \in BOOLEAN /\ recordOld \in BOOLEAN
  /\ retention \in BOOLEAN /\ deadline \in BOOLEAN
  /\ faults \in 0..MaxFaults
  /\ told \in [Reviewers -> Verdicts \cup {"nothing", "too late", "error"}]
  /\ announced \in [Outcomes -> 0..2]
  /\ decision \in Outcomes \cup {Undecided} /\ queued \in BOOLEAN

\* review.go: the decision is claimed in one conditional write, so of reviewers
\* and sweeps that decide at the same moment one wins, for good.
DecisionStands ==
  /\ record \in Outcomes => record = decision
  /\ \A r \in Reviewers : told[r] \in Verdicts => told[r] = decision
  /\ \A o \in Outcomes : announced[o] > 0 => o = decision

\* A held message reaches the queue worker only after a reviewer released it,
\* and once only.
OnlyReleasedIsSent ==
  [][/\ row' = "QUEUED" => row \in {"HELD", "QUEUED"} /\ decision = "RELEASED"
     /\ row = "GONE" => row' = "GONE"]_vars

\* expiry.go: "The pruner never touches a row a reviewer can still release,
\* whatever its age".
ReviewableIsKept == record = "PENDING" => row = "HELD"

\* NewReviewer: "a reviewer who is told a message went out has to be right".
ToldReleasedIsRight == \A r \in Reviewers : told[r] = "RELEASED" => queued

\* A reviewer's verdict is announced to the subscribers at most once, whoever else
\* reviewed the message or swept it at the same time.
VerdictAnnouncedOnce == \A v \in Verdicts : announced[v] <= 1

\* QuarantineRepository.Expire returns "Only rows this call transitioned", and
\* each is announced: subscribers hear of one outcome once.
AnnouncedOnce == \A o \in Outcomes : announced[o] <= 1

\* A hold without a deadline, whose review is still pending: it "waits until someone
\* decides" (config.go).
Waits == record = "PENDING" /\ ~deadline

\* expiry.go and prune_held_outbox.sql: where a retention is set to stay, no held
\* payload is kept for good, even when its review record was never written, a discard
\* failed or the retention was for ever while it was held; but for a hold that was
\* given no deadline, until someone decides it.  Without a retention nothing is pruned.
HeldEventuallyLeaves == <>[]retention => (row = "HELD" ~> (row # "HELD" \/ Waits))

-----------------------------------------------------------------------------
(***************************************************************************)
(* The safety of all this for any number of reviewers and instances.       *)
(*                                                                         *)
(* None of the properties is inductive: each is about what became of a     *)
(* decision that its maker acts on some steps later.  The invariant says   *)
(* what whoever is in the middle of acting may rely on.                    *)
(***************************************************************************)

\* What a reviewer between the decision and its end relies on.
ActingOnDecision ==
  \A r \in Reviewers : review[r].at \in {"decided", "moving"} =>
    review[r].verdict \in Verdicts /\ review[r].verdict = decision

\* What a sweep that has read the record back relies on.
ActingOnExpiry ==
  \A s \in Sweepers : sweep[s] \in {"discarding", "announcing"} => decision = "EXPIRED"

\* The record and the decision, which outlives it.
RecordInv ==
  /\ record \in {"NONE", "PENDING"} <=> decision = Undecided
  /\ record \in Outcomes => record = decision

\* The send that is being held, and what may have happened to its row so far.
AdmissionInv ==
  /\ admission = "start" <=> row = "NONE"
  /\ admission = "start" => record = "NONE"
  /\ admission = "queued" => record = "NONE" /\ row = "HELD"
  /\ admission # "done" => ~rowOld
  /\ row = "QUEUED" => decision = "RELEASED"

\* One reviewer at most ever holds a verdict, and has not announced it while it
\* still acts on it.
OneVerdict ==
  /\ \A r, q \in Reviewers :
       review[r].verdict # Undecided /\ review[q].verdict # Undecided => r = q
  /\ decision = Undecided => \A r \in Reviewers : review[r].verdict = Undecided
  /\ \A r \in Reviewers : review[r].at \in {"decided", "moving"} =>
       \A v \in Verdicts : announced[v] = 0

IInv ==
  /\ TypeOK /\ DecisionStands /\ ReviewableIsKept
  /\ ActingOnDecision /\ ActingOnExpiry /\ RecordInv /\ AdmissionInv
-----------------------------------------------------------------------------
USE DEF clocks

\* The types of the variables a reviewer's or a sweep's step changes.
ReviewType == [at: {"idle", "decided", "moving", "done"}, verdict: Verdicts \cup {Undecided}]
AnswerType == Verdicts \cup {"nothing", "too late", "error"}
RequestsOK ==
  /\ review \in [Reviewers -> ReviewType] /\ told \in [Reviewers -> AnswerType]
  /\ faults \in 0..MaxFaults

\* The initial state is well typed.
LEMMA TypeInit == Init => TypeOK
<1> SUFFICES ASSUME Init PROVE TypeOK OBVIOUS
<1> USE DEF Init
<1>1. RequestsOK
  BY MaxFaultsAssumption DEF RequestsOK, ReviewType, AnswerType
<1>2. announced \in [Outcomes -> 0..2] OBVIOUS
<1>3. sweep \in [Sweepers -> {"idle", "marking", "reading", "discarding", "announcing"}]
  OBVIOUS
<1> QED BY <1>1, <1>2, <1>3 DEF TypeOK, RequestsOK, ReviewType, AnswerType

\* Every step keeps the types.
LEMMA TypeStep == IInv /\ [Next]_vars => TypeOK'
<1> SUFFICES ASSUME TypeOK, ActingOnDecision, [Next]_vars PROVE TypeOK' BY DEF IInv
<1>1. RequestsOK /\ announced \in [Outcomes -> 0..2]
  BY DEF TypeOK, RequestsOK, ReviewType, AnswerType
<1>2. ASSUME Fault PROVE faults' \in 0..MaxFaults
  BY <1>1, <1>2, MaxFaultsAssumption DEF Fault, RequestsOK
<1>3. ASSUME NEW o \in Outcomes, Announce(o) PROVE announced' \in [Outcomes -> 0..2]
  BY <1>1, <1>3 DEF Announce
<1>4. CASE \/ QueueHeld \/ SetRetention \/ PassTime \/ PruneTerminal \/ PruneHeld \/ Deliver
           \/ UNCHANGED vars
  <2>1. CASE SetRetention
    <3>1. (~retention) \in BOOLEAN OBVIOUS
    <3>2. retention' \in BOOLEAN BY <2>1, <3>1 DEF SetRetention
    <3> QED BY <2>1, <3>2 DEF SetRetention, TypeOK
  <2>2. CASE PassTime
    <3>1. due' \in BOOLEAN /\ rowOld' \in BOOLEAN /\ recordOld' \in BOOLEAN
      BY <2>2 DEF PassTime, TypeOK
    <3> QED BY <2>2, <3>1 DEF PassTime, TypeOK
  <2>3. CASE QueueHeld \/ PruneTerminal \/ PruneHeld \/ Deliver \/ UNCHANGED vars
    BY <2>3 DEF QueueHeld, PruneTerminal, PruneHeld, Deliver, vars, TypeOK
  <2> QED BY <1>4, <2>1, <2>2, <2>3
<1>5. CASE RecordHeld BY <1>2, <1>5 DEF RecordHeld, TypeOK
<1>6. ASSUME NEW r \in Reviewers, NEW verdict \in Verdicts, Review(r, verdict) PROVE TypeOK'
  <2>1. RequestsOK'
    <3>1. faults' \in 0..MaxFaults BY <1>1, <1>2, <1>6 DEF Review, RequestsOK
    <3>2. review' \in [Reviewers -> ReviewType]
      <4>1. CASE Step(r, "done") BY <1>1, <4>1 DEF Step, RequestsOK, ReviewType
      <4>2. CASE review' = [review EXCEPT ![r] = [at |-> "decided", verdict |-> verdict]]
        BY <1>1, <1>6, <4>2 DEF RequestsOK, ReviewType
      <4> QED BY <1>6, <4>1, <4>2 DEF Review
    <3>3. told' \in [Reviewers -> AnswerType]
      BY <1>1, <1>6 DEF Review, Tell, RequestsOK, AnswerType
    <3> QED BY <3>1, <3>2, <3>3 DEF RequestsOK
  <2>2. record' \in {"NONE", "PENDING", "GONE"} \cup Outcomes
        /\ decision' \in Outcomes \cup {Undecided}
    BY <1>6 DEF Review, Decide, Outcomes, TypeOK
  <2> QED BY <1>6, <2>1, <2>2 DEF Review, TypeOK, RequestsOK, ReviewType, AnswerType
<1>7. ASSUME NEW r \in Reviewers, review[r].at \in {"decided", "moving"}, Finished(r) \/ Failed(r)
      PROVE  /\ review' \in [Reviewers -> ReviewType] /\ told' \in [Reviewers -> AnswerType]
             /\ announced' \in [Outcomes -> 0..2]
  <2>1. review[r].verdict \in Verdicts BY <1>7 DEF ActingOnDecision
  <2>2. announced' \in [Outcomes -> 0..2]
    BY <1>3, <1>7, <2>1 DEF Finished, Failed, Outcomes, TypeOK
  <2> QED BY <1>1, <1>7, <2>1, <2>2
          DEF Finished, Failed, Step, Tell, RequestsOK, ReviewType, AnswerType
<1>8. ASSUME NEW r \in Reviewers, ReadRow(r) PROVE TypeOK'
  <2>1. faults' \in 0..MaxFaults BY <1>2, <1>8 DEF ReadRow, TypeOK
  <2>2. /\ review' \in [Reviewers -> ReviewType] /\ told' \in [Reviewers -> AnswerType]
        /\ announced' \in [Outcomes -> 0..2]
    <3>1. CASE Finished(r) \/ Failed(r) BY <1>7, <1>8, <3>1 DEF ReadRow
    <3>2. CASE Step(r, "moving") /\ UNCHANGED <<told, announced>>
      BY <1>1, <3>2 DEF Step, RequestsOK, ReviewType, TypeOK
    <3> QED BY <1>8, <3>1, <3>2 DEF ReadRow
  <2> QED BY <1>8, <2>1, <2>2 DEF ReadRow, TypeOK, ReviewType, AnswerType
<1>9. ASSUME NEW r \in Reviewers, MoveRow(r) PROVE TypeOK'
  <2>1. faults' \in 0..MaxFaults BY <1>2, <1>9 DEF MoveRow, TypeOK
  <2>2. /\ review' \in [Reviewers -> ReviewType] /\ told' \in [Reviewers -> AnswerType]
        /\ announced' \in [Outcomes -> 0..2]
    BY <1>7, <1>9 DEF MoveRow
  <2>3. queued' \in BOOLEAN /\ row' \in {"NONE", "HELD", "QUEUED", "GONE"}
    BY <1>9 DEF MoveRow, TypeOK
  <2> QED BY <1>9, <2>1, <2>2, <2>3 DEF MoveRow, TypeOK, ReviewType, AnswerType
<1>10. ASSUME NEW r \in Reviewers, CrashReview(r) PROVE TypeOK'
  <2>1. faults' \in 0..MaxFaults BY <1>2, <1>10 DEF CrashReview
  <2>2. /\ review' \in [Reviewers -> ReviewType] /\ told' \in [Reviewers -> AnswerType]
        /\ announced' \in [Outcomes -> 0..2]
    BY <1>7, <1>10 DEF CrashReview
  <2> QED BY <1>10, <2>1, <2>2 DEF CrashReview, TypeOK, ReviewType, AnswerType
<1>11. ASSUME NEW s \in Sweepers, SweepStep(s) \/ CrashSweep(s) PROVE TypeOK'
  <2>1. faults' \in 0..MaxFaults /\ announced' \in [Outcomes -> 0..2]
    BY <1>2, <1>3, <1>11 DEF SweepStep, SelectDue, MarkExpired, ReadExpired, Discard,
       NotifyExpired, CrashSweep, Outcomes, TypeOK
  <2>2. sweep' \in [Sweepers -> {"idle", "marking", "reading", "discarding", "announcing"}]
    BY <1>11 DEF SweepStep, SelectDue, MarkExpired, ReadExpired, Discard,
       NotifyExpired, CrashSweep, Sweep, TypeOK
  <2>3. UNCHANGED <<admission, review, clocks, told, queued>>
    BY <1>11 DEF SweepStep, SelectDue, MarkExpired, ReadExpired, Discard, NotifyExpired,
       CrashSweep
  <2>4. /\ row' \in {"NONE", "HELD", "QUEUED", "GONE"}
        /\ record' \in {"NONE", "PENDING", "GONE"} \cup Outcomes
        /\ decision' \in Outcomes \cup {Undecided}
    BY <1>11 DEF SweepStep, SelectDue, MarkExpired, ReadExpired, Discard,
       NotifyExpired, CrashSweep, Decide, Outcomes, TypeOK
  <2> QED BY <2>1, <2>2, <2>3, <2>4 DEF TypeOK
<1> QED BY <1>4, <1>5, <1>6, <1>8, <1>9, <1>10, <1>11 DEF Next

\* The steps of the send, of the clocks and of retention's prunes.
LEMMA HousekeepingSteps ==
  ASSUME IInv, TypeOK',
         \/ QueueHeld \/ RecordHeld \/ SetRetention \/ PassTime
         \/ PruneTerminal \/ PruneHeld \/ Deliver \/ UNCHANGED vars
  PROVE  IInv'
<1> USE MaxFaultsAssumption
    DEF IInv, TypeOK, DecisionStands, ReviewableIsKept, ActingOnDecision, ActingOnExpiry,
        RecordInv, AdmissionInv, Verdicts, Outcomes, Undecided
<1>1. CASE QueueHeld
  <2> USE <1>1 DEF QueueHeld
  <2>1. DecisionStands' OBVIOUS
  <2>2. ReviewableIsKept' OBVIOUS
  <2>3. ActingOnDecision' OBVIOUS
  <2>4. ActingOnExpiry' OBVIOUS
  <2>5. RecordInv' OBVIOUS
  <2>6. AdmissionInv' OBVIOUS
  <2> QED BY <2>1, <2>2, <2>3, <2>4, <2>5, <2>6
<1>2. CASE RecordHeld
  <2> USE <1>2 DEF RecordHeld, Fault
  <2>1. DecisionStands' OBVIOUS
  <2>2. ReviewableIsKept' OBVIOUS
  <2>3. ActingOnDecision' OBVIOUS
  <2>4. ActingOnExpiry' OBVIOUS
  <2>5. RecordInv' OBVIOUS
  <2>6. AdmissionInv' OBVIOUS
  <2> QED BY <2>1, <2>2, <2>3, <2>4, <2>5, <2>6
<1>3. CASE PassTime \/ SetRetention
  <2> USE <1>3 DEF PassTime, SetRetention
  <2>1. DecisionStands' OBVIOUS
  <2>2. ReviewableIsKept' OBVIOUS
  <2>3. ActingOnDecision' OBVIOUS
  <2>4. ActingOnExpiry' OBVIOUS
  <2>5. RecordInv' OBVIOUS
  <2>6. AdmissionInv' OBVIOUS
  <2> QED BY <2>1, <2>2, <2>3, <2>4, <2>5, <2>6
<1>4. CASE PruneTerminal
  <2> USE <1>4 DEF PruneTerminal
  <2>1. DecisionStands' OBVIOUS
  <2>2. ReviewableIsKept' OBVIOUS
  <2>3. ActingOnDecision' OBVIOUS
  <2>4. ActingOnExpiry' OBVIOUS
  <2>5. RecordInv' OBVIOUS
  <2>6. AdmissionInv' OBVIOUS
  <2> QED BY <2>1, <2>2, <2>3, <2>4, <2>5, <2>6
<1>5. CASE PruneHeld
  <2> USE <1>5 DEF PruneHeld, Prunable
  <2>1. DecisionStands' OBVIOUS
  <2>2. ReviewableIsKept' OBVIOUS
  <2>3. ActingOnDecision' OBVIOUS
  <2>4. ActingOnExpiry' OBVIOUS
  <2>5. RecordInv' OBVIOUS
  <2>6. AdmissionInv' OBVIOUS
  <2> QED BY <2>1, <2>2, <2>3, <2>4, <2>5, <2>6
<1>6. CASE Deliver
  <2> USE <1>6 DEF Deliver
  <2>1. DecisionStands' OBVIOUS
  <2>2. ReviewableIsKept' OBVIOUS
  <2>3. ActingOnDecision' OBVIOUS
  <2>4. ActingOnExpiry' OBVIOUS
  <2>5. RecordInv' OBVIOUS
  <2>6. AdmissionInv' OBVIOUS
  <2> QED BY <2>1, <2>2, <2>3, <2>4, <2>5, <2>6
<1>7. CASE UNCHANGED vars
  <2> USE <1>7 DEF vars
  <2>1. DecisionStands' OBVIOUS
  <2>2. ReviewableIsKept' OBVIOUS
  <2>3. ActingOnDecision' OBVIOUS
  <2>4. ActingOnExpiry' OBVIOUS
  <2>5. RecordInv' OBVIOUS
  <2>6. AdmissionInv' OBVIOUS
  <2> QED BY <2>1, <2>2, <2>3, <2>4, <2>5, <2>6
<1> QED BY <1>1, <1>2, <1>3, <1>4, <1>5, <1>6, <1>7

\* A reviewer's request ends: what is reported and announced is the decision.
LEMMA RequestEnds ==
  ASSUME IInv, NEW r \in Reviewers, review[r].at \in {"decided", "moving"},
         Finished(r) \/ Failed(r), UNCHANGED <<record, decision>>
  PROVE  ActingOnDecision' /\ DecisionStands'
<1>1. /\ review' = [review EXCEPT ![r].at = "done"] /\ review \in [Reviewers -> ReviewType]
      /\ told \in [Reviewers -> AnswerType] /\ announced \in [Outcomes -> 0..2]
  BY DEF Finished, Failed, Step, IInv, TypeOK, ReviewType, AnswerType
<1>2. ActingOnDecision /\ DecisionStands BY DEF IInv
<1>3. ActingOnDecision'
  <2>1. \A q \in Reviewers : q # r => review'[q] = review[q] BY <1>1
  <2>2. review'[r].at = "done" BY <1>1 DEF ReviewType
  <2> QED BY <1>2, <2>1, <2>2 DEF ActingOnDecision
<1>4. \A q \in Reviewers : told'[q] \in Verdicts => told'[q] = decision'
  BY <1>1, <1>2 DEF ActingOnDecision, DecisionStands, Finished, Failed, Tell, Verdicts
<1>5. \A o \in Outcomes : announced'[o] > 0 => o = decision'
  BY <1>1, <1>2 DEF ActingOnDecision, DecisionStands, Finished, Failed, Announce
<1> QED BY <1>2, <1>3, <1>4, <1>5 DEF DecisionStands

\* A reviewer's request: it acts on the decision it took, which stands.
LEMMA ReviewerSteps ==
  ASSUME IInv, TypeOK', NEW r \in Reviewers,
         \/ \E verdict \in Verdicts : Review(r, verdict)
         \/ ReadRow(r) \/ MoveRow(r) \/ CrashReview(r)
  PROVE  IInv'
<1>1. review \in [Reviewers -> ReviewType] /\ ActingOnDecision
  BY DEF IInv, TypeOK, ReviewType
<1> USE DEF IInv, ReviewableIsKept, RecordInv, AdmissionInv, ActingOnExpiry,
            Verdicts, Outcomes, Undecided
<1>2. ASSUME NEW verdict \in Verdicts, Review(r, verdict) PROVE IInv'
  <2> USE <1>2 DEF Review, Decide
  <2>1. ActingOnDecision'
    <3>1. \A q \in Reviewers : q # r => review'[q] = review[q] BY <1>1 DEF Step
    <3>2. ASSUME Step(r, "done") PROVE review'[r].at = "done"
      BY <1>1, <3>2 DEF Step, ReviewType
    <3>3. ASSUME review' = [review EXCEPT ![r] = [at |-> "decided", verdict |-> verdict]]
          PROVE  review'[r].verdict = verdict
      BY <1>1, <3>3
    <3> QED BY <1>1, <3>1, <3>2, <3>3 DEF ActingOnDecision
  <2>2. DecisionStands' BY DEF DecisionStands, Tell, TypeOK
  <2>3. ReviewableIsKept' /\ ActingOnExpiry' OBVIOUS
  <2>4. RecordInv' /\ AdmissionInv' OBVIOUS
  <2> QED BY <2>1, <2>2, <2>3, <2>4
<1>3. CASE ReadRow(r)
  <2> USE <1>3 DEF ReadRow
  <2>1. ActingOnDecision' /\ DecisionStands'
    <3>1. CASE Finished(r) \/ Failed(r) BY <3>1, RequestEnds
    <3>2. CASE Step(r, "moving") /\ UNCHANGED <<told, announced>>
      <4>1. \A q \in Reviewers : q # r => review'[q] = review[q] BY <1>1, <3>2 DEF Step
      <4>2. review'[r].verdict = review[r].verdict BY <1>1, <3>2 DEF Step, ReviewType
      <4> QED BY <1>1, <3>2, <4>1, <4>2 DEF ActingOnDecision, DecisionStands
    <3> QED BY <3>1, <3>2
  <2> QED BY <2>1
<1>4. CASE MoveRow(r)
  <2> USE <1>4 DEF MoveRow
  <2>1. ActingOnDecision' /\ DecisionStands' BY RequestEnds
  <2>2. decision = review[r].verdict /\ decision \in Verdicts BY <1>1 DEF ActingOnDecision
  <2>3. ReviewableIsKept' BY <2>2
  <2>4. AdmissionInv' BY <2>2
  <2> QED BY <2>1, <2>3, <2>4
<1>5. CASE CrashReview(r)
  <2> USE <1>5 DEF CrashReview
  <2>1. ActingOnDecision' /\ DecisionStands' BY RequestEnds
  <2> QED BY <2>1
<1> QED BY <1>2, <1>3, <1>4, <1>5

\* An expiry sweep: what it reads back as EXPIRED was decided so.
LEMMA SweeperSteps ==
  ASSUME IInv, TypeOK', NEW s \in Sweepers, SweepStep(s) \/ CrashSweep(s)
  PROVE  IInv'
<1> USE MaxFaultsAssumption
    DEF IInv, TypeOK, DecisionStands, ReviewableIsKept, ActingOnDecision, ActingOnExpiry,
        RecordInv, AdmissionInv, Verdicts, Outcomes, Undecided, Sweep, Fault
<1>1. CASE SelectDue(s)
  <2> USE <1>1 DEF SelectDue
  <2>1. DecisionStands' OBVIOUS
  <2>2. ReviewableIsKept' OBVIOUS
  <2>3. ActingOnDecision' OBVIOUS
  <2>4. ActingOnExpiry' OBVIOUS
  <2>5. RecordInv' OBVIOUS
  <2>6. AdmissionInv' OBVIOUS
  <2> QED BY <2>1, <2>2, <2>3, <2>4, <2>5, <2>6
<1>2. CASE MarkExpired(s)
  <2> USE <1>2 DEF MarkExpired, Decide
  <2>1. DecisionStands' OBVIOUS
  <2>2. ReviewableIsKept' OBVIOUS
  <2>3. ActingOnDecision' OBVIOUS
  <2>4. ActingOnExpiry' OBVIOUS
  <2>5. RecordInv' OBVIOUS
  <2>6. AdmissionInv' OBVIOUS
  <2> QED BY <2>1, <2>2, <2>3, <2>4, <2>5, <2>6
<1>3. CASE ReadExpired(s)
  <2> USE <1>3 DEF ReadExpired
  <2>1. DecisionStands' OBVIOUS
  <2>2. ReviewableIsKept' OBVIOUS
  <2>3. ActingOnDecision' OBVIOUS
  <2>4. ActingOnExpiry' OBVIOUS
  <2>5. RecordInv' OBVIOUS
  <2>6. AdmissionInv' OBVIOUS
  <2> QED BY <2>1, <2>2, <2>3, <2>4, <2>5, <2>6
<1>4. CASE Discard(s)
  <2> USE <1>4 DEF Discard
  <2>1. DecisionStands' OBVIOUS
  <2>2. ReviewableIsKept' OBVIOUS
  <2>3. ActingOnDecision' OBVIOUS
  <2>4. ActingOnExpiry' OBVIOUS
  <2>5. RecordInv' OBVIOUS
  <2>6. AdmissionInv' OBVIOUS
  <2> QED BY <2>1, <2>2, <2>3, <2>4, <2>5, <2>6
<1>5. CASE NotifyExpired(s)
  <2> USE <1>5 DEF NotifyExpired, Announce
  <2>1. DecisionStands' OBVIOUS
  <2>2. ReviewableIsKept' OBVIOUS
  <2>3. ActingOnDecision' OBVIOUS
  <2>4. ActingOnExpiry' OBVIOUS
  <2>5. RecordInv' OBVIOUS
  <2>6. AdmissionInv' OBVIOUS
  <2> QED BY <2>1, <2>2, <2>3, <2>4, <2>5, <2>6
<1>6. CASE CrashSweep(s)
  <2> USE <1>6 DEF CrashSweep
  <2>1. DecisionStands' OBVIOUS
  <2>2. ReviewableIsKept' OBVIOUS
  <2>3. ActingOnDecision' OBVIOUS
  <2>4. ActingOnExpiry' OBVIOUS
  <2>5. RecordInv' OBVIOUS
  <2>6. AdmissionInv' OBVIOUS
  <2> QED BY <2>1, <2>2, <2>3, <2>4, <2>5, <2>6
<1> QED BY <1>1, <1>2, <1>3, <1>4, <1>5, <1>6 DEF SweepStep

\* The invariant holds initially and every step keeps it.
LEMMA Invariance == Spec => []IInv
<1>1. Init => IInv
  <2> SUFFICES ASSUME Init, TypeOK PROVE IInv BY TypeInit
  <2> USE MaxFaultsAssumption
      DEF Init, IInv, TypeOK, DecisionStands, ReviewableIsKept, ActingOnDecision,
          ActingOnExpiry, RecordInv, AdmissionInv, Verdicts, Outcomes, Undecided
  <2>1. DecisionStands OBVIOUS
  <2>2. ReviewableIsKept OBVIOUS
  <2>3. ActingOnDecision OBVIOUS
  <2>4. ActingOnExpiry OBVIOUS
  <2>5. RecordInv OBVIOUS
  <2>6. AdmissionInv OBVIOUS
  <2> QED BY <2>1, <2>2, <2>3, <2>4, <2>5, <2>6
<1>2. IInv /\ [Next]_vars => IInv'
  BY TypeStep, HousekeepingSteps, ReviewerSteps, SweeperSteps DEF Next, IInv
<1> QED BY <1>1, <1>2, PTL DEF Spec

\* A reviewer's request ends, announced or not.
LEMMA VerdictEnds ==
  ASSUME IInv, OneVerdict, VerdictAnnouncedOnce, NEW r \in Reviewers,
         review[r].at \in {"decided", "moving"}, Finished(r) \/ Failed(r), UNCHANGED decision
  PROVE  OneVerdict' /\ VerdictAnnouncedOnce'
<1>1. /\ review' = [review EXCEPT ![r].at = "done"] /\ review \in [Reviewers -> ReviewType]
      /\ announced \in [Outcomes -> 0..2] /\ review[r].verdict \in Verdicts
  BY DEF Finished, Failed, Step, IInv, TypeOK, ReviewType, ActingOnDecision
<1>2. \A q \in Reviewers : /\ review'[q].verdict = review[q].verdict
                           /\ q # r => review'[q] = review[q]
  BY <1>1 DEF ReviewType
<1>3. review'[r].at = "done" BY <1>1 DEF ReviewType
<1>4. \A q \in Reviewers : review'[q].at \notin {"decided", "moving"}
  BY <1>1, <1>2, <1>3 DEF OneVerdict, IInv, ActingOnDecision, Verdicts, Undecided
<1>5. VerdictAnnouncedOnce'
  BY <1>1 DEF OneVerdict, VerdictAnnouncedOnce, Finished, Failed, Announce, Verdicts, Outcomes
<1> QED BY <1>2, <1>4, <1>5 DEF OneVerdict

\* Every step keeps OneVerdict and what it is for.
LEMMA VerdictStep ==
  ASSUME IInv, OneVerdict, VerdictAnnouncedOnce, [Next]_vars
  PROVE  OneVerdict' /\ VerdictAnnouncedOnce'
<1> USE DEF OneVerdict, VerdictAnnouncedOnce
<1>1. CASE UNCHANGED <<review, announced, decision>> BY <1>1
<1>2. ASSUME NEW r \in Reviewers, NEW verdict \in Verdicts, Review(r, verdict)
      PROVE  OneVerdict' /\ VerdictAnnouncedOnce'
  <2>1. review \in [Reviewers -> ReviewType] BY DEF IInv, TypeOK, ReviewType
  <2>2. CASE record = "PENDING"
    <3>1. decision = Undecided /\ decision' = verdict /\ announced' = announced
      BY <1>2, <2>2 DEF Review, Decide, IInv, RecordInv
    <3>2. \A v \in Verdicts : announced[v] = 0
      <4>1. announced \in [Outcomes -> 0..2] BY DEF IInv, TypeOK
      <4>2. \A v \in Verdicts : v \in Outcomes /\ v # Undecided
        BY DEF Verdicts, Outcomes, Undecided
      <4> QED BY <3>1, <4>1, <4>2 DEF IInv, DecisionStands
    <3>3. \A q \in Reviewers : q # r => review'[q].verdict = Undecided
      BY <1>2, <2>1, <3>1 DEF Review, Step
    <3>4. verdict # Undecided BY DEF Verdicts, Undecided
    <3> QED BY <3>1, <3>2, <3>3, <3>4
  <2>3. CASE record # "PENDING"
    <3>1. review' = [review EXCEPT ![r].at = "done"] /\ UNCHANGED <<announced, decision>>
      BY <1>2, <2>3 DEF Review, Step
    <3>2. \A q \in Reviewers : /\ review'[q].verdict = review[q].verdict
                               /\ q # r => review'[q] = review[q]
      BY <2>1, <3>1 DEF ReviewType
    <3>3. review'[r].at = "done" BY <2>1, <3>1 DEF ReviewType
    <3> QED BY <3>1, <3>2, <3>3
  <2> QED BY <2>2, <2>3
<1>3. ASSUME NEW r \in Reviewers, ReadRow(r) \/ MoveRow(r) \/ CrashReview(r)
      PROVE  OneVerdict' /\ VerdictAnnouncedOnce'
  <2>1. CASE Finished(r) \/ Failed(r)
    BY <1>3, <2>1, VerdictEnds DEF ReadRow, MoveRow, CrashReview
  <2>2. CASE Step(r, "moving") /\ UNCHANGED <<announced, decision>> /\ review[r].at = "decided"
    <3>1. review \in [Reviewers -> ReviewType] BY DEF IInv, TypeOK, ReviewType
    <3>2. \A q \in Reviewers : /\ review'[q].verdict = review[q].verdict
                               /\ q # r => review'[q] = review[q]
      BY <2>2, <3>1 DEF Step, ReviewType
    <3> QED BY <2>2, <3>2
  <2> QED BY <1>3, <2>1, <2>2 DEF ReadRow, MoveRow, CrashReview
<1>4. ASSUME NEW s \in Sweepers, SweepStep(s) \/ CrashSweep(s)
      PROVE  OneVerdict' /\ VerdictAnnouncedOnce'
  <2>1. review' = review /\ (decision' = decision \/ (decision = Undecided /\ decision' = "EXPIRED"))
    BY <1>4 DEF SweepStep, SelectDue, MarkExpired, ReadExpired, Discard, NotifyExpired,
                CrashSweep, Decide
  <2>2. \A v \in Verdicts : announced'[v] = announced[v]
    BY <1>4 DEF SweepStep, SelectDue, MarkExpired, ReadExpired, Discard, NotifyExpired,
                CrashSweep, Announce, IInv, TypeOK, Verdicts, Outcomes
  <2> QED BY <2>1, <2>2 DEF Undecided
<1> QED
  BY <1>1, <1>2, <1>3, <1>4
  DEF Next, vars, QueueHeld, RecordHeld, SetRetention, PassTime, PruneTerminal, PruneHeld, Deliver

\* Every variable keeps its type.
THEOREM TypeCorrect == Spec => []TypeOK
BY Invariance, PTL DEF IInv

\* review.go: of reviewers and sweeps that decide at the same moment one wins, and
\* what is reported and announced afterwards is its decision, for any number of them.
THEOREM OneDecision == Spec => []DecisionStands
BY Invariance, PTL DEF IInv

\* review.go: the subscribers hear of a release or a rejection once, whoever else
\* reviewed or swept at the same moment.
THEOREM VerdictHeardOnce == Spec => []VerdictAnnouncedOnce
<1>1. Init => OneVerdict /\ VerdictAnnouncedOnce
  BY DEF Init, OneVerdict, VerdictAnnouncedOnce, Verdicts, Outcomes, Undecided
<1>2. IInv /\ (OneVerdict /\ VerdictAnnouncedOnce) /\ [Next]_vars
      => (OneVerdict /\ VerdictAnnouncedOnce)'
  BY VerdictStep
<1> QED BY <1>1, <1>2, Invariance, PTL DEF Spec

\* prune_held_outbox.sql: no row a reviewer can still release is removed.
THEOREM PendingIsKept == Spec => []ReviewableIsKept
BY Invariance, PTL DEF IInv

\* The queue worker is given a held message only by its release, and once.
THEOREM ReleaseSendsOnce == Spec => OnlyReleasedIsSent
<1> DEFINE Sent == /\ row' = "QUEUED" => row \in {"HELD", "QUEUED"} /\ decision = "RELEASED"
                   /\ row = "GONE" => row' = "GONE"
<1>1. IInv /\ [Next]_vars => [Sent]_vars
  <2> SUFFICES ASSUME IInv, Next PROVE Sent OBVIOUS
  <2> USE DEF IInv, TypeOK, ActingOnDecision, RecordInv, AdmissionInv, Verdicts, Outcomes,
              Undecided
  <2>1. CASE QueueHeld BY <2>1 DEF QueueHeld
  <2>2. CASE RecordHeld \/ SetRetention \/ PassTime \/ PruneTerminal \/ PruneHeld \/ Deliver
    BY <2>2 DEF RecordHeld, SetRetention, PassTime, PruneTerminal, PruneHeld, Prunable, Deliver
  <2>3. ASSUME NEW r \in Reviewers,
               \/ \E verdict \in Verdicts : Review(r, verdict)
               \/ ReadRow(r) \/ CrashReview(r)
        PROVE  Sent
    BY <2>3 DEF Review, ReadRow, CrashReview
  <2>4. ASSUME NEW r \in Reviewers, MoveRow(r) PROVE Sent
    BY <2>4 DEF MoveRow
  <2>5. ASSUME NEW s \in Sweepers, SweepStep(s) \/ CrashSweep(s) PROVE Sent
    BY <2>5 DEF SweepStep, SelectDue, MarkExpired, ReadExpired, Discard, NotifyExpired, CrashSweep
  <2> QED BY <2>1, <2>2, <2>3, <2>4, <2>5 DEF Next
<1> QED BY <1>1, Invariance, PTL DEF Spec, OnlyReleasedIsSent
=============================================================================
