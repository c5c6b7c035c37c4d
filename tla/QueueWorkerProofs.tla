-------------------------- MODULE QueueWorkerProofs --------------------------
(***************************************************************************)
(* What holds of QueueWorker for every number of instances and recipients, *)
(* every retry pattern and every bound: first the row and its lease, then  *)
(* what the event history makes of later passes (whom a pass may still     *)
(* send to, whom it may blame and how often it may go uncounted).          *)
(***************************************************************************)
EXTENDS QueueWorker, FiniteSetTheorems, TLAPS

\* Every error text has a verdict (ClassifyError is total).
LEMMA ClassifyType ==
  ASSUME NEW e \in ErrorText
  PROVE  ClassifyError(e) \in Class
BY DEF ClassifyError, Class, Verdict, VerdictType, ErrorText, ReadOf

\* A message-level failure, a cancelled one included, is classified.
LEMMA CancelledType == Cancelled \in ErrorText
BY DEF Cancelled, ErrorText, ReplyCode, Evidence

\* A delay the worker defers a message by is a natural number.
LEMMA DelayType ==
  ASSUME NEW n \in Nat \ {0}, MayRetry(n)
  PROVE  DelayOf(n) \in Nat
<1>1. n \in 1..Len(Pattern) BY PatternAssumption DEF MayRetry
<1>2. Pattern[n] \in (Nat \ {0}) \cup {Unparsable} BY <1>1, PatternAssumption
<1>3. n * n \in Nat OBVIOUS
<1> QED BY <1>2, <1>3 DEF DelayOf, Unparsable
-----------------------------------------------------------------------------
(***************************************************************************)
(* Type correctness.                                                       *)
(***************************************************************************)

PlanType == [op: {"none", "delete", "update"}, status: {"SENDING", "DEFERRED", "FAILED"},
             retries: Nat, delay: Nat]

\* The writes a pass may plan are of the type the row takes.
LEMMA PlanTypes ==
  /\ NoPlan \in PlanType /\ DeletePlan \in PlanType
  /\ \A n \in Nat, d \in Nat, st \in {"DEFERRED", "FAILED"} :
       UpdatePlan(st, n, d) \in PlanType
BY DEF NoPlan, DeletePlan, UpdatePlan, PlanType

\* The end of a goroutine leaves its variables well typed.
LEMMA EndPassType ==
  ASSUME TypeOK, NEW i \in Instances, EndPass(i)
  PROVE  /\ pc' \in [Instances -> {"idle", "claimed", "begun", "sending", "settling"}]
         /\ count' \in [Instances -> Nat]
         /\ result' \in [Instances -> [Recipients -> Outcome]]
         /\ plan' \in [Instances -> PlanType]
         /\ renewIn' \in [Instances -> Int]
         /\ missed' \in [Instances -> 0..MaxMissed]
         /\ lost' \in [Instances -> BOOLEAN] /\ cut' \in [Instances -> BOOLEAN]
<1>1. Skip \in Outcome BY DEF Outcome
<1>2. [r \in Recipients |-> Skip] \in [Recipients -> Outcome] BY <1>1
<1>3. result' \in [Instances -> [Recipients -> Outcome]]
  BY <1>2 DEF TypeOK, EndPass
<1>4. plan' \in [Instances -> PlanType] BY PlanTypes DEF TypeOK, EndPass, PlanType
<1> QED BY <1>3, <1>4, ConstantsAssumption DEF TypeOK, EndPass

\* Verdicts recorded in one go are events, on recipients.
LEMMA JudgeType ==
  ASSUME TypeOK, NEW i \in Instances, NEW rs \in SUBSET Recipients,
         NEW type \in [rs -> EventType], Judge(i, rs, type)
  PROVE  /\ queue' \in [Instances -> SUBSET Event]
         /\ suppressed' \subseteq Recipients /\ judged' \subseteq Recipients
         /\ wronged' \subseteq Recipients
<1>1. {<<r, type[r]>> : r \in rs} \subseteq Event BY DEF Event
<1>2. queue' \in [Instances -> SUBSET Event] BY <1>1 DEF TypeOK, Judge
<1>3. suppressed' \subseteq Recipients BY DEF TypeOK, Judge, SuppressedBy
<1>4. judged' \subseteq Recipients BY DEF TypeOK, Judge
<1>5. wronged' \subseteq Recipients BY DEF TypeOK, Judge
<1> QED BY <1>2, <1>3, <1>4, <1>5

\* A message-level failure plans a write of the row and records verdicts.
LEMMA HandleFailureType ==
  ASSUME TypeOK, NEW i \in Instances, NEW class \in Class, HandleFailure(i, class)
  PROVE  /\ pc' \in [Instances -> {"idle", "claimed", "begun", "sending", "settling"}]
         /\ plan' \in [Instances -> PlanType]
         /\ queue' \in [Instances -> SUBSET Event]
         /\ suppressed' \subseteq Recipients /\ judged' \subseteq Recipients
         /\ wronged' \subseteq Recipients
<1> DEFINE n == count[i] + 1
<1>0. n \in Nat \ {0} BY DEF TypeOK
<1>1. CASE class.retryable /\ MayRetry(n)
  <2>1. DelayOf(n) \in Nat BY <1>0, <1>1, DelayType
  <2>2. UpdatePlan("DEFERRED", n, DelayOf(n)) \in PlanType BY <1>0, <2>1, PlanTypes
  <2> QED BY <1>1, <2>2 DEF TypeOK, HandleFailure, ToSettle, PlanType
<1>2. CASE ~(class.retryable /\ MayRetry(n))
  <2>1. UpdatePlan("FAILED", n, 0) \in PlanType BY <1>0, PlanTypes
  <2>2. ToSettle(i, UpdatePlan("FAILED", n, 0)) BY <1>2 DEF HandleFailure
  <2>3. PICK rs \in Unfinished(i) : Judge(i, rs, [r \in rs |-> class.type])
    BY <1>2 DEF HandleFailure
  <2>4. rs \in SUBSET Recipients BY <2>3 DEF Unfinished
  <2>5. [r \in rs |-> class.type] \in [rs -> EventType] BY DEF Class, EventType
  <2>6. /\ queue' \in [Instances -> SUBSET Event]
        /\ suppressed' \subseteq Recipients /\ judged' \subseteq Recipients
        /\ wronged' \subseteq Recipients
    BY <2>3, <2>4, <2>5, JudgeType
  <2> QED BY <2>1, <2>2, <2>6 DEF TypeOK, ToSettle, PlanType
<1> QED BY <1>1, <1>2

\* A recipient that failed failed with a class.
LEMMA FailedType ==
  ASSUME TypeOK, NEW i \in Instances,
         \A r \in Recipients : result[i][r] \notin {Todo, Accepted}
  PROVE  \A r \in Failed(i) : result[i][r] \in Class
BY DEF TypeOK, Failed, Outcome

\* A pass settled recipient by recipient plans a write and records verdicts.
LEMMA HandleRecipientFailuresType ==
  ASSUME TypeOK, NEW i \in Instances, HandleRecipientFailures(i),
         \A r \in Recipients : result[i][r] \notin {Todo, Accepted}
  PROVE  /\ pc' \in [Instances -> {"idle", "claimed", "begun", "sending", "settling"}]
         /\ plan' \in [Instances -> PlanType]
         /\ queue' \in [Instances -> SUBSET Event]
         /\ suppressed' \subseteq Recipients /\ judged' \subseteq Recipients
         /\ wronged' \subseteq Recipients
         /\ free' \in Nat
<1> DEFINE retry   == Retryable(i)
           n       == IF retry # {} /\ ~Progress(i) THEN count[i] + 1 ELSE count[i]
           attempt == IF n = 0 THEN 1 ELSE n
           goOn    == retry # {} /\ MayRetry(attempt)
           final   == IF goOn THEN Failed(i) \ retry ELSE Failed(i)
           next    == IF goOn THEN UpdatePlan("DEFERRED", n, DelayOf(attempt))
                      ELSE IF retry = {} /\ Progress(i) THEN DeletePlan
                      ELSE UpdatePlan("FAILED", n, 0)
<1>1. Judge(i, final, [r \in final |-> result[i][r].type]) /\ ToSettle(i, next)
  BY DEF HandleRecipientFailures
<1>2. n \in Nat /\ attempt \in Nat \ {0} BY DEF TypeOK
<1>3. next \in PlanType
  <2>1. goOn => DelayOf(attempt) \in Nat BY <1>2, DelayType
  <2> HIDE DEF n, attempt
  <2>2. goOn => UpdatePlan("DEFERRED", n, DelayOf(attempt)) \in PlanType
    BY <1>2, <2>1, PlanTypes
  <2>3. UpdatePlan("FAILED", n, 0) \in PlanType BY <1>2, PlanTypes
  <2> QED BY <2>2, <2>3, PlanTypes
<1>4. final \in SUBSET Recipients BY DEF Failed
<1>5. final \subseteq Failed(i) OBVIOUS
<1>6. [r \in final |-> result[i][r].type] \in [final -> EventType]
  BY <1>5, FailedType DEF Class, EventType
<1> HIDE DEF next, final, goOn, attempt, n, retry
<1>7. /\ queue' \in [Instances -> SUBSET Event]
      /\ suppressed' \subseteq Recipients /\ judged' \subseteq Recipients
      /\ wronged' \subseteq Recipients
  BY <1>1, <1>4, <1>6, JudgeType
<1>8. plan' \in [Instances -> PlanType] BY <1>1, <1>3 DEF TypeOK, ToSettle, PlanType
<1>9. free' \in Nat BY DEF HandleRecipientFailures, TypeOK
<1> QED BY <1>1, <1>7, <1>8, <1>9 DEF TypeOK, ToSettle

\* A dropped recipient is recorded as such, and the records keep their shape.
LEMMA DropType ==
  ASSUME TypeOK, NEW i \in Instances, Drop(i)
  PROVE  queue' \in [Instances -> SUBSET Event] /\ judged' \subseteq Recipients
<1>1. Dropped(i) \subseteq Recipients BY DEF Dropped, Open
<1>2. {<<r, "DROPPED">> : r \in Dropped(i)} \subseteq Event
  BY <1>1 DEF Event, EventType, FinishedTypes, SettledTypes
<1> HIDE DEF Dropped
<1> QED BY <1>1, <1>2 DEF TypeOK, Drop

\* What a drop adds to the writers' queues.
LEMMA DropAdds ==
  ASSUME TypeOK, NEW i \in Instances, Drop(i)
  PROVE  /\ \A j \in Instances : \A ev \in queue'[j] :
              ev \in queue[j] \/ (ev[1] \in Dropped(i) /\ ev[2] = "DROPPED")
         /\ \A j \in Instances : queue[j] \subseteq queue'[j]
<1>1. \A ev \in {<<r, "DROPPED">> : r \in Dropped(i)} : ev[1] \in Dropped(i) /\ ev[2] = "DROPPED"
  OBVIOUS
<1>2. \A j \in Instances : \A ev \in queue'[j] :
        ev \in queue[j] \/ ev \in {<<r, "DROPPED">> : r \in Dropped(i)}
  BY DEF TypeOK, Drop
<1>3. \A j \in Instances : queue[j] \subseteq queue'[j] BY DEF TypeOK, Drop
<1> QED BY <1>1, <1>2, <1>3

\* Every step keeps the types.
LEMMA TypeStep == TypeOK /\ [Next]_vars => TypeOK'
<1> SUFFICES ASSUME TypeOK, [Next]_vars PROVE TypeOK'
  OBVIOUS
<1> USE ConstantsAssumption DEF PlanType, row, lease, events, ghosts
<1>1. ASSUME NEW i \in Instances, ClaimPending(i) PROVE TypeOK'
  <2>1. /\ status' = "SENDING" /\ token' = i /\ leaseLeft' = Lease
        /\ retryLeft' = retryLeft /\ retries' = retries
    BY <1>1 DEF ClaimPending
  <2>2. pc' \in [Instances -> {"idle", "claimed", "begun", "sending", "settling"}]
    BY <1>1 DEF TypeOK, ClaimPending
  <2>3. count' \in [Instances -> Nat] BY <1>1 DEF TypeOK, ClaimPending
  <2>4. faults' \in 0..MaxFaults BY <1>1 DEF TypeOK, ClaimPending, Fault
  <2>5. UNCHANGED <<result, plan, lease, cut, events, suppressed, ghosts>>
    BY <1>1 DEF ClaimPending
  <2> QED BY <2>1, <2>2, <2>3, <2>4, <2>5 DEF TypeOK
<1>2. ASSUME NEW i \in Instances, HoldLease(i) \/ Renew(i) PROVE TypeOK'
  <2>1. leaseLeft' \in -1..Lease BY <1>2 DEF TypeOK, HoldLease, Renew
  <2>2. CASE HoldLease(i)
    <3>1. 0 \in 0..MaxMissed OBVIOUS
    <3>2. missed' \in [Instances -> 0..MaxMissed] BY <2>2, <3>1 DEF TypeOK, HoldLease
    <3> QED BY <2>1, <2>2, <3>2 DEF TypeOK, HoldLease
  <2>3. CASE Renew(i)
    <3>0. missed' = [missed EXCEPT ![i] = 0] \/ missed' = missed BY <2>3 DEF Renew
    <3>1. missed' \in [Instances -> 0..MaxMissed]
      <4>1. 0 \in 0..MaxMissed OBVIOUS
      <4> QED BY <3>0, <4>1 DEF TypeOK
    <3>2. renewIn' \in [Instances -> Int] BY <2>3 DEF TypeOK, Renew
    <3>3. lost' \in [Instances -> BOOLEAN] BY <2>3 DEF TypeOK, Renew
    <3>4. UNCHANGED <<status, token, retryLeft, retries, pc, count, result, plan, cut,
                      events, suppressed, faults, ghosts>>
      BY <2>3 DEF Renew
    <3> QED BY <2>1, <3>1, <3>2, <3>3, <3>4 DEF TypeOK
  <2> QED BY <1>2, <2>2, <2>3
<1>3. ASSUME NEW i \in Instances, RenewFails(i) PROVE TypeOK'
  BY <1>3 DEF TypeOK, RenewFails
<1>4. ASSUME NEW i \in Instances, LeaveClaimed(i) \/ StopLost(i) \/ SettleFails(i)
      PROVE  TypeOK'
  <2>1. EndPass(i) BY <1>4 DEF LeaveClaimed, StopLost, SettleFails
  <2>2. faults' \in 0..MaxFaults
    BY <1>4 DEF LeaveClaimed, StopLost, SettleFails, Fault, TypeOK
  <2>3. UNCHANGED <<row, events, suppressed, ghosts>>
    BY <1>4 DEF LeaveClaimed, StopLost, SettleFails
  <2> QED BY <2>1, <2>2, <2>3, EndPassType DEF TypeOK
<1>5. ASSUME NEW i \in Instances, Undecodable(i) PROVE TypeOK'
  BY <1>5, PlanTypes DEF TypeOK, Undecodable, ToSettle
<1>6. ASSUME NEW i \in Instances, FailPass(i) PROVE TypeOK'
  <2>1. PICK class \in Class : HandleFailure(i, class)
    <3>1. ASSUME NEW e \in PassErrors, HandleFailure(i, ClassifyError(e))
          PROVE  \E class \in Class : HandleFailure(i, class)
      BY <3>1, ClassifyType
    <3>2. ClassifyError(Cancelled) \in Class BY CancelledType, ClassifyType
    <3>3. Verdict("REJECTED", FALSE) \in Class BY DEF Verdict, Class, VerdictType
    <3> QED BY <1>6, <3>1, <3>2, <3>3 DEF FailPass
  <2>2. /\ pc' \in [Instances -> {"idle", "claimed", "begun", "sending", "settling"}]
        /\ plan' \in [Instances -> PlanType]
        /\ queue' \in [Instances -> SUBSET Event]
        /\ suppressed' \subseteq Recipients /\ judged' \subseteq Recipients
        /\ wronged' \subseteq Recipients
    BY <2>1, HandleFailureType
  <2> QED BY <1>6, <2>2 DEF TypeOK, FailPass
<1>7. ASSUME NEW i \in Instances, PacePass(i) PROVE TypeOK'
  <2>1. queue' \in [Instances -> SUBSET Event] /\ judged' \subseteq Recipients
    BY <1>7, DropType DEF PacePass
  <2> QED BY <1>7, <2>1, PlanTypes DEF TypeOK, PacePass, ToSettle
<1>8. ASSUME NEW i \in Instances, BeginPass(i) PROVE TypeOK'
  <2> DEFINE due == Open(i) \ Dropped(i)
  <2>1. queue' \in [Instances -> SUBSET Event] /\ judged' \subseteq Recipients
    BY <1>8, DropType DEF BeginPass
  <2>2. PICK tried \in {due, {}} :
          /\ result' = [result EXCEPT ![i] =
                          [r \in Recipients |-> IF r \in tried THEN Todo ELSE Skip]]
          /\ unsent' = unsent \cup (due \ tried)
    BY <1>8 DEF BeginPass
  <2>3. [r \in Recipients |-> IF r \in tried THEN Todo ELSE Skip] \in [Recipients -> Outcome]
    BY DEF Outcome
  <2>4. result' \in [Instances -> [Recipients -> Outcome]] BY <2>2, <2>3 DEF TypeOK
  <2>5. due \subseteq Recipients BY DEF Open
  <2> HIDE DEF due
  <2>6. unsent' \subseteq Recipients BY <2>2, <2>5 DEF TypeOK
  <2> QED BY <1>8, <2>1, <2>4, <2>6 DEF TypeOK, BeginPass
<1>9. ASSUME NEW i \in Instances, NEW r \in Recipients, Attempt(i, r) PROVE TypeOK'
  <2>1. PICK o \in Outcome : Resolve(i, r, o)
    <3>1. Accepted \in Outcome BY DEF Outcome
    <3>2. \A e \in ReplyErrors : ClassifyError(e) \in Outcome
      BY ClassifyType DEF Outcome
    <3> QED BY <1>9, <3>1, <3>2 DEF Attempt
  <2>2. result' \in [Instances -> [Recipients -> Outcome]]
    BY <2>1 DEF TypeOK, Resolve
  <2>3. reached' \subseteq Recipients /\ again' \subseteq Recipients
        /\ blamed' \subseteq Recipients
    BY <1>9 DEF TypeOK, Attempt, Copy
  <2> QED BY <1>9, <2>2, <2>3 DEF TypeOK, Attempt
<1>10. ASSUME NEW i \in Instances, NEW r \in Recipients, RecordDelivered(i, r)
       PROVE  TypeOK'
  <2>1. Delivered \in Outcome BY DEF Outcome
  <2>2. result' \in [Instances -> [Recipients -> Outcome]]
    BY <1>10, <2>1 DEF TypeOK, Resolve, RecordDelivered
  <2>3. <<r, "DELIVERED">> \in Event BY DEF Event, EventType, FinishedTypes
  <2>4. queue' \in [Instances -> SUBSET Event]
    <3>1. \/ queue' = [queue EXCEPT ![i] = @ \cup {<<r, "DELIVERED">>}]
          \/ queue' = queue
      BY <1>10 DEF RecordDelivered
    <3>2. queue[i] \cup {<<r, "DELIVERED">>} \in SUBSET Event BY <2>3 DEF TypeOK
    <3>3. CASE queue' = [queue EXCEPT ![i] = @ \cup {<<r, "DELIVERED">>}]
      BY <3>2, <3>3 DEF TypeOK
    <3>4. CASE queue' = queue BY <3>4 DEF TypeOK
    <3> QED BY <3>1, <3>3, <3>4
  <2> QED BY <1>10, <2>2, <2>4 DEF TypeOK, RecordDelivered
<1>11. ASSUME NEW i \in Instances, NEW r \in Recipients, SkipCancelled(i, r)
       PROVE  TypeOK'
  <2>1. ClassifyError(Cancelled) \in Outcome
    BY CancelledType, ClassifyType DEF Outcome
  <2>2. result' \in [Instances -> [Recipients -> Outcome]]
    BY <1>11, <2>1 DEF TypeOK, Resolve, SkipCancelled
  <2> QED BY <1>11, <2>2 DEF TypeOK, SkipCancelled
<1>12. ASSUME NEW i \in Instances, FinishPass(i) PROVE TypeOK'
  <2>1. CASE lost[i]
    <3>1. EndPass(i) BY <1>12, <2>1 DEF FinishPass
    <3> QED BY <1>12, <2>1, <3>1, EndPassType DEF TypeOK, FinishPass
  <2>2. CASE ~lost[i] /\ Failed(i) = {}
    <3>1. ToSettle(i, DeletePlan) BY <1>12, <2>2 DEF FinishPass
    <3>2. UNCHANGED <<row, history, losses, faults, reached, unsent, again, blamed, optedOut,
                      queue, suppressed, judged, wronged, free, count, result, lease, cut>>
      BY <1>12, <2>2 DEF FinishPass
    <3> QED BY <3>1, <3>2, PlanTypes DEF TypeOK, ToSettle
  <2>3. CASE ~lost[i] /\ Failed(i) # {}
    <3>1. HandleRecipientFailures(i) BY <1>12, <2>3 DEF FinishPass
    <3>2. \A r \in Recipients : result[i][r] \notin {Todo, Accepted}
      BY <1>12 DEF FinishPass
    <3>3. /\ pc' \in [Instances -> {"idle", "claimed", "begun", "sending", "settling"}]
          /\ plan' \in [Instances -> PlanType]
          /\ queue' \in [Instances -> SUBSET Event]
          /\ suppressed' \subseteq Recipients /\ judged' \subseteq Recipients
          /\ wronged' \subseteq Recipients
          /\ free' \in Nat
      BY <3>1, <3>2, HandleRecipientFailuresType
    <3> QED BY <1>12, <2>3, <3>3 DEF TypeOK, FinishPass
  <2> QED BY <2>1, <2>2, <2>3
<1>13. ASSUME NEW i \in Instances, Settle(i) PROVE TypeOK'
  <2>1. EndPass(i) BY <1>13 DEF Settle
  <2>2. plan[i] \in PlanType BY DEF TypeOK
  <2>3. /\ status' \in {"PENDING", "DEFERRED", "SENDING", "FAILED", "GONE"}
        /\ token' \in Instances \cup {NoInstance} /\ leaseLeft' \in -1..Lease
        /\ retryLeft' \in Nat /\ retries' \in Nat
    BY <1>13, <2>2 DEF TypeOK, Settle
  <2> QED BY <1>13, <2>1, <2>3, EndPassType DEF TypeOK, Settle
<1>14. ASSUME NEW i \in Instances, Flush(i) PROVE TypeOK'
  BY <1>14 DEF TypeOK, Flush
<1>15. ASSUME NEW i \in Instances, FlushFails(i) PROVE TypeOK'
  BY <1>15 DEF TypeOK, FlushFails
<1>16. ASSUME NEW i \in Instances, Crash(i) PROVE TypeOK'
  <2>1. EndPass(i) BY <1>16 DEF Crash
  <2>2. faults' \in 0..MaxFaults /\ losses' \in Nat /\ queue' \in [Instances -> SUBSET Event]
    BY <1>16 DEF Crash, Fault, TypeOK
  <2> QED BY <1>16, <2>1, <2>2, EndPassType DEF TypeOK, Crash
<1>17. ASSUME NEW i \in Instances, CutDrain(i) PROVE TypeOK'
  BY <1>17 DEF TypeOK, CutDrain, Fault
<1>18. ASSUME NEW r \in Recipients, SuppressRecipient(r) PROVE TypeOK'
  BY <1>18 DEF TypeOK, SuppressRecipient
<1>19. ASSUME PruneTerminal PROVE TypeOK'
  BY <1>19 DEF TypeOK, PruneTerminal
<1>20. ASSUME Tick PROVE TypeOK'
  BY <1>20 DEF TypeOK, Tick
<1>21. ASSUME UNCHANGED vars PROVE TypeOK'
  BY <1>21 DEF TypeOK, vars
<1> QED
  BY <1>1, <1>2, <1>3, <1>4, <1>5, <1>6, <1>7, <1>8, <1>9, <1>10, <1>11, <1>12, <1>13,
     <1>14, <1>15, <1>16, <1>17, <1>18, <1>19, <1>20, <1>21 DEF Next, Deliver

\* The row, the goroutines' memory and the events stay in the ranges the code
\* gives them, whatever interleaving of workers, failures and time.
THEOREM TypeCorrect == Spec => []TypeOK
<1>1. Init => TypeOK
  BY ConstantsAssumption, PlanTypes
  DEF Init, TypeOK, PlanType, Outcome, Skip
<1> QED BY <1>1, TypeStep, PTL DEF Spec
-----------------------------------------------------------------------------
(***************************************************************************)
(* One sender at a time.                                                   *)
(*                                                                         *)
(* OneSender alone is not inductive: nothing in it says why a row being    *)
(* worked on cannot be claimed.  LeaseHeld says it: the goroutine still    *)
(* owns the row, and its lease outlasts the renewals it may yet miss.      *)
(***************************************************************************)

\* The lease survives MaxMissed failed renewals, counting the lateness of the
\* confirmation it was counted from and of the renewal that ends the gap.
Timely == (MaxMissed + 1) * RenewEvery + 2 * Slack <= Lease

\* How long a lease last extended missed renewals ago must still run.
LeaseFloor(i) == Lease - Slack - (missed[i] + 1) * RenewEvery + renewIn[i]

LeaseHeld ==
  \A i \in Instances :
    Working(i) => /\ Owns(i) /\ ~lost[i]
                  /\ renewIn[i] >= -Slack
                  /\ leaseLeft >= LeaseFloor(i)

\* Fewer renewals missed are no longer a gap.
LEMMA GapMonotone ==
  ASSUME NEW m \in 0..MaxMissed
  PROVE  (m + 1) * RenewEvery <= (MaxMissed + 1) * RenewEvery
<1>1. PICK d \in Nat : MaxMissed = m + d
  <2>1. MaxMissed - m \in Nat /\ MaxMissed = m + (MaxMissed - m) BY ConstantsAssumption
  <2> QED BY <2>1
<1>2. (MaxMissed + 1) * RenewEvery = (m + 1) * RenewEvery + d * RenewEvery
  BY <1>1, ConstantsAssumption
<1>3. d * RenewEvery \in Nat /\ (m + 1) * RenewEvery \in Nat BY ConstantsAssumption
<1> QED BY <1>2, <1>3

\* One more renewal missed is one more interval.
LEMMA GapStep ==
  ASSUME NEW m \in Nat
  PROVE  (m + 1 + 1) * RenewEvery = (m + 1) * RenewEvery + RenewEvery
BY ConstantsAssumption

\* A row whose lease is held is not claimable.
LEMMA HeldNotClaimable ==
  ASSUME TypeOK, LeaseHeld, Timely, NEW i \in Instances, Working(i)
  PROVE  ~Claimable /\ leaseLeft >= 0
<1>1. missed[i] \in 0..MaxMissed /\ renewIn[i] \in Int BY DEF TypeOK
<1>2. (missed[i] + 1) * RenewEvery <= (MaxMissed + 1) * RenewEvery
  BY <1>1, GapMonotone
<1>3. (missed[i] + 1) * RenewEvery \in Int /\ (MaxMissed + 1) * RenewEvery \in Int
  BY <1>1, ConstantsAssumption
<1>4. leaseLeft >= LeaseFloor(i) /\ renewIn[i] >= -Slack BY DEF LeaseHeld
<1> DEFINE x == (missed[i] + 1) * RenewEvery
           y == (MaxMissed + 1) * RenewEvery
<1>5. x <= y /\ x \in Int /\ y \in Int /\ y + 2 * Slack <= Lease
      /\ leaseLeft >= Lease - Slack - x + renewIn[i]
  BY <1>2, <1>3, <1>4 DEF Timely, LeaseFloor
<1> HIDE DEF x, y
<1>6. leaseLeft >= 0 BY <1>1, <1>4, <1>5, ConstantsAssumption DEF TypeOK
<1> QED BY <1>6 DEF Claimable, LeaseHeld, Owns, TypeOK

\* A step that leaves the row alone, and the lease of whoever still works.
LEMMA LeaseFrame ==
  ASSUME TypeOK, LeaseHeld,
         UNCHANGED <<status, token, leaseLeft>>,
         \A j \in Instances :
           Working(j)' => Working(j) /\ UNCHANGED <<renewIn[j], missed[j], lost[j]>>
  PROVE  LeaseHeld'
BY DEF LeaseHeld, Owns, LeaseFloor

\* The goroutine that ends stops working; the others are as they were.
LEMMA EndPassFrame ==
  ASSUME TypeOK, NEW i \in Instances, EndPass(i)
  PROVE  /\ ~Working(i)'
         /\ \A j \in Instances \ {i} :
              /\ pc'[j] = pc[j]
              /\ renewIn'[j] = renewIn[j] /\ missed'[j] = missed[j] /\ lost'[j] = lost[j]
BY DEF TypeOK, EndPass, Working

\* Moving from one working state to another.
LEMMA ToSettleFrame ==
  ASSUME TypeOK, NEW i \in Instances, NEW p, Working(i), ToSettle(i, p)
  PROVE  \A j \in Instances : Working(j)' => Working(j)
BY DEF TypeOK, ToSettle, Working

\* No step of any worker, of the clock or of the environment breaks LeaseHeld.
LEMMA LeaseStep ==
  ASSUME Timely, TypeOK, LeaseHeld, [Next]_vars
  PROVE  LeaseHeld'
<1> USE DEF row, lease, events, ghosts
<1>1. ASSUME NEW i \in Instances, ClaimPending(i) PROVE LeaseHeld'
  <2>1. \A j \in Instances : ~Working(j)
    BY <1>1, HeldNotClaimable DEF ClaimPending
  <2>2. \A j \in Instances : ~Working(j)'
    BY <1>1, <2>1 DEF ClaimPending, Working, TypeOK
  <2> QED BY <2>2 DEF LeaseHeld
<1>2. ASSUME NEW i \in Instances, HoldLease(i) PROVE LeaseHeld'
  <2>1. Owns(i) /\ ~Working(i) BY <1>2 DEF HoldLease, Working
  <2>2. \A j \in Instances : ~Working(j) BY <2>1 DEF LeaseHeld, Owns
  <2>3. \A j \in Instances \ {i} : ~Working(j)'
    BY <1>2, <2>2 DEF HoldLease, Working, TypeOK
  <2>4. Owns(i)' BY <1>2 DEF HoldLease, Owns
  <2>5. missed'[i] = 0 /\ ~lost'[i] /\ renewIn'[i] = RenewEvery
        /\ leaseLeft' >= Lease - Slack /\ leaseLeft' \in Int
    BY <1>2, ConstantsAssumption DEF HoldLease, TypeOK
  <2>6. LeaseFloor(i)' = Lease - Slack
    BY <2>5, ConstantsAssumption DEF LeaseFloor
  <2> QED BY <2>3, <2>4, <2>5, <2>6, ConstantsAssumption DEF LeaseHeld
<1>3. ASSUME NEW i \in Instances, Renew(i) PROVE LeaseHeld'
  <2>1. Owns(i) BY <1>3 DEF Renew, LeaseHeld
  <2>2. \A j \in Instances \ {i} : ~Working(j) BY <2>1 DEF LeaseHeld, Owns
  <2>3. \A j \in Instances \ {i} : ~Working(j)' BY <1>3, <2>2 DEF Renew, Working
  <2>4. Owns(i)' /\ lost' = lost /\ ~lost[i] BY <1>3, <2>1 DEF Renew, Owns
  <2>5. missed'[i] = 0 /\ renewIn'[i] = renewIn[i] + RenewEvery
        /\ leaseLeft' >= Lease - Slack /\ leaseLeft' \in Int /\ renewIn[i] <= 0
        /\ renewIn[i] \in Int /\ renewIn[i] >= -Slack
    BY <1>3, <2>1, ConstantsAssumption DEF Renew, TypeOK, LeaseHeld
  <2>6. LeaseFloor(i)' = Lease - Slack + renewIn[i]
    BY <2>5, ConstantsAssumption DEF LeaseFloor
  <2> QED BY <2>3, <2>4, <2>5, <2>6, ConstantsAssumption DEF LeaseHeld
<1>4. ASSUME NEW i \in Instances, RenewFails(i) PROVE LeaseHeld'
  <2>1. Working(i) /\ Owns(i) /\ ~lost[i] BY <1>4 DEF RenewFails, LeaseHeld
  <2>2. \A j \in Instances \ {i} : ~Working(j) BY <2>1 DEF LeaseHeld, Owns
  <2>3. \A j \in Instances \ {i} : ~Working(j)' BY <1>4, <2>2 DEF RenewFails, Working
  <2>4. Owns(i)' /\ ~lost'[i] /\ leaseLeft' = leaseLeft
    BY <1>4, <2>1 DEF RenewFails, Owns
  <2>5. missed'[i] = missed[i] + 1 /\ renewIn'[i] = renewIn[i] + RenewEvery
        /\ missed[i] \in Nat /\ renewIn[i] \in Int /\ renewIn[i] >= -Slack
    BY <1>4, <2>1, ConstantsAssumption DEF RenewFails, TypeOK, LeaseHeld
  <2>6. LeaseFloor(i)' = LeaseFloor(i)
    <3>1. (missed'[i] + 1) * RenewEvery = (missed[i] + 1) * RenewEvery + RenewEvery
      BY <2>5, GapStep
    <3>2. (missed[i] + 1) * RenewEvery \in Int BY <2>5, ConstantsAssumption
    <3> QED BY <2>5, <3>1, <3>2, ConstantsAssumption DEF LeaseFloor
  <2>7. leaseLeft >= LeaseFloor(i) BY <2>1 DEF LeaseHeld
  <2> QED BY <2>1, <2>3, <2>4, <2>5, <2>6, <2>7, ConstantsAssumption DEF LeaseHeld
<1>5. ASSUME NEW i \in Instances,
             LeaveClaimed(i) \/ StopLost(i) \/ SettleFails(i) \/ Crash(i)
      PROVE  LeaseHeld'
  <2>1. EndPass(i) /\ UNCHANGED <<status, token, leaseLeft>>
    BY <1>5 DEF LeaveClaimed, StopLost, SettleFails, Crash
  <2> QED BY <2>1, EndPassFrame, LeaseFrame DEF Working
<1>6. ASSUME NEW i \in Instances, Settle(i) PROVE LeaseHeld'
  <2>1. EndPass(i) /\ Working(i) BY <1>6 DEF Settle, Working
  <2>2. \A j \in Instances \ {i} : ~Working(j) BY <2>1 DEF LeaseHeld, Owns
  <2>3. \A j \in Instances : ~Working(j)' BY <2>1, <2>2, EndPassFrame DEF Working
  <2> QED BY <2>3 DEF LeaseHeld
<1>7. ASSUME NEW i \in Instances, Undecodable(i) \/ FailPass(i) \/ PacePass(i)
      PROVE  LeaseHeld'
  <2>1. UNCHANGED <<row, lease>> BY <1>7 DEF Undecodable, FailPass, PacePass
  <2>2. Working(i) BY <1>7 DEF Undecodable, FailPass, PacePass, Working
  <2>3. \E p : ToSettle(i, p)
    BY <1>7 DEF Undecodable, FailPass, PacePass, HandleFailure
  <2>4. \A j \in Instances : Working(j)' => Working(j) BY <2>2, <2>3, ToSettleFrame
  <2> QED BY <2>1, <2>4, LeaseFrame
<1>8. ASSUME NEW i \in Instances, BeginPass(i) PROVE LeaseHeld'
  <2>1. \A j \in Instances : Working(j)' => Working(j)
    BY <1>8 DEF BeginPass, Working, TypeOK
  <2>2. UNCHANGED <<row, lease>> BY <1>8 DEF BeginPass
  <2> QED BY <2>1, <2>2, LeaseFrame
<1>9. ASSUME NEW i \in Instances, NEW r \in Recipients,
             Attempt(i, r) \/ RecordDelivered(i, r) \/ SkipCancelled(i, r)
      PROVE  LeaseHeld'
  <2>1. UNCHANGED <<row, lease, pc>> BY <1>9 DEF Attempt, RecordDelivered, SkipCancelled
  <2> QED BY <2>1, LeaseFrame DEF Working
<1>10. ASSUME NEW i \in Instances, FinishPass(i) PROVE LeaseHeld'
  <2>1. Working(i) /\ ~lost[i] BY <1>10 DEF FinishPass, Working, LeaseHeld
  <2>2. \E p : ToSettle(i, p) BY <1>10, <2>1 DEF FinishPass, HandleRecipientFailures
  <2>3. UNCHANGED <<row, lease>> BY <1>10, <2>1 DEF FinishPass
  <2>4. \A j \in Instances : Working(j)' => Working(j) BY <2>1, <2>2, ToSettleFrame
  <2> QED BY <2>3, <2>4, LeaseFrame
<1>11. ASSUME NEW i \in Instances, Flush(i) \/ FlushFails(i) \/ CutDrain(i)
       PROVE  LeaseHeld'
  <2>1. UNCHANGED <<row, lease, pc>> BY <1>11 DEF Flush, FlushFails, CutDrain
  <2> QED BY <2>1, LeaseFrame DEF Working
<1>12. ASSUME NEW r \in Recipients, SuppressRecipient(r) PROVE LeaseHeld'
  <2>1. UNCHANGED <<row, lease, pc>> BY <1>12 DEF SuppressRecipient
  <2> QED BY <2>1, LeaseFrame DEF Working
<1>13. ASSUME PruneTerminal PROVE LeaseHeld'
  <2>1. \A j \in Instances : ~Working(j) BY <1>13 DEF PruneTerminal, LeaseHeld, Owns
  <2>2. pc' = pc BY <1>13 DEF PruneTerminal
  <2> QED BY <2>1, <2>2 DEF LeaseHeld, Working
<1>14. ASSUME Tick PROVE LeaseHeld'
  <2> SUFFICES ASSUME NEW i \in Instances, Working(i)'
               PROVE  /\ Owns(i)' /\ ~lost'[i] /\ renewIn'[i] >= -Slack
                      /\ leaseLeft' >= LeaseFloor(i)'
    BY DEF LeaseHeld
  <2>1. Working(i) /\ Owns(i) /\ ~lost[i] /\ leaseLeft >= LeaseFloor(i)
    BY <1>14 DEF Tick, Working, LeaseHeld
  <2>2. leaseLeft >= 0 /\ leaseLeft \in Int BY <2>1, HeldNotClaimable DEF TypeOK
  <2>3. renewIn[i] > -Slack /\ renewIn'[i] = renewIn[i] - 1 /\ renewIn[i] \in Int
        /\ leaseLeft' = leaseLeft - 1 /\ missed'[i] = missed[i] /\ missed[i] \in Nat
    BY <1>14, <2>1, <2>2 DEF Tick, TypeOK
  <2>4. (missed[i] + 1) * RenewEvery \in Int BY <2>3, ConstantsAssumption
  <2>5. LeaseFloor(i)' = LeaseFloor(i) - 1 /\ LeaseFloor(i) \in Int
    BY <2>3, <2>4, ConstantsAssumption DEF LeaseFloor
  <2>6. Owns(i)' /\ ~lost'[i] BY <1>14, <2>1 DEF Tick, Owns
  <2> QED BY <2>1, <2>2, <2>3, <2>5, <2>6, ConstantsAssumption
<1>15. ASSUME UNCHANGED vars PROVE LeaseHeld'
  BY <1>15, LeaseFrame DEF vars, Working
<1> QED
  BY <1>1, <1>2, <1>3, <1>4, <1>5, <1>6, <1>7, <1>8, <1>9, <1>10, <1>11, <1>12, <1>13,
     <1>14, <1>15 DEF Next, Deliver

\* Two instances never send the same row, provided the lease has room for the
\* renewals that fail and for the lateness of the others (docs/PRD.md D1;
\* queue_worker_lease.go).
THEOREM TimelyLeaseExcludes == Timely /\ Spec => []OneSender
<1>1. Init => LeaseHeld BY DEF Init, LeaseHeld, Working
<1>2. Timely /\ TypeOK /\ LeaseHeld /\ [Next]_vars => LeaseHeld' BY LeaseStep
<1>3. LeaseHeld => OneSender BY TokenAssumption DEF LeaseHeld, OneSender, Owns
<1>4. Timely => Timely' BY DEF Timely
<1> QED BY <1>1, <1>2, <1>3, <1>4, TypeCorrect, PTL DEF Spec

\* updateOutbox and deleteOutbox write by id alone, and still no slow worker puts
\* a failed or removed row back in the queue: the lease outlasts the worker.
THEOREM TimelyRowStaysFinal == Timely /\ Spec => TerminalIsFinal
<1>1. Init => LeaseHeld BY DEF Init, LeaseHeld, Working
<1>2. Timely /\ TypeOK /\ LeaseHeld /\ [Next]_vars => LeaseHeld' BY LeaseStep
<1>3. TypeOK /\ LeaseHeld /\ [Next]_vars =>
        [ /\ status = "GONE" => status' = "GONE"
          /\ status = "FAILED" => status' \in {"FAILED", "GONE"} ]_vars
  <2> SUFFICES ASSUME TypeOK, LeaseHeld, Next, status \in {"FAILED", "GONE"},
                      status' # status
               PROVE  status' = "GONE"
    OBVIOUS
  <2> USE DEF row, lease, events, ghosts
  <2>1. \A i \in Instances : ~Settle(i) BY DEF LeaseHeld, Working, Owns, Settle
  <2>2. \A i \in Instances : ~ClaimPending(i) BY DEF ClaimPending, Claimable
  <2>3. \A i \in Instances : ~Deliver(i)
    BY <2>1 DEF Deliver, HoldLease, LeaveClaimed, Undecodable, FailPass, PacePass, StopLost,
                BeginPass, FinishPass, SettleFails, Attempt, RecordDelivered, SkipCancelled
  <2>4. \A i \in Instances : ~(Renew(i) \/ RenewFails(i) \/ Flush(i) \/ FlushFails(i)
                               \/ Crash(i) \/ CutDrain(i))
    BY DEF Renew, RenewFails, Flush, FlushFails, Crash, CutDrain
  <2> QED BY <2>2, <2>3, <2>4 DEF Next, SuppressRecipient, PruneTerminal, Tick
<1>4. Timely => Timely' BY DEF Timely
<1> QED BY <1>1, <1>2, <1>3, <1>4, TypeCorrect, PTL DEF Spec, TerminalIsFinal
-----------------------------------------------------------------------------
(***************************************************************************)
(* Nobody is forgotten, whatever happens to the lease.                     *)
(*                                                                         *)
(* Not inductive alone: a pass must not plan to close the row too early,   *)
(* and a pass skips whom the history has finished with, so that everything *)
(* on record has to be true of its recipient.                              *)
(***************************************************************************)

\* Recipients with a copy accepted, a final verdict, or left out by a pass that had
\* only receivers.
Settled == reached \cup judged \cup unsent

\* What is on record is true of its recipient.
RecordsTrue ==
  /\ \A i \in Instances : \A ev \in queue[i] : ev[1] \in Settled
  /\ \A s \in Store : \A ev \in history[s] : ev[1] \in Settled

\* Whom a pass leaves out is settled.
PassesTrue ==
  \A i \in Instances : pc[i] = "sending" =>
    \A r \in Recipients : result[i][r] \in {Skip, Accepted, Delivered} => r \in Settled

\* A row is closed only when everybody is settled.
ClosesAll(p) ==
  /\ p.op \in {"delete", "update"}
  /\ p.op = "delete" \/ p.status = "FAILED" => Recipients \subseteq Settled
PlansTrue == \A i \in Instances : pc[i] = "settling" => ClosesAll(plan[i])

NoneForgotten == TypeOK /\ RecordsTrue /\ PassesTrue /\ PlansTrue /\ NobodyForgotten

\* A failure's class is none of the marks a pass keeps for whom it is done with.
LEMMA ClassIsNoMark ==
  \A c \in Class : c \notin {Skip, Accepted, Delivered}
BY DEF Class, Skip, Accepted, Delivered, Verdict, VerdictType

\* Whoever the history has finished with is settled.
LEMMA FinishedSettled ==
  ASSUME RecordsTrue, NEW i \in Instances
  PROVE  Finished(i) \subseteq Settled
<1>1. StoreOf(i) \in Store BY DEF StoreOf, Store
<1> QED BY <1>1 DEF Finished, RecordsTrue

\* What is true stays true while recipients are only added to the settled.
LEMMA SettledGrows ==
  ASSUME NoneForgotten, Settled \subseteq Settled',
         \A i \in Instances : \A ev \in queue'[i] : ev \in queue[i] \/ ev[1] \in Settled',
         \A s \in Store : \A ev \in history'[s] :
           ev \in history[s] \/ \E i \in Instances : ev \in queue[i],
         \A i \in Instances : pc'[i] = "sending" =>
           \A r \in Recipients : result'[i][r] \in {Skip, Accepted, Delivered} =>
             r \in Settled' \/ (pc[i] = "sending" /\ result[i][r] \in {Skip, Accepted, Delivered}),
         \A i \in Instances : pc'[i] = "settling" =>
           ClosesAll(plan[i])' \/ (pc[i] = "settling" /\ plan'[i] = plan[i]),
         status' \in {"FAILED", "GONE"} =>
           status \in {"FAILED", "GONE"} \/ Recipients \subseteq Settled
  PROVE  RecordsTrue' /\ PassesTrue' /\ PlansTrue' /\ NobodyForgotten'
<1>1. RecordsTrue' BY DEF NoneForgotten, RecordsTrue
<1>2. PassesTrue' BY DEF NoneForgotten, PassesTrue
<1>3. PlansTrue' BY DEF NoneForgotten, PlansTrue, ClosesAll
<1>4. NobodyForgotten'
  <2>1. NobodyForgotten BY DEF NoneForgotten
  <2>2. status' \in {"FAILED", "GONE"} => Recipients \subseteq Settled'
    BY <2>1 DEF NobodyForgotten, Settled
  <2> QED BY <2>2 DEF NobodyForgotten, Settled
<1> QED BY <1>1, <1>2, <1>3, <1>4

\* The end of a goroutine: it is idle, and the others are as they were.
LEMMA EndPassOthers ==
  ASSUME TypeOK, NEW i \in Instances, EndPass(i)
  PROVE  /\ pc'[i] = "idle"
         /\ \A j \in Instances \ {i} :
              pc'[j] = pc[j] /\ result'[j] = result[j] /\ plan'[j] = plan[j]
BY DEF TypeOK, EndPass

\* A goroutine on its way to settle: the others are as they were.
LEMMA ToSettleOthers ==
  ASSUME TypeOK, NEW i \in Instances, NEW p, ToSettle(i, p)
  PROVE  /\ pc'[i] = "settling" /\ plan'[i] = p
         /\ \A j \in Instances \ {i} : pc'[j] = pc[j] /\ plan'[j] = plan[j]
BY DEF TypeOK, ToSettle

\* Verdicts are recorded of whom they judge.
LEMMA JudgeTrue ==
  ASSUME NoneForgotten, NEW i \in Instances, NEW rs \in SUBSET Recipients, NEW type,
         Judge(i, rs, type), UNCHANGED <<reached, unsent>>
  PROVE  /\ Settled \subseteq Settled' /\ rs \subseteq Settled'
         /\ \A j \in Instances : \A ev \in queue'[j] : ev \in queue[j] \/ ev[1] \in Settled'
<1>1. Settled' = Settled \cup rs BY DEF Judge, Settled
<1>2. \A ev \in {<<r, type[r]>> : r \in rs} : ev[1] \in rs OBVIOUS
<1>3. queue' = [queue EXCEPT ![i] = @ \cup {<<r, type[r]>> : r \in rs}] BY DEF Judge
<1>4. queue \in [Instances -> SUBSET Event] BY DEF NoneForgotten, TypeOK
<1>5. \A j \in Instances : \A ev \in queue'[j] :
        ev \in queue[j] \/ ev \in {<<r, type[r]>> : r \in rs}
  BY <1>3, <1>4
<1> QED BY <1>1, <1>2, <1>5

\* A message-level failure closes the row only over everybody's verdict.
LEMMA HandleFailureTrue ==
  ASSUME NoneForgotten, NEW i \in Instances, NEW class \in Class, HandleFailure(i, class),
         UNCHANGED <<reached, unsent>>
  PROVE  /\ Settled \subseteq Settled'
         /\ \A j \in Instances : \A ev \in queue'[j] : ev \in queue[j] \/ ev[1] \in Settled'
         /\ pc'[i] = "settling" /\ ClosesAll(plan[i])'
         /\ \A j \in Instances \ {i} : pc'[j] = pc[j] /\ plan'[j] = plan[j]
<1> DEFINE n == count[i] + 1
<1>0. TypeOK /\ RecordsTrue BY DEF NoneForgotten
<1>1. CASE class.retryable /\ MayRetry(n)
  <2>1. ToSettle(i, UpdatePlan("DEFERRED", n, DelayOf(n))) /\ UNCHANGED <<queue, judged>>
    BY <1>1 DEF HandleFailure
  <2>2. /\ pc'[i] = "settling" /\ plan'[i] = UpdatePlan("DEFERRED", n, DelayOf(n))
        /\ \A j \in Instances \ {i} : pc'[j] = pc[j] /\ plan'[j] = plan[j]
    BY <1>0, <2>1, ToSettleOthers
  <2>3. ClosesAll(plan[i])' BY <2>2 DEF ClosesAll, UpdatePlan
  <2> QED BY <2>1, <2>2, <2>3 DEF Settled
<1>2. CASE ~(class.retryable /\ MayRetry(n))
  <2>1. ToSettle(i, UpdatePlan("FAILED", n, 0)) BY <1>2 DEF HandleFailure
  <2>2. PICK rs \in Unfinished(i) : Judge(i, rs, [r \in rs |-> class.type])
    BY <1>2 DEF HandleFailure
  <2>3. rs \in SUBSET Recipients /\ Recipients \ Finished(i) \subseteq rs
    BY <2>2 DEF Unfinished
  <2>4. /\ Settled \subseteq Settled' /\ rs \subseteq Settled'
        /\ \A j \in Instances : \A ev \in queue'[j] : ev \in queue[j] \/ ev[1] \in Settled'
    BY <2>2, <2>3, JudgeTrue
  <2>5. Recipients \subseteq Settled' BY <1>0, <2>3, <2>4, FinishedSettled
  <2>6. /\ pc'[i] = "settling" /\ plan'[i] = UpdatePlan("FAILED", n, 0)
        /\ \A j \in Instances \ {i} : pc'[j] = pc[j] /\ plan'[j] = plan[j]
    BY <1>0, <2>1, ToSettleOthers
  <2>7. ClosesAll(plan[i])' BY <2>5, <2>6 DEF ClosesAll, UpdatePlan
  <2> QED BY <2>4, <2>6, <2>7
<1> QED BY <1>1, <1>2

\* A pass judged recipient by recipient closes the row only when nobody is left.
LEMMA HandleRecipientFailuresTrue ==
  ASSUME NoneForgotten, NEW i \in Instances, HandleRecipientFailures(i),
         pc[i] = "sending", UNCHANGED <<reached, unsent>>
  PROVE  /\ Settled \subseteq Settled'
         /\ \A j \in Instances : \A ev \in queue'[j] : ev \in queue[j] \/ ev[1] \in Settled'
         /\ pc'[i] = "settling" /\ ClosesAll(plan[i])'
         /\ \A j \in Instances \ {i} : pc'[j] = pc[j] /\ plan'[j] = plan[j]
<1> DEFINE retry   == Retryable(i)
           n       == IF retry # {} /\ ~Progress(i) THEN count[i] + 1 ELSE count[i]
           attempt == IF n = 0 THEN 1 ELSE n
           goOn    == retry # {} /\ MayRetry(attempt)
           final   == IF goOn THEN Failed(i) \ retry ELSE Failed(i)
           next    == IF goOn THEN UpdatePlan("DEFERRED", n, DelayOf(attempt))
                      ELSE IF retry = {} /\ Progress(i) THEN DeletePlan
                      ELSE UpdatePlan("FAILED", n, 0)
<1>0. TypeOK /\ PassesTrue BY DEF NoneForgotten
<1>1. Judge(i, final, [r \in final |-> result[i][r].type]) /\ ToSettle(i, next)
  BY DEF HandleRecipientFailures
<1>2. final \in SUBSET Recipients /\ (~goOn => final = Failed(i)) BY DEF Failed
<1>3. /\ next.op \in {"delete", "update"}
      /\ goOn => next.op = "update" /\ next.status = "DEFERRED"
  BY DEF DeletePlan, UpdatePlan, NoPlan
<1> HIDE DEF final, next, goOn
<1>4. /\ Settled \subseteq Settled' /\ final \subseteq Settled'
      /\ \A j \in Instances : \A ev \in queue'[j] : ev \in queue[j] \/ ev[1] \in Settled'
  BY <1>1, <1>2, JudgeTrue
<1>5. /\ pc'[i] = "settling" /\ plan'[i] = next
      /\ \A j \in Instances \ {i} : pc'[j] = pc[j] /\ plan'[j] = plan[j]
  BY <1>0, <1>1, ToSettleOthers
<1>6. Recipients \ Failed(i) \subseteq Settled BY <1>0 DEF PassesTrue, Failed
<1>7. ~goOn => Recipients \subseteq Settled' BY <1>2, <1>4, <1>6
<1>8. ClosesAll(plan[i])' BY <1>3, <1>5, <1>7 DEF ClosesAll
<1> QED BY <1>4, <1>5, <1>8

\* No step forgets anybody, where every instance can decode the request.
LEMMA NoneForgottenStep ==
  ASSUME Decoders = Instances, NoneForgotten, [Next]_vars
  PROVE  NoneForgotten'
<1> USE DEF row, lease, events, ghosts
<1>0. TypeOK /\ RecordsTrue /\ PassesTrue /\ PlansTrue /\ TypeOK'
  BY TypeStep DEF NoneForgotten
<1> SUFFICES RecordsTrue' /\ PassesTrue' /\ PlansTrue' /\ NobodyForgotten'
  BY <1>0 DEF NoneForgotten
<1> DEFINE Goal == RecordsTrue' /\ PassesTrue' /\ PlansTrue' /\ NobodyForgotten'
<1>1. ASSUME UNCHANGED <<queue, history, reached, unsent, judged>>,
             \A j \in Instances :
               \/ pc'[j] \notin {"sending", "settling"}
               \/ pc'[j] = pc[j] /\ result'[j] = result[j] /\ plan'[j] = plan[j],
             status' \in {"FAILED", "GONE"} =>
               status \in {"FAILED", "GONE"} \/ Recipients \subseteq Settled
      PROVE  Goal
  <2>1. Settled' = Settled BY <1>1 DEF Settled
  <2> QED BY <1>1, <2>1, SettledGrows
<1>2. ASSUME NEW i \in Instances, ClaimPending(i) PROVE Goal
  <2>1. \A j \in Instances :
          \/ pc'[j] \notin {"sending", "settling"}
          \/ pc'[j] = pc[j] /\ result'[j] = result[j] /\ plan'[j] = plan[j]
    BY <1>0, <1>2 DEF ClaimPending, TypeOK
  <2> QED BY <1>1, <1>2, <2>1 DEF ClaimPending
<1>3. ASSUME NEW i \in Instances, HoldLease(i) \/ Renew(i) \/ RenewFails(i) \/ CutDrain(i)
      PROVE  Goal
  <2>1. \A j \in Instances :
          \/ pc'[j] \notin {"sending", "settling"}
          \/ pc'[j] = pc[j] /\ result'[j] = result[j] /\ plan'[j] = plan[j]
    BY <1>0, <1>3 DEF HoldLease, Renew, RenewFails, CutDrain, TypeOK
  <2>2. UNCHANGED <<queue, history, reached, unsent, judged, status>>
    BY <1>3 DEF HoldLease, Renew, RenewFails, CutDrain
  <2> QED BY <1>1, <2>1, <2>2
<1>4. ASSUME NEW i \in Instances, LeaveClaimed(i) \/ StopLost(i) \/ SettleFails(i)
      PROVE  Goal
  <2>1. EndPass(i) /\ UNCHANGED <<queue, history, reached, unsent, judged, status>>
    BY <1>4 DEF LeaveClaimed, StopLost, SettleFails
  <2> QED BY <1>0, <1>1, <2>1, EndPassOthers
<1>5. ASSUME NEW i \in Instances, Undecodable(i) PROVE Goal
  BY <1>5 DEF Undecodable
<1>6. ASSUME NEW i \in Instances, FailPass(i) PROVE Goal
  <2>1. PICK class \in Class : HandleFailure(i, class)
    <3>1. ASSUME NEW e \in PassErrors, HandleFailure(i, ClassifyError(e))
          PROVE  \E class \in Class : HandleFailure(i, class)
      BY <3>1, ClassifyType, ConstantsAssumption
    <3>2. ClassifyError(Cancelled) \in Class BY CancelledType, ClassifyType
    <3>3. Verdict("REJECTED", FALSE) \in Class BY DEF Verdict, Class, VerdictType
    <3> QED BY <1>6, <3>1, <3>2, <3>3 DEF FailPass
  <2>2. UNCHANGED <<row, result, history, reached, unsent>> BY <1>6 DEF FailPass
  <2>3. /\ Settled \subseteq Settled'
        /\ \A j \in Instances : \A ev \in queue'[j] : ev \in queue[j] \/ ev[1] \in Settled'
        /\ pc'[i] = "settling" /\ ClosesAll(plan[i])'
        /\ \A j \in Instances \ {i} : pc'[j] = pc[j] /\ plan'[j] = plan[j]
    BY <2>1, <2>2, HandleFailureTrue
  <2> QED BY <2>2, <2>3, SettledGrows
<1>7. ASSUME NEW i \in Instances, PacePass(i) PROVE Goal
  <2> DEFINE p == UpdatePlan("DEFERRED", count[i], PaceDelay)
  <2>1. ToSettle(i, p) /\ Drop(i) /\ UNCHANGED <<row, result, history, reached, unsent>>
    BY <1>7 DEF PacePass
  <2>2. /\ pc'[i] = "settling" /\ plan'[i] = p
        /\ \A j \in Instances \ {i} : pc'[j] = pc[j] /\ plan'[j] = plan[j]
    BY <1>0, <2>1, ToSettleOthers
  <2>3. ClosesAll(plan[i])' BY <2>2 DEF ClosesAll, UpdatePlan
  <2>4. Settled' = Settled \cup Dropped(i) BY <2>1 DEF Settled, Drop
  <2>5. \A j \in Instances : \A ev \in queue'[j] : ev \in queue[j] \/ ev[1] \in Settled'
    BY <1>0, <2>1, <2>4, DropAdds
  <2> QED BY <2>1, <2>2, <2>3, <2>4, <2>5, SettledGrows
<1>8. ASSUME NEW i \in Instances, BeginPass(i) PROVE Goal
  <2> DEFINE due == Open(i) \ Dropped(i)
  <2>0. PICK tried \in {due, {}} :
          /\ result' = [result EXCEPT ![i] =
                          [r \in Recipients |-> IF r \in tried THEN Todo ELSE Skip]]
          /\ unsent' = unsent \cup (due \ tried)
    BY <1>8 DEF BeginPass
  <2>1. pc' = [pc EXCEPT ![i] = "sending"] /\ Drop(i) /\ UNCHANGED <<row, plan, history, reached>>
    BY <1>8 DEF BeginPass
  <2>2. Settled' = Settled \cup Dropped(i) \cup (due \ tried) BY <2>0, <2>1 DEF Settled, Drop
  <2>3. Recipients \ tried \subseteq Settled' BY <1>0, <2>2, FinishedSettled DEF Open
  <2>4. Todo \notin {Skip, Accepted, Delivered} BY DEF Todo, Skip, Accepted, Delivered, Verdict
  <2> HIDE DEF due
  <2>5. /\ pc'[i] = "sending"
        /\ \A r \in Recipients : result'[i][r] = IF r \in tried THEN Todo ELSE Skip
        /\ \A j \in Instances \ {i} : pc'[j] = pc[j] /\ result'[j] = result[j]
    BY <1>0, <2>0, <2>1 DEF TypeOK
  <2>6. \A r \in Recipients : result'[i][r] \in {Skip, Accepted, Delivered} => r \in Settled'
    BY <2>3, <2>4, <2>5
  <2>7. \A j \in Instances : \A ev \in queue'[j] : ev \in queue[j] \/ ev[1] \in Settled'
    BY <1>0, <2>1, <2>2, DropAdds
  <2> QED BY <2>1, <2>2, <2>5, <2>6, <2>7, SettledGrows
<1>9. ASSUME NEW i \in Instances, NEW r \in Recipients, Attempt(i, r) PROVE Goal
  <2>1. /\ pc[i] = "sending" /\ UNCHANGED <<row, pc, plan, queue, history, judged>>
        /\ Settled \subseteq Settled'
    BY <1>9 DEF Attempt, Copy, Settled
  <2>2. PICK o : Resolve(i, r, o) /\ (o \in Class \/ r \in Settled')
    <3>1. ASSUME Resolve(i, r, Accepted), Copy(r)
          PROVE  \E o : Resolve(i, r, o) /\ (o \in Class \/ r \in Settled')
      BY <3>1 DEF Copy, Settled
    <3>2. \A e \in ReplyErrors : ClassifyError(e) \in Class BY ClassifyType, ConstantsAssumption
    <3> QED BY <1>9, <3>1, <3>2 DEF Attempt
  <2>3. /\ result'[i][r] = o
        /\ \A j \in Instances, x \in Recipients :
             j # i \/ x # r => result'[j][x] = result[j][x]
    BY <1>0, <2>2 DEF Resolve, TypeOK
  <2> QED BY <2>1, <2>2, <2>3, ClassIsNoMark, SettledGrows
<1>10. ASSUME NEW i \in Instances, NEW r \in Recipients, RecordDelivered(i, r) PROVE Goal
  <2>1. /\ pc[i] = "sending" /\ result[i][r] = Accepted
        /\ result' = [result EXCEPT ![i][r] = Delivered]
        /\ UNCHANGED <<row, pc, plan, history, reached, unsent, judged>>
        /\ queue' = [queue EXCEPT ![i] = @ \cup {<<r, "DELIVERED">>}] \/ UNCHANGED queue
    BY <1>10 DEF RecordDelivered, Resolve
  <2>2. r \in Settled /\ Settled' = Settled BY <1>0, <2>1 DEF PassesTrue, Settled
  <2>3. \A j \in Instances : \A ev \in queue'[j] : ev \in queue[j] \/ ev = <<r, "DELIVERED">>
    <3>1. CASE queue' = [queue EXCEPT ![i] = @ \cup {<<r, "DELIVERED">>}]
      BY <1>0, <3>1 DEF TypeOK
    <3>2. CASE UNCHANGED queue BY <3>2
    <3> QED BY <2>1, <3>1, <3>2
  <2>4. \A j \in Instances, x \in Recipients :
          j # i \/ x # r => result'[j][x] = result[j][x]
    BY <1>0, <2>1 DEF TypeOK
  <2>5. \A j \in Instances : \A ev \in queue'[j] : ev \in queue[j] \/ ev[1] \in Settled'
    BY <2>2, <2>3
  <2> QED BY <2>1, <2>2, <2>4, <2>5, SettledGrows
<1>11. ASSUME NEW i \in Instances, NEW r \in Recipients, SkipCancelled(i, r) PROVE Goal
  <2>1. /\ pc[i] = "sending"
        /\ result' = [result EXCEPT ![i][r] = ClassifyError(Cancelled)]
        /\ UNCHANGED <<row, pc, plan, queue, history, reached, unsent, judged>>
    BY <1>11 DEF SkipCancelled, Resolve
  <2>2. ClassifyError(Cancelled) \in Class BY CancelledType, ClassifyType
  <2>3. /\ result'[i][r] = ClassifyError(Cancelled)
        /\ \A j \in Instances, x \in Recipients :
             j # i \/ x # r => result'[j][x] = result[j][x]
    BY <1>0, <2>1 DEF TypeOK
  <2>4. Settled' = Settled BY <2>1 DEF Settled
  <2> QED BY <2>1, <2>2, <2>3, <2>4, ClassIsNoMark, SettledGrows
<1>12. ASSUME NEW i \in Instances, FinishPass(i) PROVE Goal
  <2>0. pc[i] = "sending" /\ UNCHANGED <<row, history, reached, unsent>> BY <1>12 DEF FinishPass
  <2>1. CASE lost[i]
    <3>1. EndPass(i) /\ UNCHANGED <<queue, judged>> BY <1>12, <2>1 DEF FinishPass
    <3> QED BY <1>0, <1>1, <2>0, <3>1, EndPassOthers
  <2>2. CASE ~lost[i] /\ Failed(i) = {}
    <3>1. ToSettle(i, DeletePlan) /\ UNCHANGED <<queue, judged, result>>
      BY <1>12, <2>2 DEF FinishPass
    <3>2. Settled' = Settled BY <2>0, <3>1 DEF Settled
    <3>3. Recipients \subseteq Settled BY <1>0, <2>0, <2>2 DEF PassesTrue, Failed
    <3>4. /\ pc'[i] = "settling" /\ plan'[i] = DeletePlan
          /\ \A j \in Instances \ {i} : pc'[j] = pc[j] /\ plan'[j] = plan[j]
      BY <1>0, <3>1, ToSettleOthers
    <3>5. ClosesAll(plan[i])' BY <3>2, <3>3, <3>4 DEF ClosesAll, DeletePlan, NoPlan
    <3> QED BY <2>0, <3>1, <3>2, <3>4, <3>5, SettledGrows
  <2>3. CASE ~lost[i] /\ Failed(i) # {}
    <3>1. HandleRecipientFailures(i) /\ UNCHANGED result BY <1>12, <2>3 DEF FinishPass
    <3>2. /\ Settled \subseteq Settled'
          /\ \A j \in Instances : \A ev \in queue'[j] : ev \in queue[j] \/ ev[1] \in Settled'
          /\ pc'[i] = "settling" /\ ClosesAll(plan[i])'
          /\ \A j \in Instances \ {i} : pc'[j] = pc[j] /\ plan'[j] = plan[j]
      BY <2>0, <3>1, HandleRecipientFailuresTrue
    <3> QED BY <2>0, <3>1, <3>2, SettledGrows
  <2> QED BY <2>1, <2>2, <2>3
<1>13. ASSUME NEW i \in Instances, Settle(i) PROVE Goal
  <2>1. EndPass(i) /\ UNCHANGED <<queue, history, reached, unsent, judged>> BY <1>13 DEF Settle
  <2>2. ClosesAll(plan[i]) BY <1>0, <1>13 DEF Settle, PlansTrue
  <2>3. status' \in {"FAILED", "GONE"} =>
          status \in {"FAILED", "GONE"} \/ Recipients \subseteq Settled
    <3>1. status' = IF status # "GONE" /\ plan[i].op = "update" THEN plan[i].status ELSE "GONE"
      BY <1>13 DEF Settle
    <3>2. CASE status = "GONE" BY <3>2
    <3>3. CASE status # "GONE" /\ plan[i].op = "update"
      <4>1. plan[i].status \in {"SENDING", "DEFERRED", "FAILED"} BY <1>0 DEF TypeOK
      <4> QED BY <2>2, <3>1, <3>3, <4>1 DEF ClosesAll
    <3>4. CASE status # "GONE" /\ plan[i].op # "update" BY <2>2, <3>4 DEF ClosesAll
    <3> QED BY <3>2, <3>3, <3>4
  <2> QED BY <1>0, <1>1, <2>1, <2>3, EndPassOthers
<1>14. ASSUME NEW i \in Instances, Flush(i) PROVE Goal
  <2>1. /\ history' = [history EXCEPT ![StoreOf(i)] = @ \cup queue[i]]
        /\ queue' = [queue EXCEPT ![i] = {}]
        /\ UNCHANGED <<status, pc, result, plan, reached, unsent, judged>>
    BY <1>14 DEF Flush
  <2>2. \A s \in Store : \A ev \in history'[s] : ev \in history[s] \/ ev \in queue[i]
    BY <1>0, <2>1 DEF TypeOK
  <2>3. \A j \in Instances : \A ev \in queue'[j] : ev \in queue[j] BY <1>0, <2>1 DEF TypeOK
  <2>4. Settled' = Settled BY <2>1 DEF Settled
  <2> QED BY <2>1, <2>2, <2>3, <2>4, SettledGrows
<1>15. ASSUME NEW i \in Instances, FlushFails(i) PROVE Goal
  <2>1. queue' = [queue EXCEPT ![i] = {}]
        /\ UNCHANGED <<status, pc, result, plan, history, reached, unsent, judged>>
    BY <1>15 DEF FlushFails
  <2>2. \A j \in Instances : \A ev \in queue'[j] : ev \in queue[j] BY <1>0, <2>1 DEF TypeOK
  <2>3. Settled' = Settled BY <2>1 DEF Settled
  <2> QED BY <2>1, <2>2, <2>3, SettledGrows
<1>16. ASSUME NEW i \in Instances, Crash(i) PROVE Goal
  <2>1. /\ EndPass(i) /\ queue' = [queue EXCEPT ![i] = {}]
        /\ UNCHANGED <<status, history, reached, unsent, judged>>
    BY <1>16 DEF Crash
  <2>2. \A j \in Instances : \A ev \in queue'[j] : ev \in queue[j] BY <1>0, <2>1 DEF TypeOK
  <2>3. Settled' = Settled BY <2>1 DEF Settled
  <2>4. /\ pc'[i] = "idle"
        /\ \A j \in Instances \ {i} :
             pc'[j] = pc[j] /\ result'[j] = result[j] /\ plan'[j] = plan[j]
    BY <1>0, <2>1, EndPassOthers
  <2> QED BY <2>1, <2>2, <2>3, <2>4, SettledGrows
<1>17. ASSUME (\E r \in Recipients : SuppressRecipient(r)) \/ PruneTerminal \/ Tick
              \/ UNCHANGED vars
       PROVE  Goal
  BY <1>1, <1>17 DEF SuppressRecipient, PruneTerminal, Tick, vars
<1> QED
  BY <1>2, <1>3, <1>4, <1>5, <1>6, <1>7, <1>8, <1>9, <1>10, <1>11, <1>12, <1>13, <1>14,
     <1>15, <1>16, <1>17 DEF Next, Deliver

\* Where every instance can decode the stored request, a message leaves the outbox
\* or is parked only when every recipient had a copy accepted, a final verdict, or
\* was left out by a pass that had only receivers (DeletedIsSentOrJudged is refuted):
\* for every lease, however many renewals fail, events are lost and workers crash.
THEOREM NobodyIsForgotten == (Decoders = Instances) => (Spec => []NobodyForgotten)
<1> SUFFICES ASSUME Decoders = Instances PROVE Spec => []NobodyForgotten OBVIOUS
<1>1. Init => NoneForgotten
  <2> SUFFICES ASSUME Init PROVE NoneForgotten OBVIOUS
  <2>1. TypeOK
    BY ConstantsAssumption, PlanTypes DEF Init, TypeOK, PlanType, Outcome, Skip
  <2> QED BY <2>1
       DEF Init, NoneForgotten, RecordsTrue, PassesTrue, PlansTrue, NobodyForgotten
<1>2. NoneForgotten /\ [Next]_vars => NoneForgotten' BY NoneForgottenStep
<1>3. NoneForgotten => NobodyForgotten BY DEF NoneForgotten
<1> QED BY <1>1, <1>2, <1>3, PTL DEF Spec

-----------------------------------------------------------------------------
(***************************************************************************)
(* Only whose own failure it was is suppressed, whatever happens to the    *)
(* lease and to the events.  A pass carries its verdicts from the attempt  *)
(* to the end, so what it carries has to be true of its recipient.         *)
(***************************************************************************)

\* A failed pass blames nobody: no error before the first recipient reads as a
\* bounce, a complaint or an unsubscribe.
PassBlamesNobody == \A e \in PassErrors : ClassifyError(e).type \notin AtFault

CarriedBlame ==
  \A i \in Instances : pc[i] = "sending" =>
    \A r \in Recipients : result[i][r].type \in AtFault => r \in blamed

Blame == CarriedBlame /\ OnlyBlamedSuppressed

\* Blame is kept while the blamed and the opted-out only grow.
LEMMA BlameGrows ==
  ASSUME Blame, blamed \subseteq blamed', optedOut \subseteq optedOut',
         suppressed' \subseteq suppressed \cup blamed' \cup optedOut',
         \A i \in Instances : pc'[i] = "sending" =>
           \A r \in Recipients : result'[i][r].type \in AtFault =>
             r \in blamed' \/ (pc[i] = "sending" /\ result'[i][r] = result[i][r])
  PROVE  Blame'
<1>1. CarriedBlame' BY DEF Blame, CarriedBlame
<1>2. OnlyBlamedSuppressed' BY DEF Blame, OnlyBlamedSuppressed
<1> QED BY <1>1, <1>2 DEF Blame

\* Verdicts that are nobody's fault suppress nobody.
LEMMA JudgeSuppresses ==
  ASSUME NEW i \in Instances, NEW rs \in SUBSET Recipients, NEW type \in [rs -> EventType],
         Judge(i, rs, type)
  PROVE  suppressed' \subseteq suppressed \cup {r \in rs : type[r] \in AtFault}
<1>1. SuppressedBy({<<r, type[r]>> : r \in rs}) \subseteq {r \in rs : type[r] \in AtFault}
  BY DEF SuppressedBy, AtFault
<1>2. {r \in rs : type[r] = "UNSUBSCRIBED"} \subseteq {r \in rs : type[r] \in AtFault}
  BY DEF AtFault
<1> QED BY <1>1, <1>2 DEF Judge

\* A pass that fails as a whole suppresses nobody.
LEMMA FailPassSuppresses ==
  ASSUME TypeOK, PassBlamesNobody, NEW i \in Instances, FailPass(i)
  PROVE  suppressed' = suppressed /\ pc'[i] = "settling"
         /\ \A j \in Instances \ {i} : pc'[j] = pc[j]
<1>1. PICK class \in Class : HandleFailure(i, class) /\ class.type \notin AtFault
  <2>1. ASSUME NEW e \in PassErrors, HandleFailure(i, ClassifyError(e))
        PROVE  \E class \in Class : HandleFailure(i, class) /\ class.type \notin AtFault
    BY <2>1, ClassifyType, ConstantsAssumption DEF PassBlamesNobody
  <2>2. ClassifyError(Cancelled) \in Class /\ ClassifyError(Cancelled).type \notin AtFault
    <3>1. ClassifyError(Cancelled) = Verdict("BOUNCED", TRUE)
      BY DEF ClassifyError, Cancelled, ReadOf
    <3>2. ClassifyError(Cancelled).type \notin AtFault BY <3>1 DEF Verdict, AtFault
    <3> QED BY <3>2, CancelledType, ClassifyType
  <2>3. Verdict("REJECTED", FALSE) \in Class /\ Verdict("REJECTED", FALSE).type \notin AtFault
    BY DEF Verdict, Class, VerdictType, AtFault
  <2> QED BY <2>1, <2>2, <2>3 DEF FailPass
<1>2. \E p : ToSettle(i, p) BY <1>1 DEF HandleFailure
<1>3. suppressed' = suppressed
  <2>1. ASSUME NEW rs \in Unfinished(i), Judge(i, rs, [r \in rs |-> class.type])
        PROVE  suppressed' = suppressed
    <3>1. rs \in SUBSET Recipients BY <2>1 DEF Unfinished
    <3>2. [r \in rs |-> class.type] \in [rs -> EventType] BY <1>1 DEF Class, EventType
    <3>3. suppressed' \subseteq suppressed BY <1>1, <2>1, <3>1, <3>2, JudgeSuppresses
    <3> QED BY <2>1, <3>3 DEF Judge
  <2> QED BY <1>1, <2>1 DEF HandleFailure
<1> QED BY <1>2, <1>3, ToSettleOthers

\* A pass judged recipient by recipient suppresses whom it carries blame for.
LEMMA RecipientFailuresSuppress ==
  ASSUME TypeOK, CarriedBlame, NEW i \in Instances, pc[i] = "sending",
         \A r \in Recipients : result[i][r] \notin {Todo, Accepted},
         HandleRecipientFailures(i)
  PROVE  suppressed' \subseteq suppressed \cup blamed
         /\ pc'[i] = "settling" /\ \A j \in Instances \ {i} : pc'[j] = pc[j]
<1>1. PICK final, p :
        /\ final \in SUBSET Failed(i)
        /\ Judge(i, final, [r \in final |-> result[i][r].type]) /\ ToSettle(i, p)
  <2> DEFINE retry   == Retryable(i)
             n       == IF retry # {} /\ ~Progress(i) THEN count[i] + 1 ELSE count[i]
             attempt == IF n = 0 THEN 1 ELSE n
             goOn    == retry # {} /\ MayRetry(attempt)
             final   == IF goOn THEN Failed(i) \ retry ELSE Failed(i)
  <2>1. final \in SUBSET Failed(i) OBVIOUS
  <2>2. Judge(i, final, [r \in final |-> result[i][r].type]) /\ \E p : ToSettle(i, p)
    BY DEF HandleRecipientFailures
  <2> QED BY <2>1, <2>2
<1>2. final \in SUBSET Recipients BY <1>1 DEF Failed
<1>3. [r \in final |-> result[i][r].type] \in [final -> EventType]
  BY <1>1, FailedType DEF Class, EventType
<1>4. \A r \in final : result[i][r].type \in AtFault => r \in blamed
  BY <1>2 DEF CarriedBlame
<1>5. suppressed' \subseteq
        suppressed \cup {r \in final : [x \in final |-> result[i][x].type][r] \in AtFault}
  BY <1>1, <1>2, <1>3, JudgeSuppresses
<1> QED BY <1>1, <1>4, <1>5, ToSettleOthers

\* No step blames or suppresses a recipient for a failure that was not theirs.
LEMMA BlameStep ==
  ASSUME PassBlamesNobody, TypeOK, Blame, [Next]_vars
  PROVE  Blame'
<1> USE DEF row, lease, events, ghosts
<1>1. ASSUME UNCHANGED <<blamed, optedOut, suppressed>>,
             \A j \in Instances : pc'[j] # "sending" \/ (pc'[j] = pc[j] /\ result'[j] = result[j])
      PROVE  Blame'
  BY <1>1, BlameGrows
<1>2. ASSUME NEW i \in Instances,
             \/ ClaimPending(i) \/ HoldLease(i) \/ Renew(i) \/ RenewFails(i) \/ CutDrain(i)
             \/ Undecodable(i) \/ PacePass(i) \/ Flush(i) \/ FlushFails(i)
      PROVE  Blame'
  <2>1. UNCHANGED <<blamed, optedOut, suppressed, result>>
    BY <1>2 DEF ClaimPending, HoldLease, Renew, RenewFails, CutDrain, Undecodable, PacePass,
                Flush, FlushFails
  <2>2. \A j \in Instances : pc'[j] # "sending" \/ pc'[j] = pc[j]
    BY <1>2 DEF ClaimPending, HoldLease, Renew, RenewFails, CutDrain, Undecodable, PacePass,
                Flush, FlushFails, ToSettle, TypeOK
  <2> QED BY <1>1, <2>1, <2>2
<1>3. ASSUME NEW i \in Instances,
             LeaveClaimed(i) \/ StopLost(i) \/ SettleFails(i) \/ Settle(i) \/ Crash(i)
      PROVE  Blame'
  <2>1. EndPass(i) /\ UNCHANGED <<blamed, optedOut, suppressed>>
    BY <1>3 DEF LeaveClaimed, StopLost, SettleFails, Settle, Crash
  <2>2. \A j \in Instances : pc'[j] # "sending" \/ (pc'[j] = pc[j] /\ result'[j] = result[j])
    BY <2>1, EndPassOthers
  <2> QED BY <1>1, <2>1, <2>2
<1>4. ASSUME NEW i \in Instances, FailPass(i) PROVE Blame'
  <2>1. UNCHANGED <<blamed, optedOut, result>> BY <1>4 DEF FailPass
  <2> QED BY <1>1, <1>4, <2>1, FailPassSuppresses
<1>5. ASSUME NEW i \in Instances, BeginPass(i) PROVE Blame'
  <2>1. UNCHANGED <<blamed, optedOut, suppressed>> BY <1>5 DEF BeginPass
  <2>2. \A j \in Instances \ {i} : pc'[j] = pc[j] /\ result'[j] = result[j]
    BY <1>5 DEF BeginPass, TypeOK
  <2>3. \A r \in Recipients : result'[i][r] \in {Todo, Skip} BY <1>5 DEF BeginPass, TypeOK
  <2>4. Todo.type \notin AtFault /\ Skip.type \notin AtFault
    BY DEF Todo, Skip, Verdict, AtFault
  <2> QED BY <2>1, <2>2, <2>3, <2>4, BlameGrows
<1>6. ASSUME NEW i \in Instances, NEW r \in Recipients, Attempt(i, r) PROVE Blame'
  <2>1. UNCHANGED <<pc, optedOut, suppressed>> /\ pc[i] = "sending" BY <1>6 DEF Attempt
  <2>2. PICK o : Resolve(i, r, o) /\ blamed \subseteq blamed' /\ (o.type \in AtFault => r \in blamed')
    <3>1. Accepted.type \notin AtFault BY DEF Accepted, Verdict, AtFault
    <3> QED BY <1>6, <3>1 DEF Attempt
  <2>3. /\ result'[i][r] = o
        /\ \A j \in Instances, x \in Recipients :
             j # i \/ x # r => result'[j][x] = result[j][x]
    BY <2>2 DEF Resolve, TypeOK
  <2> QED BY <2>1, <2>2, <2>3, BlameGrows
<1>7. ASSUME NEW i \in Instances, NEW r \in Recipients,
             RecordDelivered(i, r) \/ SkipCancelled(i, r)
      PROVE  Blame'
  <2>1. UNCHANGED <<pc, blamed, optedOut, suppressed>>
    BY <1>7 DEF RecordDelivered, SkipCancelled
  <2>2. ClassifyError(Cancelled) = Verdict("BOUNCED", TRUE)
    BY DEF ClassifyError, Cancelled, ReadOf
  <2>3. PICK o : Resolve(i, r, o) /\ o.type \notin AtFault
    BY <1>7, <2>2 DEF RecordDelivered, SkipCancelled, Delivered, Verdict, AtFault
  <2>4. /\ result'[i][r] = o
        /\ \A j \in Instances, x \in Recipients :
             j # i \/ x # r => result'[j][x] = result[j][x]
    BY <2>3 DEF Resolve, TypeOK
  <2> QED BY <2>1, <2>3, <2>4, BlameGrows
<1>8. ASSUME NEW i \in Instances, FinishPass(i) PROVE Blame'
  <2>0. UNCHANGED <<blamed, optedOut>> /\ pc[i] = "sending" BY <1>8 DEF FinishPass
  <2>1. CASE lost[i]
    <3>1. EndPass(i) /\ UNCHANGED suppressed BY <1>8, <2>1 DEF FinishPass
    <3> QED BY <1>1, <2>0, <3>1, EndPassOthers
  <2>2. CASE ~lost[i] /\ Failed(i) = {}
    <3>1. ToSettle(i, DeletePlan) /\ UNCHANGED <<suppressed, result>> BY <1>8, <2>2 DEF FinishPass
    <3> QED BY <1>1, <2>0, <3>1, ToSettleOthers
  <2>3. CASE ~lost[i] /\ Failed(i) # {}
    <3>1. HandleRecipientFailures(i) /\ UNCHANGED result
          /\ \A r \in Recipients : result[i][r] \notin {Todo, Accepted}
      BY <1>8, <2>3 DEF FinishPass
    <3>2. /\ suppressed' \subseteq suppressed \cup blamed
          /\ pc'[i] = "settling" /\ \A j \in Instances \ {i} : pc'[j] = pc[j]
      BY <2>0, <3>1, RecipientFailuresSuppress DEF Blame
    <3> QED BY <2>0, <3>1, <3>2, BlameGrows
  <2> QED BY <2>1, <2>2, <2>3
<1>9. ASSUME NEW r \in Recipients, SuppressRecipient(r) PROVE Blame'
  BY <1>9, BlameGrows DEF SuppressRecipient
<1>10. ASSUME PruneTerminal \/ Tick \/ UNCHANGED vars PROVE Blame'
  BY <1>1, <1>10 DEF PruneTerminal, Tick, vars
<1> QED
  BY <1>2, <1>3, <1>4, <1>5, <1>6, <1>7, <1>8, <1>9, <1>10 DEF Next, Deliver

\* Nobody is put on the suppression list for a co-recipient's bounce or for the
\* gateway's own error, for every lease and every loss of events, as long as no
\* pass-level error reads like a bounce (queue_worker.go, handleFailure and
\* handleRecipientFailures; suppressForEvent).
THEOREM SuppressedForOwnFailure == PassBlamesNobody /\ Spec => []OnlyBlamedSuppressed
<1>1. Init => Blame BY DEF Init, Blame, CarriedBlame, OnlyBlamedSuppressed
<1>2. PassBlamesNobody /\ TypeOK /\ Blame /\ [Next]_vars => Blame' BY BlameStep
<1>3. Blame => OnlyBlamedSuppressed BY DEF Blame
<1>4. PassBlamesNobody => PassBlamesNobody' BY DEF PassBlamesNobody
<1> QED BY <1>1, <1>2, <1>3, <1>4, TypeCorrect, PTL DEF Spec
-----------------------------------------------------------------------------
(***************************************************************************)
(* No second copy, and no verdict against a delivered recipient.           *)
(*                                                                         *)
(* A pass decides whom to try from the history as it stood when it began.  *)
(* Fresh says that the decision is still right when it is used: nothing on *)
(* record finishes a recipient this pass has yet to finish with.  It holds *)
(* because a pass begins with nothing uncommitted anywhere (Drained): what *)
(* an earlier pass accepted is committed before the row's delay or lease   *)
(* runs out, and nobody else works on the row meanwhile (LeaseHeld).       *)
(***************************************************************************)

\* With -shared-events every instance reads and writes the one history.
OneHistory == \A s \in Store \ {SharedStore} : history[s] = {}

\* Nobody can begin a pass before time passes.
Resting ==
  /\ ~Claimable
  /\ \A i \in Instances : pc[i] # "begun" /\ ~(pc[i] = "claimed" /\ Owns(i))

Drained ==
  (\E j \in Instances : queue[j] # {}) =>
     (\E k \in Instances : pc[k] \in {"sending", "settling"}) \/ Resting

\* A row is closed, parked or deferred, and never deferred by nothing.
Later(p) == p.op = "update" => p.status = "FAILED" \/ (p.status = "DEFERRED" /\ p.delay > 0)
DefersLater == \A i \in Instances : pc[i] = "settling" => Later(plan[i])

Fresh ==
  \A i \in Instances : pc[i] = "sending" =>
    \A r \in Failed(i) : ~FinishedOnRecord(r)

Known == TypeOK /\ LeaseHeld /\ OneHistory /\ DefersLater /\ Drained /\ Fresh

\* What the theorems of this section assume of the deployment.
Shared == Timely /\ SharedEvents

\* Only one goroutine works on the row, and it owns it.
LEMMA OneWorks ==
  ASSUME Known, NEW i \in Instances, NEW j \in Instances, Working(i), Working(j)
  PROVE  i = j
BY TokenAssumption DEF Known, LeaseHeld, Owns

\* A pass begins with nothing uncommitted.
LEMMA BegunDrained ==
  ASSUME Known, NEW i \in Instances, pc[i] = "begun"
  PROVE  \A j \in Instances : queue[j] = {}
<1>1. ~Resting BY DEF Resting
<1>2. \A k \in Instances : pc[k] \notin {"sending", "settling"}
  <2> SUFFICES ASSUME NEW k \in Instances, pc[k] \in {"sending", "settling"} PROVE FALSE
    OBVIOUS
  <2>1. Working(i) /\ Working(k) BY DEF Working
  <2> QED BY <2>1, OneWorks
<1> QED BY <1>1, <1>2 DEF Known, Drained

\* Then whom the history has not finished with is finished with nowhere.
LEMMA BegunFresh ==
  ASSUME Known, SharedEvents, NEW i \in Instances, pc[i] = "begun",
         NEW r \in Recipients \ Finished(i)
  PROVE  ~FinishedOnRecord(r)
<1>1. \A j \in Instances : queue[j] = {} BY BegunDrained
<1>2. \A s \in Store \ {SharedStore} : history[s] = {} BY DEF Known, OneHistory
<1>3. \A t \in FinishedTypes : <<r, t>> \notin history[SharedStore]
  BY DEF Finished, StoreOf
<1> QED BY <1>1, <1>2, <1>3 DEF FinishedOnRecord, OnRecord

\* What is committed was accepted: the record only loses events.
LEMMA RecordShrinks ==
  ASSUME \A j \in Instances : queue'[j] \subseteq queue[j],
         \A s \in Store : \A ev \in history'[s] : OnRecord(ev)
  PROVE  \A r : FinishedOnRecord(r)' => FinishedOnRecord(r)
BY DEF OnRecord, FinishedOnRecord

\* A pass goes on with fewer recipients to finish with, over no more of a record.
LEMMA FreshFrame ==
  ASSUME Known, \A r : FinishedOnRecord(r)' => FinishedOnRecord(r),
         \A j \in Instances :
           pc'[j] = "sending" => pc[j] = "sending" /\ Failed(j)' \subseteq Failed(j)
  PROVE  Fresh'
BY DEF Known, Fresh

\* Whatever is recorded as the one worker stops sending, no pass goes on.
LEMMA FreshEnd ==
  ASSUME Known, NEW i \in Instances, Working(i), pc'[i] # "sending",
         \A j \in Instances \ {i} : pc'[j] = pc[j]
  PROVE  Fresh'
<1>1. \A j \in Instances \ {i} : pc[j] # "sending" BY OneWorks DEF Working
<1> QED BY <1>1 DEF Fresh

\* A step that begins, ends or moves no pass, and lets go of no row.
LEMMA KnownFrame ==
  ASSUME Known, UNCHANGED <<status, token, leaseLeft, retryLeft, pc, plan, result>>,
         \A j \in Instances : queue'[j] \subseteq queue[j],
         \A s \in Store : \A ev \in history'[s] : OnRecord(ev)
  PROVE  DefersLater' /\ Drained' /\ Fresh'
<1>1. DefersLater' BY DEF Known, DefersLater, Later
<1>2. Drained' BY DEF Known, Drained, Resting, Claimable, Owns
<1>3. \A j \in Instances : Failed(j)' = Failed(j) BY DEF Failed
<1>4. Fresh' BY <1>3, RecordShrinks, FreshFrame
<1> QED BY <1>1, <1>2, <1>4

\* The goroutine that ends without a write keeps the row for the rest of its lease.
LEMMA KnownEnd ==
  ASSUME Known, Timely, NEW i \in Instances, EndPass(i), UNCHANGED <<row, history>>,
         \A j \in Instances : queue'[j] \subseteq queue[j]
  PROVE  DefersLater' /\ Drained' /\ Fresh'
<1> USE DEF row
<1>0. TypeOK /\ LeaseHeld BY DEF Known
<1>1. /\ pc'[i] = "idle"
      /\ \A j \in Instances \ {i} :
           pc'[j] = pc[j] /\ result'[j] = result[j] /\ plan'[j] = plan[j]
  BY <1>0, EndPassOthers
<1>2. DefersLater' BY <1>1 DEF Known, DefersLater, Later
<1>3. Fresh'
  <2>1. \A s \in Store : \A ev \in history'[s] : OnRecord(ev) BY DEF OnRecord
  <2>2. \A j \in Instances : pc'[j] = "sending" => pc[j] = "sending" /\ Failed(j)' \subseteq Failed(j)
    BY <1>1 DEF Failed
  <2> QED BY <2>1, <2>2, RecordShrinks, FreshFrame
<1>4. Drained'
  <2>1. CASE Working(i)
    <3>1. \A j \in Instances \ {i} : ~Working(j) BY <2>1, OneWorks
    <3>2. ~Claimable /\ Owns(i) BY <1>0, <2>1, HeldNotClaimable DEF LeaseHeld
    <3>3. ~Claimable' BY <3>2 DEF Claimable
    <3>4. \A j \in Instances : pc'[j] # "begun" /\ ~(pc'[j] = "claimed" /\ Owns(j)')
      BY <1>1, <3>1, <3>2 DEF Working, Owns
    <3>5. Resting' BY <3>3, <3>4 DEF Resting
    <3> QED BY <3>5 DEF Drained
  <2>2. CASE ~Working(i)
    <3>1. \A k \in Instances : pc[k] \in {"sending", "settling"} => pc'[k] = pc[k]
      BY <1>1, <2>2 DEF Working
    <3>2. Resting => Resting' BY <1>1 DEF Resting, Claimable, Owns
    <3> QED BY <3>1, <3>2 DEF Known, Drained
  <2> QED BY <2>1, <2>2
<1> QED BY <1>2, <1>3, <1>4

\* A delay the worker defers a message by is a positive one.
LEMMA DelayLater ==
  ASSUME NEW n \in Nat \ {0}, MayRetry(n), NEW m
  PROVE  Later(UpdatePlan("DEFERRED", m, DelayOf(n)))
<1>1. n \in 1..Len(Pattern) BY PatternAssumption DEF MayRetry
<1>2. Pattern[n] \in (Nat \ {0}) \cup {Unparsable} BY <1>1, PatternAssumption
<1>3. n * n > 0 OBVIOUS
<1>4. DelayOf(n) > 0 BY <1>2, <1>3 DEF DelayOf, Unparsable
<1> QED BY <1>4 DEF Later, UpdatePlan

\* The writes that close or park the row.
LEMMA ClosingLater == /\ Later(DeletePlan)
                      /\ \A n : Later(UpdatePlan("FAILED", n, 0))
BY DEF Later, DeletePlan, NoPlan, UpdatePlan

\* The one worker stops sending and plans its write: what it records on the way is
\* nobody's to read before the write.
LEMMA KnownSettle ==
  ASSUME Known, NEW i \in Instances, Working(i), NEW p, Later(p), ToSettle(i, p)
  PROVE  DefersLater' /\ Drained' /\ Fresh'
<1>1. /\ pc'[i] = "settling" /\ plan'[i] = p
      /\ \A j \in Instances \ {i} : pc'[j] = pc[j] /\ plan'[j] = plan[j]
  BY ToSettleOthers DEF Known
<1>2. DefersLater'
  <2>1. \A j \in Instances : pc'[j] = "settling" => Later(plan'[j])
    BY <1>1 DEF Known, DefersLater
  <2> QED BY <2>1 DEF DefersLater, Later
<1>3. Drained' BY <1>1 DEF Drained
<1>4. Fresh' BY <1>1, FreshEnd
<1> QED BY <1>2, <1>3, <1>4

\* A message-level failure plans a write that is later or the last.
LEMMA HandleFailureLater ==
  ASSUME TypeOK, NEW i \in Instances, NEW class, HandleFailure(i, class)
  PROVE  \E p : Later(p) /\ ToSettle(i, p)
<1>1. count[i] + 1 \in Nat \ {0} BY DEF TypeOK
<1>2. CASE class.retryable /\ MayRetry(count[i] + 1)
  BY <1>1, <1>2, DelayLater DEF HandleFailure
<1>3. CASE ~(class.retryable /\ MayRetry(count[i] + 1))
  BY <1>3, ClosingLater DEF HandleFailure
<1> QED BY <1>2, <1>3

\* And so does a pass judged recipient by recipient, which judges whom it failed.
LEMMA RecipientFailuresLater ==
  ASSUME TypeOK, NEW i \in Instances, HandleRecipientFailures(i)
  PROVE  /\ \E p : Later(p) /\ ToSettle(i, p)
         /\ \E final \in SUBSET Failed(i) :
              Judge(i, final, [r \in final |-> result[i][r].type])
<1> DEFINE retry   == Retryable(i)
           n       == IF retry # {} /\ ~Progress(i) THEN count[i] + 1 ELSE count[i]
           attempt == IF n = 0 THEN 1 ELSE n
           goOn    == retry # {} /\ MayRetry(attempt)
           final   == IF goOn THEN Failed(i) \ retry ELSE Failed(i)
           next    == IF goOn THEN UpdatePlan("DEFERRED", n, DelayOf(attempt))
                      ELSE IF retry = {} /\ Progress(i) THEN DeletePlan
                      ELSE UpdatePlan("FAILED", n, 0)
<1>1. Judge(i, final, [r \in final |-> result[i][r].type]) /\ ToSettle(i, next)
  BY DEF HandleRecipientFailures
<1>2. final \in SUBSET Failed(i) OBVIOUS
<1>3. attempt \in Nat \ {0} BY DEF TypeOK
<1>4. Later(next)
  <2>1. goOn => Later(UpdatePlan("DEFERRED", n, DelayOf(attempt)))
    <3> HIDE DEF n, attempt
    <3> QED BY <1>3, DelayLater
  <2> QED BY <2>1, ClosingLater
<1> HIDE DEF final, next
<1> QED BY <1>1, <1>2, <1>4

\* What a pass knows when it begins is still so when it is used.
LEMMA KnownStep ==
  ASSUME Shared, Known, [Next]_vars
  PROVE  Known'
<1> USE DEF row, lease, events, ghosts
<1>0. TypeOK /\ LeaseHeld /\ TypeOK' /\ LeaseHeld' /\ Timely /\ SharedEvents
  BY TypeStep, LeaseStep DEF Known, Shared
<1> DEFINE Goal == DefersLater' /\ Drained' /\ Fresh'
<1>1. OneHistory'
  <2>1. ASSUME NEW i \in Instances, Flush(i) PROVE OneHistory'
    <3>1. history' = [history EXCEPT ![SharedStore] = @ \cup queue[i]]
      BY <1>0, <2>1 DEF Flush, StoreOf
    <3> QED BY <1>0, <3>1 DEF Known, OneHistory, TypeOK
  <2>2. ASSUME UNCHANGED history PROVE OneHistory' BY <2>2 DEF Known, OneHistory
  <2>3. \A i \in Instances : Deliver(i) => UNCHANGED history
    BY DEF Deliver, HoldLease, LeaveClaimed, Undecodable, FailPass, PacePass, StopLost,
           BeginPass, FinishPass, Settle, SettleFails, Attempt, RecordDelivered, SkipCancelled
  <2>4. \A i \in Instances :
          ClaimPending(i) \/ Renew(i) \/ RenewFails(i) \/ FlushFails(i) \/ Crash(i) \/ CutDrain(i)
        => UNCHANGED history
    BY DEF ClaimPending, Renew, RenewFails, FlushFails, Crash, CutDrain
  <2>5. (\E r \in Recipients : SuppressRecipient(r)) \/ PruneTerminal \/ Tick \/ UNCHANGED vars
          => UNCHANGED history
    BY DEF SuppressRecipient, PruneTerminal, Tick, vars
  <2> QED BY <2>1, <2>2, <2>3, <2>4, <2>5 DEF Next
<1>2. ASSUME NEW i \in Instances, ClaimPending(i) PROVE Goal
  <2>1. \A j \in Instances : ~Working(j) BY <1>0, <1>2, HeldNotClaimable DEF ClaimPending
  <2>2. \A j \in Instances : queue[j] = {}
    BY <1>2, <2>1 DEF ClaimPending, Known, Drained, Resting, Working
  <2>3. \A j \in Instances : pc'[j] \notin {"begun", "sending", "settling"}
    BY <1>0, <1>2, <2>1 DEF ClaimPending, Working, TypeOK
  <2>4. UNCHANGED queue BY <1>2 DEF ClaimPending
  <2> QED BY <2>2, <2>3, <2>4 DEF DefersLater, Drained, Fresh
<1>3. ASSUME NEW i \in Instances, HoldLease(i) PROVE Goal
  <2>1. pc[i] = "claimed" /\ Owns(i) BY <1>3 DEF HoldLease
  <2>2. \A j \in Instances : ~Working(j) BY <1>0, <2>1 DEF LeaseHeld, Owns, Working
  <2>3. \A j \in Instances : queue[j] = {}
    BY <2>1, <2>2 DEF Known, Drained, Resting, Working
  <2>4. \A j \in Instances : pc'[j] \notin {"sending", "settling"}
    BY <1>0, <1>3, <2>2 DEF HoldLease, Working, TypeOK
  <2>5. UNCHANGED queue BY <1>3 DEF HoldLease
  <2> QED BY <2>3, <2>4, <2>5 DEF DefersLater, Drained, Fresh
<1>4. ASSUME NEW i \in Instances, LeaveClaimed(i) \/ StopLost(i) \/ SettleFails(i) \/ Crash(i)
      PROVE  Goal
  <2>1. EndPass(i) /\ UNCHANGED <<row, history>>
    BY <1>4 DEF LeaveClaimed, StopLost, SettleFails, Crash
  <2>2. \A j \in Instances : queue'[j] \subseteq queue[j]
    BY <1>0, <1>4 DEF LeaveClaimed, StopLost, SettleFails, Crash, TypeOK
  <2> QED BY <1>0, <2>1, <2>2, KnownEnd
<1>5. ASSUME NEW i \in Instances, Renew(i) \/ RenewFails(i) \/ CutDrain(i) PROVE Goal
  <2>1. UNCHANGED <<status, token, retryLeft, pc, plan, result, queue, history>>
    BY <1>5 DEF Renew, RenewFails, CutDrain
  <2>2. Working(i) /\ Working(i)' BY <1>5, <2>1 DEF Renew, RenewFails, CutDrain, Working
  <2>3. DefersLater' BY <2>1 DEF Known, DefersLater, Later
  <2>4. Fresh'
    <3>1. \A s \in Store : \A ev \in history'[s] : OnRecord(ev) BY <2>1 DEF OnRecord
    <3>2. \A j \in Instances :
            pc'[j] = "sending" => pc[j] = "sending" /\ Failed(j)' \subseteq Failed(j)
      BY <2>1 DEF Failed
    <3> QED BY <2>1, <3>1, <3>2, RecordShrinks, FreshFrame
  <2>5. Drained'
    <3>1. CASE pc[i] = "begun" BY <2>1, <3>1, BegunDrained DEF Drained
    <3>2. CASE pc[i] # "begun" BY <2>1, <2>2, <3>2 DEF Drained, Working
    <3> QED BY <3>1, <3>2
  <2> QED BY <2>3, <2>4, <2>5
<1>6. ASSUME NEW i \in Instances, Undecodable(i) \/ FailPass(i) \/ PacePass(i) PROVE Goal
  <2>1. Working(i) BY <1>6 DEF Undecodable, FailPass, PacePass, Working
  <2>2. \E p : Later(p) /\ ToSettle(i, p)
    <3>1. CASE Undecodable(i) BY <3>1, ClosingLater DEF Undecodable
    <3>2. CASE FailPass(i) BY <1>0, <3>2, HandleFailureLater DEF FailPass
    <3>3. CASE PacePass(i)
      <4>1. Later(UpdatePlan("DEFERRED", count[i], PaceDelay))
        BY ConstantsAssumption DEF Later, UpdatePlan
      <4> QED BY <3>3, <4>1 DEF PacePass
    <3> QED BY <1>6, <3>1, <3>2, <3>3
  <2> QED BY <2>1, <2>2, KnownSettle
<1>7. ASSUME NEW i \in Instances, BeginPass(i) PROVE Goal
  <2> DEFINE due == Open(i) \ Dropped(i)
  <2>0. PICK tried \in {due, {}} :
          result' = [result EXCEPT ![i] =
                       [r \in Recipients |-> IF r \in tried THEN Todo ELSE Skip]]
    BY <1>7 DEF BeginPass
  <2>1. /\ pc[i] = "begun" /\ pc' = [pc EXCEPT ![i] = "sending"]
        /\ Drop(i) /\ UNCHANGED <<row, plan, history>>
    BY <1>7 DEF BeginPass
  <2>2. \A j \in Instances \ {i} : ~Working(j) BY <2>1, OneWorks DEF Working
  <2>3. pc'[i] = "sending" /\ \A j \in Instances \ {i} : pc'[j] = pc[j]
    BY <1>0, <2>1 DEF TypeOK
  <2>4. \A r \in Recipients \ Finished(i) : ~FinishedOnRecord(r) BY <1>0, <2>1, BegunFresh
  <2>5. Failed(i)' \subseteq due
    <3> HIDE DEF due
    <3>1. tried \subseteq due OBVIOUS
    <3>2. \A r \in Recipients : result'[i][r] = IF r \in tried THEN Todo ELSE Skip
      BY <1>0, <2>0 DEF TypeOK
    <3> QED BY <3>1, <3>2 DEF Failed
  <2>6. \A r \in due : ~FinishedOnRecord(r)'
    <3> SUFFICES ASSUME NEW r \in due, NEW t \in FinishedTypes, OnRecord(<<r, t>>)'
                 PROVE  OnRecord(<<r, t>>)
      BY <2>4 DEF FinishedOnRecord, Open
    <3>1. \A j \in Instances : <<r, t>> \in queue'[j] => <<r, t>> \in queue[j]
      BY <1>0, <2>1, DropAdds
    <3> QED BY <2>1, <3>1 DEF OnRecord
  <2>7. Fresh' BY <2>2, <2>3, <2>5, <2>6 DEF Fresh, Working
  <2>8. DefersLater' BY <2>1, <2>3 DEF Known, DefersLater, Later
  <2> QED BY <2>3, <2>7, <2>8 DEF Drained
<1>8. ASSUME NEW i \in Instances, NEW r \in Recipients, Attempt(i, r) \/ SkipCancelled(i, r)
      PROVE  Goal
  <2>1. /\ pc[i] = "sending" /\ result[i][r] = Todo
        /\ UNCHANGED <<row, pc, plan, queue, history>> /\ \E o : Resolve(i, r, o)
    BY <1>8 DEF Attempt, SkipCancelled
  <2>2. \A j \in Instances, x \in Recipients : j # i \/ x # r => result'[j][x] = result[j][x]
    BY <1>0, <2>1 DEF Resolve, TypeOK
  <2>3. Todo \notin {Skip, Delivered} BY DEF Todo, Skip, Delivered, Verdict
  <2>4. \A j \in Instances : Failed(j)' \subseteq Failed(j) BY <2>1, <2>2, <2>3 DEF Failed
  <2>5. \A s \in Store : \A ev \in history'[s] : OnRecord(ev) BY <2>1 DEF OnRecord
  <2>6. Fresh' BY <2>1, <2>4, <2>5, RecordShrinks, FreshFrame
  <2>7. DefersLater' BY <2>1 DEF Known, DefersLater, Later
  <2> QED BY <2>1, <2>6, <2>7 DEF Drained
<1>9. ASSUME NEW i \in Instances, NEW r \in Recipients, RecordDelivered(i, r) PROVE Goal
  <2>1. /\ pc[i] = "sending" /\ result' = [result EXCEPT ![i][r] = Delivered]
        /\ UNCHANGED <<row, pc, plan, history>>
        /\ queue' = [queue EXCEPT ![i] = @ \cup {<<r, "DELIVERED">>}] \/ UNCHANGED queue
    BY <1>9 DEF RecordDelivered, Resolve
  <2>2. \A j \in Instances \ {i} : pc[j] # "sending" BY <2>1, OneWorks DEF Working
  <2>3. Failed(i)' = Failed(i) \ {r} BY <1>0, <2>1 DEF Failed, TypeOK
  <2>4. \A j \in Instances : \A ev \in queue'[j] : ev \in queue[j] \/ ev = <<r, "DELIVERED">>
    <3>1. CASE queue' = [queue EXCEPT ![i] = @ \cup {<<r, "DELIVERED">>}]
      BY <1>0, <3>1 DEF TypeOK
    <3>2. CASE UNCHANGED queue BY <3>2
    <3> QED BY <2>1, <3>1, <3>2
  <2>5. \A x \in Recipients \ {r} : FinishedOnRecord(x)' => FinishedOnRecord(x)
    BY <2>1, <2>4 DEF FinishedOnRecord, OnRecord
  <2>6. Failed(i)' \subseteq Recipients \ {r} BY <2>3 DEF Failed
  <2>7. Fresh' BY <2>1, <2>2, <2>3, <2>5, <2>6 DEF Known, Fresh
  <2>8. DefersLater' BY <2>1 DEF Known, DefersLater, Later
  <2> QED BY <2>1, <2>7, <2>8 DEF Drained
<1>10. ASSUME NEW i \in Instances, FinishPass(i) PROVE Goal
  <2>1. Working(i) /\ ~lost[i] BY <1>0, <1>10 DEF FinishPass, Working, LeaseHeld
  <2>2. \E p : Later(p) /\ ToSettle(i, p)
    BY <1>0, <1>10, <2>1, ClosingLater, RecipientFailuresLater DEF FinishPass
  <2> QED BY <2>1, <2>2, KnownSettle
<1>11. ASSUME NEW i \in Instances, Settle(i) PROVE Goal
  <2>1. EndPass(i) /\ UNCHANGED events /\ pc[i] = "settling" BY <1>11 DEF Settle
  <2>2. Working(i) /\ Owns(i) BY <1>0, <2>1 DEF Working, LeaseHeld
  <2>3. \A j \in Instances \ {i} : ~Working(j) BY <2>2, OneWorks
  <2>4. \A j \in Instances : ~Working(j)' BY <1>0, <2>1, <2>3, EndPassFrame DEF Working
  <2>5. token' = NoInstance BY <1>11, <2>2 DEF Settle, Owns
  <2>6. ~Claimable'
    <3>1. Later(plan[i]) /\ plan[i].delay \in Nat BY <1>0, <2>1 DEF Known, DefersLater, TypeOK
    <3>2. \/ status' = "GONE"
          \/ plan[i].op = "update" /\ status' = plan[i].status /\ retryLeft' = plan[i].delay
      BY <1>11 DEF Settle
    <3> QED BY <3>1, <3>2 DEF Later, Claimable
  <2>7. Resting' BY <2>4, <2>5, <2>6, TokenAssumption DEF Resting, Working, Owns
  <2> QED BY <2>4, <2>7 DEF DefersLater, Drained, Fresh, Working
<1>12. ASSUME NEW i \in Instances, Flush(i) \/ FlushFails(i) PROVE Goal
  <2>1. /\ queue' = [queue EXCEPT ![i] = {}] /\ UNCHANGED <<row, pc, plan, result>>
        /\ history' = [history EXCEPT ![StoreOf(i)] = @ \cup queue[i]] \/ UNCHANGED history
    BY <1>12 DEF Flush, FlushFails
  <2>2. \A s \in Store : \A ev \in history'[s] : ev \in history[s] \/ ev \in queue[i]
    <3>1. CASE history' = [history EXCEPT ![StoreOf(i)] = @ \cup queue[i]]
      BY <1>0, <3>1 DEF TypeOK
    <3>2. CASE UNCHANGED history BY <3>2
    <3> QED BY <2>1, <3>1, <3>2
  <2>3. \A j \in Instances : queue'[j] \subseteq queue[j] BY <1>0, <2>1 DEF TypeOK
  <2>4. \A s \in Store : \A ev \in history'[s] : OnRecord(ev) BY <2>2 DEF OnRecord
  <2> QED BY <2>1, <2>3, <2>4, KnownFrame
<1>13. ASSUME NEW r \in Recipients, SuppressRecipient(r) PROVE Goal
  <2>1. UNCHANGED <<row, pc, plan, result, queue, history>> BY <1>13 DEF SuppressRecipient
  <2>2. \A s \in Store : \A ev \in history'[s] : OnRecord(ev) BY <2>1 DEF OnRecord
  <2> QED BY <2>1, <2>2, KnownFrame
<1>14. ASSUME PruneTerminal PROVE Goal
  <2>1. \A j \in Instances : ~Working(j) BY <1>0, <1>14 DEF PruneTerminal, LeaseHeld, Owns
  <2>2. UNCHANGED <<pc, queue>> /\ status' = "GONE" BY <1>14 DEF PruneTerminal
  <2>3. Resting' BY <2>1, <2>2 DEF Resting, Claimable, Owns, Working
  <2> QED BY <2>1, <2>2, <2>3 DEF DefersLater, Drained, Fresh, Working
<1>15. ASSUME Tick PROVE Goal
  <2>1. /\ \A j \in Instances : queue[j] = {}
        /\ UNCHANGED <<pc, plan, result, queue, history>>
    BY <1>15 DEF Tick
  <2>2. \A s \in Store : \A ev \in history'[s] : OnRecord(ev) BY <2>1 DEF OnRecord
  <2>3. \A j \in Instances : Failed(j)' = Failed(j) BY <2>1 DEF Failed
  <2>4. Fresh' BY <2>1, <2>2, <2>3, RecordShrinks, FreshFrame
  <2>5. DefersLater' BY <2>1 DEF Known, DefersLater, Later
  <2> QED BY <2>1, <2>4, <2>5 DEF Drained
<1>16. ASSUME UNCHANGED vars PROVE Goal
  <2>1. UNCHANGED <<row, pc, plan, result, queue, history>> BY <1>16 DEF vars
  <2>2. \A s \in Store : \A ev \in history'[s] : OnRecord(ev) BY <2>1 DEF OnRecord
  <2> QED BY <2>1, <2>2, KnownFrame
<1>17. Goal
  BY <1>2, <1>3, <1>4, <1>5, <1>6, <1>7, <1>8, <1>9, <1>10, <1>11, <1>12, <1>13, <1>14,
     <1>15, <1>16 DEF Next, Deliver
<1> QED BY <1>0, <1>1, <1>17 DEF Known

\* Where it holds at first it always holds.
THEOREM PassesKnow == Shared /\ Spec => []Known
<1>1. Init => Known
  <2> SUFFICES ASSUME Init PROVE Known OBVIOUS
  <2>1. TypeOK
    BY ConstantsAssumption, PlanTypes DEF Init, TypeOK, PlanType, Outcome, Skip
  <2> QED BY <2>1
       DEF Init, Known, LeaseHeld, Working, OneHistory, DefersLater, Drained, Fresh
<1>2. Shared /\ Known /\ [Next]_vars => Known' BY KnownStep
<1>3. Shared => Shared' BY DEF Shared, Timely
<1> QED BY <1>1, <1>2, <1>3, PTL DEF Spec

\* A copy is given only to whom nothing on record has finished with.
LEMMA CopiesFresh ==
  ASSUME Known, [Next]_vars
  PROVE  again' = again
<1> USE DEF row, lease, events, ghosts
<1>1. ASSUME NEW i \in Instances, NEW r \in Recipients, Attempt(i, r) PROVE again' = again
  <2>1. r \in Failed(i)
    BY <1>1 DEF Attempt, Failed, Todo, Skip, Delivered, Verdict
  <2>2. ~FinishedOnRecord(r) BY <1>1, <2>1 DEF Known, Fresh, Attempt
  <2> QED BY <1>1, <2>2 DEF Attempt, Copy
<1>2. \A i \in Instances :
        \/ HoldLease(i) \/ LeaveClaimed(i) \/ Undecodable(i) \/ FailPass(i) \/ PacePass(i)
        \/ StopLost(i) \/ BeginPass(i) \/ FinishPass(i) \/ Settle(i) \/ SettleFails(i)
        \/ (\E r \in Recipients : RecordDelivered(i, r) \/ SkipCancelled(i, r))
      => again' = again
  BY DEF HoldLease, LeaveClaimed, Undecodable, FailPass, PacePass, StopLost, BeginPass,
         FinishPass, Settle, SettleFails, RecordDelivered, SkipCancelled
<1>3. \A i \in Instances :
        \/ ClaimPending(i) \/ Renew(i) \/ RenewFails(i) \/ Flush(i) \/ FlushFails(i)
        \/ Crash(i) \/ CutDrain(i)
      => again' = again
  BY DEF ClaimPending, Renew, RenewFails, Flush, FlushFails, Crash, CutDrain
<1>4. (\E r \in Recipients : SuppressRecipient(r)) \/ PruneTerminal \/ Tick \/ UNCHANGED vars
      => again' = again
  BY DEF SuppressRecipient, PruneTerminal, Tick, vars
<1> QED BY <1>1, <1>2, <1>3, <1>4 DEF Next, Deliver

\* Where instances share the history and leases are held in time, nobody whom the
\* history has finished with is sent a second copy: not by a retry, not after a
\* crash or a cut drain, and not by another instance (docs/PRD.md D2; doSend,
\* send_email_usecase.go, finishedFrom).
THEOREM OneCopyEach == Shared /\ Spec => []NoSecondCopy
<1>1. Init => NoSecondCopy BY DEF Init, NoSecondCopy
<1>2. Known /\ NoSecondCopy /\ [Next]_vars => NoSecondCopy' BY CopiesFresh DEF NoSecondCopy
<1> QED BY <1>1, <1>2, PassesKnow, PTL DEF Spec

\* A final verdict falls on whom nothing on record has finished with.
LEMMA VerdictsFresh ==
  ASSUME Known, SharedEvents, ~HistoryMayFail, [Next]_vars
  PROVE  wronged' = wronged
<1> USE DEF row, lease, events, ghosts
<1>0. TypeOK BY DEF Known
<1>1. ASSUME NEW i \in Instances, NEW rs, NEW type, Judge(i, rs, type),
             \A r \in rs : ~FinishedOnRecord(r)
      PROVE  wronged' = wronged
  <2>1. \A r \in rs : ~OnRecord(<<r, "DELIVERED">>)
    BY <1>1 DEF FinishedOnRecord, FinishedTypes
  <2> QED BY <1>1, <2>1 DEF Judge
<1>2. ASSUME NEW i \in Instances, FailPass(i) PROVE wronged' = wronged
  <2>1. PICK class : HandleFailure(i, class) BY <1>2 DEF FailPass
  <2>2. ASSUME NEW rs \in Unfinished(i), Judge(i, rs, [r \in rs |-> class.type])
        PROVE  wronged' = wronged
    <3>1. rs = Recipients \ Finished(i) BY <2>2 DEF Unfinished
    <3>2. \A r \in rs : ~FinishedOnRecord(r) BY <1>2, <3>1, BegunFresh DEF FailPass
    <3> QED BY <1>1, <2>2, <3>2
  <2> QED BY <2>1, <2>2 DEF HandleFailure
<1>3. ASSUME NEW i \in Instances, FinishPass(i) PROVE wronged' = wronged
  <2>1. CASE HandleRecipientFailures(i)
    <3>1. PICK final \in SUBSET Failed(i) :
            Judge(i, final, [r \in final |-> result[i][r].type])
      BY <1>0, <2>1, RecipientFailuresLater
    <3>2. \A r \in final : ~FinishedOnRecord(r) BY <1>3 DEF FinishPass, Known, Fresh
    <3> QED BY <1>1, <3>1, <3>2
  <2>2. CASE ~HandleRecipientFailures(i) BY <1>3, <2>2 DEF FinishPass
  <2> QED BY <2>1, <2>2
<1>4. \A i \in Instances :
        \/ HoldLease(i) \/ LeaveClaimed(i) \/ Undecodable(i) \/ PacePass(i) \/ StopLost(i)
        \/ BeginPass(i) \/ Settle(i) \/ SettleFails(i)
        \/ (\E r \in Recipients : Attempt(i, r) \/ RecordDelivered(i, r) \/ SkipCancelled(i, r))
      => wronged' = wronged
  BY DEF HoldLease, LeaveClaimed, Undecodable, PacePass, StopLost, BeginPass, Settle,
         SettleFails, Attempt, RecordDelivered, SkipCancelled
<1>5. \A i \in Instances :
        \/ ClaimPending(i) \/ Renew(i) \/ RenewFails(i) \/ Flush(i) \/ FlushFails(i)
        \/ Crash(i) \/ CutDrain(i)
      => wronged' = wronged
  BY DEF ClaimPending, Renew, RenewFails, Flush, FlushFails, Crash, CutDrain
<1>6. (\E r \in Recipients : SuppressRecipient(r)) \/ PruneTerminal \/ Tick \/ UNCHANGED vars
      => wronged' = wronged
  BY DEF SuppressRecipient, PruneTerminal, Tick, vars
<1> QED BY <1>2, <1>3, <1>4, <1>5, <1>6 DEF Next, Deliver

\* Nothing is recorded against a recipient that was delivered, by whatever pass
\* and for whatever failure, provided the history can be read when a message is
\* given up (handleFailure and handleRecipientFailures, queue_worker.go).
THEOREM DeliveredIsNotFailed ==
  Shared /\ ~HistoryMayFail /\ Spec => []DeliveredNeverFailed
<1>1. Init => DeliveredNeverFailed BY DEF Init, DeliveredNeverFailed
<1>2. Shared /\ ~HistoryMayFail /\ Known /\ DeliveredNeverFailed /\ [Next]_vars
        => DeliveredNeverFailed'
  BY VerdictsFresh DEF DeliveredNeverFailed, Shared
<1>3. Shared => Shared' BY DEF Shared, Timely
<1>4. ~HistoryMayFail => ~HistoryMayFail' OBVIOUS
<1> QED BY <1>1, <1>2, <1>3, <1>4, PassesKnow, PTL DEF Spec
-----------------------------------------------------------------------------
(***************************************************************************)
(* How many passes go uncounted.                                           *)
(*                                                                         *)
(* A pass is not counted when it delivered to somebody.  Each one leaves   *)
(* behind a delivery in the history, a lost event batch, or its events     *)
(* still uncommitted, of which there is one batch at most: Credit.  While  *)
(* a pass that made progress goes on it has one of them to spare.          *)
(***************************************************************************)

InHistory == {r \in Recipients : <<r, "DELIVERED">> \in history[SharedStore]}
InQueueOf(i) == {r \in Recipients : <<r, "DELIVERED">> \in queue[i]}
InQueue == UNION {InQueueOf(i) : i \in Instances}

Credit == losses + Cardinality(InHistory) + (IF InQueue = {} THEN 0 ELSE 1)

\* A delivery is accepted by one writer, and not when it is in the history.
AcceptedOnce ==
  /\ InHistory \cap InQueue = {}
  /\ \A i, j \in Instances : i # j => InQueueOf(i) \cap InQueueOf(j) = {}

Spare ==
  \A i \in Instances : pc[i] = "sending" =>
    IF Progress(i) THEN free < Credit ELSE InQueue = {}

Earned == AcceptedOnce /\ free <= Credit /\ Spare /\ UncountedPassesExplained

\* A proper subset of a finite set is smaller.
LEMMA SmallerSubset ==
  ASSUME NEW T, IsFiniteSet(T), NEW S \in SUBSET T, S # T
  PROVE  Cardinality(S) + 1 <= Cardinality(T)
<1>1. /\ IsFiniteSet(S) /\ Cardinality(S) <= Cardinality(T)
      /\ Cardinality(S) = Cardinality(T) => S = T
  BY FS_Subset
<1>2. Cardinality(S) \in Nat /\ Cardinality(T) \in Nat BY <1>1, FS_CardinalityType
<1> QED BY <1>1, <1>2

\* The counts are natural numbers.
LEMMA CreditType ==
  /\ Cardinality(Recipients) \in Nat
  /\ \A S \in SUBSET Recipients : IsFiniteSet(S) /\ Cardinality(S) \in Nat
BY ConstantsAssumption, FS_Subset, FS_CardinalityType

\* Whoever is not finished with leaves room for one more uncounted pass.
LEMMA CreditBound ==
  ASSUME TypeOK, AcceptedOnce, NEW r \in Recipients, r \notin InHistory, r \notin InQueue
  PROVE  Credit <= Cardinality(Recipients) - 1 + losses
<1> DEFINE all == InHistory \cup InQueue
<1>1. all \in SUBSET Recipients /\ all # Recipients BY DEF InHistory, InQueue, InQueueOf
<1>2. InHistory \in SUBSET all OBVIOUS
<1>3. IsFiniteSet(Recipients) /\ IsFiniteSet(all) BY <1>1, CreditType, ConstantsAssumption
<1>4. Cardinality(all) + 1 <= Cardinality(Recipients) BY <1>1, <1>3, SmallerSubset
<1>5. /\ Cardinality(all) \in Nat /\ Cardinality(InHistory) \in Nat
      /\ Cardinality(Recipients) \in Nat /\ losses \in Nat
  BY <1>1, CreditType DEF InHistory, TypeOK
<1>6. CASE InQueue = {}
  <2>1. all = InHistory BY <1>6
  <2> QED BY <1>4, <1>5, <1>6, <2>1 DEF Credit
<1>7. CASE InQueue # {}
  <2>1. InHistory # all BY <1>7 DEF AcceptedOnce
  <2>2. Cardinality(InHistory) + 1 <= Cardinality(all) BY <1>2, <1>3, <2>1, SmallerSubset
  <2> HIDE DEF all
  <2> QED BY <1>4, <1>5, <1>7, <2>2 DEF Credit
<1> QED BY <1>6, <1>7

\* Credit is kept while deliveries only leave the queue, paid for.
LEMMA EarnedFrame ==
  ASSUME TypeOK, TypeOK', Earned, free' = free, Credit <= Credit', losses <= losses',
         AcceptedOnce', InQueue' \subseteq InQueue,
         \A j \in Instances :
           pc'[j] = "sending" => pc[j] = "sending" /\ Progress(j)' = Progress(j)
  PROVE  Earned'
<1>1. /\ Credit \in Int /\ Credit' \in Int /\ losses \in Nat /\ losses' \in Nat /\ free \in Nat
      /\ Cardinality(Recipients) \in Nat
  <2>1. Cardinality(InHistory) \in Nat /\ Cardinality(InHistory') \in Nat
    BY CreditType DEF InHistory
  <2> QED BY <2>1, CreditType DEF Credit, TypeOK
<1>2. free' <= Credit' BY <1>1 DEF Earned
<1>3. Spare' BY <1>1 DEF Earned, Spare
<1>4. UncountedPassesExplained' BY <1>1 DEF Earned, UncountedPassesExplained
<1> QED BY <1>2, <1>3, <1>4 DEF Earned

\* Steps that touch no delivery on record.
LEMMA EarnedStill ==
  ASSUME TypeOK, TypeOK', Earned, UNCHANGED <<free, losses, InHistory>>,
         \A j \in Instances : InQueueOf(j)' = InQueueOf(j),
         \A j \in Instances :
           pc'[j] = "sending" => pc[j] = "sending" /\ Progress(j)' = Progress(j)
  PROVE  Earned'
<1>1. InQueue' = InQueue BY DEF InQueue
<1>2. Credit' = Credit BY <1>1 DEF Credit
<1>3. AcceptedOnce' BY <1>1 DEF Earned, AcceptedOnce
<1>4. Cardinality(InHistory) \in Nat /\ losses \in Nat BY CreditType DEF InHistory, TypeOK
<1>5. Credit \in Int BY <1>4 DEF Credit
<1> QED BY <1>1, <1>2, <1>3, <1>4, <1>5, EarnedFrame

\* A batch that is lost costs a loss, and one that is committed is in the history.
LEMMA EarnedLoss ==
  ASSUME TypeOK, TypeOK', Earned, NEW i \in Instances, queue' = [queue EXCEPT ![i] = {}],
         losses' = losses + 1, UNCHANGED <<free, history>>,
         \A j \in Instances :
           pc'[j] = "sending" => pc[j] = "sending" /\ Progress(j)' = Progress(j)
  PROVE  Earned'
<1>1. \A j \in Instances : InQueueOf(j)' \subseteq InQueueOf(j) BY DEF InQueueOf, TypeOK
<1>2. InQueue' \subseteq InQueue BY <1>1 DEF InQueue
<1>3. InHistory' = InHistory BY DEF InHistory
<1>4. AcceptedOnce' BY <1>1, <1>2, <1>3 DEF Earned, AcceptedOnce
<1>5. Cardinality(InHistory) \in Nat /\ losses \in Nat BY CreditType DEF InHistory, TypeOK
<1>6. Credit <= Credit' /\ losses <= losses' BY <1>3, <1>5 DEF Credit
<1> QED BY <1>2, <1>4, <1>6, EarnedFrame

\* Verdicts other than a delivery are no delivery.
LEMMA JudgeNoDelivery ==
  ASSUME TypeOK, NEW i \in Instances, NEW rs, NEW type \in [rs -> VerdictType],
         Judge(i, rs, type)
  PROVE  \A j \in Instances : InQueueOf(j)' = InQueueOf(j)
<1>1. queue' = [queue EXCEPT ![i] = @ \cup {<<r, type[r]>> : r \in rs}] BY DEF Judge
<1>2. \A r : <<r, "DELIVERED">> \notin {<<x, type[x]>> : x \in rs} BY DEF VerdictType
<1>3. \A j \in Instances : \A r : <<r, "DELIVERED">> \in queue'[j] <=> <<r, "DELIVERED">> \in queue[j]
  BY <1>1, <1>2 DEF TypeOK
<1> QED BY <1>3 DEF InQueueOf

\* Every uncounted pass is paid for.
LEMMA EarnedStep ==
  ASSUME Shared, Known, Known', Earned, [Next]_vars
  PROVE  Earned'
<1> USE DEF row, lease, events, ghosts
<1>0. TypeOK /\ TypeOK' /\ LeaseHeld /\ SharedEvents BY DEF Known, Shared
<1>1. ASSUME UNCHANGED <<free, losses, history, queue>>,
             \A j \in Instances : pc'[j] # "sending" \/ (pc'[j] = pc[j] /\ result'[j] = result[j])
      PROVE  Earned'
  <2>1. InHistory' = InHistory /\ \A j \in Instances : InQueueOf(j)' = InQueueOf(j)
    BY <1>1 DEF InHistory, InQueueOf
  <2>2. \A j \in Instances :
          pc'[j] = "sending" => pc[j] = "sending" /\ Progress(j)' = Progress(j)
    BY <1>1 DEF Progress
  <2> QED BY <1>0, <1>1, <2>1, <2>2, EarnedStill
<1>2. ASSUME NEW i \in Instances,
             \/ ClaimPending(i) \/ HoldLease(i) \/ Renew(i) \/ RenewFails(i) \/ CutDrain(i)
             \/ Undecodable(i)
      PROVE  Earned'
  <2>1. UNCHANGED <<free, losses, history, queue, result>>
    BY <1>2 DEF ClaimPending, HoldLease, Renew, RenewFails, CutDrain, Undecodable
  <2>2. \A j \in Instances : pc'[j] # "sending" \/ pc'[j] = pc[j]
    BY <1>0, <1>2 DEF ClaimPending, HoldLease, Renew, RenewFails, CutDrain, Undecodable,
                      ToSettle, TypeOK
  <2> QED BY <1>1, <2>1, <2>2
<1>2a. ASSUME NEW i \in Instances, PacePass(i) PROVE Earned'
  <2>1. Drop(i) /\ UNCHANGED <<free, losses, history, result>> BY <1>2a DEF PacePass
  <2>2. \A j \in Instances : InQueueOf(j)' = InQueueOf(j) BY <1>0, <2>1, DropAdds DEF InQueueOf
  <2>3. \A j \in Instances : pc'[j] = "sending" => pc[j] = "sending" /\ Progress(j)' = Progress(j)
    BY <1>0, <1>2a, <2>1, ToSettleOthers DEF PacePass, Progress
  <2>4. InHistory' = InHistory BY <2>1 DEF InHistory
  <2> QED BY <1>0, <2>1, <2>2, <2>3, <2>4, EarnedStill
<1>3. ASSUME NEW i \in Instances,
             LeaveClaimed(i) \/ StopLost(i) \/ SettleFails(i) \/ Settle(i)
      PROVE  Earned'
  <2>1. EndPass(i) /\ UNCHANGED <<free, losses, history, queue>>
    BY <1>3 DEF LeaveClaimed, StopLost, SettleFails, Settle
  <2>2. \A j \in Instances : pc'[j] # "sending" \/ (pc'[j] = pc[j] /\ result'[j] = result[j])
    BY <1>0, <2>1, EndPassOthers
  <2> QED BY <1>1, <2>1, <2>2
<1>4. ASSUME NEW i \in Instances, FailPass(i) PROVE Earned'
  <2>1. PICK class \in Class : HandleFailure(i, class)
    <3>1. \A e \in PassErrors : ClassifyError(e) \in Class BY ClassifyType, ConstantsAssumption
    <3>2. ClassifyError(Cancelled) \in Class BY CancelledType, ClassifyType
    <3>3. Verdict("REJECTED", FALSE) \in Class BY DEF Verdict, Class, VerdictType
    <3> QED BY <1>4, <3>1, <3>2, <3>3 DEF FailPass
  <2>2. UNCHANGED <<free, losses, history, result>> BY <1>4 DEF FailPass
  <2>3. \A j \in Instances : InQueueOf(j)' = InQueueOf(j)
    <3>1. ASSUME NEW rs \in Unfinished(i), Judge(i, rs, [r \in rs |-> class.type])
          PROVE  \A j \in Instances : InQueueOf(j)' = InQueueOf(j)
      <4>1. [r \in rs |-> class.type] \in [rs -> VerdictType] BY <2>1 DEF Class
      <4> QED BY <1>0, <3>1, <4>1, JudgeNoDelivery
    <3>2. ASSUME UNCHANGED queue PROVE \A j \in Instances : InQueueOf(j)' = InQueueOf(j)
      BY <3>2 DEF InQueueOf
    <3> QED BY <2>1, <3>1, <3>2 DEF HandleFailure
  <2>4. \E p : ToSettle(i, p) BY <2>1 DEF HandleFailure
  <2>5. \A j \in Instances : pc'[j] = "sending" => pc[j] = "sending" /\ Progress(j)' = Progress(j)
    BY <1>0, <2>2, <2>4, ToSettleOthers DEF Progress
  <2>6. InHistory' = InHistory BY <2>2 DEF InHistory
  <2> QED BY <1>0, <2>2, <2>3, <2>5, <2>6, EarnedStill
<1>5. ASSUME NEW i \in Instances, BeginPass(i) PROVE Earned'
  <2>1. /\ pc[i] = "begun" /\ pc' = [pc EXCEPT ![i] = "sending"]
        /\ Drop(i) /\ UNCHANGED <<free, losses, history>>
    BY <1>5 DEF BeginPass
  <2>2. \A j \in Instances : \A r : <<r, "DELIVERED">> \in queue'[j] => <<r, "DELIVERED">> \in queue[j]
    BY <1>0, <2>1, DropAdds
  <2>3. \A j \in Instances : InQueueOf(j)' = {} /\ InQueueOf(j) = {}
    BY <2>1, <2>2, BegunDrained DEF InQueueOf
  <2>4. InQueue' = {} /\ InQueue = {} BY <2>3 DEF InQueue
  <2>5. InHistory' = InHistory /\ Credit' = Credit BY <2>1, <2>4 DEF InHistory, Credit
  <2>6. ~Progress(i)'
    <3>1. \A r \in Recipients : result'[i][r] \in {Todo, Skip} BY <1>0, <1>5 DEF BeginPass, TypeOK
    <3> QED BY <3>1 DEF Progress, Todo, Skip, Delivered, Verdict
  <2>7. \A j \in Instances \ {i} : pc'[j] # "sending"
    BY <1>0, <2>1, OneWorks DEF Working, TypeOK
  <2>8. Spare' BY <2>4, <2>6, <2>7 DEF Spare
  <2>9. AcceptedOnce' BY <2>3, <2>4 DEF AcceptedOnce
  <2> QED BY <2>1, <2>5, <2>8, <2>9 DEF Earned, UncountedPassesExplained
<1>6. ASSUME NEW i \in Instances, NEW r \in Recipients, Attempt(i, r) \/ SkipCancelled(i, r)
      PROVE  Earned'
  <2>1. /\ pc[i] = "sending" /\ result[i][r] = Todo
        /\ UNCHANGED <<pc, free, losses, history, queue>>
    BY <1>6 DEF Attempt, SkipCancelled
  <2>2. PICK o : Resolve(i, r, o) /\ o # Delivered
    <3>1. \A e \in ReplyErrors : ClassifyError(e) \in Class BY ClassifyType, ConstantsAssumption
    <3>2. ClassifyError(Cancelled) \in Class BY CancelledType, ClassifyType
    <3>3. Accepted # Delivered BY DEF Accepted, Delivered, Verdict
    <3> QED BY <1>6, <3>1, <3>2, <3>3, ClassIsNoMark DEF Attempt, SkipCancelled
  <2>3. /\ result'[i][r] = o
        /\ \A j \in Instances, x \in Recipients : j # i \/ x # r => result'[j][x] = result[j][x]
    BY <1>0, <2>2 DEF Resolve, TypeOK
  <2>4. Todo # Delivered BY DEF Todo, Delivered, Verdict
  <2>5. \A j \in Instances : Progress(j)' = Progress(j) BY <2>1, <2>2, <2>3, <2>4 DEF Progress
  <2>6. InHistory' = InHistory /\ \A j \in Instances : InQueueOf(j)' = InQueueOf(j)
    BY <2>1 DEF InHistory, InQueueOf
  <2> QED BY <1>0, <2>1, <2>5, <2>6, EarnedStill
<1>7. ASSUME NEW i \in Instances, NEW r \in Recipients, RecordDelivered(i, r) PROVE Earned'
  <2>1. /\ pc[i] = "sending" /\ result[i][r] = Accepted /\ Resolve(i, r, Delivered)
        /\ UNCHANGED <<pc, free, history>>
    BY <1>7 DEF RecordDelivered
  <2>2. Progress(i)'
    BY <1>0, <2>1 DEF Resolve, Progress, TypeOK
  <2>3. \A j \in Instances \ {i} : pc'[j] # "sending"
    BY <2>1, OneWorks DEF Working
  <2>4. InHistory' = InHistory BY <2>1 DEF InHistory
  <2>5. /\ Cardinality(InHistory) \in Nat /\ Cardinality(InHistory)' \in Nat
        /\ losses \in Nat /\ free \in Nat /\ Cardinality(Recipients) \in Nat
    BY <1>0, <2>4, CreditType DEF InHistory, TypeOK
  <2>6. r \in Failed(i) BY <2>1 DEF Failed, Accepted, Skip, Delivered, Verdict
  <2>7. ~OnRecord(<<r, "DELIVERED">>)
    BY <2>1, <2>6 DEF Known, Fresh, FinishedOnRecord, FinishedTypes
  <2>8. CASE queue' = [queue EXCEPT ![i] = @ \cup {<<r, "DELIVERED">>}] /\ losses' = losses
    <3>1. /\ InQueueOf(i)' = InQueueOf(i) \cup {r}
          /\ \A j \in Instances \ {i} : InQueueOf(j)' = InQueueOf(j)
      BY <1>0, <2>8 DEF InQueueOf, TypeOK
    <3>2. InQueue' = InQueue \cup {r} BY <3>1 DEF InQueue
    <3>3. r \notin InHistory /\ \A j \in Instances : r \notin InQueueOf(j)
      BY <2>7 DEF InHistory, InQueueOf, OnRecord, Store
    <3>4. AcceptedOnce'
      <4>1. (InHistory \cap InQueue)' = {} BY <2>4, <3>2, <3>3 DEF Earned, AcceptedOnce
      <4>2. ASSUME NEW j \in Instances, NEW k \in Instances, j # k
            PROVE  InQueueOf(j)' \cap InQueueOf(k)' = {}
        BY <4>2, <3>1, <3>3 DEF Earned, AcceptedOnce
      <4> QED BY <4>1, <4>2 DEF AcceptedOnce
    <3>5. free < Credit' /\ Credit' \in Int
      <4>0. InQueue' # {} BY <3>2
      <4>1. Credit' = losses + Cardinality(InHistory) + 1 BY <2>4, <2>8, <4>0 DEF Credit
      <4>2. CASE Progress(i)
        <5>1. free < Credit BY <2>1, <4>2 DEF Earned, Spare
        <5> QED BY <2>5, <4>1, <5>1 DEF Credit
      <4>3. CASE ~Progress(i)
        <5>1. InQueue = {} /\ free <= Credit BY <2>1, <4>3 DEF Earned, Spare
        <5> QED BY <2>5, <4>1, <5>1 DEF Credit
      <4> QED BY <4>2, <4>3
    <3>6. Spare' BY <2>1, <2>2, <2>3, <3>5 DEF Spare
    <3> QED BY <2>1, <2>5, <2>8, <3>4, <3>5, <3>6 DEF Earned, UncountedPassesExplained
  <2>9. CASE losses' = losses + 1 /\ queue' = queue
    <3>1. \A j \in Instances : InQueueOf(j)' = InQueueOf(j) BY <2>9 DEF InQueueOf
    <3>2. InQueue' = InQueue BY <3>1 DEF InQueue
    <3>3. AcceptedOnce' BY <2>4, <3>1, <3>2 DEF Earned, AcceptedOnce
    <3>4. Credit' = Credit + 1 /\ Credit \in Int BY <2>4, <2>5, <2>9, <3>2 DEF Credit
    <3>5. free < Credit' BY <2>5, <3>4 DEF Earned
    <3>6. Spare' BY <2>1, <2>2, <2>3, <3>5 DEF Spare
    <3> QED BY <2>1, <2>5, <2>9, <3>3, <3>4, <3>5, <3>6 DEF Earned, UncountedPassesExplained
  <2> QED BY <1>7, <2>8, <2>9 DEF RecordDelivered
<1>8. ASSUME NEW i \in Instances, FinishPass(i) PROVE Earned'
  <2>1. /\ pc[i] = "sending" /\ \A r \in Recipients : result[i][r] \notin {Todo, Accepted}
        /\ UNCHANGED <<history, losses>>
    BY <1>8 DEF FinishPass
  <2>2. CASE lost[i] /\ EndPass(i) /\ UNCHANGED <<queue, free>>
    <3>1. \A j \in Instances : pc'[j] # "sending" \/ (pc'[j] = pc[j] /\ result'[j] = result[j])
      BY <1>0, <2>2, EndPassOthers
    <3> QED BY <1>1, <2>1, <2>2, <3>1
  <2>3. CASE ToSettle(i, DeletePlan) /\ UNCHANGED <<queue, free, result>>
    BY <1>0, <1>1, <2>1, <2>3, ToSettleOthers
  <2>4. CASE HandleRecipientFailures(i) /\ UNCHANGED result
    <3>1. PICK final \in SUBSET Failed(i) : Judge(i, final, [r \in final |-> result[i][r].type])
      BY <1>0, <2>4, RecipientFailuresLater
    <3>2. [r \in final |-> result[i][r].type] \in [final -> VerdictType]
      BY <1>0, <2>1, <3>1, FailedType DEF Class
    <3>3. \A j \in Instances : InQueueOf(j)' = InQueueOf(j)
      BY <1>0, <3>1, <3>2, JudgeNoDelivery
    <3>4. InQueue' = InQueue BY <3>3 DEF InQueue
    <3>5. InHistory' = InHistory BY <2>1 DEF InHistory
    <3>6. Credit' = Credit BY <2>1, <3>4, <3>5 DEF Credit
    <3>7. AcceptedOnce' BY <3>3, <3>4, <3>5 DEF Earned, AcceptedOnce
    <3>8. pc'[i] = "settling" /\ \A j \in Instances \ {i} : pc'[j] = pc[j]
      BY <1>0, <2>4, RecipientFailuresLater, ToSettleOthers
    <3>9. \A j \in Instances : pc'[j] # "sending" BY <2>1, <3>8, OneWorks DEF Working
    <3>10. Spare' BY <3>9 DEF Spare
    <3>11. CASE free' = free
      BY <2>1, <3>6, <3>7, <3>10, <3>11 DEF Earned, UncountedPassesExplained
    <3>12. CASE free' # free
      <4>1. free' = free + 1 /\ Progress(i) /\ Retryable(i) # {}
        BY <2>4, <3>12 DEF HandleRecipientFailures
      <4>2. free < Credit BY <2>1, <4>1 DEF Earned, Spare
      <4>3. PICK r \in Failed(i) : TRUE BY <4>1 DEF Retryable
      <4>4. r \in Recipients /\ ~OnRecord(<<r, "DELIVERED">>)
        BY <2>1, <4>3 DEF Known, Fresh, Failed, FinishedOnRecord, FinishedTypes
      <4>5. r \notin InHistory /\ r \notin InQueue
        BY <4>4 DEF InHistory, InQueue, InQueueOf, OnRecord, Store
      <4>6. Credit <= Cardinality(Recipients) - 1 + losses
        BY <1>0, <4>4, <4>5, CreditBound DEF Earned
      <4>7. /\ Cardinality(InHistory) \in Nat /\ Cardinality(Recipients) \in Nat
            /\ losses \in Nat /\ free \in Nat
        BY <1>0, CreditType DEF InHistory, TypeOK
      <4>8. Credit \in Int BY <4>7 DEF Credit
      <4>9. free' <= Credit' /\ UncountedPassesExplained'
        BY <2>1, <3>6, <4>1, <4>2, <4>6, <4>7, <4>8 DEF UncountedPassesExplained
      <4> QED BY <3>7, <3>10, <4>9 DEF Earned
    <3> QED BY <3>11, <3>12
  <2> QED BY <1>8, <2>2, <2>3, <2>4 DEF FinishPass
<1>9. ASSUME NEW i \in Instances, Flush(i) PROVE Earned'
  <2>1. /\ history' = [history EXCEPT ![SharedStore] = @ \cup queue[i]]
        /\ queue' = [queue EXCEPT ![i] = {}]
        /\ UNCHANGED <<pc, result, free, losses>>
    BY <1>0, <1>9 DEF Flush, StoreOf
  <2>2. InHistory' = InHistory \cup InQueueOf(i)
    BY <1>0, <2>1 DEF InHistory, InQueueOf, TypeOK, Store
  <2>3. InQueueOf(i)' = {} /\ \A j \in Instances \ {i} : InQueueOf(j)' = InQueueOf(j)
    BY <1>0, <2>1 DEF InQueueOf, TypeOK
  <2>4. \A j \in Instances :
          pc'[j] = "sending" => pc[j] = "sending" /\ Progress(j)' = Progress(j)
    BY <2>1 DEF Progress
  <2>5. CASE InQueueOf(i) = {}
    BY <1>0, <2>1, <2>2, <2>3, <2>4, <2>5, EarnedStill
  <2>6. CASE InQueueOf(i) # {}
    <3>1. InQueue' \subseteq InQueue BY <2>3 DEF InQueue
    <3>2. AcceptedOnce'
      <4>1. \A j \in Instances \ {i} : InQueueOf(i) \cap InQueueOf(j) = {}
        BY DEF Earned, AcceptedOnce
      <4>2. (InHistory \cap InQueue)' = {}
        BY <2>2, <2>3, <4>1 DEF Earned, AcceptedOnce, InQueue
      <4>3. ASSUME NEW j \in Instances, NEW k \in Instances, j # k
            PROVE  InQueueOf(j)' \cap InQueueOf(k)' = {}
        BY <2>3, <4>3 DEF Earned, AcceptedOnce
      <4> QED BY <4>2, <4>3 DEF AcceptedOnce
    <3>3. Cardinality(InHistory) + 1 <= Cardinality(InHistory')
      <4>1. InHistory \in SUBSET InHistory' /\ InHistory # InHistory'
        BY <2>2, <2>6 DEF Earned, AcceptedOnce, InQueue
      <4>2. IsFiniteSet(InHistory')
        BY CreditType DEF InHistory
      <4> QED BY <4>1, <4>2, SmallerSubset
    <3>4. Cardinality(InHistory) \in Nat /\ Cardinality(InHistory') \in Nat /\ losses \in Nat
      BY <1>0, CreditType DEF InHistory, TypeOK
    <3>5. Credit <= Credit' /\ losses <= losses' BY <2>1, <3>3, <3>4 DEF Credit
    <3> QED BY <1>0, <2>1, <2>4, <3>1, <3>2, <3>5, EarnedFrame
  <2> QED BY <2>5, <2>6
<1>10. ASSUME NEW i \in Instances, FlushFails(i) PROVE Earned'
  <2>1. /\ queue' = [queue EXCEPT ![i] = {}] /\ losses' = losses + 1
        /\ UNCHANGED <<pc, result, free, history>>
    BY <1>10 DEF FlushFails
  <2>2. \A j \in Instances :
          pc'[j] = "sending" => pc[j] = "sending" /\ Progress(j)' = Progress(j)
    BY <2>1 DEF Progress
  <2> QED BY <1>0, <2>1, <2>2, EarnedLoss
<1>11. ASSUME NEW i \in Instances, Crash(i) PROVE Earned'
  <2>1. /\ EndPass(i) /\ queue' = [queue EXCEPT ![i] = {}] /\ UNCHANGED <<free, history>>
        /\ losses' = IF queue[i] # {} THEN losses + 1 ELSE losses
    BY <1>11 DEF Crash
  <2>2. \A j \in Instances : pc'[j] # "sending" \/ (pc'[j] = pc[j] /\ result'[j] = result[j])
    BY <1>0, <2>1, EndPassOthers
  <2>3. CASE queue[i] = {}
    <3>1. queue' = queue BY <1>0, <2>1, <2>3 DEF TypeOK
    <3> QED BY <1>1, <2>1, <2>2, <2>3, <3>1
  <2>4. CASE queue[i] # {}
    <3>1. \A j \in Instances :
            pc'[j] = "sending" => pc[j] = "sending" /\ Progress(j)' = Progress(j)
      BY <2>2 DEF Progress
    <3> QED BY <1>0, <2>1, <2>4, <3>1, EarnedLoss
  <2> QED BY <2>3, <2>4
<1>12. ASSUME \/ \E r \in Recipients : SuppressRecipient(r)
              \/ PruneTerminal \/ Tick \/ UNCHANGED vars
       PROVE  Earned'
  BY <1>1, <1>12 DEF SuppressRecipient, PruneTerminal, Tick, vars
<1> QED
  BY <1>2, <1>2a, <1>3, <1>4, <1>5, <1>6, <1>7, <1>8, <1>9, <1>10, <1>11, <1>12 DEF Next, Deliver

\* Passes that are not counted against the retry schedule run out: there are
\* fewer of them than recipients, but for one more for each event batch lost
\* (handleRecipientFailures, queue_worker.go).
THEOREM UncountedPassesRunOut == Shared /\ Spec => []UncountedPassesExplained
<1>1. Init => Earned
  <2> SUFFICES ASSUME Init PROVE Earned OBVIOUS
  <2>1. InHistory = {} /\ \A i \in Instances : InQueueOf(i) = {}
    BY DEF Init, InHistory, InQueueOf, Store
  <2>2. InQueue = {} BY <2>1 DEF InQueue
  <2>3. Cardinality(InHistory) = 0 BY <2>1, FS_EmptySet
  <2>4. Cardinality(Recipients) \in Nat /\ Cardinality(Recipients) # 0
    BY ConstantsAssumption, CreditType, FS_EmptySet
  <2>5. AcceptedOnce BY <2>1, <2>2 DEF AcceptedOnce
  <2>6. Spare BY DEF Init, Spare
  <2>7. free <= Credit /\ UncountedPassesExplained
    BY <2>2, <2>3, <2>4 DEF Init, Credit, UncountedPassesExplained
  <2> QED BY <2>5, <2>6, <2>7 DEF Earned
<1>2. Shared /\ Known /\ Known' /\ Earned /\ [Next]_vars => Earned' BY EarnedStep
<1>3. Earned => UncountedPassesExplained BY DEF Earned
<1>4. Shared => Shared' BY DEF Shared, Timely
<1> QED BY <1>1, <1>2, <1>3, <1>4, PassesKnow, PTL DEF Spec
=============================================================================
