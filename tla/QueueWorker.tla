----------------------------- MODULE QueueWorker -----------------------------
(***************************************************************************)
(* The delivery of one accepted message by the queue workers of several    *)
(* gateway instances: internal/email/usecases/queue_worker.go,             *)
(* queue_worker_lease.go and the worker half of send_email_usecase.go,     *)
(* over the outbox table (stores/postgres/outbox_store.go) and the event   *)
(* history that decides who a later pass skips.                            *)
(*                                                                         *)
(* Rows of the outbox are settled independently of one another, so the     *)
(* module follows one row.  An instance waits for its whole batch before   *)
(* it claims again, so it has at most one goroutine working on the row and *)
(* the uuid it claims with is represented by the instance itself.          *)
(*                                                                         *)
(* Time is discrete.  leaseLeft and retryLeft are claimed_until and        *)
(* next_retry_at measured from now; they stop falling once they can no     *)
(* longer change the outcome of a comparison.                              *)
(***************************************************************************)
EXTENDS Integers, Sequences, FiniteSets, Bounce

CONSTANTS
  Instances,      \* gateway instances, each with one queue worker
  Recipients,     \* the message's unique To, Cc and Bcc addresses
  Lease,          \* messageLease
  RenewEvery,     \* leaseRenewEvery
  Slack,          \* how late a due renewal may reach the database
  MaxMissed,      \* how many renewals in a row may fail
  Pattern,        \* the tenant's retry pattern, a sequence of delays
  PaceDelay,      \* the RetryAfter of a DeliveryPacedError
  SharedEvents,   \* -shared-events: one history, not one per instance
  ReplyErrors,    \* what sending to one recipient may fail with
  PassErrors,     \* what fails a delivery pass before its first recipient
  Refusals,       \* whether a pass may meet a permanent refusal
  HistoryMayFail, \* whether reading the history may fail
  Decoders,       \* instances whose build can decode the stored request
  MaxFaults,      \* bound on crashes, cut drains and failed writes together
  MaxLost         \* bound on event batches that are lost

ASSUME ConstantsAssumption ==
  /\ IsFiniteSet(Recipients) /\ Recipients # {}
  /\ Lease \in Nat /\ RenewEvery \in Nat \ {0} /\ Slack \in 0..Lease
  /\ MaxMissed \in Nat /\ MaxFaults \in Nat /\ MaxLost \in Nat
  /\ PaceDelay \in Nat \ {0}
  /\ SharedEvents \in BOOLEAN /\ HistoryMayFail \in BOOLEAN /\ Refusals \in BOOLEAN
  /\ ReplyErrors \subseteq ErrorText /\ PassErrors \subseteq ErrorText
  /\ Decoders \subseteq Instances

\* A retry pattern entry that is no duration.  The code falls back to a
\* quadratic delay for it.
Unparsable == -1

\* A delay is at least one unit of time: a unit is longer than the 100 ms in
\* which an accepted event is committed.
ASSUME PatternAssumption == Pattern \in Seq((Nat \ {0}) \cup {Unparsable})

NoInstance == "none"
ASSUME TokenAssumption == NoInstance \notin Instances

VARIABLES
  status, token, leaseLeft, retryLeft, retries,  \* the outbox row
  pc,         \* where each instance's goroutine for the row is
  count,      \* the RetryCount each goroutine read with its claim
  result,     \* what each pass knows about each recipient
  plan,       \* the write a goroutine still has to make to the row
  renewIn,    \* time to the next tick of the lease's renewal
  missed,     \* renewals that failed since the last one that succeeded
  lost,       \* heldLease.lost
  cut,        \* the drain grace ran out and cancelled the batch
  queue,      \* events accepted by an instance's writer, not yet committed
  history,    \* committed events, per store
  suppressed, \* the tenant's suppression list
  faults,     \* crashes, cuts and failed writes so far
  losses,     \* lost event batches so far
  reached,    \* HISTORY: recipients a provider accepted a copy for
  judged,     \* HISTORY: recipients given a final verdict or dropped
  unsent,     \* HISTORY: recipients a pass through receivers alone left out
  again,      \* HISTORY: recipients given a copy when on record as finished
  blamed,     \* HISTORY: recipients whose own failure was their fault
  optedOut,   \* HISTORY: recipients suppressed by someone else than the worker
  wronged,    \* HISTORY: delivered recipients given a failure verdict
  free        \* HISTORY: deferred passes that did not spend a retry

row == <<status, token, leaseLeft, retryLeft, retries>>
lease == <<renewIn, missed, lost>>
events == <<queue, history, losses>>
ghosts == <<reached, judged, unsent, again, blamed, optedOut, wronged, free>>
vars == <<row, pc, count, result, plan, lease, cut, events, suppressed, faults, ghosts>>
-----------------------------------------------------------------------------
\* What a pass knows about a recipient: still to be tried, not this pass's to
\* try, accepted by a provider, delivered on record, or failed with a class.
Todo      == Verdict("TODO", FALSE)
Skip      == Verdict("SKIP", FALSE)
Accepted  == Verdict("ACCEPTED", FALSE)
Delivered == Verdict("DELIVERED", FALSE)
Outcome == Class \cup {Todo, Skip, Accepted, Delivered}

\* settledEvents: the outcomes that finish a recipient for good.
SettledTypes == {"HARD_BOUNCE", "SPAM_REPORT", "COMPLAINED", "UNSUBSCRIBED",
                 "REJECTED", "DROPPED"}
FinishedTypes == SettledTypes \cup {"DELIVERED"}

\* The events a later pass looks at.  SENT, PENDING and DEFERRED events are
\* recorded too, and decide nothing.
EventType == VerdictType \cup FinishedTypes
Event == Recipients \X EventType

SharedStore == "shared"
Store == Instances \cup {SharedStore}
StoreOf(i) == IF SharedEvents THEN SharedStore ELSE i

\* Mutant of Finished: a delivered recipient is not skipped.
FinishedButDelivered(i) ==
  {r \in Recipients : \E t \in SettledTypes : <<r, t>> \in history[StoreOf(i)]}

\* finishedFrom, of the history instance i reads: the recipients delivered, or
\* settled for good without delivery.
Finished(i) ==
  {r \in Recipients : \E t \in FinishedTypes : <<r, t>> \in history[StoreOf(i)]}

\* An event some instance has accepted and not lost.
OnRecord(ev) ==
  \/ \E s \in Store : ev \in history[s]
  \/ \E i \in Instances : ev \in queue[i]

FinishedOnRecord(r) == \E t \in FinishedTypes : OnRecord(<<r, t>>)

Working(i) == pc[i] \in {"begun", "sending", "settling"}

NoPlan == [op |-> "none", status |-> "SENDING", retries |-> 0, delay |-> 0]
DeletePlan == [NoPlan EXCEPT !.op = "delete"]
UpdatePlan(st, n, delay) ==
  [op |-> "update", status |-> st, retries |-> n, delay |-> delay]

\* nextRetryDelay.  The class is asked whether it is retryable by the callers.
MayRetry(n) == n <= Len(Pattern)
DelayOf(n) == IF Pattern[n] = Unparsable THEN n * n ELSE Pattern[n]

\* Mutant of SuppressedBy: whatever the verdict.
SuppressedByAny(evs) == {ev[1] : ev \in evs}

\* RecordEvent: a HARD_BOUNCE or SPAM_REPORT that was written suppresses its
\* recipient (suppressForEvent).
SuppressedBy(evs) ==
  {r \in Recipients : \E t \in {"HARD_BOUNCE", "SPAM_REPORT"} : <<r, t>> \in evs}

\* Final verdicts, recorded with the worker's bookkeeping context: the events,
\* whom they suppress, and the histories.  type gives each recipient its own
\* verdict; an UNSUBSCRIBED is suppressed by the worker itself.
Judge(i, rs, type) ==
  LET evs == {<<r, type[r]>> : r \in rs} IN
  /\ queue' = [queue EXCEPT ![i] = @ \cup evs]
  /\ suppressed' = suppressed \cup SuppressedBy(evs)
                              \cup {r \in rs : type[r] = "UNSUBSCRIBED"}
  /\ judged' = judged \cup rs
  /\ wronged' = wronged \cup {r \in rs : OnRecord(<<r, "DELIVERED">>)}

Fault == faults < MaxFaults /\ faults' = faults + 1

\* The row is instance i's to renew: renew_outbox_claim.sql.
Owns(i) == status = "SENDING" /\ token = i

\* Mutants of Claimable: the lease or the status is not looked at, or a row whose
\* worker died is never taken over.
ClaimableAnyway == retryLeft = 0 /\ status # "GONE"
ClaimableNotLapsed == retryLeft = 0 /\ status \in {"PENDING", "DEFERRED"}

\* claim_pending_outbox.sql, for a row the batch limit lets in.
Claimable ==
  /\ retryLeft = 0
  /\ \/ status \in {"PENDING", "DEFERRED"}
     \/ status = "SENDING" /\ leaseLeft < 0
-----------------------------------------------------------------------------
Init ==
  /\ status = "PENDING" /\ token = NoInstance /\ leaseLeft = -1
  /\ retryLeft = 0 /\ retries = 0
  /\ pc = [i \in Instances |-> "idle"]
  /\ count = [i \in Instances |-> 0]
  /\ result = [i \in Instances |-> [r \in Recipients |-> Skip]]
  /\ plan = [i \in Instances |-> NoPlan]
  /\ renewIn = [i \in Instances |-> 0]
  /\ missed = [i \in Instances |-> 0]
  /\ lost = [i \in Instances |-> FALSE]
  /\ cut = [i \in Instances |-> FALSE]
  /\ queue = [i \in Instances |-> {}]
  /\ history = [s \in Store |-> {}]
  /\ suppressed = {} /\ faults = 0 /\ losses = 0
  /\ reached = {} /\ judged = {} /\ unsent = {} /\ again = {} /\ blamed = {}
  /\ optedOut = {} /\ wronged = {} /\ free = 0

\* The goroutine ends: release() stops the renewals and the lease is left to
\* run out.  What it kept in memory is gone; a cut instance restarts.
EndPass(i) ==
  /\ pc' = [pc EXCEPT ![i] = "idle"]
  /\ count' = [count EXCEPT ![i] = 0]
  /\ result' = [result EXCEPT ![i] = [r \in Recipients |-> Skip]]
  /\ plan' = [plan EXCEPT ![i] = NoPlan]
  /\ renewIn' = [renewIn EXCEPT ![i] = 0]
  /\ missed' = [missed EXCEPT ![i] = 0]
  /\ lost' = [lost EXCEPT ![i] = FALSE]
  /\ cut' = [cut EXCEPT ![i] = FALSE]

\* ClaimPending: the claim commits, then the claimed rows are read back by their
\* token.  When the read fails the rows stay claimed and nobody works on them.
ClaimPending(i) ==
  /\ pc[i] = "idle"
  /\ Claimable
  /\ status' = "SENDING" /\ token' = i /\ leaseLeft' = Lease
  /\ \/ /\ pc' = [pc EXCEPT ![i] = "claimed"]
        /\ count' = [count EXCEPT ![i] = retries]
        /\ UNCHANGED faults
     \/ Fault /\ UNCHANGED <<pc, count>>
  /\ UNCHANGED <<retryLeft, retries, result, plan, lease, cut, events, suppressed, ghosts>>

\* Confirm the claim and extend it.  The new lease is counted from before the
\* call and the ticker starts after it.
HoldLease(i) ==
  /\ pc[i] = "claimed"
  /\ Owns(i)
  /\ leaseLeft' \in (Lease - Slack)..Lease
  /\ pc' = [pc EXCEPT ![i] = "begun"]
  /\ renewIn' = [renewIn EXCEPT ![i] = RenewEvery]
  /\ missed' = [missed EXCEPT ![i] = 0]
  /\ lost' = [lost EXCEPT ![i] = FALSE]
  /\ UNCHANGED <<status, token, retryLeft, retries, count, result, plan, cut, events,
                 suppressed, faults, ghosts>>

\* A claimed message that is not started: the claim is another's by now, or it
\* could not be confirmed, or shutdown began while it waited for a slot.
LeaveClaimed(i) ==
  /\ pc[i] = "claimed"
  /\ \/ ~Owns(i) /\ UNCHANGED faults
     \/ Fault
  /\ EndPass(i)
  /\ UNCHANGED <<row, events, suppressed, ghosts>>

\* The renewal ticker of a held lease.
Renew(i) ==
  /\ Working(i) /\ ~lost[i] /\ renewIn[i] <= 0
  /\ \/ /\ Owns(i)
        /\ leaseLeft' \in (Lease - Slack)..Lease
        /\ renewIn' = [renewIn EXCEPT ![i] = @ + RenewEvery]
        /\ missed' = [missed EXCEPT ![i] = 0]
        /\ UNCHANGED lost
     \/ /\ ~Owns(i)
        /\ lost' = [lost EXCEPT ![i] = TRUE]
        /\ UNCHANGED <<leaseLeft, renewIn, missed>>
  /\ UNCHANGED <<status, token, retryLeft, retries, pc, count, result, plan, cut, events,
                 suppressed, faults, ghosts>>

RenewFails(i) ==
  /\ Working(i) /\ ~lost[i] /\ renewIn[i] <= 0
  /\ missed[i] < MaxMissed
  /\ missed' = [missed EXCEPT ![i] = @ + 1]
  /\ renewIn' = [renewIn EXCEPT ![i] = @ + RenewEvery]
  /\ UNCHANGED <<row, pc, count, result, plan, lost, cut, events, suppressed, faults, ghosts>>
-----------------------------------------------------------------------------
\* A delivery pass: SendEmail in worker mode, and doSend.

ToSettle(i, p) ==
  /\ plan' = [plan EXCEPT ![i] = p]
  /\ pc' = [pc EXCEPT ![i] = "settling"]

\* A stored request this build cannot decode is deleted.
Undecodable(i) ==
  /\ pc[i] = "begun" /\ i \notin Decoders
  /\ ToSettle(i, DeletePlan)
  /\ UNCHANGED <<row, count, result, lease, cut, events, suppressed, faults, ghosts>>

\* The lookups on a cancelled context fail with "context canceled".
Cancelled == [code |-> "none", prefix |-> {}, reply |-> {}]

\* Mutant of Unfinished: the history is not consulted.
UnfinishedUnread(i) == {Recipients}

\* unfinishedRecipients: everyone, when the history cannot be read.
Unfinished(i) ==
  {Recipients \ Finished(i)} \cup (IF HistoryMayFail THEN {Recipients} ELSE {})

\* handleFailure, of a pass that failed as a whole with an error of this class.
HandleFailure(i, class) ==
  LET n == count[i] + 1 IN
  IF class.retryable /\ MayRetry(n)
  THEN /\ ToSettle(i, UpdatePlan("DEFERRED", n, DelayOf(n)))
       /\ UNCHANGED <<queue, suppressed, judged, wronged>>
  ELSE /\ ToSettle(i, UpdatePlan("FAILED", n, 0))
       /\ \E rs \in Unfinished(i) : Judge(i, rs, [r \in rs |-> class.type])

\* The pass fails before its first recipient: no provider, a lookup that failed,
\* a history that cannot be read, or a refusal that says it is permanent.
FailPass(i) ==
  /\ pc[i] = "begun" /\ i \in Decoders /\ ~lost[i]
  /\ \/ \E e \in PassErrors : HandleFailure(i, ClassifyError(e))
     \/ cut[i] /\ HandleFailure(i, ClassifyError(Cancelled))
     \/ Refusals /\ HandleFailure(i, Verdict("REJECTED", FALSE))
  /\ UNCHANGED <<row, count, result, lease, cut, history, losses, faults,
                 reached, unsent, again, blamed, optedOut, free>>

\* dropSuppressedAtDelivery: whom the history leaves open, and of them whoever was
\* suppressed since admission.
Open(i) == Recipients \ Finished(i)
Dropped(i) == Open(i) \cap suppressed
Drop(i) ==
  /\ queue' = [queue EXCEPT ![i] = @ \cup {<<r, "DROPPED">> : r \in Dropped(i)}]
  /\ judged' = judged \cup Dropped(i)

\* paceDelivery told the message its turn is later, or the wait for it was cut:
\* no attempt is counted.
PacePass(i) ==
  /\ pc[i] = "begun" /\ i \in Decoders /\ ~lost[i]
  /\ Open(i) \ Dropped(i) # {}
  /\ Drop(i)
  /\ ToSettle(i, UpdatePlan("DEFERRED", count[i], PaceDelay))
  /\ UNCHANGED <<row, count, result, lease, cut, history, losses, suppressed, faults,
                 reached, unsent, again, blamed, optedOut, wronged, free>>

\* The claim was lost before the first recipient: nothing is written.
StopLost(i) ==
  /\ pc[i] = "begun" /\ lost[i]
  /\ EndPass(i)
  /\ UNCHANGED <<row, events, suppressed, faults, ghosts>>

\* Whom this pass sends to.  When every provider it has only receives mail it tries
\* nobody, fails nobody and records nothing: the message names its provider, and
\* admission does not ask what kind that is.
BeginPass(i) ==
  LET due == Open(i) \ Dropped(i) IN
  /\ pc[i] = "begun" /\ i \in Decoders /\ ~lost[i] /\ ~cut[i]
  /\ pc' = [pc EXCEPT ![i] = "sending"]
  /\ \E tried \in {due, {}} :
       /\ result' = [result EXCEPT ![i] =
                       [r \in Recipients |-> IF r \in tried THEN Todo ELSE Skip]]
       /\ unsent' = unsent \cup (due \ tried)
  /\ Drop(i)
  /\ UNCHANGED <<row, count, plan, lease, cut, history, losses, suppressed, faults,
                 reached, again, blamed, optedOut, wronged, free>>

Resolve(i, r, outcome) == result' = [result EXCEPT ![i][r] = outcome]

Copy(r) ==
  /\ reached' = reached \cup {r}
  /\ again' = IF FinishedOnRecord(r) THEN again \cup {r} ELSE again

\* One attempt at one recipient, through the providers in turn.  A provider may
\* accept the message and its answer never arrive.
Attempt(i, r) ==
  /\ pc[i] = "sending" /\ result[i][r] = Todo
  /\ ~lost[i] /\ ~cut[i]
  /\ \A q \in Recipients : result[i][q] # Accepted
  /\ \/ Resolve(i, r, Accepted) /\ Copy(r) /\ UNCHANGED blamed
     \/ \E e \in ReplyErrors :
          /\ Resolve(i, r, ClassifyError(e))
          /\ blamed' = IF ClassifyError(e).type \in AtFault
                       THEN blamed \cup {r} ELSE blamed
          /\ \/ UNCHANGED <<reached, again>>
             \/ e.code = "none" /\ Copy(r)
  /\ UNCHANGED <<row, pc, count, plan, lease, cut, events, suppressed, faults,
                 judged, unsent, optedOut, wronged, free>>

\* The accepted copy's DELIVERED event.  Its error is ignored; on a cancelled
\* context the writer may refuse it.
RecordDelivered(i, r) ==
  /\ pc[i] = "sending" /\ result[i][r] = Accepted
  /\ Resolve(i, r, Delivered)
  /\ \/ queue' = [queue EXCEPT ![i] = @ \cup {<<r, "DELIVERED">>}] /\ UNCHANGED losses
     \/ /\ lost[i] \/ cut[i]
        /\ losses < MaxLost /\ losses' = losses + 1
        /\ UNCHANGED queue
  /\ UNCHANGED <<row, pc, count, plan, lease, cut, history, suppressed, faults, ghosts>>

\* On a dead context the recipients left are failures of this pass, unattempted.
SkipCancelled(i, r) ==
  /\ pc[i] = "sending" /\ result[i][r] = Todo
  /\ lost[i] \/ cut[i]
  /\ \A q \in Recipients : result[i][q] # Accepted
  /\ Resolve(i, r, ClassifyError(Cancelled))
  /\ UNCHANGED <<row, pc, count, plan, lease, cut, events, suppressed, faults, ghosts>>

\* Where the count of uncounted passes stops: past every bound stated on it.
FreeCap == Cardinality(Recipients) + MaxFaults + MaxLost

\* Mutant of Failed: a pass that delivered to anybody succeeded.  Mutant of
\* Progress: a recipient skipped as finished counts as delivered by this pass.
FailedUnlessProgress(i) ==
  IF \E r \in Recipients : result[i][r] = Delivered THEN {}
  ELSE {r \in Recipients : result[i][r] \notin {Skip, Delivered}}
ProgressBySkipping(i) == \E r \in Recipients : result[i][r] \in {Skip, Delivered}

Failed(i) == {r \in Recipients : result[i][r] \notin {Skip, Delivered}}
Retryable(i) == {r \in Failed(i) : result[i][r].retryable}
Progress(i) == \E r \in Recipients : result[i][r] = Delivered

\* handleRecipientFailures: each failed recipient is judged on its own.
HandleRecipientFailures(i) ==
  LET retry   == Retryable(i)
      n       == IF retry # {} /\ ~Progress(i) THEN count[i] + 1 ELSE count[i]
      attempt == IF n = 0 THEN 1 ELSE n
      goOn    == retry # {} /\ MayRetry(attempt)
      final   == IF goOn THEN Failed(i) \ retry ELSE Failed(i)
  IN
  /\ Judge(i, final, [r \in final |-> result[i][r].type])
  /\ ToSettle(i, IF goOn THEN UpdatePlan("DEFERRED", n, DelayOf(attempt))
                 ELSE IF retry = {} /\ Progress(i) THEN DeletePlan
                 ELSE UpdatePlan("FAILED", n, 0))
  /\ free' = IF goOn /\ Progress(i) /\ free < FreeCap THEN free + 1 ELSE free

\* SendEmail returns.  A worker that lost its claim writes nothing.
FinishPass(i) ==
  /\ pc[i] = "sending"
  /\ \A r \in Recipients : result[i][r] \notin {Todo, Accepted}
  /\ \/ /\ lost[i]
        /\ EndPass(i)
        /\ UNCHANGED <<queue, suppressed, judged, wronged, free>>
     \/ /\ ~lost[i] /\ Failed(i) = {}
        /\ ToSettle(i, DeletePlan)
        /\ UNCHANGED <<queue, suppressed, judged, wronged, free, count, result, lease, cut>>
     \/ /\ ~lost[i] /\ Failed(i) # {}
        /\ HandleRecipientFailures(i)
        /\ UNCHANGED <<count, result, lease, cut>>
  /\ UNCHANGED <<row, history, losses, faults, reached, unsent, again, blamed, optedOut>>
-----------------------------------------------------------------------------
\* The row, and what goes wrong around it.

\* updateOutbox and deleteOutbox, by id alone: neither looks at the token.
Settle(i) ==
  /\ pc[i] = "settling"
  /\ LET p == plan[i]
         write == status # "GONE"
         update == write /\ p.op = "update" IN
     /\ status' = IF update THEN p.status ELSE "GONE"
     /\ retries' = IF update THEN p.retries ELSE retries
     /\ retryLeft' = IF update THEN p.delay ELSE retryLeft
     /\ token' = IF write THEN NoInstance ELSE token
     /\ leaseLeft' = IF write THEN -1 ELSE leaseLeft
  /\ EndPass(i)
  /\ UNCHANGED <<events, suppressed, faults, ghosts>>

\* Every bookkeeping attempt failed: the row keeps its claim until it lapses.
SettleFails(i) ==
  /\ pc[i] = "settling"
  /\ Fault
  /\ EndPass(i)
  /\ UNCHANGED <<row, events, suppressed, ghosts>>

\* The event writer commits what it has accepted.
Flush(i) ==
  /\ queue[i] # {}
  /\ history' = [history EXCEPT ![StoreOf(i)] = @ \cup queue[i]]
  /\ queue' = [queue EXCEPT ![i] = {}]
  /\ UNCHANGED <<row, pc, count, result, plan, lease, cut, losses, suppressed, faults, ghosts>>

\* A commit that fails is not retried and its callers were told it succeeded.
FlushFails(i) ==
  /\ queue[i] # {}
  /\ losses < MaxLost /\ losses' = losses + 1
  /\ queue' = [queue EXCEPT ![i] = {}]
  /\ UNCHANGED <<row, pc, count, result, plan, lease, cut, history, suppressed, faults, ghosts>>

\* The process dies, and with it everything it had not committed.
Crash(i) ==
  /\ pc[i] # "idle" \/ queue[i] # {}
  /\ Fault
  /\ EndPass(i)
  /\ queue' = [queue EXCEPT ![i] = {}]
  /\ losses' = IF queue[i] # {} THEN losses + 1 ELSE losses
  /\ UNCHANGED <<row, history, suppressed, ghosts>>

\* Shutdown's drain grace ends while a message is still being worked on.
CutDrain(i) ==
  /\ pc[i] \in {"begun", "sending"} /\ ~cut[i]
  /\ Fault
  /\ cut' = [cut EXCEPT ![i] = TRUE]
  /\ UNCHANGED <<row, pc, count, result, plan, lease, events, suppressed, ghosts>>

\* An unsubscribe, a complaint by webhook or an operator.
SuppressRecipient(r) ==
  /\ r \notin suppressed
  /\ suppressed' = suppressed \cup {r}
  /\ optedOut' = optedOut \cup {r}
  /\ UNCHANGED <<row, pc, count, result, plan, lease, cut, events, faults,
                 reached, judged, unsent, again, blamed, wronged, free>>

\* pruneIfDue: a failed row past its retention.
PruneTerminal ==
  /\ status = "FAILED"
  /\ status' = "GONE"
  /\ UNCHANGED <<token, leaseLeft, retryLeft, retries, pc, count, result, plan, lease, cut,
                 events, suppressed, faults, ghosts>>

\* Time passes.  Accepted events are committed within a unit, and a due renewal
\* reaches the database within Slack.
Tick ==
  /\ \A i \in Instances : queue[i] = {}
  /\ \A i \in Instances : Working(i) /\ ~lost[i] => renewIn[i] > -Slack
  /\ leaseLeft' = IF leaseLeft >= 0 THEN leaseLeft - 1 ELSE leaseLeft
  /\ retryLeft' = IF retryLeft > 0 THEN retryLeft - 1 ELSE retryLeft
  /\ renewIn' = [i \in Instances |-> IF Working(i) /\ ~lost[i] THEN renewIn[i] - 1
                                     ELSE renewIn[i]]
  /\ UNCHANGED <<status, token, retries, pc, count, result, plan, missed, lost, cut,
                 events, suppressed, faults, ghosts>>

Deliver(i) ==
  \/ HoldLease(i) \/ LeaveClaimed(i) \/ Undecodable(i) \/ FailPass(i) \/ PacePass(i)
  \/ StopLost(i) \/ BeginPass(i) \/ FinishPass(i) \/ Settle(i) \/ SettleFails(i)
  \/ \E r \in Recipients : Attempt(i, r) \/ RecordDelivered(i, r) \/ SkipCancelled(i, r)

Next ==
  \/ \E i \in Instances :
       \/ ClaimPending(i) \/ Deliver(i) \/ Renew(i) \/ RenewFails(i)
       \/ Flush(i) \/ FlushFails(i) \/ Crash(i) \/ CutDrain(i)
  \/ \E r \in Recipients : SuppressRecipient(r)
  \/ PruneTerminal
  \/ Tick

Spec == Init /\ [][Next]_vars

\* Every goroutine is scheduled, the ticker and the event writer run and time
\* passes.  Strong fairness is assumed twice: a claimed message does not find
\* its claim lapsed every time it gets a concurrency slot, and the rate ceilings
\* do not turn it away for ever.
Fairness ==
  /\ WF_vars(Tick)
  /\ WF_vars(\E i \in Instances : ClaimPending(i))
  /\ \A i \in Instances : WF_vars(Deliver(i)) /\ WF_vars(Renew(i)) /\ WF_vars(Flush(i))
  /\ SF_vars(\E i \in Instances : HoldLease(i))
  /\ SF_vars(\E i \in Instances : BeginPass(i))

\* A lease may lapse under its worker, and again; only not for ever: the database
\* that renewals go to answers again.
RenewalsRecover == <>[][\A i \in Instances : ~RenewFails(i)]_vars

FairSpec == Spec /\ Fairness /\ RenewalsRecover
-----------------------------------------------------------------------------
TypeOK ==
  /\ status \in {"PENDING", "DEFERRED", "SENDING", "FAILED", "GONE"}
  /\ token \in Instances \cup {NoInstance}
  /\ leaseLeft \in -1..Lease
  /\ retryLeft \in Nat /\ retries \in Nat
  /\ pc \in [Instances -> {"idle", "claimed", "begun", "sending", "settling"}]
  /\ count \in [Instances -> Nat]
  /\ result \in [Instances -> [Recipients -> Outcome]]
  /\ plan \in [Instances -> [op: {"none", "delete", "update"},
                             status: {"SENDING", "DEFERRED", "FAILED"},
                             retries: Nat, delay: Nat]]
  /\ renewIn \in [Instances -> Int]
  /\ missed \in [Instances -> 0..MaxMissed]
  /\ lost \in [Instances -> BOOLEAN] /\ cut \in [Instances -> BOOLEAN]
  /\ queue \in [Instances -> SUBSET Event]
  /\ history \in [Store -> SUBSET Event]
  /\ faults \in 0..MaxFaults /\ losses \in Nat /\ free \in Nat
  /\ suppressed \subseteq Recipients /\ reached \subseteq Recipients
  /\ judged \subseteq Recipients /\ again \subseteq Recipients /\ unsent \subseteq Recipients
  /\ blamed \subseteq Recipients /\ optedOut \subseteq Recipients
  /\ wronged \subseteq Recipients

\* docs/PRD.md D1: "two instances never send the same row".  holdLease confirms
\* a claim before the first send and keeps it while the message is worked on.
OneSender ==
  \A i, j \in Instances : Working(i) /\ Working(j) => i = j

\* docs/PRD.md D2: "A recipient already delivered or settled is never sent to
\* again".  doSend skips whoever the history it reads has finished with.
NoSecondCopy == again = {}

\* A message leaves the outbox, or is parked as FAILED, only when every recipient
\* had a copy accepted, was given a final verdict, or was left out by a pass through
\* a provider that only receives: the comment on RecipientFailuresError tells how a
\* row was once deleted with a recipient still failing temporarily.
NobodyForgotten ==
  status \in {"FAILED", "GONE"} => Recipients \subseteq reached \cup judged \cup unsent

\* send_email_usecase.go:822-825 without the exception.  Refuted: a message that
\* names a mailbox as its provider is deleted as sent, and nobody is told.
DeletedIsSentOrJudged ==
  status \in {"FAILED", "GONE"} => Recipients \subseteq reached \cup judged

\* handleRecipientFailures: "Nothing here is recorded against a recipient that
\* was delivered", over every pass and every kind of failure.
DeliveredNeverFailed == wronged = {}

\* Nobody is suppressed for a failure that was not theirs: a co-recipient's hard
\* bounce, a credential or a database error (queue_worker.go, handleFailure).
OnlyBlamedSuppressed == suppressed \subseteq blamed \cup optedOut

\* handleRecipientFailures: a pass that is not counted against the retry
\* schedule "cannot loop: every such pass leaves fewer recipients to go", but
\* for one more such pass for each event batch lost.
UncountedPassesExplained == free <= Cardinality(Recipients) - 1 + losses

\* A settled message stays settled: no slow worker puts a failed or removed row
\* back in the queue, or takes it out of a finished state.
TerminalIsFinal ==
  [][ /\ status = "GONE" => status' = "GONE"
      /\ status = "FAILED" => status' \in {"FAILED", "GONE"} ]_vars

\* Every accepted message is eventually finished with, whatever crashes, cut
\* drains and failed writes happen on the way.
EventuallySettled == <>(status \in {"FAILED", "GONE"})
=============================================================================
