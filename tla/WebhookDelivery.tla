--------------------------- MODULE WebhookDelivery ---------------------------
(***************************************************************************)
(* Outbound webhook notifications (internal/webhook/worker): one row per   *)
(* event and subscription in webhook_deliveries, claimed in fair batches   *)
(* under a lease by the worker of each instance, posted to the endpoint    *)
(* one at a time per subscription, and retried on a schedule.              *)
(*                                                                         *)
(* A batch's lease is never renewed: the claim has to outlast everything   *)
(* done under it.  Time is discrete, and leaseLeft and nextIn are          *)
(* claimed_until and next_attempt_at measured from now.                    *)
(*                                                                         *)
(* The semaphore that bounds how many subscriptions a batch posts to at    *)
(* once only delays groups, which any group here may be.                   *)
(***************************************************************************)
EXTENDS Integers, Sequences, FiniteSets, TLC

CONSTANTS
  Workers,        \* one DurableWorker per instance
  Subs,           \* webhook subscriptions
  Events,         \* events a notification is enqueued for, in order: 1..n
  Batch,          \* batchSize
  PerSub,         \* perSubscription
  FailureStreak,  \* unreachable attempts in a row that back an endpoint off
  Schedule,       \* retrySchedule
  Lease,          \* lease
  Budget,         \* batchBudget
  Timeout,        \* the delivery client's timeout
  Reserve,        \* saveReserve: how long recording an outcome may take
  ReadMax,        \* how long reading the subscription may take
  Answers,        \* what each subscription's endpoint may answer
  MaxFaults       \* bound on crashes, shutdowns and failed database calls

Answer == {"ok", "busy", "refused", "unreachable"}

ASSUME ConstantsAssumption ==
  /\ Events \subseteq Nat \ {0} /\ IsFiniteSet(Subs) /\ IsFiniteSet(Events)
  /\ Batch \in Nat \ {0} /\ PerSub \in Nat \ {0} /\ FailureStreak \in Nat
  /\ Schedule \in Seq(Nat \ {0})
  /\ Lease \in Nat /\ Budget \in Nat /\ Timeout \in Nat \ {0}
  /\ Reserve \in Nat /\ ReadMax \in Nat /\ MaxFaults \in Nat
  /\ Answers \in [Subs -> SUBSET Answer]

NoWorker == "none"
ASSUME TokenAssumption == NoWorker \notin Workers

VARIABLES
  status, holder, leaseLeft, nextIn, attempts,  \* the rows
  subs,      \* what the tenant did with each subscription
  enqueued,  \* events notified so far
  group,     \* each worker's goroutine for each subscription of its batch
  age,       \* time since each worker's claim, up to its start window
  stopping,  \* shutdown reached the worker in the middle of a batch
  faults,
  acked,     \* HISTORY: notifications an endpoint confirmed to a worker
  twice,     \* HISTORY: notifications posted after they were confirmed
  unsaved,   \* HISTORY: notifications whose attempt left no record
  posts      \* HISTORY: posts of each notification, up to PostCap

rows == <<status, holder, leaseLeft, nextIn, attempts>>
history == <<acked, twice, unsaved, posts>>
vars == <<rows, subs, enqueued, group, age, stopping, faults, history>>

Deliveries == Events \X Subs
EventOf(d) == d[1]
SubOf(d) == d[2]
-----------------------------------------------------------------------------
\* Mutant of Window: the lease need not cover what an attempt started last does.
WholeLease == Lease

\* startWindow: how far into a claim an attempt may still start.
Window ==
  LET fits == Lease - Timeout - Reserve IN IF Budget < fits THEN Budget ELSE fits

\* What becomes of an attempt: the row's next status and when it is next due.
Finish(st) == [status |-> st, due |-> 0, unreachable |-> FALSE]

\* Mutant of Reschedule: the schedule's last delay for ever.
RescheduleForever(n, unreachable) ==
  [status |-> "DEFERRED",
   due |-> Schedule[IF n \in DOMAIN Schedule THEN n ELSE Len(Schedule)],
   unreachable |-> unreachable]

\* nextAttempt and reschedule, of the row's n-th attempt.
Reschedule(n, unreachable) ==
  [status |-> IF n \in DOMAIN Schedule THEN "DEFERRED" ELSE "FAILED",
   due |-> IF n \in DOMAIN Schedule THEN Schedule[n] ELSE 0,
   unreachable |-> unreachable]

\* backOff waits as long as the most-retried of the failed attempts.
BackOffDelay(n) ==
  IF n \in DOMAIN Schedule THEN Schedule[n]
  ELSE IF Schedule = <<>> THEN 0 ELSE Schedule[Len(Schedule)]

\* What one worker does for one subscription of its batch.  todo are its rows
\* as they were claimed, the first being attempted; left is the time the call
\* in progress may still take; out is what is to be recorded, or released.
NoOutcome == Finish("PENDING")
Idle == [phase |-> "none", todo |-> <<>>, streak |-> 0, worst |-> 0, left |-> 0,
         out |-> NoOutcome]

InCall == {"reading", "posting", "saving", "releasing", "deferring"}
Busy(w) == \E s \in Subs : group[w][s].phase # "none"

\* Claimed by w, and its attempt under way.
Current(w, s) == group[w][s].todo[1].id
Attempting(w, d) ==
  LET g == group[w][SubOf(d)] IN
  g.phase \in {"reading", "posting", "saving"} /\ g.todo[1].id = d

Set(w, s, g) == group' = [group EXCEPT ![w][s] = g]

Fault == faults < MaxFaults /\ faults' = faults + 1
FaultOr(ok) == IF ok THEN UNCHANGED faults ELSE Fault

Terminal == {"DELIVERED", "FAILED"}
Waiting == {"PENDING", "DEFERRED"}
-----------------------------------------------------------------------------
Init ==
  /\ status = [d \in Deliveries |-> "ABSENT"]
  /\ holder = [d \in Deliveries |-> NoWorker]
  /\ leaseLeft = [d \in Deliveries |-> -1]
  /\ nextIn = [d \in Deliveries |-> 0]
  /\ attempts = [d \in Deliveries |-> 0]
  /\ subs = [s \in Subs |-> "active"]
  /\ enqueued = {}
  /\ group = [w \in Workers |-> [s \in Subs |-> Idle]]
  /\ age = [w \in Workers |-> 0]
  /\ stopping = [w \in Workers |-> FALSE]
  /\ faults = 0
  /\ acked = {} /\ twice = {} /\ unsaved = {}
  /\ posts = [d \in Deliveries |-> 0]

\* One row for every active subscription.  A row that cannot be written, or a
\* list that cannot be read, is logged and not retried.
Enqueue(e) ==
  /\ e \notin enqueued /\ \A f \in Events : f < e => f \in enqueued
  /\ enqueued' = enqueued \cup {e}
  /\ \E made \in SUBSET {s \in Subs : subs[s] = "active"} :
       /\ FaultOr(made = {s \in Subs : subs[s] = "active"})
       /\ status' = [d \in Deliveries |->
                       IF EventOf(d) = e /\ SubOf(d) \in made THEN "PENDING" ELSE status[d]]
  /\ UNCHANGED <<holder, leaseLeft, nextIn, attempts, subs, group, age, stopping, history>>

\* Mutants of Due: a claim is not looked at, or never taken over.
DueHeldOrNot(d) == nextIn[d] = 0 /\ status[d] \in Waiting \cup {"SENDING"}
DueNotLapsed(d) == nextIn[d] = 0 /\ status[d] \in Waiting

\* claim_due_deliveries.sql.
Due(d) ==
  /\ nextIn[d] = 0
  /\ status[d] \in Waiting \/ (status[d] = "SENDING" /\ leaseLeft[d] < 0)

Turn(d) ==
  Cardinality({x \in Deliveries : SubOf(x) = SubOf(d) /\ EventOf(x) <= EventOf(d) /\ Due(x)})

Before(x, y) == Turn(x) < Turn(y) \/ (Turn(x) = Turn(y) /\ EventOf(x) < EventOf(y))

\* The batches the claim may take: every subscription's oldest row, then every
\* subscription's second, up to PerSub of each and Batch in all.
Batches ==
  LET fit == {d \in Deliveries : Due(d) /\ Turn(d) <= PerSub} IN
  {b \in SUBSET fit :
     /\ Cardinality(b) = IF Cardinality(fit) < Batch THEN Cardinality(fit) ELSE Batch
     /\ \A x \in b, y \in fit \ b : ~Before(y, x)}

\* bySubscription: a batch's rows of each subscription, in claim order.
InClaimOrder(ds) ==
  {q \in [1..Cardinality(ds) -> ds] :
     \A j, k \in DOMAIN q : j < k => EventOf(q[j]) < EventOf(q[k])}
Shares(b) ==
  LET of(s) == {d \in b : SubOf(d) = s} IN
  {f \in [Subs -> UNION {InClaimOrder(of(s)) : s \in Subs}] :
     \A s \in Subs : f[s] \in InClaimOrder(of(s))}

Claimed(q) == [k \in DOMAIN q |-> [id |-> q[k], n |-> attempts[q[k]]]]

\* processDue claims a batch and starts a goroutine for each subscription in it.
\* When the claimed rows cannot be read back, nobody works on them.
ClaimDue(w) ==
  /\ ~Busy(w)
  /\ \E b \in Batches \ {{}} :
       /\ status' = [d \in Deliveries |-> IF d \in b THEN "SENDING" ELSE status[d]]
       /\ holder' = [d \in Deliveries |-> IF d \in b THEN w ELSE holder[d]]
       /\ leaseLeft' = [d \in Deliveries |-> IF d \in b THEN Lease ELSE leaseLeft[d]]
       /\ \/ /\ \E share \in Shares(b) :
                  group' = [group EXCEPT ![w] =
                              [s \in Subs |-> IF share[s] = <<>> THEN Idle
                                              ELSE [Idle EXCEPT !.phase = "next",
                                                                !.todo = Claimed(share[s])]]]
             /\ UNCHANGED faults
          \/ Fault /\ UNCHANGED group
  /\ age' = [age EXCEPT ![w] = 0]
  /\ stopping' = [stopping EXCEPT ![w] = FALSE]
  /\ UNCHANGED <<nextIn, attempts, subs, enqueued, history>>

MayStart(w) == ~stopping[w] /\ age[w] < Window
BackedOff(g) == FailureStreak > 0 /\ g.streak >= FailureStreak

StartAttempt(w, s) ==
  LET g == group[w][s] IN
  /\ g.phase = "next" /\ MayStart(w) /\ ~BackedOff(g)
  /\ Set(w, s, [g EXCEPT !.phase = "reading", !.left = ReadMax, !.todo[1].n = @ + 1])
  /\ UNCHANGED <<rows, subs, enqueued, age, stopping, faults, history>>

\* Too late in the claim, or shutting down: the rest is handed back as it was.
\* An endpoint that has stopped answering: the rest is handed back for later.
StopAttempts(w, s) ==
  LET g == group[w][s] IN
  /\ g.phase = "next"
  /\ \/ /\ ~MayStart(w)
        /\ Set(w, s, [g EXCEPT !.phase = "releasing", !.left = Reserve])
     \/ /\ MayStart(w) /\ BackedOff(g)
        /\ Set(w, s, [g EXCEPT !.phase = "releasing", !.left = Reserve,
                               !.out = [NoOutcome EXCEPT !.unreachable = TRUE,
                                                         !.due = BackOffDelay(g.worst)]])
  /\ UNCHANGED <<rows, subs, enqueued, age, stopping, faults, history>>

Recording(g, out) == [g EXCEPT !.phase = "saving", !.left = Reserve, !.out = out]

PostCap == Len(Schedule) + MaxFaults + 2

\* attempt, up to the post: the subscription is read again for every row.
ReadSubscription(w, s) ==
  LET g == group[w][s]
      d == Current(w, s) IN
  /\ g.phase = "reading"
  /\ \/ /\ subs[s] # "active"
        /\ Set(w, s, Recording(g, Finish("FAILED")))
        /\ UNCHANGED <<faults, twice, posts>>
     \/ /\ Fault
        /\ Set(w, s, Recording(g, Reschedule(g.todo[1].n, FALSE)))
        /\ UNCHANGED <<twice, posts>>
     \/ /\ subs[s] = "active"
        /\ Set(w, s, [g EXCEPT !.phase = "posting", !.left = Timeout])
        /\ twice' = IF d \in acked THEN twice \cup {d} ELSE twice
        /\ posts' = [posts EXCEPT ![d] = IF @ < PostCap THEN @ + 1 ELSE @]
        /\ UNCHANGED faults
  /\ UNCHANGED <<rows, subs, enqueued, age, stopping, acked, unsaved>>

\* The endpoint answers, or does not, and the attempt has an outcome.  A target
\* the egress policy disallows ends like one the endpoint refused.
Answered(w, s) ==
  LET g == group[w][s]
      n == g.todo[1].n IN
  /\ g.phase = "posting"
  /\ \E a \in Answers[s] :
       /\ Set(w, s, Recording(g, CASE a = "ok" -> Finish("DELIVERED")
                                   [] a = "busy" -> Reschedule(n, FALSE)
                                   [] a = "refused" -> Finish("FAILED")
                                   [] a = "unreachable" -> Reschedule(n, TRUE)))
       /\ acked' = IF a = "ok" THEN acked \cup {Current(w, s)} ELSE acked
  /\ UNCHANGED <<rows, subs, enqueued, age, stopping, faults, twice, unsaved, posts>>

\* On to the next row of the group, or done with it.
AfterAttempt(g) ==
  IF Len(g.todo) = 1 THEN Idle
  ELSE [phase |-> "next", todo |-> Tail(g.todo), left |-> 0, out |-> NoOutcome,
        streak |-> IF g.out.unreachable THEN g.streak + 1 ELSE 0,
        worst |-> IF g.out.unreachable /\ g.todo[1].n > g.worst THEN g.todo[1].n ELSE g.worst]

\* Mutant of Update: the claim token is not part of the condition.
UpdateAnyway(w, d, st, n, due) ==
  /\ status' = [status EXCEPT ![d] = st]
  /\ attempts' = [attempts EXCEPT ![d] = n]
  /\ nextIn' = [nextIn EXCEPT ![d] = due]
  /\ holder' = [holder EXCEPT ![d] = NoWorker]
  /\ leaseLeft' = [leaseLeft EXCEPT ![d] = -1]

\* update_delivery.sql: nothing happens unless the claim is still w's.
Update(w, d, st, n, due) ==
  IF holder[d] # w THEN UNCHANGED rows
  ELSE /\ status' = [status EXCEPT ![d] = st]
       /\ attempts' = [attempts EXCEPT ![d] = n]
       /\ nextIn' = [nextIn EXCEPT ![d] = due]
       /\ holder' = [holder EXCEPT ![d] = NoWorker]
       /\ leaseLeft' = [leaseLeft EXCEPT ![d] = -1]

\* save, of an attempt's outcome.  When it fails the row stays claimed.
Save(w, s) ==
  LET g == group[w][s]
      d == Current(w, s) IN
  /\ g.phase = "saving"
  /\ \/ Update(w, d, g.out.status, g.todo[1].n, g.out.due) /\ UNCHANGED <<faults, unsaved>>
     \/ Fault /\ unsaved' = unsaved \cup {d} /\ UNCHANGED rows
  /\ Set(w, s, AfterAttempt(g))
  /\ UNCHANGED <<subs, enqueued, age, stopping, acked, twice, posts>>

\* release hands one more row back.  backOff moves it to when the endpoint is
\* next tried, and then defers what else waits for the subscription.
Release(w, s) ==
  LET g == group[w][s]
      d == Current(w, s)
      n == g.todo[1].n
      due == IF g.out.unreachable THEN g.out.due ELSE 0 IN
  /\ g.phase = "releasing"
  /\ \/ Update(w, d, IF n = 0 THEN "PENDING" ELSE "DEFERRED", n, due) /\ UNCHANGED faults
     \/ Fault /\ UNCHANGED rows
  /\ Set(w, s, IF Len(g.todo) > 1 THEN [g EXCEPT !.todo = Tail(@), !.left = Reserve]
               ELSE IF g.out.unreachable
                    THEN [g EXCEPT !.todo = <<>>, !.phase = "deferring", !.left = Reserve]
               ELSE Idle)
  /\ UNCHANGED <<subs, enqueued, age, stopping, history>>

\* Mutant of Deferred: a row that is due later than that is moved too.
DeferredAnyway(d, due) == status[d] \in Waiting

\* defer_subscription_deliveries.sql: only rows nobody holds, and only later.
Deferred(d, due) == status[d] \in Waiting /\ nextIn[d] < due

DeferSubscription(w, s) ==
  LET g == group[w][s] IN
  /\ g.phase = "deferring"
  /\ \/ /\ nextIn' = [d \in Deliveries |->
                        IF SubOf(d) = s /\ Deferred(d, g.out.due) THEN g.out.due ELSE nextIn[d]]
        /\ UNCHANGED faults
     \/ Fault /\ UNCHANGED nextIn
  /\ Set(w, s, Idle)
  /\ UNCHANGED <<status, holder, leaseLeft, attempts, subs, enqueued, age, stopping, history>>

Crash(w) ==
  /\ Busy(w)
  /\ Fault
  /\ group' = [group EXCEPT ![w] = [s \in Subs |-> Idle]]
  /\ unsaved' = unsaved \cup {d \in Deliveries : Attempting(w, d)}
  /\ UNCHANGED <<rows, subs, enqueued, age, stopping, acked, twice, posts>>

Shutdown(w) ==
  /\ Busy(w) /\ ~stopping[w]
  /\ Fault
  /\ stopping' = [stopping EXCEPT ![w] = TRUE]
  /\ UNCHANGED <<rows, subs, enqueued, group, age, history>>

\* The tenant disables or deletes a subscription; its rows stay.
ChangeSubscription(s) ==
  /\ subs[s] # "deleted"
  /\ \E to \in {"active", "disabled", "deleted"} \ {subs[s]} : subs' = [subs EXCEPT ![s] = to]
  /\ UNCHANGED <<rows, enqueued, group, age, stopping, faults, history>>

PruneTerminal(d) ==
  /\ status[d] \in Terminal
  /\ status' = [status EXCEPT ![d] = "GONE"]
  /\ UNCHANGED <<holder, leaseLeft, nextIn, attempts, subs, enqueued, group, age, stopping,
                 faults, history>>

\* Time passes, and no call in progress takes longer than it may.
Tick ==
  /\ \A w \in Workers, s \in Subs : group[w][s].phase \in InCall => group[w][s].left > 0
  /\ leaseLeft' = [d \in Deliveries |-> IF leaseLeft[d] >= 0 THEN leaseLeft[d] - 1 ELSE -1]
  /\ nextIn' = [d \in Deliveries |-> IF nextIn[d] > 0 THEN nextIn[d] - 1 ELSE 0]
  /\ age' = [w \in Workers |-> IF Busy(w) /\ age[w] < Window THEN age[w] + 1 ELSE age[w]]
  /\ group' = [w \in Workers |-> [s \in Subs |->
                 LET g == group[w][s] IN
                 [g EXCEPT !.left = IF @ > 0 THEN @ - 1 ELSE 0,
                           !.out.due = IF @ > 0 THEN @ - 1 ELSE 0]]]
  /\ UNCHANGED <<status, holder, attempts, subs, enqueued, stopping, faults, history>>

Work(w, s) ==
  \/ StartAttempt(w, s) \/ StopAttempts(w, s) \/ ReadSubscription(w, s) \/ Answered(w, s)
  \/ Save(w, s) \/ Release(w, s) \/ DeferSubscription(w, s)

Next ==
  \/ \E e \in Events : Enqueue(e)
  \/ \E w \in Workers : ClaimDue(w) \/ Crash(w) \/ Shutdown(w)
  \/ \E w \in Workers, s \in Subs : Work(w, s)
  \/ \E s \in Subs : ChangeSubscription(s)
  \/ \E d \in Deliveries : PruneTerminal(d)
  \/ Tick

Spec == Init /\ [][Next]_vars

\* Goroutines are scheduled, the poll ticker fires and time passes.  Strong
\* fairness: a subscription's claimed rows do not miss their start window, waiting
\* for the semaphore, every time.
Fairness ==
  /\ WF_vars(Tick)
  /\ \A w \in Workers : WF_vars(ClaimDue(w))
  /\ \A w \in Workers, s \in Subs : WF_vars(Work(w, s))
  /\ \A s \in Subs : SF_vars(\E w \in Workers : StartAttempt(w, s))

FairSpec == Spec /\ Fairness
-----------------------------------------------------------------------------
MaxAttempts == Len(Schedule) + 1
Row == [id: Deliveries, n: 0..MaxAttempts]
Outcome == [status: {"PENDING", "DEFERRED", "DELIVERED", "FAILED"}, due: Nat,
            unreachable: BOOLEAN]
Group == [phase: {"none", "next"} \cup InCall, todo: Seq(Row), streak: Nat, worst: Nat,
          left: Nat, out: Outcome]

TypeOK ==
  /\ status \in [Deliveries -> {"ABSENT", "SENDING", "GONE"} \cup Waiting \cup Terminal]
  /\ holder \in [Deliveries -> Workers \cup {NoWorker}]
  /\ leaseLeft \in [Deliveries -> -1..Lease]
  /\ nextIn \in [Deliveries -> Nat] /\ attempts \in [Deliveries -> 0..MaxAttempts]
  /\ subs \in [Subs -> {"active", "disabled", "deleted"}]
  /\ enqueued \subseteq Events
  /\ group \in [Workers -> [Subs -> Group]]
  /\ age \in [Workers -> Nat] /\ stopping \in [Workers -> BOOLEAN]
  /\ faults \in 0..MaxFaults
  /\ acked \subseteq Deliveries /\ twice \subseteq Deliveries /\ unsaved \subseteq Deliveries
  /\ posts \in [Deliveries -> 0..PostCap]

\* durable_worker.go: "A claim has to outlast everything done under it, or
\* another worker takes the rows over while this one is still posting them".
OnePoster ==
  \A w, v \in Workers, d \in Deliveries : Attempting(w, d) /\ Attempting(v, d) => w = v

\* A notification the endpoint confirmed is posted again only when the record
\* of that attempt could not be written.
ConfirmedOnce == twice \subseteq unsaved

\* save: a finished notification never goes back on the queue, however late the
\* worker that comes to record its outcome.
FinishedStays ==
  [][\A d \in Deliveries :
       /\ status[d] \in Terminal => status'[d] \in {status[d], "GONE"}
       /\ status[d] = "GONE" => status'[d] = "GONE"]_vars

\* What a notification's row looks like to a reader who knows nothing of claims: a
\* row being sent still waits for its attempt to be recorded.
RowState ==
  [d \in Deliveries |-> IF status[d] \in Waiting \cup {"SENDING"} THEN "WAITING" ELSE status[d]]

Promised == INSTANCE RetryQueue WITH
              Jobs <- Deliveries, MaxTries <- MaxAttempts, state <- RowState, tries <- attempts

\* Workers that claim, lapse, crash and come late are together no more than a queue
\* that tries each notification one attempt at a time, counts every recorded
\* attempt once and never reopens a settled one (update_delivery.sql, save).
KeepsItsPromise == Promised!Spec

\* The retry schedule bounds how often an endpoint sees one notification: one
\* post more for each attempt that left no record.
PostsBounded == \A d \in Deliveries : posts[d] <= MaxAttempts + faults

\* defer_subscription_deliveries.sql: "Nothing is brought forward".  A notification becomes due by waiting,
\* and no write makes it due sooner.
NothingBroughtForward ==
  [][\A d \in Deliveries : nextIn'[d] < nextIn[d] => Tick]_vars

\* Every queued notification is eventually finished with.
EventuallyFinished ==
  \A d \in Deliveries : status[d] \in Waiting ~> status[d] \in Terminal \cup {"GONE"}
-----------------------------------------------------------------------------
(* Values of the constants for TLC.                                        *)

AnyAnswer == [s \in Subs |-> Answer]
UpOrDown == [s \in Subs |-> {"ok", "unreachable"}]

OneDelay == <<1>>

WorkerSymmetry == Permutations(Workers)
=============================================================================
