------------------------------- MODULE Pacing -------------------------------
(***************************************************************************)
(* Delivery passes of one instance taking their turn at the tenant's and   *)
(* the provider's ceilings: paceDelivery (send_rate_limit.go) over the     *)
(* limiter of RateLimiter, with the buckets of other tenants coming and    *)
(* going in the same map.  A pass waits in its goroutine for a short turn, *)
(* and is rescheduled for a long one (rescheduleForPace, queue_worker.go). *)
(***************************************************************************)
EXTENDS RateLimiter

CONSTANTS
  Passes,       \* the deliveries waiting in the outbox
  Tenant, Provider, Other,  \* bucket keys: ours, and another tenant's
  Limits,       \* the limits an operator may set
  Cost,         \* recipients each pass still has to send to
  MaxPaceWait,  \* maxPaceWait, in ticks
  MaxNow,       \* bound on the clock
  MaxMade,      \* bound on the buckets created for a key
  MaxChanges    \* bound on edited limits and turns given back together

Keys == {Tenant, Provider}

VARIABLES
  clock, buckets,
  limitOf,   \* the limit in force for each key
  pass,      \* per pass: where it is, its next moment, and its reservation
  changes,   \* edited limits and turns given back so far
  made,      \* HISTORY: buckets created for each key
  sent,      \* HISTORY: recipients sent to on each key's account
  gift       \* HISTORY: tokens a bucket handed out that no tick earned

accounts == <<made, sent, gift>>
vars == <<clock, buckets, limitOf, pass, changes, accounts>>

Idle == [pc |-> "queued", at |-> 0, held |-> NoBuckets, since |-> [k \in {} |-> 0]]

Init ==
  /\ clock = 0 /\ buckets = NoBuckets
  /\ limitOf \in [Keys \cup {Other} -> Limits]
  /\ changes = 0
  /\ pass = [p \in Passes |-> Idle]
  /\ made = [k \in Keys |-> 0] /\ sent = [k \in Keys |-> 0] /\ gift = [k \in Keys |-> 0]

\* egressBucketKey: the buckets a delivery is charged to.  A tenant limit that
\* cannot be read paces nothing on the tenant's account.
Requests(readable) ==
  (IF readable THEN <<[key |-> Tenant, limit |-> limitOf[Tenant]]>> ELSE <<>>)
    \o <<[key |-> Provider, limit |-> limitOf[Provider]]>>

Fresh(res, k) == k \in DOMAIN res.gifts /\ res.gifts[k].fresh
Reserve(res) ==
  /\ buckets' = res.buckets
  /\ made' = [k \in Keys |-> made[k] + IF Fresh(res, k) THEN 1 ELSE 0]

Sends(p) == [k \in Keys |-> sent[k] + IF k \in DOMAIN pass'[p].held THEN Cost[p] ELSE 0]

\* Tokens that Cancel credits to a bucket created since they were taken.
Refund(k, held, since, bs) ==
  IF k \in DOMAIN held \cap DOMAIN bs /\ since[k] < made[k] THEN held[k] ELSE 0

\* paceDelivery: charge, and go, wait, or give the turn back and be
\* rescheduled for it.
PaceDelivery(p) ==
  /\ pass[p].pc = "queued" /\ pass[p].at <= clock
  /\ \E readable \in BOOLEAN :
       \E res \in ReserveAll(buckets, Requests(readable), Cost[p], clock) :
         LET since == [k \in DOMAIN res.held |->
                         made[k] + IF Fresh(res, k) THEN 1 ELSE 0]
             taken == [at |-> clock + res.delay, held |-> res.held, since |-> since]
             given == [k \in Keys |->
                         gift[k] + IF k \in DOMAIN res.gifts THEN res.gifts[k].amount ELSE 0]
         IN  \/ /\ res.delay = 0
                /\ Reserve(res)
                /\ pass' = [pass EXCEPT ![p] = [pc |-> "done"] @@ taken]
                /\ sent' = Sends(p) /\ gift' = given
             \/ /\ res.delay \in 1..MaxPaceWait
                /\ Reserve(res)
                /\ pass' = [pass EXCEPT ![p] = [pc |-> "waiting"] @@ taken]
                /\ sent' = sent /\ gift' = given
             \/ /\ res.delay > MaxPaceWait
                /\ Reserve([res EXCEPT !.buckets = Cancelled(res.buckets, res.held)])
                /\ pass' = [pass EXCEPT ![p] = [Idle EXCEPT !.at = clock + res.delay]]
                /\ sent' = sent
                /\ gift' = [k \in Keys |-> given[k] -
                              IF k \in DOMAIN res.held THEN Cost[p] - res.held[k] ELSE 0]
  /\ UNCHANGED <<clock, limitOf, changes>>

\* The timer fires: the pass sends.
TurnComes(p) ==
  /\ pass[p].pc = "waiting" /\ pass[p].at <= clock
  /\ pass' = [pass EXCEPT ![p].pc = "done"]
  /\ sent' = Sends(p)
  /\ UNCHANGED <<clock, buckets, limitOf, changes, made, gift>>

\* The context ends first: the turn is given back, once, and the pass waits
\* for as long again.
GiveBack(p) ==
  /\ pass[p].pc = "waiting" /\ changes < MaxChanges
  /\ changes' = changes + 1
  /\ buckets' = Cancelled(buckets, pass[p].held)
  /\ pass' = [pass EXCEPT ![p] = [Idle EXCEPT !.at = pass[p].at]]
  /\ gift' = [k \in Keys |-> gift[k] + Refund(k, pass[p].held, pass[p].since, buckets)
                - IF k \in DOMAIN pass[p].held THEN Cost[p] - pass[p].held[k] ELSE 0]
  /\ UNCHANGED <<clock, limitOf, made, sent>>

\* Another tenant's delivery, which may evict one of ours.
OtherTenant ==
  \E res \in ReserveAll(buckets, <<[key |-> Other, limit |-> limitOf[Other]]>>, 1, clock) :
    /\ res.buckets # buckets /\ res.delay = 0
    /\ \A k \in Keys : made[k] < MaxMade
    /\ buckets' = res.buckets
    /\ UNCHANGED <<clock, limitOf, pass, changes, accounts>>

\* An operator edits a limit; the bucket is re-rated when it is next asked.
Relimit(k, l) ==
  /\ limitOf[k] # l /\ changes < MaxChanges
  /\ changes' = changes + 1
  /\ limitOf' = [limitOf EXCEPT ![k] = l]
  /\ UNCHANGED <<clock, buckets, pass, accounts>>

Tick ==
  /\ clock < MaxNow /\ clock' = clock + 1
  /\ UNCHANGED <<buckets, limitOf, pass, changes, accounts>>

Next ==
  \/ \E p \in Passes : PaceDelivery(p) \/ TurnComes(p) \/ GiveBack(p)
  \/ OtherTenant
  \/ \E k \in Keys, l \in Limits : Relimit(k, l)
  \/ Tick

Spec == Init /\ [][Next]_vars
-----------------------------------------------------------------------------
MaxRate == CHOOSE r \in {l.rate : l \in Limits} : \A l \in Limits : l.rate <= r

TypeOK ==
  /\ clock \in 0..MaxNow
  /\ DOMAIN buckets \subseteq Keys \cup {Other}
  /\ Cardinality(DOMAIN buckets) <= MaxBuckets
  /\ \A k \in DOMAIN buckets : buckets[k].tokens <= buckets[k].cap
  /\ \A p \in Passes : pass[p].pc \in {"queued", "waiting", "done"}

\* "A batch drawing on one bucket is spread across time at the bucket's rate"
\* (limiter.go, ReserveAll): whatever passes reserve, wait for and give back,
\* by any moment no more has gone out on a key's account than its rate had
\* earned by then, beyond the tokens it handed out unearned: a new or evicted
\* bucket's burst, a message larger than any burst, and a turn given back to a
\* bucket that had been evicted since.
CeilingKept == \A k \in {Tenant, Provider} : sent[k] <= gift[k] + MaxRate * clock
=============================================================================
