---------------------------- MODULE RateLimiter ----------------------------
(***************************************************************************)
(* The token buckets of internal/ratelimit/limiter.go, as operators on the *)
(* map of buckets.  The limiter's mutex makes each call one step; Admission*)
(* and Pacing hold the map in their state and take those steps.            *)
(*                                                                         *)
(* Tokens are whole and a tick of the clock refills `rate` of them.  A call*)
(* that may evict returns the set of its possible results, because the     *)
(* order in which Go ranges over the map decides between buckets last seen *)
(* at the same moment.                                                     *)
(***************************************************************************)
EXTENDS Integers, Sequences, FiniteSets, SequencesExt

CONSTANTS
  MaxBuckets,  \* maxBuckets
  IdleTTL,     \* idleTTL, in ticks
  Minute       \* ticks in a minute: a limit without a burst allows that much

Lesser(a, b) == IF a < b THEN a ELSE b
Greater(a, b) == IF a > b THEN a ELSE b

\* A limit is a rate per tick and a burst; no rate is no ceiling.
Unlimited(limit) == limit.rate <= 0
Capacity(limit) == IF limit.burst > 0 THEN limit.burst ELSE limit.rate * Minute

NoBuckets == [k \in {} |-> 0]
Without(bs, ks) == [k \in DOMAIN bs \ ks |-> bs[k]]
With(bs, key, b) == [k \in DOMAIN bs \cup {key} |-> IF k = key THEN b ELSE bs[k]]

\* Mutant of Evictions: only the idle go.
EvictionsIdleOnly(bs, now) ==
  {Without(bs, {k \in DOMAIN bs : now - bs[k].seen > IdleTTL})}

\* evictIfNeeded: the idle go first, and when none is idle the least recently
\* seen.
Evictions(bs, now) ==
  LET kept == Without(bs, {k \in DOMAIN bs : now - bs[k].seen > IdleTTL})
      Oldest(k) == \A j \in DOMAIN kept : kept[k].seen <= kept[j].seen
  IN  IF Cardinality(DOMAIN bs) < MaxBuckets THEN {bs}
      ELSE IF Cardinality(DOMAIN kept) < MaxBuckets THEN {kept}
      ELSE {Without(kept, {k}) : k \in {j \in DOMAIN kept : Oldest(j)}}

FullBucket(limit, now) ==
  [tokens |-> Capacity(limit), cap |-> Capacity(limit), rate |-> limit.rate,
   refilled |-> now, seen |-> now]

\* bucketFor: a new bucket is full; one whose limit changed keeps what it has,
\* up to the new capacity.
BucketFor(bs, key, limit, now) ==
  IF key \in DOMAIN bs
  THEN {[bs EXCEPT ![key].rate = limit.rate, ![key].cap = Capacity(limit),
                   ![key].tokens = Lesser(@, Capacity(limit))]}
  ELSE {With(kept, key, FullBucket(limit, now)) : kept \in Evictions(bs, now)}

\* The refill at the head of assess and of ReserveAll's loop.
Refilled(b, now) ==
  [b EXCEPT !.tokens = Lesser(b.cap, b.tokens + (now - b.refilled) * b.rate),
            !.refilled = now, !.seen = now]

\* assess and decision.apply.  A cost no full bucket could pay goes through
\* and empties the bucket.
Oversized(b, cost) == cost > b.cap
Allows(b, cost) == Oversized(b, cost) \/ b.tokens >= cost
Charged(b, cost) ==
  [b EXCEPT !.tokens = IF Oversized(b, cost) THEN 0 ELSE b.tokens - cost]

CeilDiv(a, b) == (a + b - 1) \div b
RetryAfter(b, cost) == CeilDiv(cost - b.tokens, b.rate)

\* The requests a call looks at: those with a ceiling.
Binding(reqs) == SelectSeq(reqs, LAMBDA r : ~Unlimited(r.limit))

\* The first loop of AllowAll, for one request: refill and decide, charge
\* nothing.
AssessOne(results, r, cost, now) ==
  UNION {{LET b == Refilled(bs[r.key], now)
          IN  [buckets |-> [bs EXCEPT ![r.key] = b],
               allowed |-> s.allowed /\ Allows(b, cost),
               retry |-> IF Allows(b, cost) THEN s.retry
                         ELSE Greater(s.retry, RetryAfter(b, cost)),
               paying |-> s.paying \cup {r.key}]
            : bs \in BucketFor(s.buckets, r.key, r.limit, now)} : s \in results}

\* AllowAll: every bucket pays, or none does.  Allow is the case of one.
AllowAll(bs, reqs, cost, now) ==
  LET start == {[buckets |-> bs, allowed |-> TRUE, retry |-> 0, paying |-> {}]}
      Pay(s) == [k \in DOMAIN s.buckets |->
                   IF s.allowed /\ k \in s.paying THEN Charged(s.buckets[k], cost)
                   ELSE s.buckets[k]]
  IN  {[buckets |-> Pay(s), allowed |-> s.allowed, retry |-> s.retry] :
         s \in FoldLeft(LAMBDA S, r : AssessOne(S, r, cost, now), start, Binding(reqs))}

\* For the accounts only: what a charge of cost to b hands out that no tick
\* earned, and whether it had to create the bucket.  A fresh bucket is full,
\* and a cost no bucket holds goes through, with any debt the bucket had.
Unearned(before, key, b, cost) ==
  [fresh |-> key \notin DOMAIN before,
   amount |-> (IF key \in DOMAIN before THEN 0 ELSE b.cap)
              + (IF Oversized(b, cost) THEN cost - b.tokens ELSE 0)]

\* Mutant of ReserveOne: the wait is for the debt the bucket already had.
ReserveOneBehind(results, r, cost, now) ==
  UNION {{LET b == Refilled(bs[r.key], now)
          IN  [buckets |-> [bs EXCEPT ![r.key] = Charged(b, cost)],
               held |-> With(s.held, r.key,
                             IF Oversized(b, cost) THEN Greater(b.tokens, 0) ELSE cost),
               delay |-> IF b.tokens < 0
                         THEN Greater(s.delay, CeilDiv(-b.tokens, b.rate)) ELSE s.delay,
               gifts |-> With(s.gifts, r.key, Unearned(s.buckets, r.key, b, cost))]
            : bs \in BucketFor(s.buckets, r.key, r.limit, now)} : s \in results}

\* ReserveAll's loop, for one request: charge now, into debt if need be, and
\* wait for the debt to be repaid.
ReserveOne(results, r, cost, now) ==
  UNION {{LET b == Refilled(bs[r.key], now)
              c == Charged(b, cost)
          IN  [buckets |-> [bs EXCEPT ![r.key] = c],
               held |-> With(s.held, r.key,
                             IF Oversized(b, cost) THEN Greater(b.tokens, 0) ELSE cost),
               delay |-> IF c.tokens < 0
                         THEN Greater(s.delay, CeilDiv(-c.tokens, c.rate)) ELSE s.delay,
               gifts |-> With(s.gifts, r.key, Unearned(s.buckets, r.key, b, cost))]
            : bs \in BucketFor(s.buckets, r.key, r.limit, now)} : s \in results}

ReserveAll(bs, reqs, cost, now) ==
  FoldLeft(LAMBDA S, r : ReserveOne(S, r, cost, now),
           {[buckets |-> bs, held |-> NoBuckets, delay |-> 0,
             gifts |-> NoBuckets]}, Binding(reqs))

\* Cancel: give back what was taken, to the buckets that are still there.
Cancelled(bs, held) ==
  [k \in DOMAIN bs |->
     IF k \in DOMAIN held
     THEN [bs[k] EXCEPT !.tokens = Lesser(bs[k].cap, bs[k].tokens + held[k])]
     ELSE bs[k]]
=============================================================================
