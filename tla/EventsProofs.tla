---------------------------- MODULE EventsProofs ----------------------------
(***************************************************************************)
(* EventsKept and SuppressionsRight of MCEvents for every value of its     *)
(* constants.                                                              *)
(*                                                                         *)
(* A behaviour is one of one component, so each property follows from the  *)
(* inductive invariants of the components it is about (StoreInv, LogInv    *)
(* and IntakeInv, in their modules).                                       *)
(***************************************************************************)
EXTENDS MCEvents, TLAPS

-----------------------------------------------------------------------------
(* Event stores.                                                           *)

LEMMA StoreHolds == S!StoreInv => S!NothingLost /\ S!DeliveryListTrue
<1> SUFFICES ASSUME S!StoreInv PROVE S!NothingLost /\ S!DeliveryListTrue OBVIOUS
<1>1. S!NothingLost BY DEF S!StoreInv, S!NothingLost, S!Waiting
<1>2. S!DeliveryListTrue BY DEF S!StoreInv, S!DeliveryListTrue, S!Listed, S!UpToDate
<1> QED BY <1>1, <1>2

LEMMA BatchNone ==
  /\ S!NoBatch \in S!Batches /\ S!NoBatch.rows = {}
  /\ \A l \in [Keys -> Int] : S!After(S!NoBatch, l) = l
  /\ \A x : S!ListAfter(S!NoBatch, x) = x
<1>1. S!NoBatch.seen \in [{} -> Int] BY DEF S!NoBatch
<1>2. S!NoBatch \in S!Batches BY <1>1 DEF S!NoBatch, S!Batches
<1>3. \A l \in [Keys -> Int] : S!After(S!NoBatch, l) = l BY DEF S!NoBatch, S!After
<1>4. \A x : S!ListAfter(S!NoBatch, x) = x BY DEF S!NoBatch, S!ListAfter
<1> QED BY <1>2, <1>3, <1>4 DEF S!NoBatch

LEMMA StoreInit == S!Init => S!StoreInv
<1> SUFFICES ASSUME S!Init PROVE S!StoreInv OBVIOUS
<1>1. S!StoreTypes BY BatchNone DEF S!Init, S!StoreTypes, S!NoPass, S!Passes, S!None
<1>2. ix = S!Listed(latest) BY DEF S!Init, S!Listed
<1>3. S!BatchInv BY <1>1, <1>2, BatchNone DEF S!BatchInv, S!Init, S!UpToDate, S!StoreTypes
<1>4. S!PassInv /\ S!QueueInv /\ S!LocalInv BY DEF S!Init, S!NoPass, S!PassInv, S!QueueInv, S!LocalInv
<1> QED BY <1>1, <1>2, <1>3, <1>4 DEF S!Init, S!StoreInv, S!UpToDate

LEMMA AfterType == ASSUME NEW b \in S!Batches, NEW l \in [Keys -> Int] PROVE S!After(b, l) \in [Keys -> Int]
<1>1. PICK Z \in SUBSET Keys : b.seen \in [Z -> Int] BY DEF S!Batches
<1> QED BY <1>1 DEF S!After

\* performWrite moves the pointer forward, or leaves it.
LEMMA WriteBatch ==
  ASSUME S!StoreTypes, S!BatchInv, NEW e \in S!Event, MaxTs \in Int
  PROVE  LET b == S!PerformWrite(batch, e)
         IN  /\ b \in S!Batches /\ b.rows = batch.rows \cup {e}
             /\ S!ListAfter(b, ix) = S!Listed(S!After(b, latest))
             /\ S!UpToDate(rows \cup b.rows, S!After(b, latest), horizon)
<1> DEFINE k == e.key
           old == S!LatestSeen(batch, k)
           l == S!After(batch, latest)
           b == S!PerformWrite(batch, e)
           drop == IF old = S!None THEN {} ELSE {<<k, old>>}
           new == <<k, e.ts>>
<1>0. k \in Keys /\ e.ts \in Int /\ e.ts >= 0 BY DEF S!Event
<1>1. PICK Z \in SUBSET Keys : batch.seen \in [Z -> Int] BY DEF S!StoreTypes, S!Batches
<1>2. l \in [Keys -> Int] BY AfterType DEF S!StoreTypes
<1>3. old = l[k] BY <1>0 DEF S!LatestSeen, S!After
<1>4. CASE old = S!None \/ e.ts >= old
  <2>1. b = [rows |-> batch.rows \cup {e}, seen |-> S!Sees(batch, k, e.ts),
             add |-> (batch.add \ drop) \cup {new}, del |-> (batch.del \cup drop) \ {new}]
    BY <1>4 DEF S!PerformWrite
  <2> HIDE DEF b
  <2>2. S!Sees(batch, k, e.ts) \in [Z \cup {k} -> Int] BY <1>0, <1>1 DEF S!Sees
  <2>3. b.seen \in UNION {[Y -> Int] : Y \in SUBSET Keys} BY <1>0, <2>1, <2>2
  <2>4. drop \subseteq Keys \X Int /\ new \in Keys \X Int BY <1>0, <1>2, <1>3
  <2>5. b \in S!Batches /\ b.rows = batch.rows \cup {e}
    <3> HIDE DEF drop, new
    <3>1. batch \in S!Batches BY DEF S!StoreTypes
    <3> QED BY <2>1, <2>3, <2>4, <3>1 DEF S!Batches
  <2>6. S!After(b, latest) = [l EXCEPT ![k] = e.ts]
    <3>1. b.seen = S!Sees(batch, k, e.ts) BY <2>1
    <3> QED BY <1>0, <1>1, <3>1 DEF S!After, S!Sees
  <2>7. S!ListAfter(b, ix) = (S!ListAfter(batch, ix) \ drop) \cup {new}
    <3> HIDE DEF drop, new
    <3> QED BY <2>1 DEF S!ListAfter
  <2>8. S!Listed([l EXCEPT ![k] = e.ts]) = (S!Listed(l) \ drop) \cup {new}
    <3> HIDE DEF l
    <3> SUFFICES ASSUME NEW p PROVE p \in S!Listed([l EXCEPT ![k] = e.ts]) <=> p \in (S!Listed(l) \ drop) \cup {new}
      OBVIOUS
    <3>1. CASE \E j \in Keys, t \in Int : p = <<j, t>>
      <4>1. PICK j \in Keys, t \in Int : p = <<j, t>> BY <3>1
      <4>2. \A f \in [Keys -> Int] : p \in S!Listed(f) <=> t = f[j] /\ t # S!None BY <4>1 DEF S!Listed
      <4>3. [l EXCEPT ![k] = e.ts] \in [Keys -> Int] BY <1>0, <1>2
      <4>4. e.ts # S!None BY <1>0 DEF S!None
      <4>5. p \in drop <=> j = k /\ t = l[k] /\ t # S!None BY <1>3, <4>1
      <4>6. p = new <=> j = k /\ t = e.ts BY <4>1
      <4> HIDE DEF drop, new, old
      <4> QED BY <1>0, <1>2, <4>2, <4>3, <4>4, <4>5, <4>6
    <3>2. CASE ~\E j \in Keys, t \in Int : p = <<j, t>>
      BY <1>0, <1>2, <3>2 DEF S!Listed
    <3> QED BY <3>1, <3>2
  <2>9. S!ListAfter(b, ix) = S!Listed(S!After(b, latest)) BY <2>6, <2>7, <2>8 DEF S!BatchInv
  <2>10. S!UpToDate(rows \cup b.rows, S!After(b, latest), horizon)
    <3> SUFFICES ASSUME NEW x \in rows \cup b.rows, x.ts >= horizon
                 PROVE  [l EXCEPT ![k] = e.ts][x.key] >= x.ts
      BY <2>6 DEF S!UpToDate
    <3>1. x \in S!Event BY <2>5 DEF S!StoreTypes, S!Batches
    <3>2. x.key \in Keys /\ x.ts \in Int BY <3>1 DEF S!Event
    <3>3. CASE x = e BY <1>0, <1>2, <3>3
    <3>4. CASE x \in rows \cup batch.rows
      <4>1. l[x.key] >= x.ts BY <3>4 DEF S!BatchInv, S!UpToDate
      <4>2. x.ts >= 0 BY <3>1 DEF S!Event
      <4>3. x.key = k => e.ts >= x.ts
        BY <1>0, <1>2, <1>3, <1>4, <3>2, <4>1, <4>2 DEF S!None
      <4> HIDE DEF l, k
      <4> QED BY <1>0, <1>2, <3>2, <4>1, <4>3
    <3> QED BY <2>5, <3>3, <3>4
  <2> QED BY <2>5, <2>9, <2>10 DEF b
<1>5. CASE ~(old = S!None \/ e.ts >= old)
  <2>1. b = [batch EXCEPT !.rows = @ \cup {e}] BY <1>5 DEF S!PerformWrite
  <2> HIDE DEF b
  <2>2. b \in S!Batches /\ b.rows = batch.rows \cup {e} /\ b.seen = batch.seen /\ b.add = batch.add
        /\ b.del = batch.del
    BY <2>1 DEF S!StoreTypes, S!Batches
  <2>3. S!After(b, latest) = l BY <2>2 DEF S!After
  <2>4. S!ListAfter(b, ix) = S!ListAfter(batch, ix) BY <2>2 DEF S!ListAfter
  <2>5. S!UpToDate(rows \cup b.rows, l, horizon)
    <3>1. l[k] >= e.ts BY <1>0, <1>2, <1>3, <1>5
    <3> HIDE DEF l
    <3> QED BY <2>2, <3>1 DEF S!BatchInv, S!UpToDate, l
  <2> QED BY <2>2, <2>3, <2>4, <2>5 DEF S!BatchInv, b
<1> QED BY <1>4, <1>5

\* performLatestExpiry takes from the list what it takes from the pointers, and no
\* pointer that a cutoff has not reached.
LEMMA ExpiryBatch ==
  ASSUME S!StoreTypes, S!BatchInv, NEW expired \in SUBSET S!Event, \A x \in expired : x.ts < horizon,
         MaxTs \in Int
  PROVE  LET b == S!PerformLatestExpiry(batch, expired)
         IN  /\ b \in S!Batches /\ b.rows = batch.rows
             /\ S!ListAfter(b, ix) = S!Listed(S!After(b, latest))
             /\ S!UpToDate(rows \cup b.rows, S!After(b, latest), horizon)
<1> DEFINE l == S!After(batch, latest)
           b == S!PerformLatestExpiry(batch, expired)
           going == {e \in expired : S!StillNamed(batch, e)}
           keys == {e.key : e \in going}
           entries == {<<e.key, e.ts>> : e \in going}
           seen == [x \in DOMAIN batch.seen \cup keys |-> IF x \in keys THEN S!None ELSE batch.seen[x]]
<1>1. PICK Z \in SUBSET Keys : batch.seen \in [Z -> Int] BY DEF S!StoreTypes, S!Batches
<1>2. l \in [Keys -> Int] BY AfterType DEF S!StoreTypes
<1>3. \A e \in expired : e.key \in Keys /\ e.ts \in Int /\ e.ts >= 0 BY DEF S!Event
<1>4. \A e \in expired : e \in going <=> l[e.key] = e.ts BY <1>3 DEF S!StillNamed, S!LatestSeen, S!After
<1>5. b = [rows |-> batch.rows, seen |-> seen, add |-> batch.add \ entries, del |-> batch.del \cup entries]
  BY DEF S!PerformLatestExpiry
<1>6. keys \subseteq Keys /\ entries \subseteq Keys \X Int BY <1>3
<1>7. seen \in [Z \cup keys -> Int] BY <1>1 DEF S!None
<1>8. \A p : p \in entries <=> \E j \in keys : p = <<j, l[j]>>
  <2> SUFFICES ASSUME NEW p PROVE p \in entries <=> \E j \in keys : p = <<j, l[j]>> OBVIOUS
  <2>1. ASSUME p \in entries PROVE \E j \in keys : p = <<j, l[j]>>
    <3>1. PICK e \in going : p = <<e.key, e.ts>> BY <2>1
    <3>2. e.key \in keys /\ l[e.key] = e.ts BY <1>4, <3>1
    <3> QED BY <3>1, <3>2
  <2>2. ASSUME NEW j \in keys, p = <<j, l[j]>> PROVE p \in entries
    <3>1. PICK e \in going : j = e.key BY <2>2
    <3>2. l[j] = e.ts BY <1>4, <3>1
    <3> QED BY <2>2, <3>1, <3>2
  <2> QED BY <2>1, <2>2
<1>9. \A j \in keys : l[j] < horizon /\ l[j] # S!None
  <2> SUFFICES ASSUME NEW j \in keys PROVE l[j] < horizon /\ l[j] # S!None OBVIOUS
  <2>1. PICK e \in going : j = e.key OBVIOUS
  <2>2. l[j] = e.ts BY <1>4, <2>1
  <2> QED BY <1>3, <2>1, <2>2 DEF S!None
<1> HIDE DEF b, going, keys, entries
<1>10. S!After(b, latest) = [x \in Keys |-> IF x \in keys THEN S!None ELSE l[x]]
  <2>1. b.seen = seen BY <1>5
  <2> QED BY <1>1, <2>1 DEF S!After
<1>11. b \in S!Batches /\ b.rows = batch.rows
  <2>1. batch \in S!Batches BY DEF S!StoreTypes
  <2>2. seen \in UNION {[Y -> Int] : Y \in SUBSET Keys} BY <1>6, <1>7
  <2> HIDE DEF seen
  <2> QED BY <1>5, <1>6, <2>1, <2>2 DEF S!Batches
<1> HIDE DEF seen, l
<1>12. S!ListAfter(b, ix) = S!ListAfter(batch, ix) \ entries BY <1>5 DEF S!ListAfter
<1>13. S!Listed([x \in Keys |-> IF x \in keys THEN S!None ELSE l[x]]) = S!Listed(l) \ entries
  <2> SUFFICES ASSUME NEW p PROVE p \in S!Listed([x \in Keys |-> IF x \in keys THEN S!None ELSE l[x]])
                                  <=> p \in S!Listed(l) \ entries
    OBVIOUS
  <2>1. CASE \E j \in Keys, t \in Int : p = <<j, t>>
    <3>1. PICK j \in Keys, t \in Int : p = <<j, t>> BY <2>1
    <3>2. \A f : p \in S!Listed(f) <=> t = f[j] /\ t # S!None BY <3>1 DEF S!Listed
    <3>3. p \in entries <=> j \in keys /\ t = l[j] BY <1>8, <3>1
    <3> QED BY <3>2, <3>3
  <2>2. CASE ~\E j \in Keys, t \in Int : p = <<j, t>>
    BY <1>2, <2>2 DEF S!Listed, S!None
  <2> QED BY <2>1, <2>2
<1>14. S!ListAfter(b, ix) = S!Listed(S!After(b, latest)) BY <1>10, <1>12, <1>13 DEF S!BatchInv, l
<1>15. S!UpToDate(rows \cup b.rows, S!After(b, latest), horizon)
  <2> SUFFICES ASSUME NEW x \in rows \cup batch.rows, x.ts >= horizon
               PROVE  [j \in Keys |-> IF j \in keys THEN S!None ELSE l[j]][x.key] >= x.ts
    BY <1>10, <1>11 DEF S!UpToDate
  <2>1. x \in S!Event BY DEF S!StoreTypes, S!Batches
  <2>2. x.key \in Keys /\ x.ts \in Int BY <2>1 DEF S!Event
  <2>3. l[x.key] >= x.ts BY DEF S!BatchInv, S!UpToDate, l
  <2>4. x.key \notin keys BY <1>2, <1>9, <2>2, <2>3 DEF S!StoreTypes
  <2> QED BY <2>2, <2>3, <2>4
<1> QED BY <1>11, <1>14, <1>15 DEF b

\* Operations joining and leaving opChan.
LEMMA QueueGrows ==
  ASSUME NEW q \in Seq(S!Operations), NEW op \in S!Operations
  PROVE  /\ Append(q, op) \in Seq(S!Operations)
         /\ \A i \in DOMAIN Append(q, op) : \/ i \in DOMAIN q /\ Append(q, op)[i] = q[i]
                                            \/ Append(q, op)[i] = op
         /\ S!Waiting(q) \subseteq S!Waiting(Append(q, op))
         /\ op.expired = {} => op.event \in S!Waiting(Append(q, op))
<1> DEFINE a == Append(q, op)
<1>1. a \in Seq(S!Operations) /\ Len(a) = Len(q) + 1 /\ DOMAIN a = 1..Len(q) + 1 /\ DOMAIN q = 1..Len(q)
      /\ a[Len(q) + 1] = op /\ \A i \in 1..Len(q) : a[i] = q[i]
  OBVIOUS
<1> HIDE DEF a
<1>2. \A i \in DOMAIN a : (i \in DOMAIN q /\ a[i] = q[i]) \/ a[i] = op BY <1>1
<1>3. S!Waiting(q) \subseteq S!Waiting(a) BY <1>1 DEF S!Waiting
<1>4. op.expired = {} => op.event \in S!Waiting(a)
  <2>1. op.event \in S!Event BY DEF S!Operations
  <2>2. Len(q) + 1 \in DOMAIN a BY <1>1
  <2> QED BY <1>1, <2>1, <2>2 DEF S!Waiting
<1> QED BY <1>1, <1>2, <1>3, <1>4 DEF a

LEMMA QueueShrinks ==
  ASSUME NEW q \in Seq(S!Operations), q # <<>>
  PROVE  /\ Tail(q) \in Seq(S!Operations) /\ Head(q) \in S!Operations
         /\ 1 \in DOMAIN q /\ Head(q) = q[1]
         /\ \A i \in DOMAIN Tail(q) : i + 1 \in DOMAIN q /\ Tail(q)[i] = q[i + 1]
         /\ S!Waiting(q) \subseteq S!Waiting(Tail(q)) \cup (IF Head(q).expired = {} THEN {Head(q).event} ELSE {})
<1>1. Tail(q) \in Seq(S!Operations) /\ Head(q) = q[1] /\ DOMAIN Tail(q) = 1..Len(q) - 1
      /\ DOMAIN q = 1..Len(q) /\ Len(q) \in Nat /\ Len(q) >= 1
      /\ \A i \in 1..Len(q) - 1 : Tail(q)[i] = q[i + 1]
  OBVIOUS
<1>2. Head(q) \in S!Operations /\ 1 \in DOMAIN q BY <1>1
<1>3. \A i \in DOMAIN Tail(q) : i + 1 \in DOMAIN q /\ Tail(q)[i] = q[i + 1] BY <1>1
<1>4. \A i \in DOMAIN q : i # 1 => i - 1 \in DOMAIN Tail(q) /\ Tail(q)[i - 1] = q[i] BY <1>1
<1>5. S!Waiting(q) \subseteq S!Waiting(Tail(q)) \cup (IF Head(q).expired = {} THEN {Head(q).event} ELSE {})
  <2> SUFFICES ASSUME NEW e \in S!Event, NEW i \in DOMAIN q, q[i].event = e, q[i].expired = {}
               PROVE  e \in S!Waiting(Tail(q)) \/ (Head(q).expired = {} /\ e = Head(q).event)
    BY DEF S!Waiting
  <2>1. CASE i = 1 BY <1>1, <2>1
  <2>2. CASE i # 1 BY <1>4, <2>2 DEF S!Waiting
  <2> QED BY <2>1, <2>2
<1> QED BY <1>1, <1>2, <1>3, <1>5

LEMMA CommitStep ==
  ASSUME S!StoreTypes, NEW b \in S!Batches, S!CommitBatch(b),
         S!ListAfter(b, ix) = S!Listed(S!After(b, latest)),
         S!UpToDate(rows \cup b.rows, S!After(b, latest), horizon), horizon' = horizon
  PROVE  /\ batch' \in S!Batches /\ batch'.rows = {} /\ rows' = rows \cup b.rows /\ rows' \subseteq S!Event
         /\ latest' \in [Keys -> Int] /\ ix' \subseteq Keys \X Int
         /\ S!BatchInv' /\ ix' = S!Listed(latest') /\ S!UpToDate(rows', latest', horizon')
<1>1. latest' = S!After(b, latest) BY DEF S!CommitBatch, S!After, S!LatestSeen
<1>2. latest' \in [Keys -> Int] BY <1>1, AfterType DEF S!StoreTypes
<1>3. ix' = S!Listed(latest') BY <1>1 DEF S!CommitBatch, S!ListAfter
<1>4. batch' = S!NoBatch /\ rows' = rows \cup b.rows BY DEF S!CommitBatch
<1>5. S!After(batch', latest') = latest' /\ S!ListAfter(batch', ix') = ix' BY <1>2, <1>4, BatchNone
<1>6. S!UpToDate(rows', latest', horizon') BY <1>1, <1>4
<1>7. batch'.rows = {} BY <1>4, BatchNone
<1>8. S!BatchInv' BY <1>3, <1>4, <1>5, <1>6, <1>7 DEF S!BatchInv
<1>9. ix' \subseteq Keys \X Int BY <1>2, <1>3 DEF S!Listed
<1>10. rows' \subseteq S!Event BY <1>4 DEF S!StoreTypes, S!Batches
<1> QED BY <1>2, <1>3, <1>4, <1>6, <1>7, <1>8, <1>9, <1>10, BatchNone

\* The kept parts of the invariant: a step that leaves local and horizon alone.
LEMMA ListKept ==
  ASSUME S!StoreInv, UNCHANGED <<batch, rows, latest, ix, horizon>>
  PROVE  S!BatchInv' /\ ix' = S!Listed(latest') /\ S!UpToDate(rows', latest', horizon')
         /\ batch' \in S!Batches /\ rows' \subseteq S!Event /\ latest' \in [Keys -> Int]
         /\ ix' \subseteq Keys \X Int /\ horizon' \in Int
  BY DEF S!StoreInv, S!StoreTypes, S!BatchInv

LEMMA WriterStep ==
  ASSUME S!StoreTypes, NEW e \in S!Event, NEW alone \in BOOLEAN, S!WriterWrite(e, alone)
  PROVE  /\ wqueue' \in Seq(S!Event)
         /\ {wqueue[i] : i \in DOMAIN wqueue} \subseteq {wqueue'[i] : i \in DOMAIN wqueue'}
         /\ excused \subseteq excused'
         /\ alone => e \in excused' \cup {wqueue'[i] : i \in DOMAIN wqueue'}
<1>1. CASE wqueue' = Append(wqueue, e) /\ excused' = excused
  <2>1. wqueue' \in Seq(S!Event) /\ DOMAIN wqueue' = 1..Len(wqueue) + 1 /\ DOMAIN wqueue = 1..Len(wqueue)
        /\ Len(wqueue) \in Nat /\ wqueue'[Len(wqueue) + 1] = e
        /\ \A i \in 1..Len(wqueue) : wqueue'[i] = wqueue[i]
    BY <1>1 DEF S!StoreTypes
  <2>2. \A i \in DOMAIN wqueue : i \in DOMAIN wqueue' /\ wqueue'[i] = wqueue[i] BY <2>1
  <2>3. Len(wqueue) + 1 \in DOMAIN wqueue' BY <2>1
  <2> QED BY <1>1, <2>1, <2>2, <2>3
<1>2. CASE wqueue' = wqueue /\ excused' = IF alone THEN excused \cup {e} ELSE excused
  BY <1>2 DEF S!StoreTypes
<1> QED BY <1>1, <1>2 DEF S!WriterWrite

LEMMA WriteStep ==
  ASSUME S!StoreInv, NEW e \in S!Event, S!WriteLocal(e) \/ S!WriteShared(e)
  PROVE  S!StoreInv'
<1> DEFINE op == [event |-> e, expired |-> {}]
<1>0. S!StoreTypes BY DEF S!StoreInv
<1>1. op \in S!Operations BY DEF S!Operations
<1>2. UNCHANGED <<mode, batch, rows, latest, ix, pg, archived, pass, horizon>>
      /\ recorded' = recorded \cup {e}
  BY DEF S!WriteLocal, S!WriteShared, S!NewEvent
<1>3. /\ wqueue' \in Seq(S!Event)
      /\ {wqueue[i] : i \in DOMAIN wqueue} \subseteq {wqueue'[i] : i \in DOMAIN wqueue'}
      /\ excused \subseteq excused'
      /\ mode = "pebble" => wqueue' = wqueue
  <2>1. CASE \E alone \in BOOLEAN : S!WriterWrite(e, alone) /\ mode # "pebble" BY <1>0, <2>1, WriterStep
  <2>2. CASE UNCHANGED <<wqueue, excused>> BY <1>0, <2>2 DEF S!StoreTypes
  <2> QED BY <2>1, <2>2 DEF S!WriteLocal, S!WriteShared, S!Shared
<1>4. \/ queue' = Append(queue, op)
      \/ /\ queue' = queue /\ S!Shared
         /\ e \in excused' \cup {wqueue'[i] : i \in DOMAIN wqueue'}
  <2>1. CASE S!WriteLocal(e) BY <2>1 DEF S!WriteLocal, S!Enqueue
  <2>2. CASE S!WriteShared(e)
    <3>1. CASE S!Enqueue(op) BY <3>1 DEF S!Enqueue
    <3>2. CASE S!WriterWrite(e, TRUE) /\ UNCHANGED queue
      BY <1>0, <2>2, <3>2, WriterStep DEF S!WriteShared
    <3> QED BY <2>2, <3>1, <3>2 DEF S!WriteShared
  <2> QED BY <2>1, <2>2
<1> HIDE DEF op
<1>5. /\ queue' \in Seq(S!Operations) /\ S!Waiting(queue) \subseteq S!Waiting(queue')
      /\ \A i \in DOMAIN queue' : (i \in DOMAIN queue /\ queue'[i] = queue[i]) \/ queue'[i].expired = {}
      /\ e \in S!Waiting(queue') \/ (S!Shared /\ e \in excused' \cup {wqueue'[i] : i \in DOMAIN wqueue'})
  <2>1. queue \in Seq(S!Operations) BY <1>0 DEF S!StoreTypes
  <2>2. op.expired = {} /\ op.event = e BY DEF op
  <2>3. CASE queue' = Append(queue, op) BY <1>1, <2>1, <2>2, <2>3, QueueGrows
  <2>4. CASE queue' # Append(queue, op) BY <1>4, <2>1, <2>4
  <2> QED BY <2>3, <2>4
<1>6. S!StoreTypes' /\ S!BatchInv' /\ ix' = S!Listed(latest') /\ S!UpToDate(rows', latest', horizon')
  BY <1>2, <1>3, <1>5, ListKept DEF S!StoreInv, S!StoreTypes
<1>7. S!PassInv' BY <1>2 DEF S!StoreInv, S!PassInv
<1>8. S!QueueInv' BY <1>2, <1>5 DEF S!StoreInv, S!QueueInv
<1>9. S!LocalInv'
  <2>1. mode = "pebble" => wqueue' = <<>> /\ pg' = {} BY <1>2, <1>3 DEF S!StoreInv, S!LocalInv
  <2>2. ASSUME mode \in {"pebble", "shadow"}
        PROVE  recorded' \subseteq rows \cup archived \cup excused' \cup batch.rows \cup S!Waiting(queue')
    <3>1. e \in S!Waiting(queue') BY <1>5, <2>2 DEF S!Shared
    <3>2. recorded \subseteq rows \cup archived \cup excused \cup batch.rows \cup S!Waiting(queue)
      BY <2>2 DEF S!StoreInv, S!LocalInv
    <3>3. recorded' = recorded \cup {e} /\ excused \subseteq excused' /\ S!Waiting(queue) \subseteq S!Waiting(queue')
      BY <1>2, <1>3, <1>5
    <3> QED BY <3>1, <3>2, <3>3
  <2> QED BY <1>2, <2>1, <2>2 DEF S!LocalInv
<1>10. recorded' \subseteq rows' \cup pg' \cup archived' \cup excused' \cup batch'.rows \cup S!Waiting(queue')
                        \cup {wqueue'[i] : i \in DOMAIN wqueue'}
  <2>1. recorded \subseteq rows \cup pg \cup archived \cup excused \cup batch.rows \cup S!Waiting(queue)
                        \cup {wqueue[i] : i \in DOMAIN wqueue}
    BY DEF S!StoreInv
  <2> DEFINE W == {wqueue[i] : i \in DOMAIN wqueue}
             V == {wqueue'[i] : i \in DOMAIN wqueue'}
  <2>2. W \subseteq V /\ excused \subseteq excused' /\ S!Waiting(queue) \subseteq S!Waiting(queue')
        /\ e \in S!Waiting(queue') \cup excused' \cup V
    BY <1>3, <1>5
  <2> HIDE DEF W, V
  <2>3. recorded' = recorded \cup {e} /\ UNCHANGED <<rows, pg, archived, batch>> BY <1>2
  <2>4. recorded \subseteq rows \cup pg \cup archived \cup excused \cup batch.rows \cup S!Waiting(queue) \cup W
    BY <2>1 DEF W
  <2>5. recorded' \subseteq rows' \cup pg' \cup archived' \cup excused' \cup batch'.rows \cup S!Waiting(queue') \cup V
    BY <2>2, <2>3, <2>4
  <2> QED BY <2>5 DEF V
<1>11. recorded' \subseteq S!Event /\ pg' \subseteq S!Event /\ 0 <= horizon' BY <1>2 DEF S!StoreInv
<1> QED BY <1>6, <1>7, <1>8, <1>9, <1>10, <1>11 DEF S!StoreInv

LEMMA ApplyStep == ASSUME S!StoreInv, S!Apply, MaxTs \in Int PROVE S!StoreInv'
<1> DEFINE op == Head(queue)
<1>0. S!StoreTypes /\ S!BatchInv /\ queue \in Seq(S!Operations) /\ queue # <<>> /\ queue' = Tail(queue)
  BY DEF S!StoreInv, S!StoreTypes, S!Apply
<1>1. /\ queue' \in Seq(S!Operations) /\ op \in S!Operations /\ 1 \in DOMAIN queue /\ op = queue[1]
      /\ \A i \in DOMAIN queue' : i + 1 \in DOMAIN queue /\ queue'[i] = queue[i + 1]
      /\ S!Waiting(queue) \subseteq S!Waiting(queue') \cup (IF op.expired = {} THEN {op.event} ELSE {})
  BY <1>0, QueueShrinks
<1>2. UNCHANGED <<mode, wqueue, pg, archived, horizon, recorded, excused>> BY DEF S!Apply
<1> HIDE DEF op
<1>3. /\ batch' \in S!Batches /\ rows' \subseteq S!Event /\ latest' \in [Keys -> Int] /\ ix' \subseteq Keys \X Int
      /\ S!BatchInv' /\ ix' = S!Listed(latest') /\ S!UpToDate(rows', latest', horizon')
      /\ rows \cup batch.rows \cup (IF op.expired = {} THEN {op.event} ELSE {}) \subseteq rows' \cup batch'.rows
  <2>1. CASE op.expired = {}
    <3>1. batch' = S!PerformWrite(batch, op.event) /\ UNCHANGED <<rows, latest, ix>> BY <2>1 DEF S!Apply, op
    <3>2. op.event \in S!Event BY <1>1 DEF S!Operations
    <3>3. /\ batch' \in S!Batches /\ batch'.rows = batch.rows \cup {op.event}
          /\ S!ListAfter(batch', ix) = S!Listed(S!After(batch', latest))
          /\ S!UpToDate(rows \cup batch'.rows, S!After(batch', latest), horizon)
      BY <1>0, <3>1, <3>2, WriteBatch
    <3>4. S!BatchInv' BY <1>2, <3>1, <3>3 DEF S!BatchInv
    <3> QED BY <1>2, <2>1, <3>1, <3>3, <3>4 DEF S!StoreInv, S!StoreTypes
  <2>2. CASE op.expired # {}
    <3> DEFINE b == S!PerformLatestExpiry(batch, op.expired)
    <3>1. S!CommitBatch(b) BY <2>2 DEF S!Apply, op
    <3>2. op.expired \in SUBSET S!Event /\ \A x \in op.expired : x.ts < horizon
      BY <1>1, <2>2 DEF S!Operations, S!StoreInv, S!QueueInv
    <3>3. /\ b \in S!Batches /\ b.rows = batch.rows
          /\ S!ListAfter(b, ix) = S!Listed(S!After(b, latest))
          /\ S!UpToDate(rows \cup b.rows, S!After(b, latest), horizon)
      BY <1>0, <3>2, ExpiryBatch
    <3> HIDE DEF b
    <3> QED BY <1>0, <1>2, <2>2, <3>1, <3>3, CommitStep
  <2> QED BY <2>1, <2>2
<1>4. pass' \in S!Passes /\ S!PassInv'
  <2>1. CASE pass' = pass BY <1>2, <2>1 DEF S!StoreInv, S!StoreTypes, S!PassInv
  <2>2. CASE pass' = [pass EXCEPT !.pc = "next"]
    BY <1>2, <2>2 DEF S!StoreInv, S!StoreTypes, S!PassInv, S!Passes
  <2> QED BY <2>1, <2>2 DEF S!Apply
<1>5. S!StoreTypes' BY <1>0, <1>1, <1>2, <1>3, <1>4 DEF S!StoreTypes
<1>6. S!QueueInv' BY <1>1, <1>2 DEF S!StoreInv, S!QueueInv
<1>7. S!LocalInv' BY <1>1, <1>2, <1>3 DEF S!StoreInv, S!LocalInv
<1>8. recorded' \subseteq rows' \cup pg' \cup archived' \cup excused' \cup batch'.rows \cup S!Waiting(queue')
                        \cup {wqueue'[i] : i \in DOMAIN wqueue'}
  BY <1>1, <1>2, <1>3 DEF S!StoreInv
<1> QED BY <1>2, <1>3, <1>4, <1>5, <1>6, <1>7, <1>8 DEF S!StoreInv

LEMMA CommitKept == ASSUME S!StoreInv, S!Commit PROVE S!StoreInv'
<1>1. UNCHANGED <<mode, queue, wqueue, pg, archived, pass, horizon, recorded, excused>> /\ S!CommitBatch(batch)
  BY DEF S!Commit
<1>2. /\ batch' \in S!Batches /\ rows' = rows \cup batch.rows /\ rows' \subseteq S!Event
      /\ latest' \in [Keys -> Int] /\ ix' \subseteq Keys \X Int
      /\ S!BatchInv' /\ ix' = S!Listed(latest') /\ S!UpToDate(rows', latest', horizon')
  BY <1>1, CommitStep DEF S!StoreInv, S!BatchInv, S!StoreTypes
<1>3. S!StoreTypes' BY <1>1, <1>2 DEF S!StoreInv, S!StoreTypes
<1>4. S!PassInv' /\ S!QueueInv' BY <1>1 DEF S!StoreInv, S!PassInv, S!QueueInv
<1>5. S!LocalInv' BY <1>1, <1>2 DEF S!StoreInv, S!LocalInv
<1> QED BY <1>1, <1>2, <1>3, <1>4, <1>5 DEF S!StoreInv

LEMMA FlushStep == ASSUME S!StoreInv, S!Flush PROVE S!StoreInv'
<1>1. UNCHANGED <<mode, queue, batch, rows, latest, ix, archived, pass, horizon, recorded>>
  BY DEF S!Flush, S!local
<1>2. PICK n \in 1..Len(wqueue) :
        /\ wqueue' = SubSeq(wqueue, n + 1, Len(wqueue))
        /\ \/ pg' = pg \cup {wqueue[i] : i \in 1..n} /\ excused' = excused
           \/ pg' = pg /\ excused' = excused \cup {e \in {wqueue[i] : i \in 1..n} : ~S!InLocal(e)}
  BY DEF S!Flush
<1> DEFINE flushed == {wqueue[i] : i \in 1..n}
<1>3. /\ wqueue' \in Seq(S!Event)
      /\ {wqueue[i] : i \in DOMAIN wqueue} \subseteq flushed \cup {wqueue'[i] : i \in DOMAIN wqueue'}
      /\ mode # "pebble"
  <2>1. wqueue \in Seq(S!Event) /\ DOMAIN wqueue = 1..Len(wqueue) /\ Len(wqueue) \in Nat
    BY DEF S!StoreInv, S!StoreTypes
  <2>2. wqueue' \in Seq(S!Event) /\ DOMAIN wqueue' = 1..Len(wqueue) - n
        /\ \A i \in 1..Len(wqueue) - n : wqueue'[i] = wqueue[i + n]
    BY <1>2, <2>1
  <2>3. \A i \in DOMAIN wqueue : i \notin 1..n => i - n \in DOMAIN wqueue' /\ wqueue'[i - n] = wqueue[i]
    BY <2>1, <2>2
  <2>4. wqueue # <<>> BY DEF S!Flush
  <2> QED BY <2>2, <2>3, <2>4 DEF S!StoreInv, S!LocalInv
<1>4. pg \subseteq pg' /\ excused \subseteq excused' BY <1>2
<1>5. \A x : x \in flushed =>
        x \in pg' \cup excused' \cup rows \cup batch.rows \cup archived \cup S!Waiting(queue)
  <2> SUFFICES ASSUME NEW x, x \in flushed, S!InLocal(x)
               PROVE  x \in pg \cup rows \cup batch.rows \cup archived \cup S!Waiting(queue)
    BY <1>2
  <2>1. CASE x \in rows \cup batch.rows BY <2>1
  <2>2. CASE \E i \in DOMAIN queue : queue[i].event = x
    <3>1. PICK i \in DOMAIN queue : queue[i].event = x BY <2>2
    <3>2. queue[i] \in S!Operations BY <3>1 DEF S!StoreInv, S!StoreTypes
    <3>3. x \in S!Event BY <3>1, <3>2 DEF S!Operations
    <3>4. CASE queue[i].expired = {} BY <3>1, <3>3, <3>4 DEF S!Waiting
    <3>5. CASE queue[i].expired # {} BY <3>1, <3>5 DEF S!StoreInv, S!QueueInv, S!Safe
    <3> QED BY <3>4, <3>5
  <2> QED BY <2>1, <2>2 DEF S!InLocal
<1> DEFINE W == {wqueue[i] : i \in DOMAIN wqueue}
           V == {wqueue'[i] : i \in DOMAIN wqueue'}
<1>6. S!StoreTypes' /\ S!BatchInv' /\ ix' = S!Listed(latest') /\ S!UpToDate(rows', latest', horizon')
  BY <1>1, <1>3, ListKept DEF S!StoreInv, S!StoreTypes
<1>7. S!PassInv' BY <1>1, <1>4 DEF S!StoreInv, S!PassInv, S!Safe
<1>8. S!QueueInv' BY <1>1, <1>4 DEF S!StoreInv, S!QueueInv, S!Safe
<1>9. S!LocalInv' BY <1>1, <1>3, <1>4 DEF S!StoreInv, S!LocalInv
<1>10. recorded' \subseteq rows' \cup pg' \cup archived' \cup excused' \cup batch'.rows \cup S!Waiting(queue') \cup V
  <2>1. recorded \subseteq rows \cup pg \cup archived \cup excused \cup batch.rows \cup S!Waiting(queue) \cup W
    BY DEF S!StoreInv
  <2>2. W \subseteq flushed \cup V BY <1>3
  <2> HIDE DEF W, V, flushed
  <2> QED BY <1>1, <1>4, <1>5, <2>1, <2>2
<1>11. pg' \subseteq S!Event
  <2>1. flushed \subseteq S!Event BY <1>2 DEF S!StoreInv, S!StoreTypes
  <2> QED BY <1>2, <2>1 DEF S!StoreInv
<1> QED BY <1>1, <1>6, <1>7, <1>8, <1>9, <1>10, <1>11 DEF S!StoreInv

\* A step of the pass that leaves the local store and what is on its way alone.
LEMMA PassStep ==
  ASSUME S!StoreInv, UNCHANGED <<mode, S!local, wqueue, horizon, recorded, excused>>,
         archived \subseteq archived', pg' \subseteq pg,
         pg \ pg' \subseteq archived' \/ (mode = "shadow" /\ archived' = archived),
         pass' \in S!Passes, S!PassInv'
  PROVE  S!StoreInv'
<1>1. UNCHANGED <<queue, batch, rows, latest, ix>> BY DEF S!local
<1>2. S!StoreTypes' /\ S!BatchInv' /\ ix' = S!Listed(latest') /\ S!UpToDate(rows', latest', horizon')
  BY <1>1, ListKept DEF S!StoreInv, S!StoreTypes
<1>3. S!QueueInv' BY <1>1 DEF S!StoreInv, S!QueueInv, S!Safe
<1>4. S!LocalInv' BY <1>1 DEF S!StoreInv, S!LocalInv
<1> DEFINE W == {wqueue[i] : i \in DOMAIN wqueue}
<1>5. recorded \subseteq rows \cup pg' \cup archived' \cup excused \cup batch.rows \cup S!Waiting(queue) \cup W
  <2>1. recorded \subseteq rows \cup pg \cup archived \cup excused \cup batch.rows \cup S!Waiting(queue) \cup W
    BY DEF S!StoreInv
  <2>2. mode = "shadow" =>
          recorded \subseteq rows \cup archived \cup excused \cup batch.rows \cup S!Waiting(queue)
    BY DEF S!StoreInv, S!LocalInv
  <2> HIDE DEF W
  <2> QED BY <2>1, <2>2
<1> QED BY <1>1, <1>2, <1>3, <1>4, <1>5 DEF S!StoreInv

LEMMA NoPassType == S!NoPass \in S!Passes BY DEF S!NoPass, S!Passes

LEMMA StartPassStep ==
  ASSUME S!StoreInv, MaxTs \in Int, NEW before \in 1..MaxTs + 1, S!StartPass(before) PROVE S!StoreInv'
<1>1. UNCHANGED <<mode, queue, batch, rows, latest, ix, wqueue, pg, archived, recorded, excused>>
  BY DEF S!StartPass, S!local
<1>2. horizon' \in Int /\ horizon <= horizon' /\ before <= horizon'
  BY DEF S!StartPass, S!StoreInv, S!StoreTypes
<1>3. pass' \in S!Passes /\ pass'.pc = "scan" /\ pass'.before = before
  <2>1. before \in Int OBVIOUS
  <2>2. pass' = [pc |-> "scan", before |-> before, chunk |-> {}, held |-> {}] BY DEF S!StartPass, S!NoPass
  <2> QED BY <2>1, <2>2 DEF S!Passes
<1>4. S!StoreTypes' BY <1>1, <1>2, <1>3 DEF S!StoreInv, S!StoreTypes
<1>5. S!PassInv' BY <1>2, <1>3 DEF S!PassInv
<1>6. S!QueueInv'
  <2>1. \A i \in DOMAIN queue : \A x \in queue[i].expired : x.ts \in Int
    <3>1. \A i \in DOMAIN queue : queue[i] \in S!Operations BY DEF S!StoreInv, S!StoreTypes
    <3> QED BY <3>1 DEF S!Operations, S!Event
  <2> QED BY <1>1, <1>2, <2>1 DEF S!StoreInv, S!QueueInv, S!StoreTypes
<1>7. S!LocalInv' BY <1>1 DEF S!StoreInv, S!LocalInv
<1>8. \A x \in S!Event : x.ts >= horizon' => x.ts >= horizon
  BY <1>2 DEF S!StoreInv, S!StoreTypes, S!Event
<1>9. S!BatchInv'
  <2>1. rows \cup batch.rows \subseteq S!Event BY DEF S!StoreInv, S!StoreTypes, S!Batches
  <2>2. S!UpToDate(rows \cup batch.rows, S!After(batch, latest), horizon')
    BY <1>8, <2>1 DEF S!StoreInv, S!BatchInv, S!UpToDate
  <2> QED BY <1>1, <2>2 DEF S!StoreInv, S!BatchInv
<1>10. S!UpToDate(rows', latest', horizon') BY <1>1, <1>8 DEF S!StoreInv, S!StoreTypes, S!UpToDate
<1>11. 0 <= horizon' BY <1>2 DEF S!StoreInv, S!StoreTypes
<1> QED BY <1>1, <1>4, <1>5, <1>6, <1>7, <1>9, <1>10, <1>11 DEF S!StoreInv

LEMMA ScanStep == ASSUME S!StoreInv, MaxTs \in Int, S!Scan PROVE S!StoreInv'
<1>1. PICK taken \in S!Chunks(S!Expired(rows)) :
        pass' = IF taken = {} THEN [pass EXCEPT !.pc = "database"]
                ELSE [pass EXCEPT !.pc = "expire", !.chunk = taken, !.held = S!HeldEvents(taken)]
  BY DEF S!Scan
<1>2. taken \subseteq S!Event /\ \A x \in taken : x.ts < pass.before BY DEF S!Chunks, S!Expired, S!StoreInv, S!StoreTypes
<1>3. pass.before \in Int /\ horizon \in Int /\ pass.before <= horizon /\ pass \in S!Passes
  BY DEF S!StoreInv, S!StoreTypes, S!Passes, S!PassInv
<1>4. \A x \in taken : x.ts \in Int BY <1>2 DEF S!Event
<1>5. \A x \in taken : x.ts < horizon BY <1>2, <1>3, <1>4
<1>6. S!HeldEvents(taken) \subseteq taken /\ S!HeldEvents(taken) \subseteq S!Safe(mode, pg, {}) BY DEF S!HeldEvents, S!Safe, S!Shared
<1>7. UNCHANGED <<mode, S!local, wqueue, pg, archived, horizon, recorded, excused>> BY DEF S!Scan
<1>8. pass' \in S!Passes /\ S!PassInv'
  <2>1. CASE taken = {}
    <3>1. pass' \in S!Passes /\ pass'.pc = "database" /\ pass'.before = pass.before BY <1>1, <1>3, <2>1 DEF S!Passes
    <3> QED BY <1>3, <1>7, <3>1 DEF S!PassInv
  <2>2. CASE taken # {}
    <3>1. pass' \in S!Passes /\ pass'.pc = "expire" /\ pass'.before = pass.before /\ pass'.chunk = taken
          /\ pass'.held = S!HeldEvents(taken)
      BY <1>1, <1>2, <1>3, <1>6, <2>2 DEF S!Passes
    <3> QED BY <1>3, <1>5, <1>6, <1>7, <2>2, <3>1 DEF S!PassInv
  <2> QED BY <2>1, <2>2
<1> QED BY <1>7, <1>8, PassStep

LEMMA ExpireChunkStep == ASSUME S!StoreInv, S!ExpireChunk PROVE S!StoreInv'
<1>1. UNCHANGED <<mode, queue, batch, latest, ix, wqueue, pg, horizon, recorded, excused>>
      /\ rows' = rows \ pass.chunk /\ archived' = archived \cup (pass.chunk \ pass.held)
      /\ pass' = [pass EXCEPT !.pc = "latest"] /\ pass.pc = "expire"
  BY DEF S!ExpireChunk, S!ArchiveEvents, S!ToArchive
<1>2. pass.held \subseteq S!Safe(mode, pg, {}) /\ pass.chunk # {} /\ \A x \in pass.chunk : x.ts < horizon
  BY <1>1 DEF S!StoreInv, S!PassInv
<1>3. pass.chunk \subseteq S!Safe(mode, pg, archived') BY <1>1, <1>2 DEF S!Safe
<1>4. pass' \in S!Passes /\ pass'.pc = "latest" /\ pass'.chunk = pass.chunk /\ pass'.before = pass.before
  BY <1>1 DEF S!StoreInv, S!StoreTypes, S!Passes
<1>5. S!PassInv' BY <1>1, <1>2, <1>3, <1>4 DEF S!StoreInv, S!PassInv
<1>6. S!StoreTypes' BY <1>1, <1>4 DEF S!StoreInv, S!StoreTypes
<1>7. S!QueueInv' BY <1>1 DEF S!StoreInv, S!QueueInv, S!Safe
<1>8. S!LocalInv'
  <2>1. mode \in {"pebble", "shadow"} => pass.chunk \subseteq archived' BY <1>3, <1>1 DEF S!Safe
  <2> QED BY <1>1, <2>1 DEF S!StoreInv, S!LocalInv
<1>9. S!BatchInv' BY <1>1 DEF S!StoreInv, S!BatchInv, S!UpToDate
<1>10. S!UpToDate(rows', latest', horizon') BY <1>1 DEF S!StoreInv, S!UpToDate
<1> DEFINE W == {wqueue[i] : i \in DOMAIN wqueue}
<1>11. recorded \subseteq rows' \cup pg \cup archived' \cup excused \cup batch.rows \cup S!Waiting(queue) \cup W
  <2>1. recorded \subseteq rows \cup pg \cup archived \cup excused \cup batch.rows \cup S!Waiting(queue) \cup W
    BY DEF S!StoreInv
  <2>2. pass.chunk \subseteq pg \cup archived' BY <1>3 DEF S!Safe
  <2> HIDE DEF W
  <2> QED BY <1>1, <2>1, <2>2
<1> QED BY <1>1, <1>5, <1>6, <1>7, <1>8, <1>9, <1>10, <1>11 DEF S!StoreInv

LEMMA ExpireLatestStep == ASSUME S!StoreInv, S!ExpireLatest PROVE S!StoreInv'
<1> DEFINE op == [event |-> CHOOSE e \in pass.chunk : TRUE, expired |-> pass.chunk]
<1>1. UNCHANGED <<mode, batch, rows, latest, ix, wqueue, pg, archived, horizon, recorded, excused>>
      /\ queue' = Append(queue, op) /\ pass' = [pass EXCEPT !.pc = "wait"] /\ pass.pc = "latest"
  BY DEF S!ExpireLatest, S!Enqueue
<1>2. pass.chunk # {} /\ pass.chunk \subseteq S!Event /\ pass.chunk \subseteq S!Safe(mode, pg, archived)
      /\ \A x \in pass.chunk : x.ts < horizon
  BY <1>1 DEF S!StoreInv, S!PassInv, S!StoreTypes, S!Passes
<1>3. op.event \in pass.chunk /\ op.expired = pass.chunk /\ op \in S!Operations BY <1>2 DEF S!Operations
<1> HIDE DEF op
<1>4. /\ queue' \in Seq(S!Operations) /\ S!Waiting(queue) \subseteq S!Waiting(queue')
      /\ \A i \in DOMAIN queue' : (i \in DOMAIN queue /\ queue'[i] = queue[i]) \/ queue'[i] = op
  BY <1>1, <1>3, QueueGrows DEF S!StoreInv, S!StoreTypes
<1>5. pass' \in S!Passes /\ pass'.pc = "wait" /\ pass'.before = pass.before
  BY <1>1 DEF S!StoreInv, S!StoreTypes, S!Passes
<1>6. S!PassInv' BY <1>1, <1>5 DEF S!StoreInv, S!PassInv
<1>7. S!StoreTypes' /\ S!BatchInv' /\ ix' = S!Listed(latest') /\ S!UpToDate(rows', latest', horizon')
  BY <1>1, <1>4, <1>5, ListKept DEF S!StoreInv, S!StoreTypes
<1>8. S!QueueInv' BY <1>1, <1>2, <1>3, <1>4 DEF S!StoreInv, S!QueueInv
<1>9. S!LocalInv' BY <1>1, <1>4 DEF S!StoreInv, S!LocalInv
<1> DEFINE W == {wqueue[i] : i \in DOMAIN wqueue}
<1>10. recorded \subseteq rows \cup pg \cup archived \cup excused \cup batch.rows \cup S!Waiting(queue') \cup W
  <2>1. recorded \subseteq rows \cup pg \cup archived \cup excused \cup batch.rows \cup S!Waiting(queue) \cup W
    BY DEF S!StoreInv
  <2> HIDE DEF W
  <2> QED BY <1>4, <2>1
<1> QED BY <1>1, <1>6, <1>7, <1>8, <1>9, <1>10 DEF S!StoreInv

LEMMA NextChunkStep == ASSUME S!StoreInv, S!NextChunk PROVE S!StoreInv'
<1>1. UNCHANGED <<mode, S!local, wqueue, pg, archived, horizon, recorded, excused>> BY DEF S!NextChunk
<1>2. pass' \in S!Passes /\ pass'.pc = "scan" /\ pass'.before = pass.before
  BY DEF S!NextChunk, S!StoreInv, S!StoreTypes, S!Passes
<1>3. S!PassInv' BY <1>1, <1>2 DEF S!StoreInv, S!PassInv
<1> QED BY <1>1, <1>2, <1>3, PassStep

LEMMA SelectExpiredStep == ASSUME S!StoreInv, S!SelectExpired PROVE S!StoreInv'
<1>1. UNCHANGED <<mode, S!local, wqueue, horizon, recorded, excused>> BY DEF S!SelectExpired
<1>2. PICK taken \in S!Chunks(S!Expired(pg)) :
       IF ~S!Shared \/ taken = {}
       THEN /\ pass' = S!NoPass /\ pg' = IF mode = "shadow" THEN pg \ S!Expired(pg) ELSE pg
            /\ UNCHANGED archived
       ELSE /\ archived' = archived \cup taken
            /\ pass' = [pass EXCEPT !.pc = "delete", !.chunk = taken]
            /\ UNCHANGED pg
  BY DEF S!SelectExpired, S!ArchiveEvents
<1>3. CASE ~S!Shared \/ taken = {}
  <2>1. pass' = S!NoPass /\ pass'.before = 0 /\ pass'.pc = "idle" BY <1>2, <1>3 DEF S!NoPass
  <2>2. 0 <= horizon BY DEF S!StoreInv
  <2>3. S!PassInv' BY <1>1, <2>1, <2>2 DEF S!PassInv
  <2> QED BY <1>1, <1>2, <1>3, <2>1, <2>3, NoPassType, PassStep
<1>4. CASE S!Shared /\ taken # {}
  <2>1. taken \subseteq pg BY DEF S!Chunks, S!Expired
  <2>2. pg \subseteq S!Event BY DEF S!StoreInv
  <2>3. pass' \in S!Passes /\ pass'.pc = "delete" /\ pass'.before = pass.before /\ pass'.chunk = taken
    BY <1>2, <1>4, <2>1, <2>2 DEF S!StoreInv, S!StoreTypes, S!Passes
  <2>4. S!PassInv' BY <1>1, <1>2, <1>4, <2>3 DEF S!StoreInv, S!PassInv
  <2> QED BY <1>1, <1>2, <1>4, <2>3, <2>4, PassStep
<1> QED BY <1>3, <1>4

LEMMA DeleteArchivedStep == ASSUME S!StoreInv, S!DeleteArchived PROVE S!StoreInv'
<1>1. UNCHANGED <<mode, S!local, wqueue, archived, horizon, recorded, excused>>
      /\ pg' = pg \ pass.chunk /\ pass.pc = "delete" /\ pass' = [pass EXCEPT !.pc = "database", !.chunk = {}]
  BY DEF S!DeleteArchived
<1>2. pass.chunk \subseteq archived BY <1>1 DEF S!StoreInv, S!PassInv
<1>3. pass' \in S!Passes /\ pass'.pc = "database" /\ pass'.before = pass.before
  BY <1>1 DEF S!StoreInv, S!StoreTypes, S!Passes
<1>4. S!PassInv' BY <1>1, <1>3 DEF S!StoreInv, S!PassInv
<1> QED BY <1>1, <1>2, <1>3, <1>4, PassStep

LEMMA AbandonStep == ASSUME S!StoreInv, S!Abandon PROVE S!StoreInv'
<1>1. UNCHANGED <<mode, S!local, wqueue, pg, archived, horizon, recorded, excused>> /\ pass' = S!NoPass
  BY DEF S!Abandon
<1>2. 0 <= horizon BY DEF S!StoreInv
<1>3. S!PassInv' BY <1>1, <1>2 DEF S!PassInv, S!NoPass
<1> QED BY <1>1, <1>3, NoPassType, PassStep

LEMMA CrashStep == ASSUME S!StoreInv, S!Crash PROVE S!StoreInv'
<1>1. /\ queue' = <<>> /\ batch' = S!NoBatch /\ wqueue' = <<>> /\ pass' = S!NoPass
      /\ excused' = excused \cup (recorded \ (rows \cup pg \cup archived))
                            \cup (IF mode = "shadow" THEN recorded \ (rows \cup archived) ELSE {})
      /\ UNCHANGED <<mode, rows, latest, ix, pg, archived, horizon, recorded>>
  BY DEF S!Crash
<1>2. 0 <= horizon BY DEF S!StoreInv
<1>3. S!PassInv' BY <1>1, <1>2 DEF S!PassInv, S!NoPass
<1>4. S!StoreTypes' BY <1>1, BatchNone, NoPassType DEF S!StoreInv, S!StoreTypes
<1>5. S!QueueInv' BY <1>1 DEF S!QueueInv
<1>6. S!LocalInv' BY <1>1 DEF S!StoreInv, S!LocalInv
<1>7. S!BatchInv'
  <2>1. S!After(S!NoBatch, latest) = latest /\ S!ListAfter(S!NoBatch, ix) = ix /\ S!NoBatch.rows = {}
    BY BatchNone DEF S!StoreInv, S!StoreTypes
  <2> QED BY <1>1, <2>1 DEF S!StoreInv, S!BatchInv
<1>8. recorded' \subseteq rows' \cup pg' \cup archived' \cup excused' BY <1>1
<1> QED BY <1>1, <1>3, <1>4, <1>5, <1>6, <1>7, <1>8 DEF S!StoreInv

LEMMA StoreStep == ASSUME S!StoreInv, MaxTs \in Int, [S!Next]_(S!vars) PROVE S!StoreInv'
<1>1. CASE S!Close \/ UNCHANGED S!vars
  <2>1. UNCHANGED <<mode, S!local, wqueue, pg, archived, pass, horizon, recorded, excused>>
    BY <1>1 DEF S!Close, S!vars, S!local
  <2>2. pass' \in S!Passes /\ S!PassInv' BY <2>1 DEF S!StoreInv, S!StoreTypes, S!PassInv
  <2> QED BY <2>1, <2>2, PassStep
<1> QED BY <1>1, WriteStep, ApplyStep, CommitKept, FlushStep, StartPassStep, ScanStep,
        ExpireChunkStep, ExpireLatestStep, NextChunkStep, SelectExpiredStep, DeleteArchivedStep,
        AbandonStep, CrashStep DEF S!Next

-----------------------------------------------------------------------------
(* Logs.                                                                   *)

LEMMA LogInit == L!Init => L!LogInv
<1> SUFFICES ASSUME L!Init PROVE L!LogInv OBVIOUS
<1>2. "state" \in DOMAIN view BY DEF L!Init, L!NoView
<1> QED BY <1>2 DEF L!Init, L!LogInv, L!NoWriter, L!Writers

\* A commit makes nothing owed disappear.
LEMMA CommitKeeps ==
  ASSUME NEW b, L!Commit(b) PROVE db \cup gone \cup b \subseteq db' \cup gone'
  BY DEF L!Commit

LEMMA LogStep == ASSUME L!LogInv, [L!Next]_(L!logVars) PROVE L!LogInv'
<1> USE DEF L!LogInv
<1>1. CASE L!Handle
  <2>1. PICK k \in LogKeys : writer' = [key |-> k, left |-> view.state = "open", broadcast |-> view.state = "open"]
    BY <1>1 DEF L!Handle
  <2>2. writer' \in L!Writers BY <2>1 DEF L!Writers
  <2>3. writer'.broadcast => view.state = "open" BY <2>1
  <2>4. UNCHANGED <<view, logChan, logBatch, db, worker, stopped, dbClosed, owed, gone, badSend>>
    BY <1>1 DEF L!Handle
  <2> QED BY <2>2, <2>3, <2>4
<1>2. CASE L!Broadcast
  <2>1. "state" \in DOMAIN view' /\ view'.state = view.state
    BY <1>2 DEF L!Broadcast, L!Writers
  <2>2. writer' \in L!Writers /\ writer'.broadcast BY <1>2 DEF L!Broadcast, L!Writers
  <2> QED BY <1>2, <2>1, <2>2 DEF L!Broadcast
<1>3. CASE L!BroadcastEnds
  <2>1. writer' \in L!Writers /\ ~writer'.broadcast BY <1>3 DEF L!BroadcastEnds, L!Writers
  <2> QED BY <1>3, <2>1 DEF L!BroadcastEnds
<1>4. CASE L!Enqueue
  <2>1. writer' \in L!Writers /\ ~writer'.broadcast
    BY <1>4 DEF L!Enqueue, L!NoWriter, L!Writers
  <2>2. logChan' \in Seq(LogKeys \cup {0}) BY <1>4 DEF L!Enqueue, L!Writers
  <2>3. CASE logChan' = Append(logChan, writer.key)
    <3>1. owed' \subseteq owed \cup {writer.key} BY <1>4, <2>3 DEF L!Enqueue
    <3>2. stopped => owed' = owed BY <1>4, <2>3 DEF L!Enqueue
    <3>3. \A i \in DOMAIN logChan : i \in DOMAIN logChan' /\ logChan'[i] = logChan[i] BY <2>3
    <3>4. Len(logChan') \in DOMAIN logChan' /\ logChan'[Len(logChan')] = writer.key BY <2>3
    <3> QED BY <1>4, <2>1, <2>2, <3>1, <3>2, <3>3, <3>4 DEF L!Enqueue
  <2>4. CASE logChan' = logChan /\ owed' = owed
    BY <1>4, <2>1, <2>4 DEF L!Enqueue
  <2> QED BY <1>4, <2>3, <2>4 DEF L!Enqueue
<1>5. CASE L!TakeEntry
  <2> DEFINE grown == logBatch \cup {Head(logChan)}
  <2>1. logChan' \in Seq(LogKeys \cup {0}) BY <1>5 DEF L!TakeEntry
  <2>2. {logChan[i] : i \in DOMAIN logChan} \subseteq {Head(logChan)} \cup {logChan'[i] : i \in DOMAIN logChan'}
    <3> SUFFICES ASSUME NEW i \in DOMAIN logChan, i # 1
                 PROVE  logChan[i] \in {logChan'[j] : j \in DOMAIN logChan'}
      BY <1>5 DEF L!TakeEntry
    <3>1. i - 1 \in DOMAIN logChan' /\ logChan'[i - 1] = logChan[i] BY <1>5 DEF L!TakeEntry
    <3> QED BY <3>1
  <2>3. db \cup gone \cup grown \subseteq db' \cup gone' \cup logBatch'
    <3>1. CASE L!Commit(grown) /\ logBatch' = {} BY <3>1, CommitKeeps
    <3>2. CASE logBatch' = grown /\ UNCHANGED <<db, gone, logFaults>> BY <3>2
    <3> QED BY <1>5, <3>1, <3>2 DEF L!TakeEntry
  <2>4. worker' = worker /\ worker # "done" /\ owed' = owed BY <1>5 DEF L!TakeEntry
  <2>5. owed' \subseteq db' \cup gone' \cup logBatch' \cup {logChan'[i] : i \in DOMAIN logChan'}
    BY <2>2, <2>3, <2>4
  <2> QED BY <1>5, <2>1, <2>4, <2>5 DEF L!TakeEntry
<1>6. CASE L!Tick
  <2>1. db \cup gone \cup logBatch \subseteq db' \cup gone' BY <1>6, CommitKeeps DEF L!Tick
  <2> QED BY <1>6, <2>1 DEF L!Tick
<1>7. CASE L!SeesStop
  BY <1>7 DEF L!SeesStop
<1>8. CASE L!Drained
  <2>1. db \cup gone \cup logBatch \subseteq db' \cup gone' BY <1>8, CommitKeeps DEF L!Drained, L!LastBatch
  <2>2. {logChan[i] : i \in DOMAIN logChan} = {} BY <1>8 DEF L!Drained
  <2>3. owed' \subseteq db' \cup gone' BY <1>8, <2>1, <2>2 DEF L!Drained
  <2> QED BY <1>8, <2>3 DEF L!Drained
<1>9. CASE L!CloseStop \/ L!CloseDb
  BY <1>9 DEF L!CloseStop, L!CloseDb
<1>10. CASE L!Subscribe
  <2>0. PICK c \in L!Callers : \E scope \in L!Scopes(c.super, c.tenant) :
          view' = [L!NoView EXCEPT !.state = "open", !.by = c, !.scope = scope]
    BY <1>10 DEF L!Subscribe
  <2>1. PICK scope \in L!Scopes(c.super, c.tenant) :
          view' = [L!NoView EXCEPT !.state = "open", !.by = c, !.scope = scope]
    BY <2>0
  <2>3. "state" \in DOMAIN view' /\ view'.state = "open" BY <2>1 DEF L!NoView
  <2> QED BY <1>10, <2>3 DEF L!Subscribe
<1>11. CASE L!StreamNext
  <2>2. "state" \in DOMAIN view' /\ view'.state = view.state BY <1>11 DEF L!StreamNext
  <2> QED BY <1>11, <2>2 DEF L!StreamNext
<1>12. CASE L!Unsubscribe
  <2>1. "state" \in DOMAIN view' BY <1>12 DEF L!Unsubscribe
  <2> QED BY <1>12, <2>1 DEF L!Unsubscribe, L!SubLockFree
<1>13. CASE L!ListLogs \/ L!ListPage \/ L!StartTruncate \/ L!TruncateEnds \/ UNCHANGED L!logVars
  <2>1. UNCHANGED <<writer, view, logChan, logBatch, db, worker, stopped, dbClosed, owed, gone, badSend>>
    BY <1>13 DEF L!ListLogs, L!ListPage, L!StartTruncate, L!TruncateEnds, L!logVars
  <2> QED BY <2>1
<1>14. CASE L!TruncateBatch
  <2>1. db \cup gone \subseteq db' \cup gone' BY <1>14 DEF L!TruncateBatch
  <2> QED BY <1>14, <2>1 DEF L!TruncateBatch
<1> QED BY <1>1, <1>2, <1>3, <1>4, <1>5, <1>6, <1>7, <1>8, <1>9, <1>10, <1>11, <1>12, <1>13, <1>14
        DEF L!Next

\* For any events, chunks, capacities, passes, failures and crashes, in each of the
\* four ways the stores are wired: retention deletes no event that is not archived,
\* the delivery list names what the pointers name and nothing outdated; and a log
\* entry that was queued is stored when Close returns, and none is sent to a view
\* that is closed (performWrite, performLatestExpiry, expireChunk,
\* archiveAndDeleteEvents; worker, Write).
THEOREM NoEventLost == Spec => []EventsKept
<1> DEFINE Inv == /\ part = "storing" => S!StoreInv
                  /\ part = "logging" => L!LogInv
<1>1. Init => Inv
  BY StoreInit, LogInit DEF Init
<1>2. Inv /\ [Next]_vars => Inv'
  <2> SUFFICES ASSUME Inv, [Next]_vars PROVE Inv' OBVIOUS
  <2>1. ASSUME part' = "storing" PROVE (S!StoreInv)'
    <3>1. part = "storing" /\ [S!Next]_(S!vars)
      BY <2>1 DEF Next, vars, storing, S!vars
    <3> QED BY <3>1, StoreStep, TimesAssumption
  <2>2. ASSUME part' = "logging" PROVE (L!LogInv)'
    <3>1. part = "logging" /\ [L!Next]_(L!logVars)
      BY <2>2 DEF Next, vars, logging, L!logVars
    <3> QED BY <3>1, LogStep
  <2> QED BY <2>1, <2>2
<1>3. Inv => EventsKept
  BY StoreHolds DEF EventsKept, L!LogInv, L!QueuedIsStored, L!NoSendOnClosed
<1> QED BY <1>1, <1>2, <1>3, PTL DEF Spec

-----------------------------------------------------------------------------
(* The suppression list.                                                   *)

LEMMA IntakeInit == I!Init => I!IntakeInv
  BY DEF I!Init, I!IntakeInv, I!Spelling

\* What each report makes of the list, in whichever provider's words.
LEMMA ReadAsMeant ==
  ASSUME NEW p, NEW meaning \in I!Meaning
  PROVE  LET w == I!Worded(p, meaning)
         IN  I!suppressForEvent(I!Reclassified(I!EventTypeOf(p, w.word), w.text))
               <=> meaning \in {"gone", "complaint"}
<1> USE DEF I!Meaning, I!Worded, I!EventTypeOf, I!Text, I!Reclassified, I!ClassifyError, I!ReadOf, I!Verdict,
        I!suppressForEvent
<1>1. CASE meaning = "gone"
  <2>1. I!Worded(p, meaning).word = "hard" /\ I!Worded(p, meaning).text = I!Text("5xx", {"hard"}) BY <1>1
  <2>2. I!ClassifyError(I!Text("5xx", {"hard"})).type = "HARD_BOUNCE" OBVIOUS
  <2>3. I!EventTypeOf(p, "hard") \in {"BOUNCED", "HARD_BOUNCE"} OBVIOUS
  <2> QED BY <1>1, <2>1, <2>2, <2>3 DEF I!Reclassified, I!suppressForEvent
<1>2. CASE meaning = "busy"
  <2>1. I!Worded(p, meaning).word = "soft" /\ I!Worded(p, meaning).text = I!Text("4xx", {"hard"}) BY <1>2
  <2>2. I!ClassifyError(I!Text("4xx", {"hard"})).type = "SOFT_BOUNCE" OBVIOUS
  <2>3. I!EventTypeOf(p, "soft") \in {"BOUNCED", "SOFT_BOUNCE"} OBVIOUS
  <2> QED BY <1>2, <2>1, <2>2, <2>3
<1>3. CASE meaning = "refused"
  <2>1. I!Worded(p, meaning).word = "soft" /\ I!Worded(p, meaning).text = I!Text("5xx", {"content"}) BY <1>3
  <2>2. I!ClassifyError(I!Text("5xx", {"content"})).type = "REJECTED" OBVIOUS
  <2>3. I!EventTypeOf(p, "soft") \in {"BOUNCED", "SOFT_BOUNCE"} OBVIOUS
  <2> QED BY <1>3, <2>1, <2>2, <2>3
<1>4. CASE meaning \notin {"gone", "busy", "refused"}
  <2>1. I!Worded(p, meaning).word = meaning BY <1>4
  <2>2. I!EventTypeOf(p, meaning) # "BOUNCED" /\ I!EventTypeOf(p, meaning) # "HARD_BOUNCE" BY <1>4
  <2>3. I!EventTypeOf(p, meaning) = "SPAM_REPORT" <=> meaning = "complaint" BY <1>4
  <2> QED BY <1>4, <2>1, <2>2, <2>3
<1> QED BY <1>1, <1>2, <1>3, <1>4

\* A recording that is no bounce and no complaint leaves the list alone.
LEMMA QuietRecord ==
  ASSUME NEW m, NEW type \in {"PENDING", "DROPPED", "DELIVERED", "OPENED", "CLICKED"},
         NEW rcpt, I!Note(m, type, rcpt)
  PROVE  list' = list
  BY DEF I!Note, I!RecordEvent, I!Reclassified, I!suppressForEvent

LEMMA IntakeStep ==
  ASSUME I!IntakeInv, [I!Next]_(I!vars) PROVE I!IntakeInv' /\ ~I!SendsWhileCause
<1> USE DEF I!IntakeInv
<1>0. causes # {} => \A s \in I!Spelling : I!Suppressed(s)
  BY DEF I!Suppressed, I!suppressionKey
<1>1. ASSUME NEW m \in Messages, NEW s \in I!Spelling, I!Admit(m, s) PROVE I!IntakeInv' /\ ~I!SendsWhileCause
  <2>1. list' = list BY <1>1, QuietRecord DEF I!Admit
  <2>2. causes = {} BY <1>0, <1>1 DEF I!Admit
  <2> QED BY <1>1, <2>1, <2>2 DEF I!Admit, I!SendsWhileCause
<1>2. ASSUME NEW m \in Messages, I!BeginPass(m) PROVE I!IntakeInv' /\ ~I!SendsWhileCause
  <2>1. list' = list BY <1>2, QuietRecord DEF I!BeginPass
  <2>2. /\ \/ msgs' = [msgs EXCEPT ![m].at = "skipped"]
           \/ msgs' = [msgs EXCEPT ![m].at = "dropped"]
           \/ msgs' = [msgs EXCEPT ![m].at = "pacing"] /\ causes = {}
        /\ msgs[m].at = "queued"
    BY <1>0, <1>2 DEF I!BeginPass
  <2>3. I!IntakeInv' BY <1>2, <2>1, <2>2 DEF I!BeginPass
  <2>4. causes # {} => /\ msgs'[m].at \in {"skipped", "dropped"}
                       /\ \A n \in Messages : n # m => msgs'[n] = msgs[n]
    BY <2>2
  <2> QED BY <2>3, <2>4 DEF I!SendsWhileCause
<1>11. ASSUME NEW m \in Messages, I!PacedOut(m) \/ I!HandOver(m) PROVE I!IntakeInv' /\ ~I!SendsWhileCause
  <2>1. list' = list BY <1>11, QuietRecord DEF I!PacedOut, I!HandOver
  <2>2. /\ \/ msgs' = [msgs EXCEPT ![m].at = "queued"]
           \/ msgs' = [msgs EXCEPT ![m].at = "handed", ![m].key = key]
        /\ msgs[m].at = "pacing"
        /\ UNCHANGED <<causes, reports, key>>
    BY <1>11 DEF I!PacedOut, I!HandOver
  <2>3. I!IntakeInv' BY <2>1, <2>2
  <2>4. \A n \in Messages : (n # m => msgs'[n] = msgs[n]) /\ (n = m => msgs'[n].at # "pacing")
    BY <2>2
  <2> QED BY <2>2, <2>3, <2>4 DEF I!SendsWhileCause
<1>3. ASSUME NEW m \in Messages, I!Follow(m) PROVE I!IntakeInv' /\ ~I!SendsWhileCause
  <2>1. list' = list BY <1>3, QuietRecord DEF I!Follow
  <2> QED BY <1>3, <2>1 DEF I!Follow, I!SendsWhileCause
<1>4. ASSUME NEW m \in Messages, I!Unsubscribe(m) PROVE I!IntakeInv' /\ ~I!SendsWhileCause
  BY <1>4 DEF I!Unsubscribe, I!SendsWhileCause, I!suppressionKey
<1>5. ASSUME NEW r \in reports, I!Receive(r) PROVE I!IntakeInv' /\ ~I!SendsWhileCause
  <2>1. PICK done \in {"all", "event", "none"} :
          /\ list' = IF done = "all" /\ r.meaning \in {"gone", "complaint"} THEN list \cup {"bare"} ELSE list
          /\ causes' = causes \cup (IF done = "all" THEN {r.meaning} \cap {"gone", "complaint"} ELSE {})
    BY <1>5, ReadAsMeant DEF I!Receive, I!RecordEvent, I!suppressionKey
  <2>2. msgs' = msgs /\ reports' = reports /\ key' = key BY <1>5 DEF I!Receive
  <2> QED BY <2>1, <2>2 DEF I!SendsWhileCause
<1>6. ASSUME NEW s \in I!Spelling, I!AddSuppression(s) \/ I!RemoveSuppression(s)
      PROVE  I!IntakeInv' /\ ~I!SendsWhileCause
  BY <1>6 DEF I!AddSuppression, I!RemoveSuppression, I!SendsWhileCause, I!suppressionKey
<1>7. ASSUME NEW m \in Messages, NEW meaning \in I!Meaning, I!Report(m, meaning)
      PROVE  I!IntakeInv' /\ ~I!SendsWhileCause
  BY <1>7 DEF I!Report, I!SendsWhileCause
<1>8. ASSUME NEW m \in Messages, I!TruncateMessagesBefore(m) PROVE I!IntakeInv' /\ ~I!SendsWhileCause
  BY <1>8 DEF I!TruncateMessagesBefore, I!SendsWhileCause
<1>9. CASE I!Reconfigure
  <2>1. key' \in {0, 1} BY <1>9 DEF I!Reconfigure
  <2> QED BY <1>9, <2>1 DEF I!Reconfigure, I!SendsWhileCause
<1>10. CASE I!Tick \/ UNCHANGED I!vars
  BY <1>10 DEF I!Tick, I!vars, I!SendsWhileCause
<1> QED BY <1>1, <1>2, <1>3, <1>4, <1>5, <1>6, <1>7, <1>8, <1>9, <1>10, <1>11 DEF I!Next

\* For any messages, reports and providers, each in its own words, and whatever an
\* operator does, with any of the writes failing: the list holds the mailbox only for
\* cause, and while one that was written stands no send to it is admitted and no pass
\* begins, however the address is spelled (suppressForEvent, suppressionKey,
\* ClassifyError, dropSuppressedAtDelivery).
THEOREM SuppressedRightly == Spec => SuppressionsRight
<1> DEFINE Inv == part = "intake" => I!IntakeInv
<1>1. Init => Inv
  BY IntakeInit DEF Init
<1>2. ASSUME Inv, [Next]_vars, part' = "intake" PROVE part = "intake" /\ I!IntakeInv' /\ ~I!SendsWhileCause
  <2>1. part = "intake" /\ [I!Next]_(I!vars)
    BY <1>2 DEF Next, vars, intake, I!vars
  <2> QED BY <1>2, <2>1, IntakeStep
<1>3. Inv /\ [Next]_vars => Inv'
  BY <1>2
<1>4. Inv /\ [Next]_vars => (part = "intake" => I!SuppressedForCause' /\ ~I!SendsWhileCause)
  <2> SUFFICES ASSUME Inv, [Next]_vars, part = "intake" PROVE I!SuppressedForCause' /\ ~I!SendsWhileCause
    OBVIOUS
  <2>1. part' = "intake" BY DEF Next, vars
  <2> QED BY <1>2, <2>1 DEF I!IntakeInv, I!SuppressedForCause
<1>5. Inv /\ [Next]_vars => [part = "intake" => I!SuppressedForCause' /\ ~I!SendsWhileCause]_vars
  BY <1>4
<1> QED BY <1>1, <1>3, <1>5, PTL DEF Spec, SuppressionsRight
=============================================================================
