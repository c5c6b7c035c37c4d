------------------------ MODULE WebhookDeliveryProofs ------------------------
(***************************************************************************)
(* What holds of WebhookDelivery for every number of workers, events and   *)
(* subscriptions, every schedule and every answer.                         *)
(***************************************************************************)
EXTENDS WebhookDelivery, FiniteSetTheorems, SequenceTheorems, TLAPS

RowStatus == {"ABSENT", "SENDING", "GONE"} \cup Waiting \cup Terminal

\* A finite batch has a number of rows.
LEMMA BatchSize ==
  ASSUME NEW b \in SUBSET Deliveries
  PROVE  IsFiniteSet(b) /\ Cardinality(b) \in Nat
<1>1. IsFiniteSet(Deliveries) BY ConstantsAssumption, FS_Product DEF Deliveries
<1>2. IsFiniteSet(b) BY <1>1, FS_Subset
<1> QED BY <1>2, FS_CardinalityType

\* Both parts of a notification are what the constants say.
LEMMA DeliveryParts ==
  ASSUME NEW d \in Deliveries
  PROVE  EventOf(d) \in Events /\ SubOf(d) \in Subs /\ EventOf(d) \in Int
<1>1. EventOf(d) \in Events /\ SubOf(d) \in Subs BY DEF Deliveries, EventOf, SubOf
<1>2. Events \subseteq Int BY ConstantsAssumption
<1> QED BY <1>1, <1>2

\* The delays a schedule gives are natural numbers.
LEMMA DelayTypes ==
  ASSUME NEW n \in Nat, NEW u \in BOOLEAN
  PROVE  /\ BackOffDelay(n) \in Nat
         /\ Reschedule(n, u) \in Outcome
         /\ Reschedule(n, u).status \in {"DEFERRED", "FAILED"}
         /\ Reschedule(n, u).status = "DEFERRED" => n <= Len(Schedule)
<1>1. Len(Schedule) \in Nat /\ DOMAIN Schedule = 1..Len(Schedule)
  BY ConstantsAssumption
<1>2. \A k \in 1..Len(Schedule) : Schedule[k] \in Nat BY ConstantsAssumption
<1>3. Schedule # <<>> => Len(Schedule) \in 1..Len(Schedule)
  BY ConstantsAssumption
<1>4. BackOffDelay(n) \in Nat BY <1>1, <1>2, <1>3 DEF BackOffDelay
<1> QED BY <1>1, <1>2, <1>4 DEF Reschedule, Outcome

\* The outcomes that finish a notification.
LEMMA FinishTypes ==
  /\ NoOutcome \in Outcome
  /\ \A st \in Terminal : Finish(st) \in Outcome /\ Finish(st).status = st
BY DEF NoOutcome, Finish, Outcome, Terminal

\* A goroutine with nothing to do is well typed.
LEMMA IdleType == Idle \in Group
<1>1. <<>> \in Seq(Row) OBVIOUS
<1> QED BY <1>1, FinishTypes DEF Idle, Group
-----------------------------------------------------------------------------
(***************************************************************************)
(* The invariant behind type correctness: how often a row may have been    *)
(* tried, and who may hold it.                                             *)
(***************************************************************************)

\* Nobody holds a row that is not being sent, a row being sent is not waiting for
\* its time, and a row on the queue has retries left.
RowOK(d) ==
  /\ status[d] # "SENDING" => holder[d] = NoWorker
  /\ status[d] = "SENDING" => nextIn[d] = 0
  /\ status[d] \in Waiting \cup {"SENDING"} => attempts[d] <= Len(Schedule)
  /\ EventOf(d) \notin enqueued => status[d] = "ABSENT"
  /\ status[d] = "ABSENT" => attempts[d] = 0

\* A goroutine has each of its subscription's rows once, and those whose
\* attempt has not begun have retries left.
GroupOK(s, g) ==
  /\ g.phase \in {"none", "deferring"} \/ g.todo # <<>>
  /\ g.phase \in {"none", "deferring"} => g.todo = <<>>
  /\ \A k \in DOMAIN g.todo :
       /\ SubOf(g.todo[k].id) = s
       /\ k > 1 \/ g.phase \in {"next", "releasing"} => g.todo[k].n <= Len(Schedule)
       /\ \A j \in DOMAIN g.todo : g.todo[j].id = g.todo[k].id => j = k
  /\ g.phase = "saving" =>
       /\ g.out.status \in {"DEFERRED"} \cup Terminal
       /\ g.out.status = "DEFERRED" => g.todo[1].n <= Len(Schedule)

Queued ==
  /\ TypeOK
  /\ \A d \in Deliveries : RowOK(d)
  /\ \A w \in Workers, s \in Subs : GroupOK(s, group[w][s])

\* The row whose turn it is.
LEMMA CurrentType ==
  ASSUME Queued, NEW w \in Workers, NEW s \in Subs,
         group[w][s].phase \notin {"none", "deferring"}
  PROVE  /\ group[w][s] \in Group /\ group[w][s].todo \in Seq(Row)
         /\ Len(group[w][s].todo) \in Nat \ {0}
         /\ DOMAIN group[w][s].todo = 1..Len(group[w][s].todo)
         /\ group[w][s].todo[1] \in Row
         /\ Current(w, s) \in Deliveries /\ SubOf(Current(w, s)) = s
         /\ group[w][s].todo[1].n \in 0..MaxAttempts
<1> DEFINE g == group[w][s]
<1>1. g \in Group BY DEF Queued, TypeOK
<1>2. GroupOK(s, g) BY DEF Queued
<1> HIDE DEF g
<1>3. g.todo \in Seq(Row) BY <1>1 DEF Group
<1>4. g.todo # <<>> BY <1>2 DEF GroupOK, g
<1>5. Len(g.todo) \in Nat \ {0} /\ DOMAIN g.todo = 1..Len(g.todo) BY <1>3, <1>4
<1>6. g.todo[1] \in Row BY <1>3, <1>5
<1>7. SubOf(g.todo[1].id) = s BY <1>2, <1>5 DEF GroupOK
<1>8. g.todo[1].id \in Deliveries /\ g.todo[1].n \in 0..MaxAttempts BY <1>6 DEF Row
<1> QED BY <1>1, <1>3, <1>5, <1>6, <1>7, <1>8 DEF g, Current

\* Dropping the first row of a goroutine leaves the others as they were.
LEMMA TailRows ==
  ASSUME NEW q \in Seq(Row), Len(q) # 1, q # <<>>
  PROVE  /\ Tail(q) \in Seq(Row) /\ Tail(q) # <<>>
         /\ DOMAIN Tail(q) = 1..(Len(q) - 1)
         /\ \A k \in DOMAIN Tail(q) : Tail(q)[k] = q[k + 1] /\ k + 1 \in DOMAIN q
<1>1. Len(q) \in Nat /\ Len(q) > 1 /\ DOMAIN q = 1..Len(q) BY EmptySeq
<1>2. Tail(q) \in Seq(Row) /\ Len(Tail(q)) = Len(q) - 1 BY <1>1
<1>3. DOMAIN Tail(q) = 1..(Len(q) - 1) BY <1>2
<1>4. \A k \in 1..(Len(q) - 1) : Tail(q)[k] = q[k + 1] BY <1>1, <1>2
<1>5. Tail(q) # <<>>
  <2>1. Len(<<>>) = 0 BY EmptySeq
  <2>2. Len(Tail(q)) # 0 BY <1>1, <1>2
  <2> QED BY <2>1, <2>2, Zenon
<1> QED BY <1>1, <1>2, <1>3, <1>4, <1>5

\* Recording, stopping and finishing keep a goroutine in order.
LEMMA PutStep ==
  ASSUME Queued, NEW w \in Workers, NEW s \in Subs, NEW g \in Group, GroupOK(s, g),
         Set(w, s, g)
  PROVE  /\ group' \in [Workers -> [Subs -> Group]]
         /\ \A v \in Workers, t \in Subs : GroupOK(t, group'[v][t])
         /\ \A v \in Workers, t \in Subs :
              group'[v][t] = IF v = w /\ t = s THEN g ELSE group[v][t]
<1>1. group \in [Workers -> [Subs -> Group]] BY DEF Queued, TypeOK
<1>2. \A v \in Workers, t \in Subs :
        group'[v][t] = IF v = w /\ t = s THEN g ELSE group[v][t]
  BY <1>1 DEF Set
<1>3. group' \in [Workers -> [Subs -> Group]] BY <1>1 DEF Set
<1>4. \A v \in Workers, t \in Subs : GroupOK(t, group[v][t]) BY DEF Queued
<1> QED BY <1>2, <1>3, <1>4

\* A conditional write keeps the rows in order.
LEMMA UpdateStep ==
  ASSUME Queued, NEW w \in Workers, NEW d \in Deliveries,
         NEW st \in Waiting \cup Terminal, NEW n \in 0..MaxAttempts, NEW due \in Nat,
         st \in Waiting => n <= Len(Schedule),
         Update(w, d, st, n, due) \/ UNCHANGED rows, UNCHANGED enqueued
  PROVE  /\ status' \in [Deliveries -> RowStatus]
         /\ holder' \in [Deliveries -> Workers \cup {NoWorker}]
         /\ leaseLeft' \in [Deliveries -> -1..Lease]
         /\ nextIn' \in [Deliveries -> Nat]
         /\ attempts' \in [Deliveries -> 0..MaxAttempts]
         /\ \A x \in Deliveries : RowOK(x)'
         /\ \A x \in Deliveries : status'[x] # status[x] => holder[x] = w
<1> USE DEF Queued, TypeOK, RowStatus
<1>0. -1 \in -1..Lease BY ConstantsAssumption
<1>1. CASE UNCHANGED rows BY <1>1 DEF rows, RowOK
<1>2. CASE holder[d] = w /\ Update(w, d, st, n, due)
  <2>1. /\ status' = [status EXCEPT ![d] = st] /\ attempts' = [attempts EXCEPT ![d] = n]
        /\ nextIn' = [nextIn EXCEPT ![d] = due]
        /\ holder' = [holder EXCEPT ![d] = NoWorker]
        /\ leaseLeft' = [leaseLeft EXCEPT ![d] = -1]
    BY <1>2 DEF Update
  <2>2. status[d] = "SENDING" BY <1>2, TokenAssumption DEF RowOK
  <2>3. EventOf(d) \in enqueued BY <2>2 DEF RowOK
  <2>4. st \notin {"ABSENT", "SENDING"} BY DEF Waiting, Terminal
  <2>5. st \in RowStatus OBVIOUS
  <2>6. RowOK(d)' BY <2>1, <2>3, <2>4 DEF RowOK
  <2>7. \A x \in Deliveries \ {d} : RowOK(x)' BY <2>1 DEF RowOK
  <2> QED BY <1>0, <1>2, <2>1, <2>5, <2>6, <2>7
<1>3. CASE holder[d] # w /\ Update(w, d, st, n, due)
  BY <1>1, <1>3 DEF Update
<1> QED BY <1>1, <1>2, <1>3

\* An attempt begins: its row is tried once more.
LEMMA StartOK ==
  ASSUME NEW s \in Subs, NEW g \in Group, GroupOK(s, g), g.phase = "next"
  PROVE  LET h == [g EXCEPT !.phase = "reading", !.left = ReadMax, !.todo[1].n = @ + 1] IN
         /\ h \in Group /\ GroupOK(s, h)
         /\ h.phase = "reading" /\ h.left = ReadMax /\ DOMAIN h.todo = DOMAIN g.todo
         /\ \A k \in DOMAIN g.todo : h.todo[k].id = g.todo[k].id
<1> DEFINE q == g.todo
           r == [q EXCEPT ![1].n = @ + 1]
           h == [g EXCEPT !.phase = "reading", !.left = ReadMax, !.todo[1].n = @ + 1]
<1>1. q \in Seq(Row) /\ q # <<>> BY DEF Group, GroupOK
<1>2. Len(q) \in Nat \ {0} /\ DOMAIN q = 1..Len(q) BY <1>1, EmptySeq
<1>3. \A k \in DOMAIN q : q[k] \in Row BY <1>1, <1>2
<1>4. q[1].n <= Len(Schedule) BY <1>2 DEF GroupOK
<1>5. Len(Schedule) \in Nat BY ConstantsAssumption
<1>6. [q[1] EXCEPT !.n = @ + 1] \in Row BY <1>2, <1>3, <1>4, <1>5 DEF Row, MaxAttempts
<1> HIDE DEF q
<1>7. /\ DOMAIN r = 1..Len(q)
      /\ \A k \in 1..Len(q) : /\ r[k] = IF k = 1 THEN [q[1] EXCEPT !.n = @ + 1] ELSE q[k]
                              /\ r[k] \in Row /\ r[k].id = q[k].id
                              /\ k > 1 => r[k].n = q[k].n
  BY <1>2, <1>3, <1>6
<1> HIDE DEF r
<1>8. r = [k \in 1..Len(q) |-> r[k]] BY <1>7 DEF r
<1>9. r \in Seq(Row) BY <1>2, <1>7, <1>8
<1>10. r # <<>>
  <2>1. Len(r) = Len(q) BY <1>2, <1>7, <1>9
  <2> QED BY <2>1, <1>2, EmptySeq
<1>11. h.todo = r /\ h.phase = "reading" /\ h.left = ReadMax /\ h.streak = g.streak
       /\ h.worst = g.worst /\ h.out = g.out
  BY DEF Group, q, r
<1>12. h = [g EXCEPT !.phase = "reading", !.left = ReadMax, !.todo = r] BY DEF q, r
<1>13. h \in Group BY <1>9, <1>12, ConstantsAssumption DEF Group, InCall
<1> HIDE DEF h
<1>14. GroupOK(s, h) BY <1>2, <1>7, <1>10, <1>11 DEF GroupOK, q
<1> QED BY <1>2, <1>7, <1>11, <1>13, <1>14 DEF h, q

\* An attempt's outcome is about to be recorded.
LEMMA RecordingOK ==
  ASSUME NEW s \in Subs, NEW g \in Group, GroupOK(s, g),
         g.phase \in {"reading", "posting"}, NEW out \in Outcome,
         out.status \in {"DEFERRED"} \cup Terminal,
         out.status = "DEFERRED" => g.todo[1].n <= Len(Schedule)
  PROVE  Recording(g, out) \in Group /\ GroupOK(s, Recording(g, out))
<1> DEFINE h == Recording(g, out)
<1>1. h.phase = "saving" /\ h.todo = g.todo /\ h.out = out BY DEF Recording, Group
<1>2. h \in Group BY ConstantsAssumption DEF Recording, Group, InCall
<1> HIDE DEF h
<1>3. GroupOK(s, h) BY <1>1 DEF GroupOK
<1> QED BY <1>2, <1>3 DEF h

\* A goroutine goes on to post, or stops and hands the rest back.
LEMMA MoveOnOK ==
  ASSUME NEW s \in Subs, NEW g \in Group, GroupOK(s, g), NEW t \in Nat,
         NEW phase \in {"posting", "releasing"}, NEW out \in Outcome,
         g.phase = IF phase = "posting" THEN "reading" ELSE "next"
  PROVE  LET h == [g EXCEPT !.phase = phase, !.left = t, !.out = out] IN
         h \in Group /\ GroupOK(s, h)
<1> DEFINE h == [g EXCEPT !.phase = phase, !.left = t, !.out = out]
<1>1. h.phase = phase /\ h.todo = g.todo BY DEF Group
<1>2. h \in Group BY DEF Group, InCall
<1> HIDE DEF h
<1>3. GroupOK(s, h) BY <1>1 DEF GroupOK
<1> QED BY <1>2, <1>3 DEF h

\* A goroutine that has ended is in order.
LEMMA IdleOK == \A s \in Subs : GroupOK(s, Idle)
BY DEF GroupOK, Idle

\* The rows left after the first are in order.
LEMMA RestOK ==
  ASSUME NEW s \in Subs, NEW g \in Group, GroupOK(s, g), Len(g.todo) # 1,
         g.phase \notin {"none", "deferring"},
         NEW h \in Group, h.todo = Tail(g.todo), h.phase \in {"next", "releasing"}
  PROVE  /\ GroupOK(s, h) /\ DOMAIN h.todo = 1..(Len(g.todo) - 1)
         /\ \A k \in DOMAIN h.todo : /\ k \in Nat /\ k + 1 > 1 /\ k + 1 \in DOMAIN g.todo
                                     /\ h.todo[k] = g.todo[k + 1]
<1>1. g.todo \in Seq(Row) /\ g.todo # <<>> BY DEF Group, GroupOK
<1>2. /\ h.todo \in Seq(Row) /\ h.todo # <<>> /\ DOMAIN h.todo = 1..(Len(g.todo) - 1)
      /\ \A k \in DOMAIN h.todo : h.todo[k] = g.todo[k + 1] /\ k + 1 \in DOMAIN g.todo
  BY <1>1, TailRows
<1>3. \A k \in DOMAIN h.todo : k \in Nat /\ k + 1 > 1 BY <1>2
<1>4. \A k \in DOMAIN h.todo :
        /\ SubOf(h.todo[k].id) = s /\ h.todo[k].n <= Len(Schedule)
        /\ \A j \in DOMAIN h.todo : h.todo[j].id = h.todo[k].id => j = k
  BY <1>2, <1>3 DEF GroupOK
<1>5. GroupOK(s, h) BY <1>2, <1>4 DEF GroupOK
<1> QED BY <1>2, <1>3, <1>5

\* On to the next row, after an attempt.
LEMMA AfterAttemptOK ==
  ASSUME NEW s \in Subs, NEW g \in Group, GroupOK(s, g), g.phase = "saving"
  PROVE  AfterAttempt(g) \in Group /\ GroupOK(s, AfterAttempt(g))
<1> DEFINE h == AfterAttempt(g)
<1>1. CASE Len(g.todo) = 1 BY <1>1, IdleType, IdleOK DEF AfterAttempt
<1>2. CASE Len(g.todo) # 1
  <2>1. g.todo \in Seq(Row) /\ g.todo # <<>> BY DEF Group, GroupOK
  <2>2. h.todo = Tail(g.todo) /\ h.phase = "next" BY <1>2 DEF AfterAttempt
  <2>3. g.todo[1] \in Row BY <2>1, EmptySeq
  <2>4. h \in Group
    <3>1. Tail(g.todo) \in Seq(Row) BY <1>2, <2>1, TailRows
    <3>2. g.todo[1].n \in Nat /\ g.streak \in Nat /\ g.worst \in Nat
          /\ g.out.unreachable \in BOOLEAN
      BY <2>3, ConstantsAssumption DEF Row, MaxAttempts, Group, Outcome
    <3> QED BY <1>2, <3>1, <3>2, FinishTypes DEF AfterAttempt, Group
  <2> HIDE DEF h
  <2>5. GroupOK(s, h) BY <1>2, <2>2, <2>4, RestOK
  <2> QED BY <2>4, <2>5 DEF h
<1> QED BY <1>1, <1>2

\* Time passes for a goroutine.
LEMMA TickOK ==
  ASSUME NEW s \in Subs, NEW g \in Group, GroupOK(s, g)
  PROVE  LET h == [g EXCEPT !.left = IF @ > 0 THEN @ - 1 ELSE 0,
                            !.out.due = IF @ > 0 THEN @ - 1 ELSE 0] IN
         /\ h \in Group /\ GroupOK(s, h) /\ h.phase = g.phase /\ h.todo = g.todo
         /\ h.left = IF g.left > 0 THEN g.left - 1 ELSE 0
<1> DEFINE h == [g EXCEPT !.left = IF @ > 0 THEN @ - 1 ELSE 0,
                          !.out.due = IF @ > 0 THEN @ - 1 ELSE 0]
<1>1. /\ h.phase = g.phase /\ h.todo = g.todo /\ h.out.status = g.out.status
      /\ h.left = IF g.left > 0 THEN g.left - 1 ELSE 0
  BY DEF Group, Outcome
<1>2. h \in Group
  <2> DEFINE o == [g.out EXCEPT !.due = IF @ > 0 THEN @ - 1 ELSE 0]
             l == IF g.left > 0 THEN g.left - 1 ELSE 0
  <2>1. o \in Outcome /\ l \in Nat BY DEF Group, Outcome
  <2>2. h = [g EXCEPT !.left = l, !.out = o] OBVIOUS
  <2> HIDE DEF o, l
  <2> QED BY <2>1, <2>2 DEF Group
<1> HIDE DEF h
<1>3. GroupOK(s, h) BY <1>1 DEF GroupOK
<1> QED BY <1>1, <1>2, <1>3 DEF h

\* A claim's goroutines have rows that were due, each once, in claim order.
LEMMA ClaimOK ==
  ASSUME Queued, NEW b \in Batches, NEW share \in Shares(b), NEW s \in Subs,
         share[s] # <<>>
  PROVE  LET h == [Idle EXCEPT !.phase = "next", !.todo = Claimed(share[s])] IN
         /\ h \in Group /\ GroupOK(s, h)
         /\ h.phase = "next" /\ \A k \in DOMAIN h.todo : h.todo[k].id \in b
<1> DEFINE ds == {d \in b : SubOf(d) = s}
           q == share[s]
           c == Claimed(q)
           h == [Idle EXCEPT !.phase = "next", !.todo = c]
<1>1. b \subseteq Deliveries /\ \A d \in b : Due(d) BY DEF Batches
<1>2. q \in InClaimOrder(ds) BY DEF Shares
<1>3. Cardinality(ds) \in Nat BY <1>1, BatchSize
<1>4. /\ q \in [1..Cardinality(ds) -> ds]
      /\ \A j, k \in DOMAIN q : j < k => EventOf(q[j]) < EventOf(q[k])
  BY <1>2 DEF InClaimOrder
<1> HIDE DEF q, ds
<1>5. DOMAIN q = 1..Cardinality(ds) /\ \A k \in DOMAIN q : q[k] \in ds BY <1>4
<1>6. \A k \in DOMAIN q : /\ q[k] \in b /\ q[k] \in Deliveries /\ SubOf(q[k]) = s
                          /\ EventOf(q[k]) \in Int
                          /\ attempts[q[k]] \in 0..MaxAttempts
                          /\ attempts[q[k]] <= Len(Schedule)
  <2> SUFFICES ASSUME NEW k \in DOMAIN q
               PROVE  /\ q[k] \in b /\ q[k] \in Deliveries /\ SubOf(q[k]) = s
                      /\ EventOf(q[k]) \in Int
                      /\ attempts[q[k]] \in 0..MaxAttempts
                      /\ attempts[q[k]] <= Len(Schedule)
    OBVIOUS
  <2>1. q[k] \in b /\ q[k] \in Deliveries /\ SubOf(q[k]) = s BY <1>1, <1>5 DEF ds
  <2>2. Due(q[k]) /\ RowOK(q[k]) BY <1>1, <2>1 DEF Queued
  <2>3. attempts[q[k]] <= Len(Schedule) BY <2>2 DEF Due, RowOK, Waiting
  <2>4. attempts[q[k]] \in 0..MaxAttempts BY <2>1 DEF Queued, TypeOK
  <2> QED BY <2>1, <2>3, <2>4, DeliveryParts
<1>7. /\ DOMAIN c = 1..Cardinality(ds)
      /\ \A k \in DOMAIN c : c[k] = [id |-> q[k], n |-> attempts[q[k]]]
  BY <1>5 DEF Claimed
<1>8. \A k \in DOMAIN c : /\ c[k] \in Row /\ c[k].id = q[k] /\ c[k].n = attempts[q[k]]
  BY <1>5, <1>6, <1>7 DEF Row
<1>9. c \in Seq(Row)
  <2>1. c = [k \in 1..Cardinality(ds) |-> c[k]] BY <1>5, <1>7 DEF Claimed
  <2> HIDE DEF c
  <2> QED BY <1>3, <1>7, <1>8, <2>1
<1>10. c # <<>>
  <2>1. Cardinality(ds) # 0
    <3> SUFFICES ASSUME Cardinality(ds) = 0 PROVE FALSE OBVIOUS
    <3>1. q = [k \in 1..0 |-> q[k]] BY <1>4
    <3>2. q = <<>> BY <3>1
    <3> QED BY <3>2 DEF q
  <2>2. Len(c) = Cardinality(ds) BY <1>3, <1>7, <1>9
  <2>3. Len(<<>>) = 0 BY EmptySeq
  <2> QED BY <2>1, <2>2, <2>3, Zenon
<1>11. \A j, k \in DOMAIN c : c[j].id = c[k].id => j = k
  <2> SUFFICES ASSUME NEW j \in DOMAIN c, NEW k \in DOMAIN c, q[j] = q[k], j < k
               PROVE  FALSE
    BY <1>3, <1>7, <1>8
  <2>1. EventOf(q[j]) < EventOf(q[k]) BY <1>4, <1>5, <1>7
  <2> QED BY <2>1, <1>5, <1>6, <1>7
<1>12. h.phase = "next" /\ h.todo = c BY DEF Idle
<1>13. h \in Group
  <2> HIDE DEF c
  <2> QED BY <1>9, IdleType DEF Group
<1> HIDE DEF h, c
<1>14. GroupOK(s, h) BY <1>5, <1>6, <1>7, <1>8, <1>10, <1>11, <1>12 DEF GroupOK
<1>15. \A k \in DOMAIN h.todo : h.todo[k].id \in b BY <1>5, <1>6, <1>7, <1>8, <1>12
<1> QED BY <1>12, <1>13, <1>14, <1>15 DEF h, c, q

\* What every step but a claim, a crash and time does to the history.
LEMMA HistoryType ==
  ASSUME TypeOK, NEW d \in Deliveries
  PROVE  /\ twice \cup {d} \subseteq Deliveries /\ acked \cup {d} \subseteq Deliveries
         /\ unsaved \cup {d} \subseteq Deliveries
         /\ [posts EXCEPT ![d] = IF @ < PostCap THEN @ + 1 ELSE @]
              \in [Deliveries -> 0..PostCap]
<1>1. PostCap \in Nat BY ConstantsAssumption DEF PostCap
<1>2. posts[d] \in 0..PostCap BY DEF TypeOK
<1>3. (IF posts[d] < PostCap THEN posts[d] + 1 ELSE posts[d]) \in 0..PostCap BY <1>1, <1>2
<1> QED BY <1>3 DEF TypeOK

\* Faults are counted up to their bound.
LEMMA FaultType == TypeOK /\ (Fault \/ UNCHANGED faults) => faults' \in 0..MaxFaults
BY ConstantsAssumption DEF TypeOK, Fault

\* The invariant holds at the start.
LEMMA QueuedInit == Init => Queued
<1> SUFFICES ASSUME Init PROVE Queued OBVIOUS
<1>1. Len(Schedule) \in Nat /\ PostCap \in Nat /\ 0 \in 0..MaxAttempts /\ -1 \in -1..Lease
  BY ConstantsAssumption DEF PostCap, MaxAttempts
<1>2. group \in [Workers -> [Subs -> Group]] BY IdleType DEF Init
<1>3. \A w \in Workers, s \in Subs : GroupOK(s, group[w][s]) BY IdleOK DEF Init
<1>4. TypeOK BY <1>1, <1>2, ConstantsAssumption DEF Init, TypeOK
<1>5. \A d \in Deliveries : RowOK(d) BY DEF Init, RowOK, Waiting
<1> QED BY <1>3, <1>4, <1>5 DEF Queued

\* Every step of a goroutine keeps the invariant.
LEMMA WorkQueued ==
  ASSUME Queued, NEW w \in Workers, NEW s \in Subs, Work(w, s)
  PROVE  Queued'
<1> DEFINE g == group[w][s]
           d == Current(w, s)
<1>0. g \in Group /\ GroupOK(s, g) /\ TypeOK BY DEF Queued, TypeOK
<1>1. CASE StartAttempt(w, s)
  <2> DEFINE h == [g EXCEPT !.phase = "reading", !.left = ReadMax, !.todo[1].n = @ + 1]
  <2>1. h \in Group /\ GroupOK(s, h) BY <1>0, <1>1, StartOK DEF StartAttempt
  <2>2. Set(w, s, h) BY <1>1 DEF StartAttempt
  <2> HIDE DEF h
  <2>3. /\ group' \in [Workers -> [Subs -> Group]]
        /\ \A v \in Workers, t \in Subs : GroupOK(t, group'[v][t])
    BY <2>1, <2>2, PutStep
  <2>4. UNCHANGED <<rows, subs, enqueued, age, stopping, faults, history>>
    BY <1>1 DEF StartAttempt
  <2> QED BY <2>3, <2>4 DEF Queued, TypeOK, RowOK, rows, history
<1>2. CASE StopAttempts(w, s)
  <2>1. PICK out \in Outcome :
          Set(w, s, [g EXCEPT !.phase = "releasing", !.left = Reserve, !.out = out])
    <3>1. CASE ~MayStart(w)
      <4>1. g.out \in Outcome BY <1>0 DEF Group
      <4>2. Set(w, s, [g EXCEPT !.phase = "releasing", !.left = Reserve])
        BY <1>2, <3>1 DEF StopAttempts
      <4>3. [g EXCEPT !.phase = "releasing", !.left = Reserve]
              = [g EXCEPT !.phase = "releasing", !.left = Reserve, !.out = g.out]
        BY <1>0 DEF Group
      <4> QED BY <4>1, <4>2, <4>3
    <3>2. CASE MayStart(w)
      <4> DEFINE o == [NoOutcome EXCEPT !.unreachable = TRUE, !.due = BackOffDelay(g.worst)]
      <4>1. BackOffDelay(g.worst) \in Nat BY <1>0, DelayTypes DEF Group
      <4>2. o \in Outcome BY <4>1, FinishTypes DEF Outcome
      <4>3. Set(w, s, [g EXCEPT !.phase = "releasing", !.left = Reserve, !.out = o])
        BY <1>2, <3>2 DEF StopAttempts
      <4> QED BY <4>2, <4>3
    <3> QED BY <3>1, <3>2
  <2> DEFINE h == [g EXCEPT !.phase = "releasing", !.left = Reserve, !.out = out]
  <2>2. g.phase = "next" BY <1>2 DEF StopAttempts
  <2>3. h \in Group /\ GroupOK(s, h) BY <1>0, <2>2, MoveOnOK, ConstantsAssumption
  <2>4. Set(w, s, h) BY <2>1
  <2> HIDE DEF h
  <2>5. /\ group' \in [Workers -> [Subs -> Group]]
        /\ \A v \in Workers, t \in Subs : GroupOK(t, group'[v][t])
    BY <2>3, <2>4, PutStep
  <2>6. UNCHANGED <<rows, subs, enqueued, age, stopping, faults, history>>
    BY <1>2 DEF StopAttempts
  <2> QED BY <2>5, <2>6 DEF Queued, TypeOK, RowOK, rows, history
<1>3. CASE ReadSubscription(w, s)
  <2>0. g.phase = "reading" BY <1>3 DEF ReadSubscription
  <2>1. /\ d \in Deliveries /\ g.todo[1].n \in 0..MaxAttempts /\ g.todo[1].n \in Nat
    BY <2>0, CurrentType, ConstantsAssumption DEF MaxAttempts
  <2>2. PICK h \in Group : GroupOK(s, h) /\ Set(w, s, h)
    <3>1. CASE Set(w, s, Recording(g, Finish("FAILED")))
      BY <1>0, <2>0, <3>1, RecordingOK, FinishTypes DEF Terminal
    <3>2. CASE Set(w, s, Recording(g, Reschedule(g.todo[1].n, FALSE)))
      <4> DEFINE o == Reschedule(g.todo[1].n, FALSE)
      <4>1. /\ o \in Outcome /\ o.status \in {"DEFERRED"} \cup Terminal
            /\ o.status = "DEFERRED" => g.todo[1].n <= Len(Schedule)
        BY <2>1, DelayTypes DEF Terminal
      <4> HIDE DEF o
      <4>2. Recording(g, o) \in Group /\ GroupOK(s, Recording(g, o))
        BY <1>0, <2>0, <4>1, RecordingOK
      <4> QED BY <3>2, <4>2 DEF o
    <3>3. CASE Set(w, s, [g EXCEPT !.phase = "posting", !.left = Timeout])
      <4>1. [g EXCEPT !.phase = "posting", !.left = Timeout]
              = [g EXCEPT !.phase = "posting", !.left = Timeout, !.out = g.out]
        BY <1>0 DEF Group
      <4>2. g.out \in Outcome /\ Timeout \in Nat BY <1>0, ConstantsAssumption DEF Group
      <4> QED BY <1>0, <2>0, <3>3, <4>1, <4>2, MoveOnOK
    <3> QED BY <1>3, <3>1, <3>2, <3>3 DEF ReadSubscription
  <2>3. /\ group' \in [Workers -> [Subs -> Group]]
        /\ \A v \in Workers, t \in Subs : GroupOK(t, group'[v][t])
    BY <2>2, PutStep
  <2>4. faults' \in 0..MaxFaults BY <1>0, <1>3, FaultType DEF ReadSubscription
  <2>5. twice' \subseteq Deliveries /\ posts' \in [Deliveries -> 0..PostCap]
    <3>1. CASE UNCHANGED <<twice, posts>> BY <1>0, <3>1 DEF TypeOK
    <3>2. CASE /\ twice' = IF d \in acked THEN twice \cup {d} ELSE twice
               /\ posts' = [posts EXCEPT ![d] = IF @ < PostCap THEN @ + 1 ELSE @]
      <4>1. posts' \in [Deliveries -> 0..PostCap] BY <1>0, <2>1, <3>2, HistoryType
      <4> QED BY <1>0, <2>1, <3>2, <4>1, HistoryType DEF TypeOK
    <3> QED BY <1>3, <3>1, <3>2 DEF ReadSubscription
  <2>6. UNCHANGED <<rows, subs, enqueued, age, stopping, acked, unsaved>>
    BY <1>3 DEF ReadSubscription
  <2> QED BY <2>3, <2>4, <2>5, <2>6 DEF Queued, TypeOK, RowOK, rows
<1>4. CASE Answered(w, s)
  <2>0. g.phase = "posting" BY <1>4 DEF Answered
  <2>1. /\ d \in Deliveries /\ g.todo[1].n \in 0..MaxAttempts /\ g.todo[1].n \in Nat
    BY <2>0, CurrentType, ConstantsAssumption DEF MaxAttempts
  <2>2. PICK a \in Answers[s] :
          /\ Set(w, s, Recording(g, CASE a = "ok" -> Finish("DELIVERED")
                                      [] a = "busy" -> Reschedule(g.todo[1].n, FALSE)
                                      [] a = "refused" -> Finish("FAILED")
                                      [] a = "unreachable" -> Reschedule(g.todo[1].n, TRUE)))
          /\ acked' = IF a = "ok" THEN acked \cup {d} ELSE acked
    BY <1>4 DEF Answered
  <2>3. a \in Answer BY ConstantsAssumption
  <2>4. PICK o : /\ o \in {Finish("DELIVERED"), Finish("FAILED"),
                           Reschedule(g.todo[1].n, FALSE), Reschedule(g.todo[1].n, TRUE)}
                 /\ Set(w, s, Recording(g, o))
    <3>1. CASE a = "ok" BY <2>2, <3>1
    <3>2. CASE a = "busy" BY <2>2, <3>2
    <3>3. CASE a = "refused" BY <2>2, <3>3
    <3>4. CASE a = "unreachable" BY <2>2, <3>4
    <3> QED BY <2>3, <3>1, <3>2, <3>3, <3>4 DEF Answer
  <2>5. /\ o \in Outcome /\ o.status \in {"DEFERRED"} \cup Terminal
        /\ o.status = "DEFERRED" => g.todo[1].n <= Len(Schedule)
    <3>1. CASE o = Finish("DELIVERED") BY <3>1, FinishTypes DEF Terminal
    <3>2. CASE o = Finish("FAILED") BY <3>2, FinishTypes DEF Terminal
    <3>3. CASE o = Reschedule(g.todo[1].n, FALSE) BY <2>1, <3>3, DelayTypes DEF Terminal
    <3>4. CASE o = Reschedule(g.todo[1].n, TRUE) BY <2>1, <3>4, DelayTypes DEF Terminal
    <3> QED BY <2>4, <3>1, <3>2, <3>3, <3>4
  <2>6. Recording(g, o) \in Group /\ GroupOK(s, Recording(g, o))
    BY <1>0, <2>0, <2>5, RecordingOK
  <2>7. /\ group' \in [Workers -> [Subs -> Group]]
        /\ \A v \in Workers, t \in Subs : GroupOK(t, group'[v][t])
    BY <2>4, <2>6, PutStep
  <2>8. acked' \subseteq Deliveries BY <1>0, <2>1, <2>2 DEF TypeOK
  <2>9. UNCHANGED <<rows, subs, enqueued, age, stopping, faults, twice, unsaved, posts>>
    BY <1>4 DEF Answered
  <2> QED BY <2>7, <2>8, <2>9 DEF Queued, TypeOK, RowOK, rows
<1>5. CASE Save(w, s)
  <2>0. g.phase = "saving" BY <1>5 DEF Save
  <2>1. d \in Deliveries /\ g.todo[1].n \in 0..MaxAttempts BY <2>0, CurrentType
  <2>2. AfterAttempt(g) \in Group /\ GroupOK(s, AfterAttempt(g))
    BY <1>0, <2>0, AfterAttemptOK
  <2>3. /\ group' \in [Workers -> [Subs -> Group]]
        /\ \A v \in Workers, t \in Subs : GroupOK(t, group'[v][t])
    BY <1>5, <2>2, PutStep DEF Save
  <2>4. /\ g.out.status \in Waiting \cup Terminal /\ g.out.due \in Nat
        /\ g.out.status \in Waiting => g.todo[1].n <= Len(Schedule)
    BY <1>0, <2>0 DEF GroupOK, Group, Outcome, Waiting, Terminal
  <2>5. /\ Update(w, d, g.out.status, g.todo[1].n, g.out.due) \/ UNCHANGED rows
        /\ UNCHANGED enqueued
    BY <1>5 DEF Save
  <2>6. /\ status' \in [Deliveries -> RowStatus]
        /\ holder' \in [Deliveries -> Workers \cup {NoWorker}]
        /\ leaseLeft' \in [Deliveries -> -1..Lease] /\ nextIn' \in [Deliveries -> Nat]
        /\ attempts' \in [Deliveries -> 0..MaxAttempts]
        /\ \A x \in Deliveries : RowOK(x)'
    BY <2>1, <2>4, <2>5, UpdateStep
  <2>7. faults' \in 0..MaxFaults BY <1>0, <1>5, FaultType DEF Save
  <2>8. unsaved' \subseteq Deliveries BY <1>0, <1>5, <2>1 DEF Save, TypeOK
  <2>9. UNCHANGED <<subs, enqueued, age, stopping, acked, twice, posts>> BY <1>5 DEF Save
  <2> QED BY <2>3, <2>6, <2>7, <2>8, <2>9 DEF Queued, TypeOK, RowStatus
<1>6. CASE Release(w, s)
  <2> DEFINE n == g.todo[1].n
             st == IF n = 0 THEN "PENDING" ELSE "DEFERRED"
             due == IF g.out.unreachable THEN g.out.due ELSE 0
             h == IF Len(g.todo) > 1 THEN [g EXCEPT !.todo = Tail(@), !.left = Reserve]
                  ELSE IF g.out.unreachable
                       THEN [g EXCEPT !.todo = <<>>, !.phase = "deferring", !.left = Reserve]
                  ELSE Idle
  <2>0. g.phase = "releasing" BY <1>6 DEF Release
  <2>1. /\ d \in Deliveries /\ n \in 0..MaxAttempts /\ g.todo \in Seq(Row)
        /\ Len(g.todo) \in Nat /\ 1 \in DOMAIN g.todo
    BY <2>0, CurrentType
  <2>2. n <= Len(Schedule) BY <1>0, <2>0, <2>1 DEF GroupOK
  <2>3. h \in Group /\ GroupOK(s, h)
    <3>1. CASE Len(g.todo) > 1
      <4> DEFINE r == [g EXCEPT !.todo = Tail(@), !.left = Reserve]
      <4>0. Len(g.todo) # 1 /\ g.todo # <<>> BY <1>0, <2>0, <2>1, <3>1 DEF GroupOK
      <4>1. Tail(g.todo) \in Seq(Row) BY <2>1, <4>0, TailRows
      <4>2. r \in Group BY <1>0, <4>1, ConstantsAssumption DEF Group
      <4>3. r.todo = Tail(g.todo) /\ r.phase = "releasing" BY <1>0, <2>0 DEF Group
      <4> HIDE DEF r
      <4>4. GroupOK(s, r) BY <1>0, <2>0, <4>0, <4>2, <4>3, RestOK
      <4> QED BY <3>1, <4>2, <4>4 DEF r
    <3>2. CASE ~(Len(g.todo) > 1) /\ g.out.unreachable
      <4> DEFINE r == [g EXCEPT !.todo = <<>>, !.phase = "deferring", !.left = Reserve]
      <4>1. r \in Group BY <1>0, EmptySeq, ConstantsAssumption DEF Group, InCall
      <4>2. r.todo = <<>> /\ r.phase = "deferring" BY <1>0 DEF Group
      <4> HIDE DEF r
      <4>3. GroupOK(s, r) BY <4>2 DEF GroupOK
      <4> QED BY <3>2, <4>1, <4>3 DEF r
    <3>3. CASE ~(Len(g.todo) > 1) /\ ~g.out.unreachable BY <3>3, IdleType, IdleOK
    <3> QED BY <3>1, <3>2, <3>3
  <2>4. Set(w, s, h) BY <1>6 DEF Release
  <2> HIDE DEF h
  <2>5. /\ group' \in [Workers -> [Subs -> Group]]
        /\ \A v \in Workers, t \in Subs : GroupOK(t, group'[v][t])
    BY <2>3, <2>4, PutStep
  <2>6. st \in Waiting /\ due \in Nat BY <1>0 DEF Group, Outcome, Waiting
  <2>7. (Update(w, d, st, n, due) \/ UNCHANGED rows) /\ UNCHANGED enqueued
    BY <1>6 DEF Release
  <2> HIDE DEF st, due, n
  <2>8. /\ status' \in [Deliveries -> RowStatus]
        /\ holder' \in [Deliveries -> Workers \cup {NoWorker}]
        /\ leaseLeft' \in [Deliveries -> -1..Lease] /\ nextIn' \in [Deliveries -> Nat]
        /\ attempts' \in [Deliveries -> 0..MaxAttempts]
        /\ \A x \in Deliveries : RowOK(x)'
    BY <2>1, <2>2, <2>6, <2>7, UpdateStep
  <2>9. faults' \in 0..MaxFaults BY <1>0, <1>6, FaultType DEF Release
  <2>10. UNCHANGED <<subs, enqueued, age, stopping, history>> BY <1>6 DEF Release
  <2> QED BY <2>5, <2>8, <2>9, <2>10 DEF Queued, TypeOK, RowStatus, history
<1>7. CASE DeferSubscription(w, s)
  <2>1. /\ group' \in [Workers -> [Subs -> Group]]
        /\ \A v \in Workers, t \in Subs : GroupOK(t, group'[v][t])
    BY <1>7, IdleType, IdleOK, PutStep DEF DeferSubscription
  <2>2. faults' \in 0..MaxFaults BY <1>0, <1>7, FaultType DEF DeferSubscription
  <2>3. g.out.due \in Nat BY <1>0 DEF Group, Outcome
  <2>4. nextIn' \in [Deliveries -> Nat] BY <1>0, <1>7, <2>3 DEF DeferSubscription, TypeOK
  <2>5. UNCHANGED <<status, holder, leaseLeft, attempts, subs, enqueued, age, stopping, history>>
    BY <1>7 DEF DeferSubscription
  <2>6. \A x \in Deliveries : status[x] = "SENDING" => nextIn'[x] = nextIn[x]
    BY <1>0, <1>7 DEF DeferSubscription, Deferred, Waiting, TypeOK
  <2>7. \A x \in Deliveries : RowOK(x)' BY <2>5, <2>6 DEF Queued, RowOK
  <2>8. TypeOK' BY <1>0, <2>1, <2>2, <2>4, <2>5 DEF TypeOK, history
  <2> QED BY <2>1, <2>7, <2>8 DEF Queued
<1> QED BY <1>1, <1>2, <1>3, <1>4, <1>5, <1>6, <1>7 DEF Work

\* Every step keeps the invariant.
LEMMA QueuedStep == Queued /\ [Next]_vars => Queued'
<1> SUFFICES ASSUME Queued, [Next]_vars PROVE Queued' OBVIOUS
<1>0. TypeOK BY DEF Queued
<1>1. ASSUME NEW e \in Events, Enqueue(e) PROVE Queued'
  <2>1. PICK made \in SUBSET {s \in Subs : subs[s] = "active"} :
          status' = [d \in Deliveries |->
                       IF EventOf(d) = e /\ SubOf(d) \in made THEN "PENDING" ELSE status[d]]
    BY <1>1 DEF Enqueue
  <2>2. faults' \in 0..MaxFaults BY <1>0, <1>1, FaultType DEF Enqueue, FaultOr
  <2>3. /\ UNCHANGED <<holder, leaseLeft, nextIn, attempts, subs, group, age, stopping, history>>
        /\ enqueued' = enqueued \cup {e} /\ e \notin enqueued
    BY <1>1 DEF Enqueue
  <2>4. \A d \in Deliveries : EventOf(d) = e =>
          status[d] = "ABSENT" /\ attempts[d] = 0 /\ holder[d] = NoWorker
    BY <2>3 DEF Queued, RowOK
  <2>5. Len(Schedule) \in Nat BY ConstantsAssumption
  <2>6. \A d \in Deliveries : RowOK(d)'
    <3> SUFFICES ASSUME NEW d \in Deliveries PROVE RowOK(d)' OBVIOUS
    <3>1. RowOK(d) BY DEF Queued
    <3>2. status'[d] = status[d] \/ (EventOf(d) = e /\ status'[d] = "PENDING") BY <2>1
    <3>3. CASE status'[d] = status[d] BY <2>3, <3>1, <3>3 DEF RowOK
    <3>4. CASE EventOf(d) = e /\ status'[d] = "PENDING"
      BY <2>3, <2>4, <2>5, <3>4 DEF RowOK
    <3> QED BY <3>2, <3>3, <3>4
  <2>7. status' \in [Deliveries -> RowStatus] BY <1>0, <2>1 DEF TypeOK, RowStatus, Waiting
  <2>8. TypeOK' BY <1>0, <2>2, <2>3, <2>7 DEF TypeOK, RowStatus, history
  <2>9. \A w \in Workers, s \in Subs : GroupOK(s, group[w][s])' BY <2>3 DEF Queued, GroupOK
  <2> QED BY <2>6, <2>8, <2>9 DEF Queued
<1>2. ASSUME NEW w \in Workers, ClaimDue(w) PROVE Queued'
  <2>1. PICK b \in Batches :
       /\ status' = [d \in Deliveries |-> IF d \in b THEN "SENDING" ELSE status[d]]
       /\ holder' = [d \in Deliveries |-> IF d \in b THEN w ELSE holder[d]]
       /\ leaseLeft' = [d \in Deliveries |-> IF d \in b THEN Lease ELSE leaseLeft[d]]
       /\ \/ /\ \E share \in Shares(b) :
                  group' = [group EXCEPT ![w] =
                              [s \in Subs |-> IF share[s] = <<>> THEN Idle
                                              ELSE [Idle EXCEPT !.phase = "next",
                                                                !.todo = Claimed(share[s])]]]
             /\ UNCHANGED faults
          \/ Fault /\ UNCHANGED group
    BY <1>2 DEF ClaimDue
  <2>2. \A d \in b : Due(d) BY DEF Batches
  <2>3. group' \in [Workers -> [Subs -> Group]]
        /\ \A v \in Workers, s \in Subs : GroupOK(s, group'[v][s])
    <3>1. CASE UNCHANGED group BY <1>0, <3>1 DEF Queued, TypeOK
    <3>2. ASSUME NEW share \in Shares(b),
                 group' = [group EXCEPT ![w] =
                              [s \in Subs |-> IF share[s] = <<>> THEN Idle
                                              ELSE [Idle EXCEPT !.phase = "next",
                                                                !.todo = Claimed(share[s])]]]
          PROVE  group' \in [Workers -> [Subs -> Group]]
                 /\ \A v \in Workers, s \in Subs : GroupOK(s, group'[v][s])
      <4> DEFINE h(s) == IF share[s] = <<>> THEN Idle
                         ELSE [Idle EXCEPT !.phase = "next", !.todo = Claimed(share[s])]
      <4>1. \A s \in Subs : h(s) \in Group /\ GroupOK(s, h(s))
        BY IdleType, IdleOK, ClaimOK
      <4>2. group' = [group EXCEPT ![w] = [s \in Subs |-> h(s)]] BY <3>2
      <4> HIDE DEF h
      <4> QED BY <1>0, <4>1, <4>2 DEF Queued, TypeOK
    <3> QED BY <2>1, <3>1, <3>2
  <2>4. faults' \in 0..MaxFaults BY <1>0, <2>1, FaultType
  <2>5. UNCHANGED <<nextIn, attempts, subs, enqueued, history>> BY <1>2 DEF ClaimDue
  <2>6. age' \in [Workers -> Nat] /\ stopping' \in [Workers -> BOOLEAN]
    BY <1>0, <1>2 DEF ClaimDue, TypeOK
  <2>7. /\ status' \in [Deliveries -> RowStatus]
        /\ holder' \in [Deliveries -> Workers \cup {NoWorker}]
        /\ leaseLeft' \in [Deliveries -> -1..Lease]
    <3>1. Lease \in -1..Lease BY ConstantsAssumption
    <3>2. leaseLeft' \in [Deliveries -> -1..Lease] BY <1>0, <2>1, <3>1 DEF TypeOK
    <3>3. holder' \in [Deliveries -> Workers \cup {NoWorker}] BY <1>0, <2>1 DEF TypeOK
    <3>4. status' \in [Deliveries -> RowStatus] BY <1>0, <2>1 DEF TypeOK, RowStatus
    <3> QED BY <3>2, <3>3, <3>4
  <2>8. \A d \in Deliveries : RowOK(d)'
    BY <2>1, <2>2, <2>5 DEF Queued, RowOK, Due, Waiting
  <2>9. TypeOK' BY <1>0, <2>3, <2>4, <2>5, <2>6, <2>7 DEF TypeOK, RowStatus, history
  <2> QED BY <2>3, <2>8, <2>9 DEF Queued
<1>3. ASSUME NEW w \in Workers, Crash(w) PROVE Queued'
  <2>1. /\ group' \in [Workers -> [Subs -> Group]]
        /\ \A v \in Workers, s \in Subs : GroupOK(s, group'[v][s])
    BY <1>0, <1>3, IdleType, IdleOK DEF Crash, Queued, TypeOK
  <2>2. faults' \in 0..MaxFaults BY <1>0, <1>3, FaultType DEF Crash
  <2>3. unsaved' \subseteq Deliveries BY <1>0, <1>3 DEF Crash, TypeOK
  <2>4. UNCHANGED <<rows, subs, enqueued, age, stopping, acked, twice, posts>>
    BY <1>3 DEF Crash
  <2> QED BY <2>1, <2>2, <2>3, <2>4 DEF Queued, TypeOK, RowOK, rows
<1>4. ASSUME NEW w \in Workers, Shutdown(w) PROVE Queued'
  <2>1. faults' \in 0..MaxFaults BY <1>0, <1>4, FaultType DEF Shutdown
  <2>2. stopping' \in [Workers -> BOOLEAN] BY <1>0, <1>4 DEF Shutdown, TypeOK
  <2>3. UNCHANGED <<rows, subs, enqueued, group, age, history>> BY <1>4 DEF Shutdown
  <2> QED BY <2>1, <2>2, <2>3 DEF Queued, TypeOK, RowOK, GroupOK, rows, history
<1>5. ASSUME NEW s \in Subs, ChangeSubscription(s) PROVE Queued'
  <2>1. subs' \in [Subs -> {"active", "disabled", "deleted"}]
    BY <1>0, <1>5 DEF ChangeSubscription, TypeOK
  <2>2. UNCHANGED <<rows, enqueued, group, age, stopping, faults, history>>
    BY <1>5 DEF ChangeSubscription
  <2> QED BY <2>1, <2>2 DEF Queued, TypeOK, RowOK, GroupOK, rows, history
<1>6. ASSUME NEW d \in Deliveries, PruneTerminal(d) PROVE Queued'
  <2>1. status' \in [Deliveries -> RowStatus]
    BY <1>0, <1>6 DEF PruneTerminal, TypeOK, RowStatus
  <2>2. UNCHANGED <<holder, leaseLeft, nextIn, attempts, subs, enqueued, group, age, stopping,
                    faults, history>>
    BY <1>6 DEF PruneTerminal
  <2>3. \A x \in Deliveries : RowOK(x)'
    BY <1>0, <1>6, <2>2 DEF PruneTerminal, Queued, TypeOK, RowOK, Terminal, Waiting
  <2>4. TypeOK' BY <1>0, <2>1, <2>2 DEF TypeOK, RowStatus, history
  <2> QED BY <2>2, <2>3, <2>4 DEF Queued, GroupOK
<1>7. CASE Tick
  <2> DEFINE h(w, s) == [group[w][s] EXCEPT !.left = IF @ > 0 THEN @ - 1 ELSE 0,
                                            !.out.due = IF @ > 0 THEN @ - 1 ELSE 0]
  <2>1. \A w \in Workers, s \in Subs : h(w, s) \in Group /\ GroupOK(s, h(w, s))
    <3>1. \A w \in Workers, s \in Subs : group[w][s] \in Group /\ GroupOK(s, group[w][s])
      BY <1>0 DEF Queued, TypeOK
    <3> QED BY <3>1, TickOK
  <2>2. group' = [w \in Workers |-> [s \in Subs |-> h(w, s)]] BY <1>7 DEF Tick
  <2> HIDE DEF h
  <2>3. /\ group' \in [Workers -> [Subs -> Group]]
        /\ \A v \in Workers, s \in Subs : GroupOK(s, group'[v][s])
    BY <2>1, <2>2
  <2>4. leaseLeft' \in [Deliveries -> -1..Lease] /\ nextIn' \in [Deliveries -> Nat]
    <3>1. \A d \in Deliveries : /\ leaseLeft[d] \in -1..Lease /\ nextIn[d] \in Nat
      BY <1>0 DEF TypeOK
    <3>2. \A d \in Deliveries :
            /\ (IF leaseLeft[d] >= 0 THEN leaseLeft[d] - 1 ELSE -1) \in -1..Lease
            /\ (IF nextIn[d] > 0 THEN nextIn[d] - 1 ELSE 0) \in Nat
      BY <3>1, ConstantsAssumption
    <3>3. /\ leaseLeft' = [d \in Deliveries |-> IF leaseLeft[d] >= 0 THEN leaseLeft[d] - 1 ELSE -1]
          /\ nextIn' = [d \in Deliveries |-> IF nextIn[d] > 0 THEN nextIn[d] - 1 ELSE 0]
      BY <1>7 DEF Tick
    <3> QED BY <3>2, <3>3
  <2>5. age' \in [Workers -> Nat]
    <3>1. \A w \in Workers : age[w] \in Nat BY <1>0 DEF TypeOK
    <3>2. age' = [w \in Workers |-> IF Busy(w) /\ age[w] < Window THEN age[w] + 1 ELSE age[w]]
      BY <1>7 DEF Tick
    <3> QED BY <3>1, <3>2
  <2>6. UNCHANGED <<status, holder, attempts, subs, enqueued, stopping, faults, history>>
    BY <1>7 DEF Tick
  <2>7. \A d \in Deliveries : nextIn[d] = 0 => nextIn'[d] = 0
    <3>1. nextIn' = [d \in Deliveries |-> IF nextIn[d] > 0 THEN nextIn[d] - 1 ELSE 0]
      BY <1>7 DEF Tick
    <3> QED BY <3>1
  <2>8. \A d \in Deliveries : RowOK(d)' BY <2>6, <2>7 DEF Queued, RowOK
  <2>9. TypeOK' BY <1>0, <2>3, <2>4, <2>5, <2>6 DEF TypeOK, history
  <2> QED BY <2>3, <2>8, <2>9 DEF Queued
<1>8. CASE UNCHANGED vars
  BY <1>8 DEF vars, Queued, TypeOK, RowOK, GroupOK, rows, history
<1> QED BY <1>1, <1>2, <1>3, <1>4, <1>5, <1>6, <1>7, <1>8, WorkQueued DEF Next

\* TypeOK holds of every behaviour: in particular a row is never tried more often
\* than the schedule has entries, plus one.
THEOREM TypeCorrect == Spec => []TypeOK
<1>1. Queued => TypeOK BY DEF Queued
<1> QED BY <1>1, QueuedInit, QueuedStep, PTL DEF Spec

\* No write reaches a finished row: nobody holds it.
LEMMA FinishedStep ==
  ASSUME Queued, [Next]_vars, NEW d \in Deliveries, status[d] \in Terminal \cup {"GONE"}
  PROVE  status'[d] \in {status[d], "GONE"}
<1>0. /\ RowOK(d) /\ holder[d] = NoWorker /\ ~Due(d) /\ EventOf(d) \in enqueued
      /\ status \in [Deliveries -> RowStatus]
  BY DEF Queued, RowOK, Due, Terminal, Waiting, TypeOK, RowStatus
<1>1. ASSUME NEW e \in Events, Enqueue(e) PROVE status'[d] = status[d]
  BY <1>0, <1>1 DEF Enqueue
<1>2. ASSUME NEW w \in Workers, ClaimDue(w) PROVE status'[d] = status[d]
  BY <1>0, <1>2 DEF ClaimDue, Batches
<1>3. ASSUME NEW w \in Workers, NEW s \in Subs, Work(w, s) PROVE status'[d] = status[d]
  <2>1. CASE UNCHANGED status BY <2>1
  <2>2. ASSUME NEW x, NEW st, NEW n, NEW due, Update(w, x, st, n, due)
        PROVE  status'[d] = status[d]
    BY <1>0, <2>2, TokenAssumption DEF Update, rows
  <2>3. CASE Save(w, s) BY <2>1, <2>2, <2>3 DEF Save, rows
  <2>4. CASE Release(w, s) BY <2>1, <2>2, <2>4 DEF Release, rows
  <2> QED BY <1>3, <2>1, <2>3, <2>4
       DEF Work, StartAttempt, StopAttempts, ReadSubscription, Answered, DeferSubscription, rows
<1>4. ASSUME NEW x \in Deliveries, PruneTerminal(x) PROVE status'[d] \in {status[d], "GONE"}
  BY <1>0, <1>4 DEF PruneTerminal
<1> QED BY <1>1, <1>2, <1>3, <1>4
     DEF Next, Crash, Shutdown, ChangeSubscription, Tick, rows, vars

\* update_delivery.sql writes only under the worker's own claim, and nobody holds
\* a finished row: it is never put back on the queue.
THEOREM FinishedForGood == Spec => FinishedStays
<1>1. Queued /\ [Next]_vars =>
        [\A d \in Deliveries :
           /\ status[d] \in Terminal => status'[d] \in {status[d], "GONE"}
           /\ status[d] = "GONE" => status'[d] = "GONE"]_vars
  BY FinishedStep
<1> QED BY <1>1, QueuedInit, QueuedStep, PTL DEF Spec, FinishedStays

\* defer_subscription_deliveries.sql: "Nothing is brought forward", by any write.
THEOREM NeverSooner == Spec => NothingBroughtForward
<1>1. Queued /\ [Next]_vars =>
        [\A d \in Deliveries : nextIn'[d] < nextIn[d] => Tick]_vars
  <2> SUFFICES ASSUME Queued, Queued', Next, ~Tick, NEW d \in Deliveries
               PROVE  ~(nextIn'[d] < nextIn[d])
    BY QueuedStep
  <2>0. RowOK(d) /\ nextIn[d] \in Nat /\ nextIn'[d] \in Nat /\ nextIn \in [Deliveries -> Nat]
    BY DEF Queued, TypeOK
  <2>1. CASE UNCHANGED nextIn BY <2>0, <2>1
  <2>2. ASSUME NEW w \in Workers, NEW x, NEW st, NEW n, NEW due, Update(w, x, st, n, due)
        PROVE  ~(nextIn'[d] < nextIn[d])
    <3>1. CASE holder[x] # w BY <2>1, <2>2, <3>1 DEF Update, rows
    <3>2. CASE holder[x] = w /\ x # d BY <2>0, <2>2, <3>2 DEF Update
    <3>3. CASE holder[x] = w /\ x = d
      <4>1. nextIn[d] = 0 BY <2>0, <3>3, TokenAssumption DEF RowOK
      <4> QED BY <2>0, <4>1
    <3> QED BY <3>1, <3>2, <3>3
  <2>3. ASSUME NEW w \in Workers, NEW s \in Subs, Work(w, s)
        PROVE  ~(nextIn'[d] < nextIn[d])
    <3>1. CASE Save(w, s) BY <2>1, <2>2, <3>1 DEF Save, rows
    <3>2. CASE Release(w, s) BY <2>1, <2>2, <3>2 DEF Release, rows
    <3>3. CASE DeferSubscription(w, s)
      <4>1. group[w][s].out.due \in Nat BY DEF Queued, TypeOK, Group, Outcome
      <4> QED BY <2>0, <2>1, <3>3, <4>1 DEF DeferSubscription, Deferred
    <3> QED BY <2>1, <2>3, <3>1, <3>2, <3>3
         DEF Work, StartAttempt, StopAttempts, ReadSubscription, Answered, rows
  <2> QED BY <2>1, <2>3
       DEF Next, Enqueue, ClaimDue, Crash, Shutdown, ChangeSubscription, PruneTerminal, rows
<1> QED BY <1>1, QueuedInit, QueuedStep, PTL DEF Spec, NothingBroughtForward
-----------------------------------------------------------------------------
(***************************************************************************)
(* The claim outlasts everything done under it.                            *)
(***************************************************************************)

\* An attempt started at the very end of the window still has time, within the
\* lease, to read the subscription, to post and to record the outcome.
Timely == Window - 1 + ReadMax + Timeout + Reserve <= Lease

\* Row d is w's for t more units of time.
Mine(w, d, t) == holder[d] = w /\ status[d] = "SENDING" /\ leaseLeft[d] >= t

\* What the rest of an attempt may take, after the call in progress.
Remaining(g) == IF g.phase = "reading" THEN g.left + Timeout + Reserve
                ELSE IF g.phase = "posting" THEN g.left + Reserve ELSE g.left

\* Every row a worker may still start is its own, and so is the row it is
\* attempting, for as long as that may take.
ClaimHeld(w, g) ==
  /\ g.phase \in {"next", "reading", "posting", "saving"} /\ age[w] < Window =>
       \A k \in DOMAIN g.todo : k > 1 \/ g.phase = "next" =>
         Mine(w, g.todo[k].id, Lease - age[w])
  /\ g.phase \in {"reading", "posting", "saving"} =>
       Mine(w, g.todo[1].id, Remaining(g))

Held == Queued /\ \A w \in Workers, s \in Subs : ClaimHeld(w, group[w][s])

\* The window ends before the lease does.
LEMMA WindowBound ==
  /\ Window \in Int /\ Lease \in Nat /\ Reserve \in Nat /\ Timeout \in Nat \ {0}
  /\ ReadMax \in Nat /\ Window < Lease
BY ConstantsAssumption DEF Window

\* A row that is held is not due for anybody else.
LEMMA HeldNotDue ==
  ASSUME Queued, NEW w \in Workers, NEW d \in Deliveries, NEW t \in Nat, Mine(w, d, t)
  PROVE  ~Due(d) /\ EventOf(d) \in enqueued /\ status[d] \notin Terminal
<1>1. leaseLeft[d] \in Int BY DEF Queued, TypeOK
<1> QED BY <1>1 DEF Mine, Due, Waiting, Terminal, Queued, RowOK

\* What a goroutine holds, in terms that are natural numbers.
LEMMA HeldTypes ==
  ASSUME Queued, NEW w \in Workers, NEW s \in Subs
  PROVE  /\ group[w][s] \in Group /\ age[w] \in Nat
         /\ age[w] < Window => Lease - age[w] \in Nat
         /\ Remaining(group[w][s]) \in Nat
         /\ \A k \in DOMAIN group[w][s].todo : group[w][s].todo[k].id \in Deliveries
<1> DEFINE g == group[w][s]
<1>1. g \in Group /\ age[w] \in Nat BY DEF Queued, TypeOK
<1> HIDE DEF g
<1>2. age[w] < Window => Lease - age[w] \in Nat BY <1>1, WindowBound
<1>3. Remaining(g) \in Nat BY <1>1, WindowBound DEF Remaining, Group
<1>4. \A k \in DOMAIN g.todo : g.todo[k].id \in Deliveries
  <2>1. g.todo \in Seq(Row) BY <1>1 DEF Group
  <2>2. \A k \in DOMAIN g.todo : g.todo[k] \in Row BY <2>1
  <2> QED BY <2>2 DEF Row
<1> QED BY <1>1, <1>2, <1>3, <1>4 DEF g

\* A step that leaves alone row x while it is v's.
LeftAlone(x, v) ==
  holder[x] = v /\ status[x] = "SENDING" /\ leaseLeft[x] >= 0 =>
    holder'[x] = holder[x] /\ status'[x] = status[x] /\ leaseLeft'[x] = leaseLeft[x]

\* A goroutine that does not move keeps what it holds while its rows are left alone.
LEMMA HeldFrame ==
  ASSUME Held, NEW v \in Workers, NEW t \in Subs, group'[v][t] = group[v][t],
         age'[v] = age[v], \A k \in DOMAIN group[v][t].todo : LeftAlone(group[v][t].todo[k].id, v)
  PROVE  ClaimHeld(v, group[v][t])'
<1> DEFINE g == group[v][t]
<1>1. ClaimHeld(v, g) /\ Queued BY DEF Held
<1>2. /\ age[v] < Window => Lease - age[v] \in Nat /\ Remaining(g) \in Nat
      /\ \A k \in DOMAIN g.todo : g.todo[k].id \in Deliveries
  BY <1>1, HeldTypes
<1>3. \A k \in DOMAIN g.todo : leaseLeft[g.todo[k].id] \in Int
  BY <1>1, <1>2 DEF Queued, TypeOK
<1>4. ASSUME g.phase \in {"next", "reading", "posting", "saving"}, age[v] < Window,
             NEW k \in DOMAIN g.todo, k > 1 \/ g.phase = "next"
      PROVE  /\ holder'[g.todo[k].id] = v /\ status'[g.todo[k].id] = "SENDING"
             /\ leaseLeft'[g.todo[k].id] >= Lease - age[v]
  <2>1. Mine(v, g.todo[k].id, Lease - age[v]) BY <1>1, <1>4 DEF ClaimHeld
  <2>2. Lease - age[v] \in Nat /\ leaseLeft[g.todo[k].id] \in Int BY <1>2, <1>3, <1>4
  <2>3. LeftAlone(g.todo[k].id, v) BY <1>4
  <2> QED BY <2>1, <2>2, <2>3 DEF Mine, LeftAlone
<1>5. ASSUME g.phase \in {"reading", "posting", "saving"}
      PROVE  /\ holder'[g.todo[1].id] = v /\ status'[g.todo[1].id] = "SENDING"
             /\ leaseLeft'[g.todo[1].id] >= Remaining(g)
  <2>1. Mine(v, g.todo[1].id, Remaining(g)) BY <1>1, <1>5 DEF ClaimHeld
  <2>2. 1 \in DOMAIN g.todo BY <1>1, <1>5, CurrentType
  <2>3. Remaining(g) \in Nat /\ leaseLeft[g.todo[1].id] \in Int
    BY <1>1, <1>3, <2>2, HeldTypes
  <2>4. LeftAlone(g.todo[1].id, v) BY <2>2
  <2> QED BY <2>1, <2>3, <2>4 DEF Mine, LeftAlone
<1> QED BY <1>4, <1>5 DEF ClaimHeld, Mine, Remaining

\* A conditional write leaves alone every row but the writer's own.
LEMMA UpdateLeavesAlone ==
  ASSUME Queued, NEW w \in Workers, NEW d, NEW st, NEW n, NEW due,
         Update(w, d, st, n, due) \/ UNCHANGED rows,
         NEW x \in Deliveries, NEW v \in Workers, v # w \/ x # d
  PROVE  LeftAlone(x, v)
<1>1. CASE UNCHANGED rows BY <1>1 DEF rows, LeftAlone
<1>2. CASE x # d /\ ~UNCHANGED rows
  BY <1>2 DEF Update, LeftAlone, Queued, TypeOK
<1>3. CASE v # w /\ x = d /\ ~UNCHANGED rows
  BY <1>3 DEF Update, LeftAlone
<1> QED BY <1>1, <1>2, <1>3

\* One goroutine moves, and no other.
LEMMA SetEffect ==
  ASSUME Queued, NEW w \in Workers, NEW s \in Subs, NEW h, Set(w, s, h)
  PROVE  /\ group'[w][s] = h
         /\ \A v \in Workers, t \in Subs : v # w \/ t # s => group'[v][t] = group[v][t]
BY DEF Set, Queued, TypeOK

\* Steps of a goroutine that write no row keep what the others hold.
LEMMA OthersHeld ==
  ASSUME Held, NEW w \in Workers, NEW s \in Subs, NEW h \in Group, GroupOK(s, h),
         Set(w, s, h), UNCHANGED <<holder, status, leaseLeft, age>>
  PROVE  /\ \A v \in Workers, t \in Subs : v # w \/ t # s => ClaimHeld(v, group[v][t])'
         /\ group'[w][s] = h
<1>1. Queued BY DEF Held
<1>2. \A v \in Workers, t \in Subs :
        group'[v][t] = IF v = w /\ t = s THEN h ELSE group[v][t]
  BY <1>1, PutStep
<1>3. \A x, v : LeftAlone(x, v) BY DEF LeftAlone
<1> QED BY <1>2, <1>3, HeldFrame

\* Every step of a goroutine keeps its worker's claims.
LEMMA WorkHeld ==
  ASSUME Timely, Held, NEW w \in Workers, NEW s \in Subs, Work(w, s)
  PROVE  \A v \in Workers, t \in Subs : ClaimHeld(v, group[v][t])'
<1> DEFINE g == group[w][s]
<1>0. /\ Queued /\ g \in Group /\ GroupOK(s, g) /\ ClaimHeld(w, g)
      /\ age[w] \in Nat /\ g.left \in Nat
      /\ \A x \in Deliveries : leaseLeft[x] \in Int
  BY DEF Held, Queued, TypeOK, Group
<1> SUFFICES \A v \in Workers, t \in Subs :
               /\ v # w \/ t # s => ClaimHeld(v, group[v][t])'
               /\ v = w /\ t = s => ClaimHeld(v, group[v][t])'
  OBVIOUS
<1>1. CASE StartAttempt(w, s)
  <2> DEFINE h == [g EXCEPT !.phase = "reading", !.left = ReadMax, !.todo[1].n = @ + 1]
  <2>1. g.phase = "next" /\ age[w] < Window BY <1>1 DEF StartAttempt, MayStart
  <2>2. /\ h \in Group /\ GroupOK(s, h)
        /\ h.phase = "reading" /\ h.left = ReadMax /\ DOMAIN h.todo = DOMAIN g.todo
        /\ \A k \in DOMAIN g.todo : h.todo[k].id = g.todo[k].id
    BY <1>0, <2>1, StartOK
  <2>3. Set(w, s, h) /\ UNCHANGED <<holder, status, leaseLeft, age>>
    BY <1>1 DEF StartAttempt, rows
  <2> HIDE DEF h
  <2>4. /\ \A v \in Workers, t \in Subs : v # w \/ t # s => ClaimHeld(v, group[v][t])'
        /\ group'[w][s] = h
    BY <2>2, <2>3, OthersHeld
  <2>5. \A k \in DOMAIN g.todo : Mine(w, g.todo[k].id, Lease - age[w])
    BY <1>0, <2>1 DEF ClaimHeld
  <2>6. 1 \in DOMAIN g.todo /\ g.todo[1].id \in Deliveries
    BY <1>0, <2>1, CurrentType, HeldTypes
  <2>7. ReadMax + Timeout + Reserve <= Lease - age[w]
    BY <1>0, <2>1, WindowBound DEF Timely
  <2>8. Mine(w, g.todo[1].id, ReadMax + Timeout + Reserve)
    BY <1>0, <2>5, <2>6, <2>7, WindowBound DEF Mine
  <2>9. ClaimHeld(w, h)
    BY <2>2, <2>5, <2>6, <2>8 DEF ClaimHeld, Remaining
  <2>10. ClaimHeld(w, group[w][s])' BY <2>3, <2>4, <2>9 DEF ClaimHeld, Mine, Remaining
  <2> QED BY <2>4, <2>10
<1>2. CASE StopAttempts(w, s)
  <2>1. group'[w][s].phase = "releasing"
    <3>1. PICK h : Set(w, s, h) /\ h.phase = "releasing"
      <4>1. \A o : /\ [g EXCEPT !.phase = "releasing", !.left = Reserve, !.out = o].phase
                        = "releasing"
                   /\ [g EXCEPT !.phase = "releasing", !.left = Reserve].phase = "releasing"
        BY <1>0 DEF Group
      <4>2. \/ Set(w, s, [g EXCEPT !.phase = "releasing", !.left = Reserve])
            \/ \E o : Set(w, s, [g EXCEPT !.phase = "releasing", !.left = Reserve, !.out = o])
        BY <1>2 DEF StopAttempts
      <4> QED BY <4>1, <4>2
    <3> QED BY <1>0, <3>1, SetEffect
  <2>2. ClaimHeld(w, group[w][s])' BY <2>1 DEF ClaimHeld
  <2>3. \A v \in Workers, t \in Subs : v # w \/ t # s => group'[v][t] = group[v][t]
    BY <1>0, <1>2, SetEffect DEF StopAttempts
  <2>4. UNCHANGED <<holder, status, leaseLeft, age>> BY <1>2 DEF StopAttempts, rows
  <2>5. \A x, v : LeftAlone(x, v) BY <2>4 DEF LeftAlone
  <2> QED BY <2>2, <2>3, <2>4, <2>5, HeldFrame
<1>3. CASE ReadSubscription(w, s) \/ Answered(w, s)
  <2>1. UNCHANGED <<holder, status, leaseLeft, age>>
    BY <1>3 DEF ReadSubscription, Answered, rows
  <2>2. \A x, v : LeftAlone(x, v) BY <2>1 DEF LeftAlone
  <2>3. \A v \in Workers, t \in Subs : v # w \/ t # s => group'[v][t] = group[v][t]
    BY <1>0, <1>3, SetEffect DEF ReadSubscription, Answered
  <2>4. g.phase \in {"reading", "posting"} BY <1>3 DEF ReadSubscription, Answered
  <2>5. /\ group'[w][s].todo = g.todo
        /\ \/ group'[w][s].phase = "saving" /\ group'[w][s].left = Reserve
           \/ /\ g.phase = "reading"
              /\ group'[w][s].phase = "posting" /\ group'[w][s].left = Timeout
    <3>1. \A out : LET h == Recording(g, out) IN
            h.todo = g.todo /\ h.phase = "saving" /\ h.left = Reserve
      BY <1>0 DEF Recording, Group
    <3>2. LET h == [g EXCEPT !.phase = "posting", !.left = Timeout] IN
            h.todo = g.todo /\ h.phase = "posting" /\ h.left = Timeout
      BY <1>0 DEF Group
    <3>3. \/ \E out : Set(w, s, Recording(g, out))
          \/ g.phase = "reading" /\ Set(w, s, [g EXCEPT !.phase = "posting", !.left = Timeout])
      BY <1>3 DEF ReadSubscription, Answered
    <3>4. ASSUME NEW out, Set(w, s, Recording(g, out))
          PROVE  group'[w][s] = Recording(g, out)
      BY <1>0, <3>4, SetEffect
    <3>5. ASSUME Set(w, s, [g EXCEPT !.phase = "posting", !.left = Timeout])
          PROVE  group'[w][s] = [g EXCEPT !.phase = "posting", !.left = Timeout]
      BY <1>0, <3>5, SetEffect
    <3>6. ASSUME NEW out, Set(w, s, Recording(g, out))
          PROVE  /\ group'[w][s].todo = g.todo
                 /\ group'[w][s].phase = "saving" /\ group'[w][s].left = Reserve
      BY <3>1, <3>4, <3>6
    <3>7. ASSUME Set(w, s, [g EXCEPT !.phase = "posting", !.left = Timeout])
          PROVE  /\ group'[w][s].todo = g.todo
                 /\ group'[w][s].phase = "posting" /\ group'[w][s].left = Timeout
      BY <3>2, <3>5, <3>7
    <3> QED BY <3>3, <3>6, <3>7
  <2>6. 1 \in DOMAIN g.todo /\ g.todo[1].id \in Deliveries
    BY <1>0, <2>4, CurrentType, HeldTypes
  <2>7. Remaining(group[w][s])' <= Remaining(g) /\ Remaining(group[w][s])' \in Nat
        /\ Remaining(g) \in Nat
    <3>1. CASE group'[w][s].phase = "saving" /\ group'[w][s].left = Reserve
      BY <1>0, <2>4, <3>1, WindowBound DEF Remaining
    <3>2. CASE /\ g.phase = "reading"
               /\ group'[w][s].phase = "posting" /\ group'[w][s].left = Timeout
      BY <1>0, <3>2, WindowBound DEF Remaining
    <3> QED BY <2>5, <3>1, <3>2
  <2>8. Mine(w, g.todo[1].id, Remaining(g)) BY <1>0, <2>4 DEF ClaimHeld
  <2>9. leaseLeft[g.todo[1].id] >= Remaining(group[w][s])'
    BY <1>0, <2>6, <2>7, <2>8 DEF Mine
  <2>10. Mine(w, group[w][s].todo[1].id, Remaining(group[w][s]))'
    BY <2>1, <2>5, <2>8, <2>9 DEF Mine
  <2>11. ClaimHeld(w, group[w][s])'
    BY <1>0, <2>1, <2>4, <2>5, <2>10 DEF ClaimHeld, Mine
  <2> QED BY <2>1, <2>2, <2>3, <2>11, HeldFrame
<1>4. CASE Save(w, s) \/ Release(w, s)
  <2> DEFINE d == Current(w, s)
  <2>1. g.phase \in {"saving", "releasing"} BY <1>4 DEF Save, Release
  <2>2. /\ \E st, n, due : Update(w, d, st, n, due) \/ UNCHANGED rows
        /\ UNCHANGED age
    BY <1>4 DEF Save, Release
  <2>3. \A x \in Deliveries, v \in Workers : v # w \/ x # d => LeftAlone(x, v)
    BY <1>0, <2>2, UpdateLeavesAlone
  <2>4. d \in Deliveries /\ SubOf(d) = s /\ d = g.todo[1].id /\ 1 \in DOMAIN g.todo
        /\ DOMAIN g.todo \subseteq Nat \ {0}
    BY <1>0, <2>1, CurrentType DEF Current
  <2>5. \A v \in Workers, t \in Subs : v # w \/ t # s => group'[v][t] = group[v][t]
    BY <1>0, <1>4, SetEffect DEF Save, Release
  <2>6. ASSUME NEW v \in Workers, NEW t \in Subs, v # w \/ t # s
        PROVE  ClaimHeld(v, group[v][t])'
    <3>1. \A k \in DOMAIN group[v][t].todo :
            group[v][t].todo[k].id \in Deliveries /\ SubOf(group[v][t].todo[k].id) = t
      BY <1>0, HeldTypes DEF Queued, GroupOK
    <3>2. \A k \in DOMAIN group[v][t].todo : LeftAlone(group[v][t].todo[k].id, v)
      BY <2>3, <2>4, <2>6, <3>1
    <3> QED BY <2>2, <2>5, <2>6, <3>2, HeldFrame
  <2>7. CASE Release(w, s)
    <3>1. group'[w][s].phase \in {"releasing", "deferring", "none"}
      <4>1. PICK h : Set(w, s, h) /\ h.phase \in {"releasing", "deferring", "none"}
        <5>1. /\ [g EXCEPT !.todo = Tail(@), !.left = Reserve].phase = g.phase
              /\ [g EXCEPT !.todo = <<>>, !.phase = "deferring", !.left = Reserve].phase
                   = "deferring"
              /\ Idle.phase = "none"
          BY <1>0 DEF Group, Idle
        <5>2. \/ Set(w, s, [g EXCEPT !.todo = Tail(@), !.left = Reserve])
              \/ Set(w, s, [g EXCEPT !.todo = <<>>, !.phase = "deferring", !.left = Reserve])
              \/ Set(w, s, Idle)
          BY <2>7 DEF Release
        <5>3. g.phase = "releasing" BY <2>7 DEF Release
        <5> QED BY <5>1, <5>2, <5>3
      <4> QED BY <1>0, <4>1, SetEffect
    <3>2. ClaimHeld(w, group[w][s])' BY <3>1 DEF ClaimHeld
    <3> QED BY <2>6, <3>2
  <2>8. CASE Save(w, s)
    <3> DEFINE h == AfterAttempt(g)
    <3>0. g.phase = "saving" BY <2>8 DEF Save
    <3>1. h \in Group /\ GroupOK(s, h) BY <1>0, <3>0, AfterAttemptOK
    <3>2. group'[w][s] = h BY <1>0, <2>8, SetEffect DEF Save
    <3>3. CASE Len(g.todo) = 1
      <4>1. h.phase = "none" BY <3>3 DEF AfterAttempt, Idle
      <4>2. ClaimHeld(w, group[w][s])' BY <3>2, <4>1 DEF ClaimHeld
      <4> QED BY <2>6, <4>2
    <3>4. CASE Len(g.todo) # 1
      <4>1. h.phase = "next" /\ h.todo = Tail(g.todo) BY <3>4 DEF AfterAttempt
      <4> HIDE DEF h
      <4>2. \A k \in DOMAIN h.todo : /\ k \in Nat /\ k + 1 > 1 /\ k + 1 \in DOMAIN g.todo
                                     /\ h.todo[k] = g.todo[k + 1]
        BY <1>0, <3>0, <3>1, <3>4, <4>1, RestOK
      <4>3. ASSUME age[w] < Window, NEW k \in DOMAIN h.todo
            PROVE  /\ holder'[h.todo[k].id] = w /\ status'[h.todo[k].id] = "SENDING"
                   /\ leaseLeft'[h.todo[k].id] >= Lease - age[w]
        <5> DEFINE x == g.todo[k + 1].id
        <5>1. k + 1 > 1 /\ k + 1 \in DOMAIN g.todo /\ h.todo[k].id = x BY <4>2
        <5>2. Mine(w, x, Lease - age[w]) BY <1>0, <3>0, <4>3, <5>1 DEF ClaimHeld
        <5>3. x \in Deliveries BY <1>0, <5>1, HeldTypes
        <5>4. x # d
          <6>1. g.todo[k + 1].id = g.todo[1].id => k + 1 = 1 BY <1>0, <2>4, <5>1 DEF GroupOK
          <6>2. k \in Nat /\ k + 1 # 1 BY <4>2
          <6> QED BY <2>4, <6>1, <6>2
        <5>5. LeftAlone(x, w) BY <2>3, <5>3, <5>4
        <5>6. Lease - age[w] \in Nat BY <1>0, <4>3, HeldTypes
        <5> HIDE DEF x
        <5>7. leaseLeft[x] \in Int BY <1>0, <5>3
        <5> QED BY <5>1, <5>2, <5>5, <5>6, <5>7 DEF Mine, LeftAlone
      <4>4. ClaimHeld(w, group[w][s])' BY <2>2, <3>2, <4>1, <4>3 DEF ClaimHeld, Mine
      <4> QED BY <2>6, <4>4
    <3> QED BY <3>3, <3>4
  <2> QED BY <1>4, <2>7, <2>8
<1>5. CASE DeferSubscription(w, s)
  <2>1. Set(w, s, Idle) /\ UNCHANGED <<holder, status, leaseLeft, age>>
    BY <1>5 DEF DeferSubscription
  <2>2. /\ \A v \in Workers, t \in Subs : v # w \/ t # s => ClaimHeld(v, group[v][t])'
        /\ group'[w][s] = Idle
    BY <2>1, IdleType, IdleOK, OthersHeld
  <2>3. ClaimHeld(w, group[w][s])' BY <2>2 DEF ClaimHeld, Idle
  <2> QED BY <2>2, <2>3
<1> QED BY <1>1, <1>2, <1>3, <1>4, <1>5 DEF Work

\* Every step keeps every worker's claims.
LEMMA HeldStep ==
  ASSUME Timely, Held, [Next]_vars
  PROVE  Held'
<1>0. Queued /\ TypeOK /\ Queued' BY QueuedStep DEF Held, Queued
<1> SUFFICES ASSUME NEW v \in Workers, NEW t \in Subs PROVE ClaimHeld(v, group[v][t])'
  BY <1>0 DEF Held
<1> DEFINE g == group[v][t]
<1>1. /\ ClaimHeld(v, g) /\ g \in Group /\ age[v] \in Nat
      /\ age[v] < Window => Lease - age[v] \in Nat
      /\ Remaining(g) \in Nat
      /\ \A k \in DOMAIN g.todo : g.todo[k].id \in Deliveries
  BY <1>0, HeldTypes DEF Held
<1>2. ASSUME UNCHANGED <<holder, status, leaseLeft, age, group>>
      PROVE  ClaimHeld(v, group[v][t])'
  BY <1>1, <1>2 DEF ClaimHeld, Mine, Remaining
<1>3. ASSUME NEW e \in Events, Enqueue(e) PROVE ClaimHeld(v, group[v][t])'
  <2>1. UNCHANGED <<holder, leaseLeft, age, group>> BY <1>3 DEF Enqueue
  <2>2. \A x \in Deliveries : status[x] = "SENDING" => status'[x] = status[x]
    BY <1>0, <1>3 DEF Enqueue, Queued, RowOK
  <2>3. \A k \in DOMAIN g.todo : LeftAlone(g.todo[k].id, v) BY <1>1, <2>1, <2>2 DEF LeftAlone
  <2> QED BY <2>1, <2>3, HeldFrame
<1>4. ASSUME NEW w \in Workers, ClaimDue(w) PROVE ClaimHeld(v, group[v][t])'
  <2>1. PICK b \in Batches :
       /\ status' = [d \in Deliveries |-> IF d \in b THEN "SENDING" ELSE status[d]]
       /\ holder' = [d \in Deliveries |-> IF d \in b THEN w ELSE holder[d]]
       /\ leaseLeft' = [d \in Deliveries |-> IF d \in b THEN Lease ELSE leaseLeft[d]]
       /\ \/ \E share \in Shares(b) :
                group' = [group EXCEPT ![w] =
                            [s \in Subs |-> IF share[s] = <<>> THEN Idle
                                            ELSE [Idle EXCEPT !.phase = "next",
                                                              !.todo = Claimed(share[s])]]]
          \/ UNCHANGED group
    BY <1>4 DEF ClaimDue
  <2>2. b \subseteq Deliveries /\ \A d \in b : Due(d) BY DEF Batches
  <2>3. age' = [age EXCEPT ![w] = 0] /\ ~Busy(w) BY <1>4 DEF ClaimDue
  <2>4. CASE v # w
    <3>1. group'[v][t] = group[v][t] /\ age'[v] = age[v]
      BY <1>0, <2>1, <2>3, <2>4 DEF TypeOK
    <3>2. ASSUME NEW k \in DOMAIN g.todo PROVE LeftAlone(g.todo[k].id, v)
      <4> DEFINE x == g.todo[k].id
      <4>1. x \in Deliveries /\ leaseLeft[x] \in Int BY <1>0, <1>1 DEF TypeOK
      <4> HIDE DEF x
      <4>2. status[x] = "SENDING" /\ leaseLeft[x] >= 0 => x \notin b
        BY <2>2, <4>1 DEF Due, Waiting
      <4>3. LeftAlone(x, v) BY <2>1, <4>1, <4>2 DEF LeftAlone
      <4> QED BY <4>3 DEF x
    <3> QED BY <3>1, <3>2, HeldFrame
  <2>5. CASE v = w
    <3>1. g.phase = "none" BY <2>3, <2>5 DEF Busy
    <3>2. CASE UNCHANGED group
      <4>1. group'[v][t].phase = "none" BY <3>1, <3>2
      <4> QED BY <4>1 DEF ClaimHeld
    <3>3. ASSUME NEW share \in Shares(b),
                 group' = [group EXCEPT ![w] =
                            [s \in Subs |-> IF share[s] = <<>> THEN Idle
                                            ELSE [Idle EXCEPT !.phase = "next",
                                                              !.todo = Claimed(share[s])]]]
          PROVE  ClaimHeld(v, group[v][t])'
      <4> DEFINE h == [Idle EXCEPT !.phase = "next", !.todo = Claimed(share[t])]
      <4>1. group'[v][t] = IF share[t] = <<>> THEN Idle ELSE h
        BY <1>0, <2>5, <3>3 DEF TypeOK
      <4>2. CASE share[t] = <<>>
        <5>1. group'[v][t].phase = "none" BY <4>1, <4>2 DEF Idle
        <5> QED BY <5>1 DEF ClaimHeld
      <4>3. CASE share[t] # <<>>
        <5>1. h.phase = "next" /\ \A k \in DOMAIN h.todo : h.todo[k].id \in b
          BY <1>0, <4>3, ClaimOK
        <5>2. group'[v][t] = h BY <4>1, <4>3
        <5>3. age'[v] = 0 BY <1>0, <2>3, <2>5 DEF TypeOK
        <5> HIDE DEF h
        <5>4. \A k \in DOMAIN h.todo :
                /\ holder'[h.todo[k].id] = v /\ status'[h.todo[k].id] = "SENDING"
                /\ leaseLeft'[h.todo[k].id] = Lease
          BY <2>1, <2>2, <2>5, <5>1
        <5>5. Lease >= Lease - 0 BY WindowBound
        <5> QED BY <5>1, <5>2, <5>3, <5>4, <5>5 DEF ClaimHeld, Mine
      <4> QED BY <4>2, <4>3
    <3> QED BY <2>1, <3>2, <3>3
  <2> QED BY <2>4, <2>5
<1>5. ASSUME NEW w \in Workers, Crash(w) PROVE ClaimHeld(v, group[v][t])'
  <2>1. UNCHANGED <<holder, status, leaseLeft, age>> BY <1>5 DEF Crash, rows
  <2>2. CASE v = w
    <3>1. group'[v][t] = Idle BY <1>0, <1>5, <2>2 DEF Crash, TypeOK
    <3>2. group'[v][t].phase = "none" BY <3>1 DEF Idle
    <3> QED BY <3>2 DEF ClaimHeld
  <2>3. CASE v # w
    <3>1. group'[v][t] = group[v][t] BY <1>0, <1>5, <2>3 DEF Crash, TypeOK
    <3>2. \A x : LeftAlone(x, v) BY <2>1 DEF LeftAlone
    <3> QED BY <2>1, <3>1, <3>2, HeldFrame
  <2> QED BY <2>2, <2>3
<1>6. ASSUME NEW d \in Deliveries, PruneTerminal(d) PROVE ClaimHeld(v, group[v][t])'
  <2>1. UNCHANGED <<holder, leaseLeft, age, group>> BY <1>6 DEF PruneTerminal
  <2>2. \A x \in Deliveries : status[x] = "SENDING" => status'[x] = status[x]
    BY <1>0, <1>6 DEF PruneTerminal, TypeOK, Terminal
  <2>3. \A k \in DOMAIN g.todo : LeftAlone(g.todo[k].id, v) BY <1>1, <2>1, <2>2 DEF LeftAlone
  <2> QED BY <2>1, <2>3, HeldFrame
<1>7. CASE Tick
  <2> DEFINE h == group'[v][t]
  <2>1. /\ h.phase = g.phase /\ h.todo = g.todo
        /\ h.left = IF g.left > 0 THEN g.left - 1 ELSE 0
    <3>1. h = [g EXCEPT !.left = IF @ > 0 THEN @ - 1 ELSE 0,
                        !.out.due = IF @ > 0 THEN @ - 1 ELSE 0]
      BY <1>7 DEF Tick
    <3>2. GroupOK(t, g) BY <1>0 DEF Queued
    <3> QED BY <1>1, <3>1, <3>2, TickOK
  <2>2. UNCHANGED <<holder, status>> BY <1>7 DEF Tick
  <2>3. \A x \in Deliveries :
          leaseLeft[x] \in Int /\ (leaseLeft[x] >= 0 => leaseLeft'[x] = leaseLeft[x] - 1)
    <3>1. \A x \in Deliveries : leaseLeft[x] \in Int BY <1>0 DEF TypeOK
    <3>2. leaseLeft' = [x \in Deliveries |-> IF leaseLeft[x] >= 0 THEN leaseLeft[x] - 1 ELSE -1]
      BY <1>7 DEF Tick
    <3> QED BY <3>1, <3>2
  <2>4. age'[v] = IF Busy(v) /\ age[v] < Window THEN age[v] + 1 ELSE age[v]
    BY <1>7 DEF Tick
  <2> HIDE DEF h
  <2>5. ASSUME h.phase \in {"next", "reading", "posting", "saving"}, age'[v] < Window,
               NEW k \in DOMAIN h.todo, k > 1 \/ h.phase = "next"
        PROVE  /\ holder'[h.todo[k].id] = v /\ status'[h.todo[k].id] = "SENDING"
               /\ leaseLeft'[h.todo[k].id] >= Lease - age'[v]
    <3> DEFINE x == g.todo[k].id
    <3>1. Busy(v) BY <2>1, <2>5 DEF Busy
    <3>2. age[v] < Window /\ age'[v] = age[v] + 1 BY <1>1, <2>4, <2>5, <3>1, WindowBound
    <3>3. Mine(v, x, Lease - age[v]) BY <1>1, <2>1, <2>5, <3>2 DEF ClaimHeld
    <3>4. x \in Deliveries /\ h.todo[k].id = x BY <1>1, <2>1, <2>5
    <3> HIDE DEF x
    <3>5. leaseLeft'[x] = leaseLeft[x] - 1 /\ leaseLeft[x] >= Lease - age[v]
      BY <1>1, <2>3, <3>2, <3>3, <3>4 DEF Mine
    <3>6. leaseLeft'[x] >= Lease - age'[v]
      BY <1>1, <2>3, <3>2, <3>4, <3>5, WindowBound
    <3> QED BY <2>2, <3>3, <3>4, <3>6 DEF Mine
  <2>6. ASSUME h.phase \in {"reading", "posting", "saving"}
        PROVE  /\ holder'[h.todo[1].id] = v /\ status'[h.todo[1].id] = "SENDING"
               /\ leaseLeft'[h.todo[1].id] >= Remaining(h)
    <3> DEFINE x == g.todo[1].id
    <3>1. g.left > 0 /\ g.left \in Nat BY <1>1, <1>7, <2>1, <2>6 DEF Tick, InCall, Group
    <3>2. Remaining(h) = Remaining(g) - 1 /\ Remaining(g) >= 1
      BY <2>1, <2>6, <3>1, WindowBound DEF Remaining
    <3>3. Mine(v, x, Remaining(g)) BY <1>1, <2>1, <2>6 DEF ClaimHeld
    <3>4. x \in Deliveries /\ h.todo[1].id = x BY <1>0, <1>1, <2>1, <2>6, CurrentType
    <3> HIDE DEF x
    <3>5. leaseLeft'[x] >= Remaining(h) BY <1>1, <2>3, <3>2, <3>3, <3>4 DEF Mine
    <3> QED BY <2>2, <3>3, <3>4, <3>5 DEF Mine
  <2> QED BY <2>5, <2>6 DEF ClaimHeld, Mine, Remaining, h
<1> QED BY <1>2, <1>3, <1>4, <1>5, <1>6, <1>7, WorkHeld
     DEF Next, vars, rows, Shutdown, ChangeSubscription

\* At the start there is no claim.
LEMMA HeldInit == Init => Held
<1> SUFFICES ASSUME Init PROVE Held OBVIOUS
<1>1. Queued BY QueuedInit
<1>2. \A w \in Workers, s \in Subs : group[w][s].phase = "none" BY DEF Init, Idle
<1> QED BY <1>1, <1>2 DEF Held, ClaimHeld

\* A row being attempted is the worker's own, and still on the queue.
LEMMA AttemptingHolds ==
  ASSUME Held, NEW w \in Workers, NEW d \in Deliveries, Attempting(w, d)
  PROVE  holder[d] = w /\ status[d] = "SENDING"
<1>1. SubOf(d) \in Subs BY DeliveryParts
<1> QED BY <1>1 DEF Held, ClaimHeld, Attempting, Mine

\* durable_worker.go: "A claim has to outlast everything done under it": when the
\* lease covers the window, the read, the post and the save, no two workers ever
\* attempt one notification at the same time.
THEOREM TimelyClaimExcludes == Timely => (Spec => []OnePoster)
<1> SUFFICES ASSUME Timely PROVE Spec => []OnePoster OBVIOUS
<1>1. Held /\ [Next]_vars => Held' BY HeldStep
<1>2. Held => OnePoster BY AttemptingHolds DEF OnePoster
<1> QED BY HeldInit, <1>1, <1>2, PTL DEF Spec

-----------------------------------------------------------------------------
(***************************************************************************)
(* WebhookDelivery implements RetryQueue, for every number of workers,     *)
(* events and subscriptions, every schedule, lease and answer; and what an *)
(* endpoint sees of one notification, when the lease is long enough.       *)
(*                                                                         *)
(* A worker writes the count it worked out from the row as it claimed it.  *)
(* That the recorded attempts go up by one, and by none when a row is      *)
(* handed back, needs that the copy is true for as long as the row is the  *)
(* worker's: Counted, on top of Queued.                                    *)
(***************************************************************************)
\* Attempts begun and not recorded: the first row's, while it is attempted.
Begun(g, k) == IF k = 1 /\ g.phase \in {"reading", "posting", "saving"} THEN 1 ELSE 0

\* As long as a row is w's own by ho, the goroutine's copy counts its attempts in at.
Counts(w, g, ho, at) ==
  \A k \in DOMAIN g.todo : ho[g.todo[k].id] = w =>
    g.todo[k].n = at[g.todo[k].id] + Begun(g, k)

Counted == Queued /\ \A w \in Workers, s \in Subs : Counts(w, group[w][s], holder, attempts)

\* Row x is not given to v, and if it stays v's its count stays.
Spares(v, x) == holder'[x] = v => holder[x] = v /\ attempts'[x] = attempts[x]

\* A goroutine with the same rows in the same phase counts as it did.
LEMMA CountsFrame ==
  ASSUME NEW v, NEW g, NEW h, Counts(v, g, holder, attempts), h.todo = g.todo,
         h.phase \in {"reading", "posting", "saving"} <=> g.phase \in {"reading", "posting", "saving"},
         \A k \in DOMAIN g.todo : Spares(v, g.todo[k].id)
  PROVE  Counts(v, h, holder', attempts')
<1> SUFFICES ASSUME NEW k \in DOMAIN g.todo, holder'[g.todo[k].id] = v
             PROVE  g.todo[k].n = attempts'[g.todo[k].id] + Begun(h, k)
  BY DEF Counts, Begun
<1>1. holder[g.todo[k].id] = v /\ attempts'[g.todo[k].id] = attempts[g.todo[k].id]
  BY DEF Spares
<1>2. Begun(h, k) = Begun(g, k) BY DEF Begun
<1> QED BY <1>1, <1>2 DEF Counts

\* A goroutine that has ended counts nothing.
LEMMA IdleCounts == \A w, ho, at : Counts(w, Idle, ho, at)
<1>1. DOMAIN Idle.todo = {} BY DEF Idle
<1> QED BY <1>1 DEF Counts

\* An attempt begins: the copy of its row counts it.
LEMMA StartCounts ==
  ASSUME NEW w, NEW s \in Subs, NEW g \in Group, GroupOK(s, g), g.phase = "next", NEW ho, NEW at,
         \A k \in DOMAIN g.todo : at[g.todo[k].id] \in Nat, Counts(w, g, ho, at)
  PROVE  Counts(w, [g EXCEPT !.phase = "reading", !.left = ReadMax, !.todo[1].n = @ + 1], ho, at)
<1> DEFINE h == [g EXCEPT !.phase = "reading", !.left = ReadMax, !.todo[1].n = @ + 1]
<1>1. g.todo \in Seq(Row) /\ g.todo # <<>> BY DEF Group, GroupOK
<1>2. Len(g.todo) \in Nat \ {0} /\ DOMAIN g.todo = 1..Len(g.todo) BY <1>1, EmptySeq
<1>3. \A k \in DOMAIN g.todo : g.todo[k] \in Row BY <1>1, <1>2
<1>4. h.phase = "reading" /\ h.todo = [g.todo EXCEPT ![1].n = @ + 1] BY DEF Group
<1>5. /\ DOMAIN h.todo = DOMAIN g.todo
      /\ \A k \in DOMAIN g.todo : /\ h.todo[k].id = g.todo[k].id
                                  /\ h.todo[k].n = g.todo[k].n + IF k = 1 THEN 1 ELSE 0
  <2>1. DOMAIN h.todo = DOMAIN g.todo BY <1>4
  <2> SUFFICES ASSUME NEW k \in DOMAIN g.todo
               PROVE  /\ h.todo[k].id = g.todo[k].id
                      /\ h.todo[k].n = g.todo[k].n + IF k = 1 THEN 1 ELSE 0
    BY <2>1
  <2>2. g.todo[k].n \in Nat BY <1>3, ConstantsAssumption DEF Row, MaxAttempts
  <2>3. CASE k = 1
    <3>1. h.todo[k] = [g.todo[1] EXCEPT !.n = @ + 1] BY <1>2, <1>4, <2>3
    <3> QED BY <1>2, <1>3, <2>3, <3>1 DEF Row
  <2>4. CASE k # 1
    <3>1. h.todo[k] = g.todo[k] BY <1>4, <2>4
    <3> QED BY <2>2, <2>4, <3>1
  <2> QED BY <2>3, <2>4
<1> HIDE DEF h
<1>6. ASSUME NEW k \in DOMAIN g.todo, ho[g.todo[k].id] = w
      PROVE  h.todo[k].n = at[g.todo[k].id] + Begun(h, k)
  <2>1. g.todo[k].n = at[g.todo[k].id] + 0 BY <1>6 DEF Counts, Begun
  <2>2. at[g.todo[k].id] \in Nat OBVIOUS
  <2>3. Begun(h, k) = IF k = 1 THEN 1 ELSE 0 BY <1>4 DEF Begun
  <2> QED BY <1>5, <2>1, <2>2, <2>3
<1> QED BY <1>5, <1>6 DEF Counts, h

\* The rows left after the first count as they did, when the write touched only it.
LEMMA RestCounts ==
  ASSUME NEW w, NEW s \in Subs, NEW g \in Group, GroupOK(s, g), Len(g.todo) # 1,
         g.phase \notin {"none", "deferring"}, Counts(w, g, holder, attempts),
         NEW h \in Group, h.todo = Tail(g.todo), h.phase \in {"next", "releasing"},
         \A k \in DOMAIN g.todo : k > 1 => Spares(w, g.todo[k].id)
  PROVE  Counts(w, h, holder', attempts')
<1>1. /\ DOMAIN h.todo = 1..(Len(g.todo) - 1)
      /\ \A k \in DOMAIN h.todo : /\ k \in Nat /\ k + 1 > 1 /\ k + 1 \in DOMAIN g.todo
                                  /\ h.todo[k] = g.todo[k + 1]
  BY RestOK
<1>2. ASSUME NEW k \in DOMAIN h.todo, holder'[h.todo[k].id] = w
      PROVE  h.todo[k].n = attempts'[h.todo[k].id] + Begun(h, k)
  <2> DEFINE x == g.todo[k + 1].id
  <2>1. h.todo[k] = g.todo[k + 1] /\ k + 1 \in DOMAIN g.todo /\ k \in 1..(Len(g.todo) - 1)
    BY <1>1
  <2>2. Spares(w, x) BY <1>1, <2>1
  <2>3. holder[x] = w /\ attempts'[x] = attempts[x] BY <1>2, <2>1, <2>2 DEF Spares
  <2>4. k + 1 # 1 BY <1>1
  <2>5. Begun(g, k + 1) = 0 BY <2>4 DEF Begun
  <2>6. Begun(h, k) = 0 BY DEF Begun
  <2>7. g.todo[k + 1].n = attempts[x] + Begun(g, k + 1) BY <2>1, <2>3 DEF Counts
  <2> QED BY <2>1, <2>3, <2>5, <2>6, <2>7
<1> QED BY <1>2 DEF Counts

\* A claim copies the rows as they are.
LEMMA ClaimCounts ==
  ASSUME Queued, NEW b \in Batches, NEW share \in Shares(b), NEW s \in Subs, NEW w, NEW ho
  PROVE  Counts(w, [Idle EXCEPT !.phase = "next", !.todo = Claimed(share[s])], ho, attempts)
<1> DEFINE q == share[s]
           h == [Idle EXCEPT !.phase = "next", !.todo = Claimed(q)]
<1>0. q \in InClaimOrder({d \in b : SubOf(d) = s}) BY DEF Shares
<1>1. DOMAIN q = 1..Cardinality({d \in b : SubOf(d) = s})
      /\ \A k \in DOMAIN q : q[k] \in b
  BY <1>0 DEF InClaimOrder
<1>2. b \subseteq Deliveries BY DEF Batches
<1>3. \A k \in DOMAIN q : attempts[q[k]] \in Nat
  BY <1>1, <1>2, ConstantsAssumption DEF Queued, TypeOK, MaxAttempts
<1> HIDE DEF q
<1>4. h.phase = "next" /\ h.todo = Claimed(q) BY DEF Idle
<1>5. /\ DOMAIN h.todo = DOMAIN q
      /\ \A k \in DOMAIN q : h.todo[k].id = q[k] /\ h.todo[k].n = attempts[q[k]]
  BY <1>4 DEF Claimed
<1> HIDE DEF h
<1>6. \A k : Begun(h, k) = 0 BY <1>4 DEF Begun
<1>7. Counts(w, h, ho, attempts) BY <1>3, <1>5, <1>6 DEF Counts
<1> QED BY <1>7 DEF h, q

\* The counts hold at the start.
LEMMA CountedInit == Init => Counted
BY QueuedInit, IdleCounts DEF Init, Counted

\* A conditional write spares every row but its own, and that one is nobody's after it.
LEMMA UpdateSpares ==
  ASSUME Queued, NEW w \in Workers, NEW d \in Deliveries, NEW st, NEW n, NEW due,
         Update(w, d, st, n, due) \/ UNCHANGED rows
  PROVE  \A v \in Workers, x \in Deliveries : Spares(v, x)
<1> USE DEF Queued, TypeOK
<1>1. CASE UNCHANGED rows BY <1>1 DEF rows, Spares
<1>2. CASE holder[d] # w /\ Update(w, d, st, n, due) BY <1>2 DEF Update, rows, Spares
<1>3. CASE holder[d] = w /\ Update(w, d, st, n, due)
  <2>1. /\ attempts' = [attempts EXCEPT ![d] = n]
        /\ holder' = [holder EXCEPT ![d] = NoWorker]
    BY <1>3 DEF Update
  <2> QED BY <2>1, TokenAssumption DEF Spares
<1> QED BY <1>1, <1>2, <1>3

\* The rows a goroutine has are rows.
LEMMA TodoRows ==
  ASSUME Queued, NEW v \in Workers, NEW t \in Subs
  PROVE  /\ group[v][t] \in Group /\ GroupOK(t, group[v][t])
         /\ \A k \in DOMAIN group[v][t].todo : /\ group[v][t].todo[k].id \in Deliveries
                                               /\ attempts[group[v][t].todo[k].id] \in Nat
<1> DEFINE g == group[v][t]
<1>1. g \in Group /\ GroupOK(t, g) BY DEF Queued, TypeOK
<1> HIDE DEF g
<1>2. g.todo \in Seq(Row) BY <1>1 DEF Group
<1>3. \A k \in DOMAIN g.todo : g.todo[k] \in Row BY <1>2
<1>4. \A k \in DOMAIN g.todo : g.todo[k].id \in Deliveries BY <1>3 DEF Row
<1>5. \A x \in Deliveries : attempts[x] \in Nat
  BY ConstantsAssumption DEF Queued, TypeOK, MaxAttempts
<1> QED BY <1>1, <1>4, <1>5 DEF g

\* What one goroutine does leaves the counts of the others, when it spares their rows.
LEMMA OneMoves ==
  ASSUME Counted, NEW w \in Workers, NEW s \in Subs, NEW h, Set(w, s, h),
         Counts(w, h, holder', attempts'), \A v \in Workers, x \in Deliveries : Spares(v, x)
  PROVE  \A v \in Workers, t \in Subs : Counts(v, group'[v][t], holder', attempts')
<1> SUFFICES ASSUME NEW v \in Workers, NEW t \in Subs
             PROVE  Counts(v, group'[v][t], holder', attempts')
  OBVIOUS
<1>1. Queued /\ Counts(v, group[v][t], holder, attempts) BY DEF Counted
<1>2. group'[v][t] = IF v = w /\ t = s THEN h ELSE group[v][t]
  BY <1>1 DEF Set, Queued, TypeOK
<1>3. CASE v = w /\ t = s BY <1>2, <1>3
<1>4. CASE ~(v = w /\ t = s)
  <2>1. group'[v][t] = group[v][t] BY <1>2, <1>4
  <2>2. \A k \in DOMAIN group[v][t].todo : Spares(v, group[v][t].todo[k].id) BY <1>1, TodoRows
  <2> QED BY <1>1, <2>1, <2>2, CountsFrame
<1> QED BY <1>3, <1>4

\* Every step of a goroutine keeps the counts.
LEMMA WorkCounted ==
  ASSUME Counted, NEW w \in Workers, NEW s \in Subs, Work(w, s)
  PROVE  \A v \in Workers, t \in Subs : Counts(v, group'[v][t], holder', attempts')
<1> DEFINE g == group[w][s]
           d == Current(w, s)
<1>0. /\ Queued /\ Counts(w, g, holder, attempts) /\ g \in Group /\ GroupOK(s, g)
      /\ \A k \in DOMAIN g.todo : g.todo[k].id \in Deliveries /\ attempts[g.todo[k].id] \in Nat
  BY TodoRows DEF Counted
<1>a. UNCHANGED rows => \A v \in Workers, x \in Deliveries : Spares(v, x)
  BY DEF rows, Spares
<1>1. CASE StartAttempt(w, s)
  <2> DEFINE h == [g EXCEPT !.phase = "reading", !.left = ReadMax, !.todo[1].n = @ + 1]
  <2>1. Set(w, s, h) /\ UNCHANGED rows /\ g.phase = "next" BY <1>1 DEF StartAttempt
  <2>2. Counts(w, h, holder, attempts) BY <1>0, <2>1, StartCounts
  <2> HIDE DEF h
  <2>3. Counts(w, h, holder', attempts') BY <2>1, <2>2 DEF rows
  <2> QED BY <1>a, <2>1, <2>3, OneMoves
<1>b. ASSUME NEW h, Set(w, s, h), UNCHANGED rows, h.todo = g.todo,
             h.phase \in {"reading", "posting", "saving"} <=>
               g.phase \in {"reading", "posting", "saving"}
      PROVE  \A v \in Workers, t \in Subs : Counts(v, group'[v][t], holder', attempts')
  <2>1. Counts(w, h, holder', attempts')
    <3>1. \A k \in DOMAIN g.todo : Spares(w, g.todo[k].id) BY <1>0, <1>a, <1>b
    <3> HIDE DEF g
    <3> QED BY <1>0, <1>b, <3>1, CountsFrame
  <2> QED BY <1>a, <1>b, <2>1, OneMoves
<1>2. CASE StopAttempts(w, s)
  <2>0. g.phase = "next" /\ UNCHANGED rows BY <1>2 DEF StopAttempts
  <2>1. PICK h : /\ Set(w, s, h)
                 /\ h \in {[g EXCEPT !.phase = "releasing", !.left = Reserve],
                           [g EXCEPT !.phase = "releasing", !.left = Reserve,
                                     !.out = [NoOutcome EXCEPT !.unreachable = TRUE,
                                                               !.due = BackOffDelay(g.worst)]]}
    BY <1>2 DEF StopAttempts
  <2>2. h.todo = g.todo /\ h.phase = "releasing" BY <1>0, <2>1 DEF Group
  <2> QED BY <1>b, <2>0, <2>1, <2>2
<1>3. CASE ReadSubscription(w, s)
  <2>0. g.phase = "reading" /\ UNCHANGED rows BY <1>3 DEF ReadSubscription
  <2>1. PICK h : /\ Set(w, s, h)
                 /\ h \in {Recording(g, Finish("FAILED")),
                           Recording(g, Reschedule(g.todo[1].n, FALSE)),
                           [g EXCEPT !.phase = "posting", !.left = Timeout]}
    BY <1>3 DEF ReadSubscription
  <2>2. h.todo = g.todo /\ h.phase \in {"posting", "saving"} BY <1>0, <2>1 DEF Recording, Group
  <2> QED BY <1>b, <2>0, <2>1, <2>2
<1>4. CASE Answered(w, s)
  <2>0. g.phase = "posting" /\ UNCHANGED rows BY <1>4 DEF Answered
  <2>1. PICK o : Set(w, s, Recording(g, o)) BY <1>4 DEF Answered
  <2>2. Recording(g, o).todo = g.todo /\ Recording(g, o).phase = "saving"
    BY <1>0 DEF Recording, Group
  <2> QED BY <1>b, <2>0, <2>1, <2>2
<1>c. ASSUME NEW h, h \in Group, Set(w, s, h), g.phase \in {"saving", "releasing"},
             \A v \in Workers, x \in Deliveries : Spares(v, x),
             h.todo = <<>> \/ (h.todo = Tail(g.todo) /\ Len(g.todo) # 1 /\
                               h.phase \in {"next", "releasing"})
      PROVE  \A v \in Workers, t \in Subs : Counts(v, group'[v][t], holder', attempts')
  <2>1. Counts(w, h, holder', attempts')
    <3>1. CASE h.todo = <<>>
      <4>1. DOMAIN h.todo = {} BY <3>1
      <4> QED BY <4>1 DEF Counts
    <3>2. CASE h.todo = Tail(g.todo) /\ Len(g.todo) # 1 /\ h.phase \in {"next", "releasing"}
      <4>1. \A k \in DOMAIN g.todo : k > 1 => Spares(w, g.todo[k].id) BY <1>0, <1>c
      <4> HIDE DEF g
      <4> QED BY <1>0, <1>c, <3>2, <4>1, RestCounts
    <3> QED BY <1>c, <3>1, <3>2
  <2> QED BY <1>c, <2>1, OneMoves
<1>5. CASE Save(w, s)
  <2>0. g.phase = "saving" BY <1>5 DEF Save
  <2>1. d \in Deliveries BY <1>0, <2>0, CurrentType
  <2>2. Update(w, d, g.out.status, g.todo[1].n, g.out.due) \/ UNCHANGED rows BY <1>5 DEF Save
  <2>3. \A v \in Workers, x \in Deliveries : Spares(v, x) BY <1>0, <2>1, <2>2, UpdateSpares
  <2>4. AfterAttempt(g) \in Group /\ Set(w, s, AfterAttempt(g))
    BY <1>0, <1>5, <2>0, AfterAttemptOK DEF Save
  <2>5. \/ AfterAttempt(g).todo = <<>>
        \/ AfterAttempt(g).todo = Tail(g.todo) /\ Len(g.todo) # 1 /\ AfterAttempt(g).phase = "next"
    BY DEF AfterAttempt, Idle
  <2> QED BY <1>c, <2>0, <2>3, <2>4, <2>5
<1>6. CASE Release(w, s)
  <2> DEFINE h == IF Len(g.todo) > 1 THEN [g EXCEPT !.todo = Tail(@), !.left = Reserve]
                  ELSE IF g.out.unreachable
                       THEN [g EXCEPT !.todo = <<>>, !.phase = "deferring", !.left = Reserve]
                  ELSE Idle
  <2>0. g.phase = "releasing" /\ Set(w, s, h) BY <1>6 DEF Release
  <2>1. d \in Deliveries /\ g.todo \in Seq(Row) /\ Len(g.todo) \in Nat \ {0}
    BY <1>0, <2>0, CurrentType
  <2>2. \A v \in Workers, x \in Deliveries : Spares(v, x)
    <3>1. PICK st, n, due : Update(w, d, st, n, due) \/ UNCHANGED rows BY <1>6 DEF Release
    <3> QED BY <1>0, <2>1, <3>1, UpdateSpares
  <2>3. h \in Group
    <3>1. CASE Len(g.todo) > 1
      <4>1. Tail(g.todo) \in Seq(Row) BY <2>1, <3>1
      <4> QED BY <1>0, <3>1, <4>1, ConstantsAssumption DEF Group
    <3>2. CASE ~(Len(g.todo) > 1) /\ g.out.unreachable
      BY <1>0, <3>2, EmptySeq, ConstantsAssumption DEF Group, InCall
    <3>3. CASE ~(Len(g.todo) > 1) /\ ~g.out.unreachable BY <3>3, IdleType
    <3> QED BY <3>1, <3>2, <3>3
  <2>4. h.todo = <<>> \/ (h.todo = Tail(g.todo) /\ Len(g.todo) # 1 /\ h.phase = "releasing")
    <3>1. CASE Len(g.todo) > 1 BY <1>0, <2>0, <2>1, <3>1 DEF Group
    <3>2. CASE ~(Len(g.todo) > 1) BY <1>0, <3>2 DEF Group, Idle
    <3> QED BY <3>1, <3>2
  <2> HIDE DEF h
  <2> QED BY <1>c, <2>0, <2>2, <2>3, <2>4
<1>7. CASE DeferSubscription(w, s)
  <2>1. Set(w, s, Idle) /\ UNCHANGED <<holder, attempts>> BY <1>7 DEF DeferSubscription
  <2>2. \A v \in Workers, x \in Deliveries : Spares(v, x) BY <2>1 DEF Spares
  <2> QED BY <2>1, <2>2, IdleCounts, OneMoves
<1> QED BY <1>1, <1>2, <1>3, <1>4, <1>5, <1>6, <1>7 DEF Work

\* A worker's rows count as they did after a step of somebody else.
LEMMA OtherCounts ==
  ASSUME Counted, NEW v \in Workers, NEW t \in Subs, NEW h, h.todo = group[v][t].todo,
         h.phase = group[v][t].phase, \A x \in Deliveries : Spares(v, x)
  PROVE  Counts(v, h, holder', attempts')
<1> DEFINE g == group[v][t]
<1>1. Queued /\ Counts(v, g, holder, attempts) BY DEF Counted
<1>2. \A k \in DOMAIN g.todo : Spares(v, g.todo[k].id) BY <1>1, TodoRows
<1>3. h.todo = g.todo /\ h.phase = g.phase OBVIOUS
<1> HIDE DEF g
<1> QED BY <1>1, <1>2, <1>3, CountsFrame

\* Every step keeps the counts.
LEMMA CountedStep == Counted /\ [Next]_vars => Counted'
<1> SUFFICES ASSUME Counted, [Next]_vars
             PROVE  \A v \in Workers, t \in Subs : Counts(v, group'[v][t], holder', attempts')
  BY QueuedStep DEF Counted
<1>0. Queued /\ TypeOK BY DEF Counted, Queued
<1>a. ASSUME UNCHANGED <<holder, attempts, group>>
      PROVE  \A v \in Workers, t \in Subs : Counts(v, group'[v][t], holder', attempts')
  BY <1>a DEF Counted
<1>1. ASSUME NEW w \in Workers, ClaimDue(w)
      PROVE  \A v \in Workers, t \in Subs : Counts(v, group'[v][t], holder', attempts')
  <2> SUFFICES ASSUME NEW v \in Workers, NEW t \in Subs
               PROVE  Counts(v, group'[v][t], holder', attempts')
    OBVIOUS
  <2>1. PICK b \in Batches :
       /\ holder' = [d \in Deliveries |-> IF d \in b THEN w ELSE holder[d]]
       /\ \/ \E share \in Shares(b) :
               group' = [group EXCEPT ![w] =
                           [s \in Subs |-> IF share[s] = <<>> THEN Idle
                                           ELSE [Idle EXCEPT !.phase = "next",
                                                             !.todo = Claimed(share[s])]]]
          \/ UNCHANGED group
    BY <1>1 DEF ClaimDue
  <2>2. attempts' = attempts BY <1>1 DEF ClaimDue
  <2>3. CASE v # w
    <3>1. group'[v][t] = group[v][t] BY <1>0, <2>1, <2>3 DEF TypeOK
    <3>2. \A x \in Deliveries : Spares(v, x) BY <2>1, <2>2, <2>3 DEF Spares
    <3> QED BY <3>1, <3>2, OtherCounts
  <2>4. ASSUME v = w, NEW share \in Shares(b),
               group' = [group EXCEPT ![w] =
                           [s \in Subs |-> IF share[s] = <<>> THEN Idle
                                           ELSE [Idle EXCEPT !.phase = "next",
                                                             !.todo = Claimed(share[s])]]]
        PROVE  Counts(v, group'[v][t], holder', attempts')
    <3>1. \/ group'[v][t] = Idle
          \/ group'[v][t] = [Idle EXCEPT !.phase = "next", !.todo = Claimed(share[t])]
      BY <1>0, <2>4 DEF TypeOK
    <3>2. Counts(v, [Idle EXCEPT !.phase = "next", !.todo = Claimed(share[t])], holder', attempts)
      BY <1>0, ClaimCounts
    <3> QED BY <2>2, <3>1, <3>2, IdleCounts
  <2>5. CASE v = w /\ UNCHANGED group
    <3>1. group'[v][t].phase = "none" BY <1>1, <2>5 DEF ClaimDue, Busy
    <3>2. group'[v][t].todo = <<>> BY <1>0, <2>5, <3>1 DEF Queued, GroupOK
    <3>3. DOMAIN group'[v][t].todo = {} BY <3>2
    <3> QED BY <3>3 DEF Counts
  <2> QED BY <2>1, <2>3, <2>4, <2>5
<1>2. ASSUME NEW w \in Workers, Crash(w)
      PROVE  \A v \in Workers, t \in Subs : Counts(v, group'[v][t], holder', attempts')
  <2> SUFFICES ASSUME NEW v \in Workers, NEW t \in Subs
               PROVE  Counts(v, group'[v][t], holder', attempts')
    OBVIOUS
  <2>1. UNCHANGED <<holder, attempts>> BY <1>2 DEF Crash, rows
  <2>2. group'[v][t] = IF v = w THEN Idle ELSE group[v][t] BY <1>0, <1>2 DEF Crash, TypeOK
  <2>3. CASE v = w BY <2>2, <2>3, IdleCounts
  <2>4. CASE v # w BY <2>1, <2>2, <2>4 DEF Counted
  <2> QED BY <2>3, <2>4
<1>3. CASE Tick
  <2> SUFFICES ASSUME NEW v \in Workers, NEW t \in Subs
               PROVE  Counts(v, group'[v][t], holder', attempts')
    OBVIOUS
  <2>1. UNCHANGED <<holder, attempts>> BY <1>3 DEF Tick
  <2>2. \A x \in Deliveries : Spares(v, x) BY <2>1 DEF Spares
  <2>3. group'[v][t] = [group[v][t] EXCEPT !.left = IF @ > 0 THEN @ - 1 ELSE 0,
                                           !.out.due = IF @ > 0 THEN @ - 1 ELSE 0]
    BY <1>3 DEF Tick
  <2>4. group[v][t] \in Group BY <1>0 DEF TypeOK
  <2>5. group'[v][t].todo = group[v][t].todo /\ group'[v][t].phase = group[v][t].phase
    BY <2>3, <2>4 DEF Group
  <2> QED BY <2>2, <2>5, OtherCounts
<1>4. ASSUME NEW e \in Events, Enqueue(e)
      PROVE  \A v \in Workers, t \in Subs : Counts(v, group'[v][t], holder', attempts')
  <2>1. UNCHANGED <<holder, attempts, group>> BY <1>4 DEF Enqueue
  <2> QED BY <1>a, <2>1
<1>5. ASSUME NEW w \in Workers, Shutdown(w)
      PROVE  \A v \in Workers, t \in Subs : Counts(v, group'[v][t], holder', attempts')
  <2>1. UNCHANGED <<holder, attempts, group>> BY <1>5 DEF Shutdown, rows
  <2> QED BY <1>a, <2>1
<1>6. ASSUME NEW s \in Subs, ChangeSubscription(s)
      PROVE  \A v \in Workers, t \in Subs : Counts(v, group'[v][t], holder', attempts')
  <2>1. UNCHANGED <<holder, attempts, group>> BY <1>6 DEF ChangeSubscription, rows
  <2> QED BY <1>a, <2>1
<1>7. ASSUME NEW d \in Deliveries, PruneTerminal(d)
      PROVE  \A v \in Workers, t \in Subs : Counts(v, group'[v][t], holder', attempts')
  <2>1. UNCHANGED <<holder, attempts, group>> BY <1>7 DEF PruneTerminal
  <2> QED BY <1>a, <2>1
<1>8. CASE UNCHANGED vars
  <2>1. UNCHANGED <<holder, attempts, group>> BY <1>8 DEF vars, rows
  <2> QED BY <1>a, <2>1
<1> QED BY <1>1, <1>2, <1>3, <1>4, <1>5, <1>6, <1>7, <1>8, WorkCounted DEF Next
-----------------------------------------------------------------------------
(***************************************************************************)
(* Every step is a step of the queue that was promised, or none.           *)
(***************************************************************************)
Kept == [Promised!Next]_(Promised!qvars)

\* The rows at the start are an empty queue.
LEMMA PromisedInit == Init => Promised!Init
<1> SUFFICES ASSUME Init PROVE Promised!Init OBVIOUS
<1>1. RowState = [d \in Deliveries |-> "ABSENT"] BY DEF Init, RowState, Waiting
<1> QED BY <1>1 DEF Init, Promised!Init

\* A step that leaves what a reader sees of every row, and the counts, is none.
LEMMA Stutters ==
  ASSUME \A d \in Deliveries :
           status'[d] = status[d] \/ {status[d], status'[d]} \subseteq Waiting \cup {"SENDING"},
         attempts' = attempts
  PROVE  Kept
<1>1. \A d \in Deliveries :
        (IF status'[d] \in Waiting \cup {"SENDING"} THEN "WAITING" ELSE status'[d]) =
        (IF status[d] \in Waiting \cup {"SENDING"} THEN "WAITING" ELSE status[d])
  OBVIOUS
<1>2. RowState' = RowState BY <1>1 DEF RowState
<1> QED BY <1>2 DEF Kept, Promised!qvars

\* An attempt's outcome written by the row's holder is a retry or a settlement,
\* a late one nothing.
LEMMA SaveKeeps ==
  ASSUME Counted, NEW w \in Workers, NEW s \in Subs, Save(w, s)
  PROVE  Kept
<1> DEFINE g == group[w][s]
           d == Current(w, s)
<1>1. /\ Queued /\ TypeOK /\ GroupOK(s, g) /\ RowOK(d) /\ d \in Deliveries
      /\ g.phase = "saving" /\ 1 \in DOMAIN g.todo /\ d = g.todo[1].id
      /\ Counts(w, g, holder, attempts)
  BY CurrentType DEF Counted, Queued, Save, Current
<1>2. Update(w, d, g.out.status, g.todo[1].n, g.out.due) \/ UNCHANGED rows BY DEF Save
<1>3. CASE UNCHANGED rows \/ holder[d] # w
  <2>1. UNCHANGED rows BY <1>2, <1>3 DEF Update
  <2> QED BY <2>1, Stutters DEF rows
<1>4. CASE holder[d] = w /\ Update(w, d, g.out.status, g.todo[1].n, g.out.due)
  <2>1. /\ status' = [status EXCEPT ![d] = g.out.status]
        /\ attempts' = [attempts EXCEPT ![d] = g.todo[1].n]
    BY <1>4 DEF Update
  <2>2. status[d] = "SENDING" /\ attempts[d] <= Len(Schedule) /\ attempts[d] \in Nat
    BY <1>1, <1>4, TokenAssumption, ConstantsAssumption DEF RowOK, TypeOK, MaxAttempts
  <2>3. Begun(g, 1) = 1 BY <1>1 DEF Begun
  <2>4. g.todo[1].n = attempts[d] + 1 BY <1>1, <1>4, <2>3 DEF Counts
  <2>5. /\ g.out.status \in {"DEFERRED", "DELIVERED", "FAILED"}
        /\ g.out.status = "DEFERRED" => g.todo[1].n <= Len(Schedule)
    BY <1>1 DEF GroupOK, Terminal
  <2> DEFINE after == IF g.out.status = "DEFERRED" THEN "WAITING" ELSE g.out.status
  <2>6. RowState' = [RowState EXCEPT ![d] = after]
    <3>1. \A x \in Deliveries : status'[x] = IF x = d THEN g.out.status ELSE status[x]
      BY <1>1, <2>1 DEF TypeOK
    <3>2. \A x \in Deliveries :
            (IF status'[x] \in Waiting \cup {"SENDING"} THEN "WAITING" ELSE status'[x]) =
            (IF x = d THEN after ELSE RowState[x])
      BY <2>5, <3>1 DEF RowState, Waiting
    <3> QED BY <1>1, <3>2 DEF RowState
  <2>7. RowState[d] = "WAITING" BY <1>1, <2>2 DEF RowState
  <2>8. attempts' = [attempts EXCEPT ![d] = @ + 1] BY <2>1, <2>4
  <2>9. Promised!Attempt(d, after) BY <2>6, <2>7, <2>8 DEF Promised!Attempt
  <2>10. Len(Schedule) \in Nat /\ MaxAttempts = Len(Schedule) + 1
    BY ConstantsAssumption DEF MaxAttempts
  <2>11. CASE g.out.status = "DEFERRED"
    <3>1. attempts[d] + 1 < MaxAttempts BY <2>2, <2>4, <2>5, <2>10, <2>11
    <3>2. Promised!Retry(d) BY <2>9, <2>11, <3>1 DEF Promised!Retry
    <3> QED BY <1>1, <3>2 DEF Kept, Promised!Next
  <2>12. CASE g.out.status # "DEFERRED"
    <3>1. attempts[d] < MaxAttempts BY <2>2, <2>10
    <3>2. after \in Promised!Settled BY <2>5, <2>12 DEF Promised!Settled
    <3>3. Promised!Settle(d) BY <2>9, <3>1, <3>2 DEF Promised!Settle
    <3> QED BY <1>1, <3>3 DEF Kept, Promised!Next
  <2> QED BY <2>11, <2>12
<1> QED BY <1>2, <1>3, <1>4

\* A row handed back is as it was.
LEMMA ReleaseKeeps ==
  ASSUME Counted, NEW w \in Workers, NEW s \in Subs, Release(w, s)
  PROVE  Kept
<1> DEFINE g == group[w][s]
           d == Current(w, s)
           n == g.todo[1].n
           st == IF n = 0 THEN "PENDING" ELSE "DEFERRED"
<1>1. /\ Queued /\ TypeOK /\ RowOK(d) /\ d \in Deliveries
      /\ g.phase = "releasing" /\ 1 \in DOMAIN g.todo /\ d = g.todo[1].id
      /\ Counts(w, g, holder, attempts)
  BY CurrentType DEF Counted, Queued, Release, Current
<1>2. PICK due : Update(w, d, st, n, due) \/ UNCHANGED rows BY DEF Release
<1>3. CASE UNCHANGED rows \/ holder[d] # w
  <2>1. UNCHANGED rows BY <1>2, <1>3 DEF Update
  <2> QED BY <2>1, Stutters DEF rows
<1>4. CASE holder[d] = w /\ Update(w, d, st, n, due)
  <2>1. status' = [status EXCEPT ![d] = st] /\ attempts' = [attempts EXCEPT ![d] = n]
    BY <1>4 DEF Update
  <2>2. status[d] = "SENDING" /\ attempts[d] \in Nat
    BY <1>1, <1>4, TokenAssumption, ConstantsAssumption DEF RowOK, TypeOK, MaxAttempts
  <2>3. Begun(g, 1) = 0 BY <1>1 DEF Begun
  <2>4. n = attempts[d] BY <1>1, <1>4, <2>2, <2>3 DEF Counts
  <2>5. attempts' = attempts BY <1>1, <2>1, <2>4 DEF TypeOK
  <2>6. \A x \in Deliveries : status'[x] = IF x = d THEN st ELSE status[x]
    BY <1>1, <2>1 DEF TypeOK
  <2>7. \A x \in Deliveries :
          status'[x] = status[x] \/ {status[x], status'[x]} \subseteq Waiting \cup {"SENDING"}
    BY <2>2, <2>6 DEF Waiting
  <2> QED BY <2>5, <2>7, Stutters
<1> QED BY <1>2, <1>3, <1>4

\* Every step is the queue's.
LEMMA StepKeeps == Counted /\ [Next]_vars => Kept
<1> SUFFICES ASSUME Counted, [Next]_vars PROVE Kept OBVIOUS
<1>0. Queued /\ TypeOK /\ \A x \in Deliveries : RowOK(x) BY DEF Counted, Queued
<1>a. ASSUME UNCHANGED <<status, attempts>> PROVE Kept BY <1>a, Stutters
<1>1. ASSUME NEW e \in Events, Enqueue(e) PROVE Kept
  <2>1. PICK made \in SUBSET {s \in Subs : subs[s] = "active"} :
          status' = [d \in Deliveries |->
                       IF EventOf(d) = e /\ SubOf(d) \in made THEN "PENDING" ELSE status[d]]
    BY <1>1 DEF Enqueue
  <2>2. attempts' = attempts /\ e \notin enqueued BY <1>1 DEF Enqueue
  <2> DEFINE S == {d \in Deliveries : EventOf(d) = e /\ SubOf(d) \in made}
  <2>3. \A d \in S : status[d] = "ABSENT" BY <1>0, <2>2 DEF RowOK
  <2>4. status' = [d \in Deliveries |-> IF d \in S THEN "PENDING" ELSE status[d]] BY <2>1
  <2>5. S \in SUBSET Deliveries OBVIOUS
  <2> HIDE DEF S
  <2>6. CASE S = {}
    <3>1. \A d \in Deliveries : status'[d] = status[d] BY <2>4, <2>6
    <3> QED BY <2>2, <3>1, Stutters
  <2>7. CASE S # {}
    <3>1. \A d \in Deliveries : status'[d] = IF d \in S THEN "PENDING" ELSE status[d] BY <2>4
    <3>2. \A d \in Deliveries :
            (IF status'[d] \in Waiting \cup {"SENDING"} THEN "WAITING" ELSE status'[d]) =
            (IF d \in S THEN "WAITING" ELSE RowState[d])
      BY <3>1 DEF RowState, Waiting
    <3>3. RowState' = [d \in Deliveries |-> IF d \in S THEN "WAITING" ELSE RowState[d]]
      BY <3>2 DEF RowState
    <3>4. \A d \in S : RowState[d] = "ABSENT" BY <2>3, <2>5 DEF RowState, Waiting
    <3>5. Promised!Add(S) BY <2>2, <2>7, <3>3, <3>4 DEF Promised!Add
    <3> QED BY <2>5, <3>5 DEF Kept, Promised!Next
  <2> QED BY <2>6, <2>7
<1>2. ASSUME NEW w \in Workers, ClaimDue(w) PROVE Kept
  <2>1. PICK b \in Batches : status' = [d \in Deliveries |-> IF d \in b THEN "SENDING" ELSE status[d]]
    BY <1>2 DEF ClaimDue
  <2>2. \A d \in b : status[d] \in Waiting \cup {"SENDING"} BY DEF Batches, Due
  <2>3. \A d \in Deliveries :
          status'[d] = status[d] \/ {status[d], status'[d]} \subseteq Waiting \cup {"SENDING"}
    BY <2>1, <2>2
  <2>4. attempts' = attempts BY <1>2 DEF ClaimDue
  <2> QED BY <2>3, <2>4, Stutters
<1>3. ASSUME NEW w \in Workers, Crash(w) \/ Shutdown(w) PROVE Kept
  BY <1>3, <1>a DEF Crash, Shutdown, rows
<1>4. ASSUME NEW w \in Workers, NEW s \in Subs, Work(w, s) PROVE Kept
  <2>1. CASE Save(w, s) BY <2>1, SaveKeeps
  <2>2. CASE Release(w, s) BY <2>2, ReleaseKeeps
  <2>3. CASE StartAttempt(w, s) \/ StopAttempts(w, s) \/ ReadSubscription(w, s) \/ Answered(w, s)
    <3>1. UNCHANGED rows BY <2>3 DEF StartAttempt, StopAttempts, ReadSubscription, Answered
    <3> QED BY <1>a, <3>1 DEF rows
  <2>4. CASE DeferSubscription(w, s)
    <3>1. UNCHANGED <<status, attempts>> BY <2>4 DEF DeferSubscription
    <3> QED BY <1>a, <3>1
  <2> QED BY <1>4, <2>1, <2>2, <2>3, <2>4 DEF Work
<1>5. ASSUME NEW s \in Subs, ChangeSubscription(s) PROVE Kept
  BY <1>5, <1>a DEF ChangeSubscription, rows
<1>6. ASSUME NEW d \in Deliveries, PruneTerminal(d) PROVE Kept
  <2>1. /\ status[d] \in Terminal /\ status' = [status EXCEPT ![d] = "GONE"]
        /\ attempts' = attempts
    BY <1>6 DEF PruneTerminal
  <2>2. \A x \in Deliveries : status'[x] = IF x = d THEN "GONE" ELSE status[x]
    BY <1>0, <2>1 DEF TypeOK
  <2>3. \A x \in Deliveries :
          (IF status'[x] \in Waiting \cup {"SENDING"} THEN "WAITING" ELSE status'[x]) =
          (IF x = d THEN "GONE" ELSE RowState[x])
    BY <2>2 DEF RowState, Waiting
  <2>4. RowState' = [RowState EXCEPT ![d] = "GONE"] BY <2>3 DEF RowState
  <2>5. RowState[d] \in Promised!Settled
    BY <2>1 DEF RowState, Waiting, Terminal, Promised!Settled
  <2>6. Promised!Forget(d) BY <2>1, <2>4, <2>5 DEF Promised!Forget
  <2> QED BY <2>6 DEF Kept, Promised!Next
<1>7. CASE Tick BY <1>7, <1>a DEF Tick
<1>8. CASE UNCHANGED vars BY <1>8, <1>a DEF vars, rows
<1> QED BY <1>1, <1>2, <1>3, <1>4, <1>5, <1>6, <1>7, <1>8 DEF Next

\* The notification queue of durable_worker.go and its SQL keeps the promise of a
\* plain retry queue whatever the lease, the answers, the crashes and the number of
\* workers: no attempt is counted twice or more often than the schedule allows, and
\* nothing settled is reopened, though a claim may lapse under its worker.
THEOREM ImplementsRetryQueue == Spec => KeepsItsPromise
<1>1. Init => Counted /\ Promised!Init BY CountedInit, PromisedInit
<1>2. Counted /\ [Next]_vars => Counted' /\ [Promised!Next]_(Promised!qvars)
  BY CountedStep, StepKeeps DEF Kept
<1> QED BY <1>1, <1>2, PTL DEF Spec, KeepsItsPromise, Promised!Spec
-----------------------------------------------------------------------------
(***************************************************************************)
(* What an endpoint sees of one notification.                              *)
(*                                                                         *)
(* A confirmed notification is recorded as delivered, about to be, or its  *)
(* record could not be written (Confirmed); every post is a recorded       *)
(* attempt, one under way, or one a fault left without a record (Paid).    *)
(* Both need that whoever attempts a row also holds it: Held.              *)
(***************************************************************************)

\* Goroutine g is past the read of row d, and has a delivery of it to record.
Posted(g, d) == g.phase \in {"posting", "saving"} /\ g.todo[1].id = d
AtSave(g, d) == g.phase = "saving" /\ g.todo[1].id = d /\ g.out.status = "DELIVERED"

Confirmed ==
  \A d \in acked :
    \/ d \in unsaved \/ status[d] \in {"DELIVERED", "GONE"}
    \/ \E w \in Workers : AtSave(group[w][SubOf(d)], d)

Unrecorded(d) == IF \E w \in Workers : Posted(group[w][SubOf(d)], d) THEN 1 ELSE 0
Paid(d) == posts[d] <= attempts[d] + faults + Unrecorded(d)

Recorded == Confirmed /\ ConfirmedOnce /\ \A d \in Deliveries : Paid(d)

\* A goroutine g past the read of d goes on as h, or is done with d: its record is
\* lost to a fault, or written.
GoesOn(g, h, d) == Posted(h, d) /\ (AtSave(g, d) => AtSave(h, d))
RecordLost(d) == d \in unsaved' /\ faults < faults'
Written(g, d) == attempts[d] < attempts'[d] /\ (AtSave(g, d) => status'[d] = "DELIVERED")
Accounted(w, d) ==
  LET g == group[w][SubOf(d)] IN
  Posted(g, d) => GoesOn(g, group'[w][SubOf(d)], d) \/ RecordLost(d) \/ Written(g, d)

\* What is on record stays, and what is accounted for is as it was.
LEMMA ConfirmedFrame ==
  ASSUME Queued, [Next]_vars, Confirmed, unsaved \subseteq unsaved',
         \A d \in acked' : d \in acked \/ \E w \in Workers : AtSave(group'[w][SubOf(d)], d),
         \A w \in Workers, d \in Deliveries : Accounted(w, d)
  PROVE  Confirmed'
<1> SUFFICES ASSUME NEW d \in acked'
             PROVE  \/ d \in unsaved' \/ status'[d] \in {"DELIVERED", "GONE"}
                    \/ \E w \in Workers : AtSave(group'[w][SubOf(d)], d)
  BY DEF Confirmed, AtSave
<1>1. CASE \E w \in Workers : AtSave(group'[w][SubOf(d)], d) BY <1>1
<1>2. CASE d \in acked
  <2>0. d \in Deliveries BY <1>2 DEF Queued, TypeOK
  <2>1. CASE d \in unsaved BY <2>1
  <2>2. CASE status[d] \in {"DELIVERED", "GONE"}
    <3>1. status'[d] \in {status[d], "GONE"} BY <2>0, <2>2, FinishedStep DEF Terminal
    <3> QED BY <2>2, <3>1
  <2>3. ASSUME NEW w \in Workers, AtSave(group[w][SubOf(d)], d)
        PROVE  \/ d \in unsaved' \/ status'[d] = "DELIVERED"
               \/ AtSave(group'[w][SubOf(d)], d)
    <3>1. Posted(group[w][SubOf(d)], d) BY <2>3 DEF AtSave, Posted
    <3>2. Accounted(w, d) BY <2>0
    <3> QED BY <2>3, <3>1, <3>2 DEF Accounted, GoesOn, RecordLost, Written
  <2> QED BY <1>2, <2>1, <2>2, <2>3 DEF Confirmed
<1> QED BY <1>1, <1>2

\* A row not posted stays paid for.
LEMMA PaidFrame ==
  ASSUME Queued, Queued', NEW d \in Deliveries, Paid(d), posts'[d] = posts[d],
         attempts[d] <= attempts'[d], faults <= faults', \A w \in Workers : Accounted(w, d)
  PROVE  Paid(d)'
<1>1. /\ posts[d] \in Int /\ attempts[d] \in Int /\ attempts'[d] \in Int
      /\ faults \in Int /\ faults' \in Int
  BY DEF Queued, TypeOK
<1>2. Unrecorded(d) \in {0, 1} /\ Unrecorded(d)' \in {0, 1} BY DEF Unrecorded
<1>3. CASE Unrecorded(d) = 0
  BY <1>1, <1>2, <1>3 DEF Paid
<1>4. CASE Unrecorded(d) = 1
  <2>1. PICK w \in Workers : Posted(group[w][SubOf(d)], d) BY <1>4 DEF Unrecorded
  <2>2. CASE Posted(group'[w][SubOf(d)], d)
    <3>1. \E v \in Workers : Posted(group'[v][SubOf(d)], d) BY <2>2
    <3>2. Unrecorded(d)' = 1 BY <3>1 DEF Unrecorded, Posted
    <3> QED BY <1>1, <1>4, <3>2 DEF Paid
  <2>3. CASE faults < faults' \/ attempts[d] < attempts'[d]
    BY <1>1, <1>2, <1>4, <2>3 DEF Paid
  <2> QED BY <2>1, <2>2, <2>3 DEF Accounted, GoesOn, RecordLost, Written
<1> QED BY <1>2, <1>3, <1>4

\* A step that posts nothing and confirms only what is about to be recorded.
LEMMA RecordedFrame ==
  ASSUME Queued, Queued', [Next]_vars, Recorded, UNCHANGED <<twice, posts>>,
         unsaved \subseteq unsaved', faults <= faults',
         \A d \in acked' : d \in acked \/ \E w \in Workers : AtSave(group'[w][SubOf(d)], d),
         \A d \in Deliveries : attempts[d] <= attempts'[d],
         \A w \in Workers, d \in Deliveries : Accounted(w, d)
  PROVE  Recorded'
<1>1. Confirmed' BY ConfirmedFrame DEF Recorded
<1>2. ConfirmedOnce' BY DEF Recorded, ConfirmedOnce
<1>3. \A d \in Deliveries : Paid(d)' BY PaidFrame DEF Recorded
<1> QED BY <1>1, <1>2, <1>3 DEF Recorded

\* A goroutine that does not move, or has posted nothing, has nothing to account for.
LEMMA NothingToRecord ==
  ASSUME NEW w, NEW d, \/ group'[w][SubOf(d)] = group[w][SubOf(d)]
                       \/ group[w][SubOf(d)].phase \notin {"posting", "saving"}
  PROVE  Accounted(w, d)
BY DEF Accounted, Posted, AtSave, GoesOn

\* Faults only add up.
LEMMA FaultsGrow == TypeOK /\ (Fault \/ UNCHANGED faults) => faults <= faults'
<1>1. TypeOK => faults \in Int BY DEF TypeOK
<1> QED BY <1>1 DEF Fault

\* Steps that move no goroutine.
LEMMA RecordedStill ==
  ASSUME Queued, Queued', [Next]_vars, Recorded, UNCHANGED <<attempts, group, history>>,
         Fault \/ UNCHANGED faults
  PROVE  Recorded'
<1>1. UNCHANGED <<acked, twice, unsaved, posts>> BY DEF history
<1>2. \A w \in Workers, d \in Deliveries : Accounted(w, d) BY NothingToRecord
<1>3. \A d \in Deliveries : attempts[d] <= attempts'[d] BY DEF Queued, TypeOK
<1>4. faults <= faults' BY FaultsGrow DEF Queued
<1> QED BY <1>1, <1>2, <1>3, <1>4, RecordedFrame

\* A goroutine's step is of one subscription of one worker.
LEMMA WorkMovesOne ==
  ASSUME Queued, NEW w \in Workers, NEW s \in Subs, Work(w, s)
  PROVE  \A v \in Workers, t \in Subs : v # w \/ t # s => group'[v][t] = group[v][t]
<1>1. CASE StartAttempt(w, s) \/ StopAttempts(w, s) \/ ReadSubscription(w, s)
  BY <1>1, SetEffect DEF StartAttempt, StopAttempts, ReadSubscription
<1>2. CASE Answered(w, s) \/ Save(w, s) BY <1>2, SetEffect DEF Answered, Save
<1>3. CASE Release(w, s) \/ DeferSubscription(w, s)
  BY <1>3, SetEffect DEF Release, DeferSubscription
<1> QED BY <1>1, <1>2, <1>3 DEF Work

\* A row handed back keeps its count.
LEMMA ReleaseCounts ==
  ASSUME Counted, NEW w \in Workers, NEW s \in Subs, Release(w, s)
  PROVE  attempts' = attempts
<1> DEFINE g == group[w][s]
           d == Current(w, s)
<1>1. /\ Queued /\ TypeOK /\ d \in Deliveries
      /\ g.phase = "releasing" /\ 1 \in DOMAIN g.todo /\ d = g.todo[1].id
      /\ Counts(w, g, holder, attempts)
  BY CurrentType DEF Counted, Queued, Release, Current
<1>2. PICK st, due : Update(w, d, st, g.todo[1].n, due) \/ UNCHANGED rows BY DEF Release
<1>3. CASE UNCHANGED rows \/ holder[d] # w BY <1>2, <1>3 DEF Update, rows
<1>4. CASE holder[d] = w /\ Update(w, d, st, g.todo[1].n, due)
  <2>1. attempts' = [attempts EXCEPT ![d] = g.todo[1].n] BY <1>4 DEF Update
  <2>2. attempts[d] \in Int BY <1>1 DEF TypeOK
  <2>3. g.todo[1].n = attempts[d] + Begun(g, 1) /\ Begun(g, 1) = 0
    BY <1>1, <1>4 DEF Counts, Begun
  <2>4. g.todo[1].n = attempts[d] BY <2>2, <2>3
  <2> QED BY <1>1, <2>1, <2>4 DEF TypeOK
<1> QED BY <1>2, <1>3, <1>4

\* An outcome that is written counts its attempt, for its holder's claim stands.
LEMMA SaveCounts ==
  ASSUME Held, Counted, NEW w \in Workers, NEW s \in Subs, Save(w, s)
  PROVE  LET g == group[w][s]
             d == Current(w, s) IN
         \/ /\ attempts' = [attempts EXCEPT ![d] = @ + 1] /\ status'[d] = g.out.status
            /\ UNCHANGED <<faults, unsaved>>
         \/ Fault /\ unsaved' = unsaved \cup {d} /\ UNCHANGED attempts
<1> DEFINE g == group[w][s]
           d == Current(w, s)
<1>1. /\ Queued /\ TypeOK /\ d \in Deliveries /\ SubOf(d) = s
      /\ g.phase = "saving" /\ 1 \in DOMAIN g.todo /\ d = g.todo[1].id
      /\ Counts(w, g, holder, attempts)
  BY CurrentType DEF Counted, Queued, Save, Current
<1>2. holder[d] = w BY <1>1, AttemptingHolds DEF Attempting
<1>3. CASE Update(w, d, g.out.status, g.todo[1].n, g.out.due) /\ UNCHANGED <<faults, unsaved>>
  <2>1. /\ attempts' = [attempts EXCEPT ![d] = g.todo[1].n]
        /\ status' = [status EXCEPT ![d] = g.out.status]
    BY <1>2, <1>3 DEF Update
  <2>2. g.todo[1].n = attempts[d] + 1 BY <1>1, <1>2 DEF Counts, Begun
  <2>3. status'[d] = g.out.status BY <1>1, <2>1 DEF TypeOK
  <2> QED BY <1>3, <2>1, <2>2, <2>3
<1>4. CASE Fault /\ unsaved' = unsaved \cup {d} /\ UNCHANGED rows BY <1>4 DEF rows
<1> QED BY <1>3, <1>4 DEF Save

\* A post is of a row that no goroutine has posted and not recorded, and that is
\* not recorded as delivered.
LEMMA PostIsFirst ==
  ASSUME Held, NEW w \in Workers, NEW s \in Subs, group[w][s].phase = "reading"
  PROVE  LET d == Current(w, s) IN
         /\ status[d] = "SENDING"
         /\ \A v \in Workers : ~Posted(group[v][SubOf(d)], d)
<1> DEFINE d == Current(w, s)
<1>1. Queued /\ d \in Deliveries /\ SubOf(d) = s /\ d = group[w][s].todo[1].id
  BY CurrentType DEF Held, Current
<1>2. Attempting(w, d) BY <1>1 DEF Attempting
<1>3. holder[d] = w /\ status[d] = "SENDING" BY <1>1, <1>2, AttemptingHolds
<1>4. ASSUME NEW v \in Workers, Posted(group[v][SubOf(d)], d) PROVE FALSE
  <2>1. Attempting(v, d) BY <1>4 DEF Attempting, Posted
  <2>2. v = w BY <1>1, <1>3, <2>1, AttemptingHolds
  <2> QED BY <1>1, <1>4, <2>2 DEF Posted
<1> QED BY <1>3, <1>4

\* A goroutine's steps keep the records.
LEMMA WorkRecorded ==
  ASSUME Held, Queued', Counted, Recorded, [Next]_vars,
         NEW w \in Workers, NEW s \in Subs, Work(w, s)
  PROVE  Recorded'
<1> DEFINE g == group[w][s]
           cur == Current(w, s)
<1>0. /\ Queued /\ TypeOK /\ g \in Group
      /\ \A x \in Deliveries : attempts[x] \in Int
  BY DEF Held, Queued, TypeOK
<1>1. \A v \in Workers, t \in Subs : v # w \/ t # s => group'[v][t] = group[v][t]
  BY <1>0, WorkMovesOne
<1>2. \A d \in Deliveries : SubOf(d) \in Subs BY DeliveryParts
<1>3. ASSUME NEW v \in Workers, NEW d \in Deliveries,
             v # w \/ SubOf(d) # s \/ g.phase \notin {"posting", "saving"}
      PROVE  Accounted(v, d)
  BY <1>1, <1>2, <1>3, NothingToRecord
<1>4. CASE StartAttempt(w, s) \/ StopAttempts(w, s) \/ Release(w, s) \/ DeferSubscription(w, s)
  <2>1. g.phase \notin {"posting", "saving"}
    BY <1>4 DEF StartAttempt, StopAttempts, Release, DeferSubscription
  <2>2. UNCHANGED history /\ (Fault \/ UNCHANGED faults)
    BY <1>4 DEF StartAttempt, StopAttempts, Release, DeferSubscription
  <2>3. attempts' = attempts
    BY <1>4, ReleaseCounts DEF StartAttempt, StopAttempts, DeferSubscription, rows
  <2>4. \A v \in Workers, d \in Deliveries : Accounted(v, d) BY <1>3, <2>1
  <2>5. faults <= faults' BY <1>0, <2>2, FaultsGrow
  <2> QED BY <1>0, <2>2, <2>3, <2>4, <2>5, RecordedFrame DEF history
<1>5. CASE ReadSubscription(w, s)
  <2>1. /\ g.phase = "reading" /\ UNCHANGED <<rows, acked, unsaved>>
        /\ Fault \/ UNCHANGED faults
    BY <1>5 DEF ReadSubscription
  <2>2. \A v \in Workers, d \in Deliveries : Accounted(v, d) BY <1>3, <2>1
  <2>3. faults <= faults' BY <1>0, <2>1, FaultsGrow
  <2>4. /\ cur \in Deliveries /\ SubOf(cur) = s /\ cur = g.todo[1].id
        /\ status[cur] = "SENDING" /\ \A v \in Workers : ~Posted(group[v][SubOf(cur)], cur)
    BY <1>0, <2>1, CurrentType, PostIsFirst DEF Current
  <2>5. Confirmed' BY <1>0, <2>1, <2>2, ConfirmedFrame DEF Recorded
  <2>6. ConfirmedOnce'
    <3>1. cur \in acked => cur \in unsaved
      BY <2>4 DEF Recorded, Confirmed, AtSave, Posted
    <3> QED BY <1>5, <2>1, <3>1 DEF ReadSubscription, Recorded, ConfirmedOnce
  <2>7. ASSUME NEW d \in Deliveries, posts'[d] = posts[d] PROVE Paid(d)'
    BY <1>0, <2>1, <2>2, <2>3, <2>7, PaidFrame DEF Recorded, rows
  <2>8. CASE UNCHANGED posts BY <2>5, <2>6, <2>7, <2>8 DEF Recorded
  <2>9. CASE /\ Set(w, s, [g EXCEPT !.phase = "posting", !.left = Timeout])
             /\ posts' = [posts EXCEPT ![cur] = IF @ < PostCap THEN @ + 1 ELSE @]
             /\ UNCHANGED faults
    <3>1. group'[w][s] = [g EXCEPT !.phase = "posting", !.left = Timeout]
      BY <1>0, <2>9, SetEffect
    <3>2. Posted(group'[w][SubOf(cur)], cur) BY <1>0, <2>4, <3>1 DEF Posted, Group
    <3>3. Unrecorded(cur) = 0 BY <2>4 DEF Unrecorded
    <3>4. (IF \E v \in Workers : Posted(group'[v][SubOf(cur)], cur) THEN 1 ELSE 0) = 1 BY <3>2
    <3>5. posts[cur] \in Int /\ attempts[cur] \in Int /\ faults \in Int
      BY <1>0, <2>4 DEF TypeOK
    <3>6. posts'[cur] <= posts[cur] + 1
      <4>1. posts'[cur] = IF posts[cur] < PostCap THEN posts[cur] + 1 ELSE posts[cur]
        BY <1>0, <2>4, <2>9 DEF TypeOK
      <4> QED BY <3>5, <4>1
    <3>7. posts[cur] <= attempts[cur] + faults BY <2>4, <3>3, <3>5 DEF Recorded, Paid
    <3>8. posts'[cur] <= attempts'[cur] + faults' + 1
      <4>1. posts'[cur] \in Int BY <2>4 DEF Queued, TypeOK
      <4>2. attempts' = attempts /\ faults' = faults BY <2>1, <2>9 DEF rows
      <4> QED BY <3>5, <3>6, <3>7, <4>1, <4>2
    <3>9. \A d \in Deliveries : d # cur => posts'[d] = posts[d] BY <1>0, <2>9 DEF TypeOK
    <3>10. \A d \in Deliveries :
             posts'[d] <= attempts'[d] + faults' +
                          (IF \E v \in Workers : Posted(group'[v][SubOf(d)], d) THEN 1 ELSE 0)
      <4> SUFFICES ASSUME NEW d \in Deliveries
                   PROVE  posts'[d] <= attempts'[d] + faults' +
                            (IF \E v \in Workers : Posted(group'[v][SubOf(d)], d) THEN 1 ELSE 0)
        OBVIOUS
      <4>1. CASE d = cur BY <3>4, <3>8, <4>1
      <4>2. CASE d # cur
        <5>1. Paid(d)' BY <2>7, <3>9, <4>2
        <5> QED BY <5>1 DEF Paid, Unrecorded, Posted
      <4> QED BY <4>1, <4>2
    <3>11. \A d \in Deliveries : Paid(d)' BY <3>10 DEF Paid, Unrecorded, Posted
    <3> QED BY <2>5, <2>6, <3>11 DEF Recorded
  <2> QED BY <1>5, <2>8, <2>9 DEF ReadSubscription
<1>6. CASE Answered(w, s)
  <2>1. /\ g.phase = "posting" /\ UNCHANGED <<rows, faults, twice, unsaved, posts>>
    BY <1>6 DEF Answered
  <2>2. PICK a, out :
          /\ a \in Answers[s]
          /\ Set(w, s, Recording(g, out))
          /\ a = "ok" => out = Finish("DELIVERED")
          /\ acked' = IF a = "ok" THEN acked \cup {cur} ELSE acked
    BY <1>6 DEF Answered
  <2>3. cur \in Deliveries /\ SubOf(cur) = s /\ cur = g.todo[1].id
    BY <1>0, <2>1, CurrentType DEF Current
  <2>4. group'[w][s] = Recording(g, out) BY <1>0, <2>2, SetEffect
  <2>5. /\ group'[w][s].phase = "saving" /\ group'[w][s].todo = g.todo
        /\ group'[w][s].out = out
    BY <1>0, <2>4 DEF Recording, Group
  <2>6. \A d \in acked' : d \in acked \/ \E v \in Workers : AtSave(group'[v][SubOf(d)], d)
    <3>1. a = "ok" => AtSave(group'[w][SubOf(cur)], cur)
      BY <2>2, <2>3, <2>5 DEF AtSave, Finish
    <3> QED BY <2>2, <3>1
  <2>7. ASSUME NEW v \in Workers, NEW d \in Deliveries PROVE Accounted(v, d)
    <3>1. CASE v = w /\ SubOf(d) = s
      BY <2>1, <2>5, <3>1 DEF Accounted, Posted, GoesOn, AtSave
    <3> QED BY <1>3, <3>1
  <2>8. /\ faults <= faults' /\ \A d \in Deliveries : attempts[d] <= attempts'[d]
    BY <1>0, <2>1 DEF rows, TypeOK
  <2> QED BY <1>0, <2>1, <2>6, <2>7, <2>8, RecordedFrame
<1>7. CASE Save(w, s)
  <2>1. g.phase = "saving" /\ UNCHANGED <<acked, twice, posts>> BY <1>7 DEF Save
  <2>2. cur \in Deliveries /\ SubOf(cur) = s /\ cur = g.todo[1].id
    BY <1>0, <2>1, CurrentType DEF Current
  <2>3. \/ /\ attempts' = [attempts EXCEPT ![cur] = @ + 1] /\ status'[cur] = g.out.status
           /\ UNCHANGED <<faults, unsaved>>
        \/ Fault /\ unsaved' = unsaved \cup {cur} /\ UNCHANGED attempts
    BY <1>7, SaveCounts
  <2>4. faults \in Int BY <1>0 DEF TypeOK
  <2>5. /\ unsaved \subseteq unsaved' /\ faults <= faults'
        /\ \A d \in Deliveries : attempts[d] <= attempts'[d]
    <3>1. CASE attempts' = [attempts EXCEPT ![cur] = @ + 1] /\ UNCHANGED <<faults, unsaved>>
      BY <1>0, <2>2, <2>4, <3>1 DEF TypeOK
    <3>2. CASE Fault /\ unsaved' = unsaved \cup {cur} /\ UNCHANGED attempts
      BY <1>0, <2>4, <3>2 DEF Fault
    <3> QED BY <2>3, <3>1, <3>2
  <2>6. RecordLost(cur) \/ Written(g, cur)
    <3>1. CASE attempts' = [attempts EXCEPT ![cur] = @ + 1] /\ status'[cur] = g.out.status
      <4>1. attempts'[cur] = attempts[cur] + 1 BY <1>0, <2>2, <3>1 DEF TypeOK
      <4> QED BY <1>0, <2>2, <3>1, <4>1 DEF Written, AtSave
    <3>2. CASE Fault /\ unsaved' = unsaved \cup {cur}
      BY <2>4, <3>2 DEF Fault, RecordLost
    <3> QED BY <2>3, <3>1, <3>2
  <2>7. ASSUME NEW v \in Workers, NEW d \in Deliveries PROVE Accounted(v, d)
    <3>1. CASE v = w /\ SubOf(d) = s
      BY <2>2, <2>6, <3>1 DEF Accounted, Posted
    <3> QED BY <1>3, <3>1
  <2> QED BY <1>0, <2>1, <2>5, <2>7, RecordedFrame
<1> QED BY <1>4, <1>5, <1>6, <1>7 DEF Work

\* Every step keeps the records.
LEMMA RecordedStep ==
  ASSUME Held, Queued', Counted, Recorded, [Next]_vars
  PROVE  Recorded'
<1>0. Queued /\ TypeOK /\ \A d \in Deliveries : SubOf(d) \in Subs
  BY DeliveryParts DEF Held, Queued
<1>1. ASSUME NEW e \in Events, Enqueue(e) PROVE Recorded'
  <2>1. Fault \/ UNCHANGED faults BY <1>1 DEF Enqueue, FaultOr
  <2> QED BY <1>0, <1>1, <2>1, RecordedStill DEF Enqueue
<1>2. ASSUME NEW w \in Workers, ClaimDue(w) PROVE Recorded'
  <2>1. /\ \A s \in Subs : group[w][s].phase = "none"
        /\ UNCHANGED <<attempts, history>> /\ (Fault \/ UNCHANGED faults)
    BY <1>2 DEF ClaimDue, Busy
  <2>2. \A v \in Workers : v # w => group'[v] = group[v]
    BY <1>0, <1>2 DEF ClaimDue, TypeOK
  <2>3. \A v \in Workers, d \in Deliveries : Accounted(v, d)
    BY <1>0, <2>1, <2>2, NothingToRecord
  <2>4. faults <= faults' BY <1>0, <2>1, FaultsGrow
  <2>5. \A d \in Deliveries : attempts[d] <= attempts'[d] BY <1>0, <2>1 DEF TypeOK
  <2> QED BY <1>0, <2>1, <2>3, <2>4, <2>5, RecordedFrame DEF history
<1>3. ASSUME NEW w \in Workers, Crash(w) PROVE Recorded'
  <2>1. /\ Fault /\ unsaved' = unsaved \cup {d \in Deliveries : Attempting(w, d)}
        /\ UNCHANGED <<rows, acked, twice, posts>>
    BY <1>3 DEF Crash
  <2>2. \A v \in Workers : v # w => group'[v] = group[v] BY <1>0, <1>3 DEF Crash, TypeOK
  <2>3. faults < faults' /\ faults <= faults'
    <3>1. faults \in Int BY <1>0 DEF TypeOK
    <3> QED BY <2>1, <3>1 DEF Fault
  <2>4. ASSUME NEW v \in Workers, NEW d \in Deliveries PROVE Accounted(v, d)
    <3>1. CASE v # w BY <2>2, <3>1, NothingToRecord
    <3>2. CASE v = w
      <4>1. Posted(group[w][SubOf(d)], d) => Attempting(w, d) BY DEF Posted, Attempting
      <4> QED BY <2>1, <2>3, <3>2, <4>1 DEF Accounted, RecordLost
    <3> QED BY <3>1, <3>2
  <2>5. \A d \in Deliveries : attempts[d] <= attempts'[d] BY <1>0, <2>1 DEF TypeOK, rows
  <2> QED BY <1>0, <2>1, <2>3, <2>4, <2>5, RecordedFrame
<1>4. ASSUME NEW w \in Workers, Shutdown(w) PROVE Recorded'
  BY <1>0, <1>4, RecordedStill DEF Shutdown, rows
<1>5. ASSUME NEW s \in Subs, ChangeSubscription(s) PROVE Recorded'
  BY <1>0, <1>5, RecordedStill DEF ChangeSubscription, rows
<1>6. ASSUME NEW d \in Deliveries, PruneTerminal(d) PROVE Recorded'
  BY <1>0, <1>6, RecordedStill DEF PruneTerminal
<1>7. CASE Tick
  <2>1. UNCHANGED <<attempts, faults, history>> BY <1>7 DEF Tick
  <2>2. ASSUME NEW v \in Workers, NEW d \in Deliveries PROVE Accounted(v, d)
    <3> DEFINE g == group[v][SubOf(d)]
               h == group'[v][SubOf(d)]
    <3>1. g \in Group /\ SubOf(d) \in Subs BY <1>0 DEF TypeOK
    <3>2. h = [g EXCEPT !.left = IF @ > 0 THEN @ - 1 ELSE 0,
                        !.out.due = IF @ > 0 THEN @ - 1 ELSE 0]
      BY <1>7, <3>1 DEF Tick
    <3>3. h.phase = g.phase /\ h.todo = g.todo /\ h.out.status = g.out.status
      BY <3>1, <3>2 DEF Group, Outcome
    <3> HIDE DEF g, h
    <3>4. Posted(g, d) => GoesOn(g, h, d) BY <3>3 DEF GoesOn, Posted, AtSave
    <3> QED BY <3>4 DEF Accounted, g, h
  <2>3. faults <= faults' /\ \A d \in Deliveries : attempts[d] <= attempts'[d]
    BY <1>0, <2>1 DEF TypeOK
  <2> QED BY <1>0, <2>1, <2>2, <2>3, RecordedFrame DEF history
<1>8. CASE UNCHANGED vars BY <1>0, <1>8, RecordedStill DEF vars, rows
<1>9. ASSUME NEW w \in Workers, NEW s \in Subs, Work(w, s) PROVE Recorded'
  BY <1>9, WorkRecorded
<1> QED BY <1>1, <1>2, <1>3, <1>4, <1>5, <1>6, <1>7, <1>8, <1>9 DEF Next

\* Nothing is posted, and so nothing is to be recorded, at the start.
LEMMA RecordedInit == Init => Recorded
<1> SUFFICES ASSUME Init PROVE Recorded OBVIOUS
<1>1. Confirmed /\ ConfirmedOnce BY DEF Init, Confirmed, ConfirmedOnce
<1>2. \A d \in Deliveries : Paid(d)
  <2>1. \A d : Unrecorded(d) \in {0, 1} BY DEF Unrecorded
  <2> QED BY <2>1 DEF Init, Paid
<1> QED BY <1>1, <1>2 DEF Recorded

\* A timely claim keeps the records: the invariant behind the two theorems.
THEOREM RecordsKept == Timely => (Spec => [](Held /\ Recorded))
<1> SUFFICES ASSUME Timely PROVE Spec => [](Held /\ Recorded) OBVIOUS
<1>1. Held /\ [Next]_vars => Held' BY HeldStep
<1>2. Held /\ Held' /\ Counted /\ Recorded /\ [Next]_vars => Recorded'
  BY RecordedStep DEF Held
<1> QED BY HeldInit, CountedInit, RecordedInit, CountedStep, <1>1, <1>2, PTL DEF Spec

\* durable_worker.go, save: when the lease covers an attempt, a notification its
\* endpoint confirmed is posted again only when the record of that could not be
\* written, for every number of workers and whatever crashes.
THEOREM ConfirmedNotRepeated == Timely => (Spec => []ConfirmedOnce)
<1> SUFFICES ASSUME Timely PROVE Spec => []ConfirmedOnce OBVIOUS
<1>1. Recorded => ConfirmedOnce BY DEF Recorded
<1> QED BY <1>1, RecordsKept, PTL

\* nextAttempt: an endpoint sees a notification no more often than the schedule has
\* entries, plus the first time, plus once for each fault that left an attempt
\* without a record.
THEOREM PostsAreBounded == Timely => (Spec => []PostsBounded)
<1> SUFFICES ASSUME Timely PROVE Spec => []PostsBounded OBVIOUS
<1>1. Held /\ Recorded => PostsBounded
  <2> SUFFICES ASSUME Held, Recorded, NEW d \in Deliveries
               PROVE  posts[d] <= MaxAttempts + faults
    BY DEF PostsBounded
  <2>0. /\ posts[d] \in Int /\ attempts[d] \in Int /\ faults \in Int
        /\ attempts[d] <= MaxAttempts /\ RowOK(d) /\ Len(Schedule) \in Nat
    BY ConstantsAssumption DEF Held, Queued, TypeOK, MaxAttempts
  <2>1. posts[d] <= attempts[d] + faults + Unrecorded(d) BY DEF Recorded, Paid
  <2>2. CASE \E w \in Workers : Posted(group[w][SubOf(d)], d)
    <3>1. PICK w \in Workers : Attempting(w, d) BY <2>2 DEF Posted, Attempting
    <3>2. attempts[d] <= Len(Schedule) BY <2>0, <3>1, AttemptingHolds DEF RowOK
    <3>3. Unrecorded(d) = 1 BY <2>2 DEF Unrecorded
    <3> QED BY <2>0, <2>1, <3>2, <3>3 DEF MaxAttempts
  <2>3. CASE ~ \E w \in Workers : Posted(group[w][SubOf(d)], d)
    <3>1. Unrecorded(d) = 0 BY <2>3 DEF Unrecorded
    <3> QED BY <2>0, <2>1, <3>1 DEF MaxAttempts
  <2> QED BY <2>2, <2>3
<1> QED BY <1>1, RecordsKept, PTL
=============================================================================
