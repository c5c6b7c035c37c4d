------------------------------- MODULE SignIn -------------------------------
(***************************************************************************)
(* Signing in (auth/usecases/auth_usecase.go) behind the attempt limiter   *)
(* (attempt_limiter.go): a wrong password costs its subject one of Max     *)
(* tries, and the subject is locked out for BlockFor once they are gone.   *)
(*                                                                         *)
(* A record is an object: the map and the recency list name it, and so     *)
(* does every attempt admitted on it, for as long as the attempt runs,     *)
(* whether or not the limiter has evicted it meanwhile.  Every limiter     *)
(* call holds the mutex and is one step; between Begin and the outcome     *)
(* the password is checked, and other requests run.                        *)
(***************************************************************************)
EXTENDS Naturals, FiniteSets

CONSTANTS Subjects,      \* email addresses, or user ids for the second factor
          Max,           \* maxLoginAttempts
          BlockFor,      \* loginBlockPeriod, in ticks
          Capacity,      \* maxTrackedSubjects
          EvictionProbe, \* evictionProbe
          SweepInterval, \* sweepInterval, in ticks
          Records,       \* bound: record objects alive at once
          Slots,         \* bound: attempts running at once
          NoSubject,     \* the subject of a record that is free
          MaxNow         \* bound: ticks

VARIABLES recs,          \* the record objects
          recency,       \* of the tracked records, which was used no later than which
          running,       \* attempts admitted and not settled, by slot
          lastSweep,
          now,
          guesses        \* history: the tries of the last BlockFor, each with when it began

avars == <<recs, recency, running, lastSweep, now, guesses>>

Free == [subject |-> NoSubject, failures |-> 0, inFlight |-> 0, lastTry |-> 0, until |-> 0]

Listed(list) == {p[1] : p \in list}
Tracked == Listed(recency)
RecordOf(s) == {r \in Tracked : recs[r].subject = s}
Blocked(rec) == now < rec.until

Init ==
    /\ recs = [r \in Records |-> Free]
    /\ recency = {}
    /\ running = [a \in {} |-> Free]
    /\ lastSweep = 0
    /\ now = 1
    /\ guesses = [s \in Subjects |-> {}]

\* What the list becomes when records are removed, and when one is pushed to its back.
Without(list, R) == {p \in list : p[1] \notin R /\ p[2] \notin R}
PushBack(list, r) == list \cup ((Listed(list) \cup {r}) \X {r})

\* The place of a record, counted from the least recently used.
Place(list, r) == Cardinality({q \in Listed(list) : <<q, r>> \in list})

\* A record no list and no attempt names is garbage, and its object is free.
Collected(rs, list, att) ==
    [r \in Records |->
        IF r \in Listed(list) \/ \E a \in DOMAIN att : att[a].rec = r THEN rs[r] ELSE Free]

\* maybeSweepLocked drops the records that can no longer block anyone.
Swept ==
    IF now - lastSweep < SweepInterval THEN recency
    ELSE Without(recency, {r \in Tracked : /\ recs[r].inFlight = 0
                                           /\ ~Blocked(recs[r])
                                           /\ recs[r].lastTry + BlockFor < now})

\* expireLocked: a block that ran out, or failures older than one period.
expireLocked(rec) ==
    LET over == [rec EXCEPT !.failures = 0, !.until = 0]
    IN  IF rec.until # 0 /\ ~Blocked(rec) THEN over
        ELSE IF rec.until = 0 /\ now > rec.lastTry + BlockFor
             THEN [rec EXCEPT !.failures = 0] ELSE rec

\* makeRoomLocked: among the first few, one that is neither locked out nor in
\* the middle of an attempt; failing that the least recently used.
makeRoomLocked(list) ==
    LET first == {r \in Listed(list) : Place(list, r) <= EvictionProbe}
        spare == {r \in first : ~Blocked(recs[r]) /\ recs[r].inFlight = 0}
        victims == IF spare = {} THEN Listed(list) ELSE spare
    IN  IF Cardinality(Listed(list)) < Capacity THEN list
        ELSE Without(list, {v \in victims : \A w \in victims : Place(list, v) <= Place(list, w)})

Straggling(att, S) ==
    [a \in DOMAIN att |->
        IF att[a].subject \in S THEN [att[a] EXCEPT !.counts = FALSE] ELSE att[a]]

PushedOut(list) ==
    {s \in Subjects : RecordOf(s) # {} /\ \A r \in Listed(list) : recs[r].subject # s}

\* The tries of a subject whose record was evicted are forgotten with it.
Remembered(list) ==
    [s \in Subjects |-> IF s \in PushedOut(list) THEN {} ELSE guesses[s]]

AdmitsByFailures(rec) == ~Blocked(rec) /\ rec.failures < Max

\* Begin admits when the subject is not locked out and the tries running now
\* would not use up its budget by failing.
Admits(rec) == ~Blocked(rec) /\ rec.failures + rec.inFlight < Max

Begin(s) ==
    LET mine == RecordOf(s) \cap Listed(Swept)
        free == {r \in Records \ Tracked : recs[r] = Free}
        r == CHOOSE m \in IF mine # {} THEN mine ELSE free : TRUE
        rec == IF mine # {} THEN expireLocked(recs[r]) ELSE [Free EXCEPT !.subject = s]
        begun == [rec EXCEPT !.inFlight = @ + 1, !.lastTry = now]
        list == PushBack(IF mine # {} THEN Without(Swept, {r}) ELSE makeRoomLocked(Swept), r)
        slot == CHOOSE a \in Slots : a \notin DOMAIN running
        before == Straggling(running, PushedOut(list))
    IN  /\ DOMAIN running # Slots
        /\ mine = {} => free # {}
        /\ Admits(rec)
        /\ running' = [a \in DOMAIN running \cup {slot} |->
                         IF a = slot THEN [rec |-> r, subject |-> s, at |-> now, counts |-> TRUE]
                         ELSE before[a]]
        /\ recency' = list
        /\ recs' = Collected([recs EXCEPT ![r] = begun], list, running')
        /\ lastSweep' = IF now - lastSweep < SweepInterval THEN lastSweep ELSE now
        /\ guesses' = Remembered(list)
        /\ UNCHANGED now

\* A refused attempt tests nothing, but it still sweeps and expires.
Refuse(s) ==
    \E r \in RecordOf(s) :
        /\ r \in Listed(Swept)
        /\ ~Admits(expireLocked(recs[r]))
        /\ recs' = [recs EXCEPT ![r] = expireLocked(recs[r])]
        /\ recency' = Swept
        /\ lastSweep' = IF now - lastSweep < SweepInterval THEN lastSweep ELSE now
        /\ guesses' = Remembered(recency')
        /\ UNCHANGED <<running, now>>

Settled(n) == [a \in DOMAIN running \ {n} |-> running[a]]

\* Succeeded forgets the subject's record; what is still running on it no
\* longer counts against what comes after.
Succeeded(n) ==
    LET a == running[n]
    IN  /\ running' = Straggling(Settled(n), {a.subject})
        /\ recency' = Without(recency, {a.rec})
        /\ recs' = Collected([recs EXCEPT ![a.rec].inFlight = @ - 1], recency', running')
        /\ guesses' = [guesses EXCEPT ![a.subject] = {}]
        /\ UNCHANGED <<lastSweep, now>>

\* Failed counts the try, on the record it was admitted on and, when that one
\* was evicted, on the one that took its place; with none it is put back.
\* Counts past Max are told apart by nothing, so they are counted as Max.
Locked(rec) ==
    IF rec.failures >= Max THEN [rec EXCEPT !.failures = Max, !.until = now + BlockFor]
    ELSE rec

\* Tries that began together are told apart by a number.
Try(a) == <<a.at, Cardinality(guesses[a.subject]) + 1>>

Failed(n) ==
    LET a == running[n]
        rec == Locked([recs[a.rec] EXCEPT !.inFlight = @ - 1, !.failures = @ + 1])
        heirs == RecordOf(a.subject)
        back == PushBack(makeRoomLocked(recency), a.rec)
        list == IF a.rec \in Tracked \/ heirs # {} THEN recency ELSE back
        counted == [recs EXCEPT ![a.rec] = rec]
    IN  /\ running' = Straggling(Settled(n), PushedOut(list))
        /\ recency' = list
        /\ recs' = Collected(
             IF a.rec \notin Tracked /\ heirs # {}
             THEN LET h == CHOOSE h \in heirs : TRUE
                  IN  [counted EXCEPT ![h] = Locked([recs[h] EXCEPT !.failures = @ + rec.failures])]
             ELSE counted, list, running')
        /\ guesses' = [Remembered(list) EXCEPT ![a.subject] =
                         IF a.counts THEN @ \cup {Try(a)} ELSE @]
        /\ UNCHANGED <<lastSweep, now>>

\* An attempt that ended before it tested anything.
Abandon(n) ==
    /\ running' = Settled(n)
    /\ recs' = Collected([recs EXCEPT ![running[n].rec].inFlight = @ - 1], recency, running')
    /\ UNCHANGED <<recency, lastSweep, now, guesses>>

\* A check takes less than a tick: milliseconds against minutes.
Tick ==
    /\ now < MaxNow /\ DOMAIN running = {}
    /\ now' = now + 1
    /\ guesses' = [s \in Subjects |-> {g \in guesses[s] : g[1] + BlockFor > now'}]
    /\ UNCHANGED <<recs, recency, running, lastSweep>>

Next ==
    \/ \E s \in Subjects : Begin(s) \/ Refuse(s)
    \/ \E n \in DOMAIN running : Succeeded(n) \/ Failed(n) \/ Abandon(n)
    \/ Tick

Spec == Init /\ [][Next]_avars

-----------------------------------------------------------------------------
(* Properties *)

\* However many requests run at once, within one block period no more than
\* Max wrong passwords are tried for a subject that neither signed in nor had
\* its record pushed out in between (attempt_limiter.go:74-100).  An attempt
\* admitted before either belongs to what came before it.
GuessesBounded == \A s \in Subjects : Cardinality(guesses[s]) <= Max

-----------------------------------------------------------------------------
(* What the proof of GuessesBounded rests on.                              *)

\* Counts and times are whole, a lockout lasts, and requests are finitely many.
LimitsOK == /\ Max \in Nat /\ BlockFor \in Nat \ {0}
            /\ NoSubject \notin Subjects /\ IsFiniteSet(Slots)

On(r) == {a \in DOMAIN running : running[a].rec = r}
Counting(s) == {a \in DOMAIN running : running[a].subject = s /\ running[a].counts}

\* The list names records, each of them at least with itself.
Orderly(list) == list \subseteq Records \X Records /\ \A p \in list : <<p[1], p[1]>> \in list

RecordType == [subject : Subjects \cup {NoSubject}, failures : 0..Max, inFlight : Nat,
               lastTry : Nat, until : Nat]
AttemptType == [rec : Records, subject : Subjects, at : Nat, counts : BOOLEAN]

AttemptTypes ==
    /\ recs \in [Records -> RecordType]
    /\ Orderly(recency)
    /\ DOMAIN running \subseteq Slots /\ running \in [DOMAIN running -> AttemptType]
    /\ now \in Nat
    /\ guesses \in [Subjects -> SUBSET (Nat \X Nat)]

\* A subject has one record in the map, an attempt runs on a record of its subject,
\* and one that counts against what comes after on the record in the map.
RecordsNamed ==
    /\ \A r \in Tracked : recs[r].subject # NoSubject
    /\ \A r, q \in Tracked : recs[r].subject = recs[q].subject => r = q
    /\ \A a \in DOMAIN running :
         /\ recs[running[a].rec].subject = running[a].subject
         /\ running[a].counts => running[a].rec \in Tracked
         /\ running[a].at = now /\ now <= recs[running[a].rec].lastTry
    /\ \A r \in Records : /\ recs[r].inFlight = Cardinality(On(r))
                          /\ recs[r].until # 0 => recs[r].failures = Max

\* What was tried is among the failures of the record, together with what still runs it
\* is within the budget, and a record forgets it no sooner than it is a block period old.
TriesOf(s) ==
    /\ IsFiniteSet(guesses[s])
    /\ Cardinality(guesses[s]) + Cardinality(Counting(s)) <= Max
    /\ \A g \in guesses[s] : /\ g[1] <= now /\ now < g[1] + BlockFor
                             /\ g[1] = now => g[2] <= Cardinality(guesses[s])
    /\ RecordOf(s) = {} => guesses[s] = {}
    /\ \A r \in RecordOf(s) :
         /\ Cardinality(guesses[s]) <= recs[r].failures
         /\ \A g \in guesses[s] : /\ g[1] <= recs[r].lastTry
                                  /\ recs[r].until # 0 => g[1] + BlockFor <= recs[r].until
TriesCounted == \A s \in Subjects : TriesOf(s)

SignInInv == AttemptTypes /\ RecordsNamed /\ TriesCounted
=============================================================================
