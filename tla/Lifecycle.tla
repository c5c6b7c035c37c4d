----------------------------- MODULE Lifecycle -----------------------------
(***************************************************************************)
(* How an instance starts and stops: it connects (cmd/api/boot.go), brings *)
(* the shared schema up to date (internal/migrate/migrate.go) beside the   *)
(* other instances of a rolling deploy, serves with its workers running    *)
(* (main.go, runWorker) and shuts down in order (shutdown.go).             *)
(*                                                                         *)
(* The schema is PostgreSQL's: the migration lock is a session lock, and   *)
(* each step and the record of it are one transaction.                     *)
(***************************************************************************)
EXTENDS Naturals, TLAPS

CONSTANTS Instances,
          Steps(_),     \* the versions of the migrations instance i's build carries
          Listeners,    \* what accepts requests
          MaxRequests,  \* bound: requests in flight at a listener
          Attempts,     \* bound: connections tried within the boot budget
          MaxFaults     \* bound: failures, panics and crashes

VARIABLES versions,  \* schema_migrations
          lock,      \* the instance holding the migration lock, or 0
          proc,      \* where each instance is
          life,      \* what each one serves with
          faults,
          refused,   \* history: instances whose migration failed on its own
          ran        \* history: who committed each step, and after which others

yvars == <<versions, lock, proc, life, faults, refused, ran>>

Off == [pc |-> "off", tries |-> 0, seen |-> {}, at |-> 0]
NoLife == [listener |-> [l \in Listeners |-> "closed"], requests |-> [l \in Listeners |-> 0],
           worker |-> "off", told |-> FALSE, late |-> FALSE, open |-> FALSE]
Running == [listener |-> [l \in Listeners |-> "open"], requests |-> [l \in Listeners |-> 0],
            worker |-> "runs", told |-> FALSE, late |-> FALSE, open |-> TRUE]

Fault == faults < MaxFaults /\ faults' = faults + 1

Init ==
    /\ versions = {} /\ lock = 0 /\ faults = 0 /\ refused = {} /\ ran = <<>>
    /\ proc = [i \in Instances |-> Off] /\ life = [i \in Instances |-> NoLife]

At(i, pc) == proc[i].pc = pc
Goes(i, pc) == proc' = [proc EXCEPT ![i].pc = pc]

-----------------------------------------------------------------------------
(* Starting.                                                               *)

\* A mistaken order: what is applied is read before the lock is held.
AfterReadingFirst(pc) ==
    CASE pc = "connect" -> "read" [] pc = "read" -> "lock" [] pc = "lock" -> "apply"

\* run: the lock first, and under it the read of what is applied.
After(pc) ==
    CASE pc = "connect" -> "lock" [] pc = "lock" -> "read" [] pc = "read" -> "apply"

Start(i) ==
    /\ At(i, "off") /\ i \notin refused
    /\ proc' = [proc EXCEPT ![i] = [Off EXCEPT !.pc = "connect"]]
    /\ UNCHANGED <<versions, lock, life, faults, refused, ran>>

\* connectWithRetry: another attempt until the budget is spent, then exit.
Connect(i) ==
    /\ At(i, "connect")
    /\ \/ Goes(i, After("connect")) /\ UNCHANGED faults
       \/ /\ Fault
          /\ IF proc[i].tries + 1 < Attempts THEN proc' = [proc EXCEPT ![i].tries = @ + 1]
                                            ELSE proc' = [proc EXCEPT ![i] = Off]
    /\ UNCHANGED <<versions, lock, life, refused, ran>>

Lock(i) ==
    /\ At(i, "lock") /\ lock = 0
    /\ lock' = i /\ Goes(i, After("lock"))
    /\ UNCHANGED <<versions, life, faults, refused, ran>>

ReadApplied(i) ==
    /\ At(i, "read")
    /\ proc' = [proc EXCEPT ![i].pc = After("read"), ![i].seen = versions]
    /\ UNCHANGED <<versions, lock, life, faults, refused, ran>>

Outstanding(i) == Steps(i) \ proc[i].seen

\* The steps run in order of their numbers.
Lowest(i) == CHOOSE v \in Outstanding(i) : \A w \in Outstanding(i) : v <= w

\* applyAndRecord commits a step with its record, or nothing of either: a
\* statement may fail, and the record does when the version is already there.
ApplyStep(i) ==
    /\ At(i, "apply") /\ Outstanding(i) # {}
    /\ LET v == Lowest(i)
       IN  \/ /\ v \notin versions /\ UNCHANGED <<faults, lock, refused>>
              /\ versions' = versions \cup {v}
              /\ ran' = [w \in DOMAIN ran \cup {v} |-> IF w = v THEN [by |-> i, after |-> versions] ELSE ran[w]]
              /\ proc' = [proc EXCEPT ![i].seen = @ \cup {v}]
           \/ /\ (v \in versions /\ UNCHANGED faults) \/ Fault
              /\ refused' = IF v \in versions THEN refused \cup {i} ELSE refused
              /\ proc' = [proc EXCEPT ![i] = Off] /\ lock' = 0
              /\ UNCHANGED <<versions, ran>>
    /\ UNCHANGED life

\* Nothing is left to apply: the lock is let go and the instance serves.
Serve(i) ==
    /\ At(i, "apply") /\ Outstanding(i) = {}
    /\ lock' = 0 /\ Goes(i, "serving")
    /\ life' = [life EXCEPT ![i] = Running]
    /\ UNCHANGED <<versions, faults, refused, ran>>

-----------------------------------------------------------------------------
(* Serving.                                                                *)

Accept(i, l) ==
    /\ life[i].listener[l] \in {"open", "asked"} /\ life[i].requests[l] < MaxRequests
    /\ life' = [life EXCEPT ![i].requests[l] = @ + 1]
    /\ UNCHANGED <<versions, lock, proc, faults, refused, ran>>

Answer(i, l) ==
    /\ life[i].requests[l] > 0
    /\ life' = [life EXCEPT ![i].requests[l] = @ - 1]
    /\ UNCHANGED <<versions, lock, proc, faults, refused, ran>>

\* runWorker: a worker that panics is started again after a pause, unless it has
\* been told to stop; one that is told returns.
Panic(i) ==
    /\ life[i].worker = "runs" /\ Fault
    /\ life' = [life EXCEPT ![i].worker = "pauses"]
    /\ UNCHANGED <<versions, lock, proc, refused, ran>>

WorkerGoesOn(i) ==
    /\ \/ life[i].worker = "pauses" /\ \E w \in (IF life[i].told THEN {"off"} ELSE {"runs"}) :
                                           life' = [life EXCEPT ![i].worker = w]
       \/ life[i].worker = "runs" /\ life[i].told /\ life' = [life EXCEPT ![i].worker = "off"]
    /\ UNCHANGED <<versions, lock, proc, faults, refused, ran>>

-----------------------------------------------------------------------------
(* Stopping.                                                               *)

\* Readiness is withdrawn and the delay runs; requests still arrive.
Signal(i) ==
    /\ At(i, "serving") /\ Goes(i, "prestop")
    /\ UNCHANGED <<versions, lock, life, faults, refused, ran>>

\* Each listener's stop is a goroutine of its own, which may not have begun when
\* run goes on to the workers.
AskListeners(i) ==
    /\ At(i, "prestop") /\ Goes(i, "asked")
    /\ life' = [life EXCEPT ![i].listener = [l \in Listeners |-> "asked"]]
    /\ UNCHANGED <<versions, lock, faults, refused, ran>>

StopListener(i, l) ==
    /\ life[i].listener[l] = "asked"
    /\ life' = [life EXCEPT ![i].listener[l] = "drains"]
    /\ UNCHANGED <<versions, lock, proc, faults, refused, ran>>

\* A stop returns when its requests are answered or the budget is out.
ListenerDrained(i, l) ==
    /\ life[i].listener[l] = "drains" /\ (life[i].requests[l] = 0 \/ life[i].late)
    /\ life' = [life EXCEPT ![i].listener[l] = "closed"]
    /\ UNCHANGED <<versions, lock, proc, faults, refused, ran>>

StopWorkers(i) ==
    /\ At(i, "asked") /\ Goes(i, "waiting")
    /\ life' = [life EXCEPT ![i].told = TRUE]
    /\ UNCHANGED <<versions, lock, faults, refused, ran>>

BudgetOut(i) ==
    /\ At(i, "asked") \/ At(i, "waiting") \/ At(i, "waited")
    /\ ~life[i].late
    /\ life' = [life EXCEPT ![i].late = TRUE]
    /\ UNCHANGED <<versions, lock, proc, faults, refused, ran>>

\* waitForWorkers: all of them, or the rest of the budget.
WorkersWaited(i) ==
    /\ At(i, "waiting") /\ (life[i].worker = "off" \/ life[i].late)
    /\ Goes(i, "waited")
    /\ UNCHANGED <<versions, lock, life, faults, refused, ran>>

\* A mistaken drain: only one listener is waited for.
SomeDrained(i) == \E l \in Listeners : life[i].listener[l] = "closed"

\* drained.Wait: every listener's stop has returned.
AllDrained(i) == \A l \in Listeners : life[i].listener[l] = "closed"

\* The provider pools close, and the stores behind them as main returns.
CloseAll(i) ==
    /\ At(i, "waited") /\ AllDrained(i)
    /\ Goes(i, "closed")
    /\ life' = [life EXCEPT ![i].open = FALSE]
    /\ UNCHANGED <<versions, lock, faults, refused, ran>>

Exit(i) ==
    /\ At(i, "closed")
    /\ proc' = [proc EXCEPT ![i] = Off] /\ life' = [life EXCEPT ![i] = NoLife]
    /\ UNCHANGED <<versions, lock, faults, refused, ran>>

\* The process is killed: the session, its transaction and its lock go with it.
Crash(i) ==
    /\ ~At(i, "off") /\ Fault
    /\ proc' = [proc EXCEPT ![i] = Off] /\ life' = [life EXCEPT ![i] = NoLife]
    /\ lock' = IF lock = i THEN 0 ELSE lock
    /\ UNCHANGED <<versions, refused, ran>>

Next ==
    \E i \in Instances :
        \/ Start(i) \/ Connect(i) \/ Lock(i) \/ ReadApplied(i) \/ ApplyStep(i) \/ Serve(i)
        \/ \E l \in Listeners : Accept(i, l) \/ Answer(i, l) \/ StopListener(i, l) \/ ListenerDrained(i, l)
        \/ Panic(i) \/ WorkerGoesOn(i)
        \/ Signal(i) \/ AskListeners(i) \/ StopWorkers(i) \/ BudgetOut(i) \/ WorkersWaited(i)
        \/ CloseAll(i) \/ Exit(i) \/ Crash(i)

Spec == Init /\ [][Next]_yvars

-----------------------------------------------------------------------------
(* Properties *)

\* Instances of one build or of two start at once, crash halfway and start again:
\* none is refused because another migrated meanwhile, a step is committed only after
\* every lower one its build carries, whoever committed that, and one that serves
\* finds every step its build knows.  A step that fills a gap another build left may
\* come after higher ones (run, migrate.go:56-135; loadMigrations, migrate.go:309-346;
\* openConfiguredDatabase, boot.go:63-81).
SchemaReady ==
    /\ refused = {}
    /\ \A w \in versions : \A v \in Steps(ran[w].by) : v < w => v \in ran[w].after
    /\ \A i \in Instances : life[i].open => Steps(i) \subseteq versions

\* Nothing a request or a worker uses is closed under it, until the shutdown
\* budget has run out (shutdownPlan.run, shutdown.go:68-113).
NothingClosedInUse ==
    \A i \in Instances :
        At(i, "closed") /\ ~life[i].late =>
            life[i].worker = "off" /\ \A l \in Listeners : life[i].requests[l] = 0

\* No new request is accepted once the workers have been told to stop (the
\* comment on run, shutdown.go:69-70).
NoRequestAfterStop ==
    [][\A i \in Instances, l \in Listeners :
         life'[i].requests[l] > life[i].requests[l] => ~life[i].told]_yvars
-----------------------------------------------------------------------------
(* SchemaReady and NothingClosedInUse for any instances, builds, listeners *)
(* and bounds.  What an instance has read of the schema is what the schema *)
(* is only while it holds the lock (UnderLock); the pools are closed last  *)
(* because each stop waits for what it stops (StoppedInOrder).             *)

\* A build's versions are numbers that loadMigrations can put in order: of any of
\* them, one is lowest.  There may be gaps.  No instance is 0.
Numbered ==
    /\ 0 \notin Instances
    /\ \A i \in Instances :
          /\ Steps(i) \subseteq Nat
          /\ \A O \in SUBSET Steps(i) : O # {} => \E v \in O : \A w \in O : v <= w

Places == {"off", "connect", "lock", "read", "apply", "serving", "prestop", "asked",
           "waiting", "waited", "closed"}

Procs == [pc : Places, tries : Nat, seen : SUBSET Nat, at : {0}]
Lives == [listener : [Listeners -> {"open", "asked", "drains", "closed"}],
          requests : [Listeners -> Nat], worker : {"off", "runs", "pauses"},
          told : BOOLEAN, late : BOOLEAN, open : BOOLEAN]

LifeTypes == proc \in [Instances -> Procs] /\ life \in [Instances -> Lives]

\* Each step of the schema was committed by somebody, over what was there.
InOrder ==
    /\ versions \subseteq Nat /\ DOMAIN ran = versions
    /\ \A v \in versions : ran[v].by \in Instances /\ ran[v].after \subseteq versions

\* Who reads or writes the record of what is applied holds the lock, and who
\* writes it has read it as it is.
UnderLock ==
    \A i \in Instances :
        /\ At(i, "read") \/ At(i, "apply") => lock = i
        /\ At(i, "apply") => proc[i].seen = versions

SchemaInv == LifeTypes /\ InOrder /\ UnderLock /\ SchemaReady

\* A listener that is closed in time has no request left, the workers that were
\* waited for in time are off, and the pools close behind closed listeners.
StoppedInTurn(i) ==
    /\ \A l \in Listeners :
          life[i].listener[l] = "closed" /\ ~life[i].late => life[i].requests[l] = 0
    /\ (At(i, "waited") \/ At(i, "closed")) /\ ~life[i].late => life[i].worker = "off"
    /\ At(i, "closed") => AllDrained(i)

StoppedInOrder == \A i \in Instances : StoppedInTurn(i)

LEMMA Afters ==
    After("connect") = "lock" /\ After("lock") = "read" /\ After("read") = "apply"
  BY DEF After

LEMMA LifeTypesInit == Init => LifeTypes
  BY DEF Init, LifeTypes, Procs, Lives, Off, NoLife, Places

\* Under the lock, the step that comes next is not applied, and every lower one of
\* the build is.
LEMMA NextStep ==
    ASSUME Numbered, UnderLock,
           NEW i \in Instances, At(i, "apply"), Outstanding(i) # {}
    PROVE  /\ Lowest(i) \in Nat /\ Lowest(i) \notin versions
           /\ \A v \in Steps(i) : v < Lowest(i) => v \in versions
<1> DEFINE O == Outstanding(i)
<1>1. O = Steps(i) \ versions
  BY DEF Outstanding, UnderLock
<1>2. \E v \in O : \A w \in O : v <= w
  BY <1>1 DEF Numbered
<1>3. Lowest(i) \in O /\ \A w \in O : Lowest(i) <= w
  <2>1. Lowest(i) = CHOOSE v \in O : \A w \in O : v <= w BY DEF Lowest
  <2> HIDE DEF O
  <2> QED BY <1>2, <2>1
<1>4. Steps(i) \subseteq Nat
  BY DEF Numbered
<1>5. ASSUME NEW v \in Steps(i), v < Lowest(i) PROVE v \in versions
  <2>1. v \notin O BY <1>1, <1>3, <1>4, <1>5
  <2> QED BY <1>1, <2>1
<1> QED BY <1>1, <1>3, <1>4, <1>5

LEMMA RequestsCounted ==
    ASSUME LifeTypes, NEW i \in Instances, NEW l \in Listeners, NEW n \in Nat,
           life' = [life EXCEPT ![i].requests[l] = n]
    PROVE  life' \in [Instances -> Lives]
  BY DEF LifeTypes, Lives

\* A connection tried leaves its instance connecting, waiting for the lock or off.
LEMMA ConnectGoes ==
    ASSUME LifeTypes, NEW i \in Instances, Connect(i)
    PROVE  \E p \in Procs : /\ p.pc \in {"off", "connect", "lock"}
                            /\ proc' = [proc EXCEPT ![i] = p]
<1> USE DEF LifeTypes
<1>1. CASE Goes(i, After("connect"))
  <2>1. [proc[i] EXCEPT !.pc = "lock"] \in Procs /\ [proc[i] EXCEPT !.pc = "lock"].pc = "lock"
    BY DEF Procs, Places
  <2>2. proc' = [proc EXCEPT ![i] = [proc[i] EXCEPT !.pc = "lock"]]
    BY <1>1, Afters DEF Goes
  <2> QED BY <2>1, <2>2
<1>2. CASE proc' = [proc EXCEPT ![i].tries = @ + 1]
  <2>1. [proc[i] EXCEPT !.tries = @ + 1] \in Procs /\ [proc[i] EXCEPT !.tries = @ + 1].pc = "connect"
    BY DEF Connect, At, Procs
  <2> QED BY <1>2, <2>1
<1>3. CASE proc' = [proc EXCEPT ![i] = Off]
  BY <1>3 DEF Off, Procs, Places
<1> QED BY <1>1, <1>2, <1>3 DEF Connect

LEMMA LifeTypesStep ==
    ASSUME Numbered, SchemaInv, [Next]_yvars
    PROVE  LifeTypes'
<1> USE DEF LifeTypes, SchemaInv
<1>1. CASE UNCHANGED yvars
  BY <1>1 DEF yvars
<1> SUFFICES ASSUME NEW i \in Instances,
                    \/ Start(i) \/ Connect(i) \/ Lock(i) \/ ReadApplied(i) \/ ApplyStep(i) \/ Serve(i)
                    \/ \E l \in Listeners :
                         Accept(i, l) \/ Answer(i, l) \/ StopListener(i, l) \/ ListenerDrained(i, l)
                    \/ Panic(i) \/ WorkerGoesOn(i)
                    \/ Signal(i) \/ AskListeners(i) \/ StopWorkers(i) \/ BudgetOut(i)
                    \/ WorkersWaited(i) \/ CloseAll(i) \/ Exit(i) \/ Crash(i)
             PROVE  LifeTypes'
  BY <1>1 DEF Next
<1>2. Off \in Procs /\ NoLife \in Lives /\ Running \in Lives
  BY DEF Off, NoLife, Running, Procs, Lives, Places
<1>3. ASSUME NEW pc \in Places, Goes(i, pc)
      PROVE  proc' \in [Instances -> Procs]
  BY <1>3 DEF Goes, Procs
<1>4. proc' = [proc EXCEPT ![i] = Off] => proc' \in [Instances -> Procs]
  BY <1>2
<1>5. life' = [life EXCEPT ![i] = NoLife] => life' \in [Instances -> Lives]
  BY <1>2
<1>6. CASE Start(i)
  BY <1>6, <1>2 DEF Start, Off, Procs, Places
<1>7. CASE Connect(i)
  BY <1>7, ConnectGoes DEF Connect
<1>8. CASE Lock(i)
  BY <1>3, <1>8, Afters DEF Lock, Places
<1>9. CASE ReadApplied(i)
  <2>1. versions \in SUBSET Nat
    BY DEF InOrder
  <2>2. [proc[i] EXCEPT !.pc = "apply", !.seen = versions] \in Procs
    BY <2>1 DEF Procs, Places
  <2>3. proc' = [proc EXCEPT ![i] = [proc[i] EXCEPT !.pc = "apply", !.seen = versions]]
    BY <1>9, Afters DEF ReadApplied
  <2> QED BY <1>9, <2>2, <2>3 DEF ReadApplied
<1>10. CASE ApplyStep(i)
  <2>1. Lowest(i) \in Nat
    BY <1>10, NextStep DEF ApplyStep
  <2>2. CASE proc' = [proc EXCEPT ![i].seen = @ \cup {Lowest(i)}]
    <3>1. [proc[i] EXCEPT !.seen = @ \cup {Lowest(i)}] \in Procs
      BY <2>1 DEF Procs
    <3> QED BY <1>10, <2>2, <3>1 DEF ApplyStep
  <2> QED BY <1>4, <1>10, <2>2 DEF ApplyStep
<1>11. CASE Serve(i)
  BY <1>2, <1>3, <1>11 DEF Serve, Places
<1>12. ASSUME NEW l \in Listeners, Accept(i, l) \/ Answer(i, l)
       PROVE  LifeTypes'
  <2>1. life[i].requests[l] \in Nat
    BY DEF Lives
  <2>2. PICK n \in Nat : life' = [life EXCEPT ![i].requests[l] = n]
    BY <1>12, <2>1 DEF Accept, Answer
  <2> QED BY <1>12, <2>2, RequestsCounted DEF Accept, Answer
<1>13. ASSUME NEW l \in Listeners, StopListener(i, l)
       PROVE  LifeTypes'
  BY <1>13 DEF StopListener, Lives
<1>14. ASSUME NEW l \in Listeners, ListenerDrained(i, l)
       PROVE  LifeTypes'
  BY <1>14 DEF ListenerDrained, Lives
<1>15. ASSUME NEW w \in {"off", "runs", "pauses"}, life' = [life EXCEPT ![i].worker = w]
       PROVE  life' \in [Instances -> Lives]
  BY <1>15 DEF Lives
<1>16. CASE Panic(i) \/ WorkerGoesOn(i)
  <2>1. proc' = proc
    BY <1>16 DEF Panic, WorkerGoesOn
  <2>2. \E w \in {"off", "runs", "pauses"} : life' = [life EXCEPT ![i].worker = w]
    BY <1>16 DEF Panic, WorkerGoesOn
  <2> QED BY <1>15, <2>1, <2>2
<1>17. CASE Signal(i) \/ WorkersWaited(i)
  BY <1>3, <1>17 DEF Signal, WorkersWaited, Places
<1>18. CASE AskListeners(i)
  <2>1. life' \in [Instances -> Lives]
    BY <1>18 DEF AskListeners, Lives
  <2> QED BY <1>3, <1>18, <2>1 DEF AskListeners, Places
<1>19. CASE StopWorkers(i)
  <2>1. life' \in [Instances -> Lives]
    BY <1>19 DEF StopWorkers, Lives
  <2> QED BY <1>3, <1>19, <2>1 DEF StopWorkers, Places
<1>20. CASE BudgetOut(i)
  BY <1>20 DEF BudgetOut, Lives
<1>21. CASE CloseAll(i)
  <2>1. life' \in [Instances -> Lives]
    BY <1>21 DEF CloseAll, Lives
  <2> QED BY <1>3, <1>21, <2>1 DEF CloseAll, Places
<1>22. CASE Exit(i) \/ Crash(i)
  BY <1>4, <1>5, <1>22 DEF Exit, Crash
<1> QED BY <1>6, <1>7, <1>8, <1>9, <1>10, <1>11, <1>12, <1>13, <1>14, <1>16, <1>17, <1>18, <1>19,
           <1>20, <1>21, <1>22

\* A step that leaves the schema and the starting of instances alone.
LEMMA SchemaUntouched ==
    ASSUME SchemaInv, UNCHANGED <<versions, lock, refused, ran>>,
           \A i \in Instances : proc'[i] = proc[i] \/ ~(At(i, "read") \/ At(i, "apply"))',
           \A i \in Instances : life'[i].open => life[i].open
    PROVE  (InOrder /\ UnderLock /\ SchemaReady)'
  BY DEF SchemaInv, InOrder, UnderLock, SchemaReady, At

LEMMA SchemaStep ==
    ASSUME Numbered, SchemaInv, [Next]_yvars
    PROVE  (InOrder /\ UnderLock /\ SchemaReady)'
<1> USE DEF SchemaInv
<1>1. CASE UNCHANGED yvars
  BY <1>1, SchemaUntouched DEF yvars
<1>2. ASSUME NEW i \in Instances, Start(i) \/ Connect(i)
      PROVE  (InOrder /\ UnderLock /\ SchemaReady)'
  <2>1. CASE Start(i)
    BY <2>1, SchemaUntouched DEF Start, Off, At, LifeTypes, Procs, Lives
  <2>2. CASE Connect(i)
    <3>1. \A j \in Instances : proc'[j] = proc[j] \/ ~(At(j, "read") \/ At(j, "apply"))'
      BY <2>2, ConnectGoes DEF At, LifeTypes
    <3> QED BY <2>2, <3>1, SchemaUntouched DEF Connect
  <2> QED BY <1>2, <2>1, <2>2
<1>3. ASSUME NEW i \in Instances, Lock(i)
      PROVE  (InOrder /\ UnderLock /\ SchemaReady)'
  <2>1. InOrder' /\ SchemaReady'
    BY <1>3 DEF Lock, InOrder, SchemaReady
  <2>2. \A j \in Instances : ~At(j, "read") /\ ~At(j, "apply")
    BY <1>3 DEF Lock, UnderLock, Numbered
  <2>3. UnderLock'
    BY <1>3, <2>2, Afters DEF Lock, Goes, UnderLock, At, LifeTypes, Procs, Lives
  <2> QED BY <2>1, <2>3
<1>4. ASSUME NEW i \in Instances, ReadApplied(i)
      PROVE  (InOrder /\ UnderLock /\ SchemaReady)'
  <2>1. InOrder' /\ SchemaReady'
    BY <1>4 DEF ReadApplied, InOrder, SchemaReady
  <2>2. UnderLock'
    BY <1>4, Afters DEF ReadApplied, UnderLock, At, LifeTypes, Procs, Lives
  <2> QED BY <2>1, <2>2
<1>5. ASSUME NEW i \in Instances, ApplyStep(i)
      PROVE  (InOrder /\ UnderLock /\ SchemaReady)'
  <2> DEFINE k == Lowest(i)
  <2>1. k \in Nat /\ \A v \in Steps(i) : v < k => v \in versions
    BY <1>5, NextStep DEF ApplyStep
  <2>3. k \notin versions
    BY <1>5, NextStep DEF ApplyStep
  <2> HIDE DEF k
  <2>4. \A j \in Instances : (At(j, "read") \/ At(j, "apply")) => j = i
    BY <1>5 DEF ApplyStep, UnderLock
  <2>5. CASE /\ versions' = versions \cup {k} /\ UNCHANGED <<faults, lock, refused>>
             /\ ran' = [w \in DOMAIN ran \cup {k} |->
                         IF w = k THEN [by |-> i, after |-> versions] ELSE ran[w]]
             /\ proc' = [proc EXCEPT ![i].seen = @ \cup {k}]
    <3>3. /\ DOMAIN ran' = versions' /\ ran'[k].by = i /\ ran'[k].after = versions
          /\ \A v \in versions : ran'[v] = ran[v]
      BY <2>3, <2>5 DEF InOrder
    <3>4. InOrder'
      BY <2>1, <2>5, <3>3 DEF InOrder
    <3>5. UnderLock'
      BY <1>5, <2>4, <2>5 DEF ApplyStep, UnderLock, At, LifeTypes, Procs, Lives
    <3>6. SchemaReady'
      <4>1. refused' = {} /\ \A j \in Instances : life'[j].open => Steps(j) \subseteq versions'
        BY <1>5, <2>5 DEF ApplyStep, SchemaReady
      <4>2. \A w \in versions' : \A v \in Steps(ran'[w].by) : v < w => v \in ran'[w].after
        BY <2>1, <2>5, <3>3 DEF SchemaReady
      <4> QED BY <4>1, <4>2 DEF SchemaReady
    <3> QED BY <3>4, <3>5, <3>6
  <2>6. CASE /\ refused' = IF k \in versions THEN refused \cup {i} ELSE refused
             /\ proc' = [proc EXCEPT ![i] = Off] /\ lock' = 0
             /\ UNCHANGED <<versions, ran>>
    <3>1. refused' = refused
      BY <2>3, <2>6
    <3>2. InOrder' /\ SchemaReady'
      BY <1>5, <2>6, <3>1 DEF ApplyStep, InOrder, SchemaReady
    <3>3. UnderLock'
      BY <2>4, <2>6 DEF UnderLock, At, Off, LifeTypes, Procs, Lives
    <3> QED BY <3>2, <3>3
  <2> QED BY <1>5, <2>3, <2>5, <2>6 DEF ApplyStep, k
<1>6. ASSUME NEW i \in Instances, Serve(i)
      PROVE  (InOrder /\ UnderLock /\ SchemaReady)'
  <2>1. Steps(i) \subseteq versions
    BY <1>6 DEF Serve, Outstanding, UnderLock
  <2>2. InOrder' /\ SchemaReady'
    BY <1>6, <2>1 DEF Serve, InOrder, SchemaReady, LifeTypes, Procs, Lives
  <2>3. \A j \in Instances : (At(j, "read") \/ At(j, "apply")) => j = i
    BY <1>6 DEF Serve, UnderLock
  <2>4. UnderLock'
    BY <1>6, <2>3 DEF Serve, Goes, UnderLock, At, LifeTypes, Procs, Lives
  <2> QED BY <2>2, <2>4
<1>7. ASSUME NEW i \in Instances, NEW l \in Listeners,
             Accept(i, l) \/ Answer(i, l) \/ StopListener(i, l) \/ ListenerDrained(i, l)
      PROVE  (InOrder /\ UnderLock /\ SchemaReady)'
  <2>1. \A j \in Instances : life'[j].open => life[j].open
    BY <1>7 DEF Accept, Answer, StopListener, ListenerDrained, LifeTypes, Procs, Lives
  <2> QED BY <1>7, <2>1, SchemaUntouched DEF Accept, Answer, StopListener, ListenerDrained
<1>8. ASSUME NEW i \in Instances, Panic(i) \/ WorkerGoesOn(i) \/ BudgetOut(i)
      PROVE  (InOrder /\ UnderLock /\ SchemaReady)'
  <2>1. \A j \in Instances : life'[j].open => life[j].open
    <3>1. CASE Panic(i) BY <3>1 DEF Panic, LifeTypes, Lives
    <3>2. CASE WorkerGoesOn(i) BY <3>2 DEF WorkerGoesOn, LifeTypes, Lives
    <3>3. CASE BudgetOut(i) BY <3>3 DEF BudgetOut, LifeTypes, Lives
    <3> QED BY <1>8, <3>1, <3>2, <3>3
  <2> QED BY <1>8, <2>1, SchemaUntouched DEF Panic, WorkerGoesOn, BudgetOut
<1>9. ASSUME NEW i \in Instances,
             Signal(i) \/ AskListeners(i) \/ StopWorkers(i) \/ WorkersWaited(i)
             \/ CloseAll(i) \/ Exit(i)
      PROVE  (InOrder /\ UnderLock /\ SchemaReady)'
  <2>1. \A j \in Instances : life'[j].open => life[j].open
    <3>1. CASE Signal(i) \/ WorkersWaited(i) BY <3>1 DEF Signal, WorkersWaited
    <3>2. CASE AskListeners(i) BY <3>2 DEF AskListeners, LifeTypes, Lives
    <3>3. CASE StopWorkers(i) BY <3>3 DEF StopWorkers, LifeTypes, Lives
    <3>4. CASE CloseAll(i) BY <3>4 DEF CloseAll, LifeTypes, Lives
    <3>5. CASE Exit(i) BY <3>5 DEF Exit, NoLife, LifeTypes, Lives
    <3> QED BY <1>9, <3>1, <3>2, <3>3, <3>4, <3>5
  <2>2. \A j \in Instances : proc'[j] = proc[j] \/ ~(At(j, "read") \/ At(j, "apply"))'
    BY <1>9 DEF Signal, AskListeners, StopWorkers, WorkersWaited, CloseAll, Exit, Goes, Off, At,
       LifeTypes, Procs, Lives
  <2> QED
    BY <1>9, <2>1, <2>2, SchemaUntouched DEF Signal, AskListeners, StopWorkers, WorkersWaited,
       CloseAll, Exit
<1>10. ASSUME NEW i \in Instances, Crash(i)
       PROVE  (InOrder /\ UnderLock /\ SchemaReady)'
  <2>1. InOrder' /\ SchemaReady'
    BY <1>10 DEF Crash, NoLife, InOrder, SchemaReady, LifeTypes, Procs, Lives
  <2>2. UnderLock'
    BY <1>10 DEF Crash, Off, UnderLock, At, LifeTypes, Procs, Lives
  <2> QED BY <2>1, <2>2
<1> QED BY <1>1, <1>2, <1>3, <1>4, <1>5, <1>6, <1>7, <1>8, <1>9, <1>10 DEF Next

LEMMA StoppedStep ==
    ASSUME LifeTypes, StoppedInOrder, [Next]_yvars
    PROVE  StoppedInOrder'
<1> SUFFICES ASSUME NEW j \in Instances
             PROVE  StoppedInTurn(j)'
  BY DEF StoppedInOrder
<1>0. StoppedInTurn(j)
  BY DEF StoppedInOrder
<1> USE DEF StoppedInTurn, LifeTypes, Procs, Lives, At, AllDrained
<1>1. CASE proc'[j] = proc[j] /\ life'[j] = life[j]
  BY <1>0, <1>1
<1>2. CASE Start(j) \/ Connect(j) \/ Lock(j) \/ ReadApplied(j) \/ ApplyStep(j)
  <2>1. life'[j] = life[j]
    BY <1>2 DEF Start, Connect, Lock, ReadApplied, ApplyStep
  <2>2. ~At(j, "waited")' /\ ~At(j, "closed")'
    <3>1. CASE Start(j) BY <3>1 DEF Start, Off
    <3>2. CASE Connect(j) BY <3>2, ConnectGoes
    <3>3. CASE Lock(j) \/ ReadApplied(j) BY <3>3, Afters DEF Lock, ReadApplied, Goes
    <3>4. CASE ApplyStep(j) BY <3>4 DEF ApplyStep, Off
    <3> QED BY <1>2, <3>1, <3>2, <3>3, <3>4
  <2> QED BY <1>0, <2>1, <2>2
<1>3. CASE Serve(j)
  BY <1>3 DEF Serve, Goes, Running
<1>4. ASSUME NEW l \in Listeners,
             Accept(j, l) \/ Answer(j, l) \/ StopListener(j, l) \/ ListenerDrained(j, l)
      PROVE  StoppedInTurn(j)'
  <2>1. CASE Accept(j, l) BY <1>0, <2>1 DEF Accept
  <2>2. CASE Answer(j, l) BY <1>0, <2>2 DEF Answer
  <2>3. CASE StopListener(j, l) BY <1>0, <2>3 DEF StopListener
  <2>4. CASE ListenerDrained(j, l) BY <1>0, <2>4 DEF ListenerDrained
  <2> QED BY <1>4, <2>1, <2>2, <2>3, <2>4
<1>5. CASE Panic(j) \/ WorkerGoesOn(j)
  <2>1. CASE Panic(j) BY <1>0, <2>1 DEF Panic
  <2>2. CASE WorkerGoesOn(j) BY <1>0, <2>2 DEF WorkerGoesOn
  <2> QED BY <1>5, <2>1, <2>2
<1>6. CASE Signal(j) \/ AskListeners(j) \/ StopWorkers(j) \/ BudgetOut(j) \/ WorkersWaited(j)
  <2>1. CASE Signal(j) BY <1>0, <2>1 DEF Signal, Goes
  <2>2. CASE AskListeners(j) BY <1>0, <2>2 DEF AskListeners, Goes
  <2>3. CASE StopWorkers(j) BY <1>0, <2>3 DEF StopWorkers, Goes
  <2>4. CASE BudgetOut(j) BY <1>0, <2>4 DEF BudgetOut
  <2>5. CASE WorkersWaited(j) BY <1>0, <2>5 DEF WorkersWaited, Goes
  <2> QED BY <1>6, <2>1, <2>2, <2>3, <2>4, <2>5
<1>7. CASE CloseAll(j) \/ Exit(j) \/ Crash(j)
  <2>1. CASE CloseAll(j) BY <1>0, <2>1 DEF CloseAll, Goes
  <2>2. CASE Exit(j) \/ Crash(j) BY <2>2 DEF Exit, Crash, Off, NoLife
  <2> QED BY <1>7, <2>1, <2>2
<1>8. ASSUME NEW i \in Instances, i # j,
             \/ Start(i) \/ Connect(i) \/ Lock(i) \/ ReadApplied(i) \/ ApplyStep(i) \/ Serve(i)
             \/ \E l \in Listeners :
                  Accept(i, l) \/ Answer(i, l) \/ StopListener(i, l) \/ ListenerDrained(i, l)
             \/ Panic(i) \/ WorkerGoesOn(i)
             \/ Signal(i) \/ AskListeners(i) \/ StopWorkers(i) \/ BudgetOut(i) \/ WorkersWaited(i)
             \/ CloseAll(i) \/ Exit(i) \/ Crash(i)
      PROVE  proc'[j] = proc[j] /\ life'[j] = life[j]
  BY <1>8 DEF Start, Connect, Lock, ReadApplied, ApplyStep, Serve, Accept, Answer, StopListener,
     ListenerDrained, Panic, WorkerGoesOn, Signal, AskListeners, StopWorkers, BudgetOut,
     WorkersWaited, CloseAll, Exit, Crash, Goes
<1> QED BY <1>1, <1>2, <1>3, <1>4, <1>5, <1>6, <1>7, <1>8 DEF Next, yvars

LEMMA LifeInit == ASSUME Numbered, Init PROVE SchemaInv /\ StoppedInOrder
<1>1. LifeTypes BY LifeTypesInit
<1>2. InOrder
  <2>1. versions = {} /\ DOMAIN ran = {} BY DEF Init
  <2> QED BY <2>1 DEF InOrder
<1>3. SchemaInv BY <1>1, <1>2 DEF Init, Off, NoLife, At, SchemaInv, UnderLock, SchemaReady
<1>4. StoppedInOrder BY DEF Init, Off, NoLife, At, AllDrained, StoppedInOrder, StoppedInTurn
<1> QED BY <1>3, <1>4

LEMMA LifeStep ==
    ASSUME Numbered, SchemaInv, StoppedInOrder, [Next]_yvars
    PROVE  SchemaInv' /\ StoppedInOrder'
  BY LifeTypesStep, SchemaStep, StoppedStep DEF SchemaInv

LEMMA LifeHolds == SchemaInv /\ StoppedInOrder => SchemaReady /\ NothingClosedInUse
  BY DEF SchemaInv, StoppedInOrder, StoppedInTurn, AllDrained, NothingClosedInUse

\* However many instances of however many builds, numbered with gaps or without, start,
\* crash and start again, no migration is refused for another's, none is committed
\* before a lower one of its build, and one that serves has all of its own; and whatever arrives, panics or crashes on the way
\* down, the pools and stores of an instance that stops within its budget close
\* after its last request is answered and its worker has returned (run,
\* migrate.go:56-135; shutdownPlan.run, shutdown.go:68-113).
THEOREM StartsAndStopsInOrder == Numbered => (Spec => [](SchemaReady /\ NothingClosedInUse))
<1> SUFFICES ASSUME Numbered PROVE Spec => [](SchemaReady /\ NothingClosedInUse) OBVIOUS
<1> QED BY LifeInit, LifeStep, LifeHolds, PTL DEF Spec
=============================================================================
