------------------------------ MODULE Readiness ------------------------------
(***************************************************************************)
(* /readyz (internal/health/health.go): probes of what an instance depends *)
(* on, one evaluation shared by the requests that wait for it and kept for *)
(* a while, a log of what changed, and the withdrawal at shutdown.         *)
(*                                                                         *)
(* Time passes only while no handler has a step to take, and a probe is    *)
(* cut off at its timeout.                                                 *)
(***************************************************************************)
EXTENDS Integers, FiniteSets

CONSTANTS Callers, Dependencies, CacheFor, Timeout, MaxNow,
          MaxChanges  \* bound: times a dependency fails or recovers

VARIABLES
  now,
  usable, since,  \* each dependency, and when it last changed
  draining,       \* 0, or 1 + when readiness was withdrawn
  cachedEval,     \* the last evaluation
  lastFailed,     \* what the last change was logged as
  flight,         \* the evaluation under way
  caller,         \* each request
  logged,         \* history: what the log last said fails, and whether it said so twice
  changes

readyVars == <<now, usable, since, draining, cachedEval, lastFailed, flight, caller, logged, changes>>

Long == -(MaxNow + CacheFor + Timeout + 1)  \* before anything that matters
NoFlight == [on |-> FALSE, began |-> 0, left |-> {}, failed |-> {}, waiting |-> {}]
Idle == [pc |-> "idle", wrong |-> {}]

Init ==
  /\ now = 0 /\ usable \in [Dependencies -> BOOLEAN] /\ since = [d \in Dependencies |-> Long]
  /\ draining = 0
  /\ cachedEval = [evaluated |-> FALSE, failed |-> {}, at |-> 0] /\ lastFailed = {}
  /\ flight = NoFlight /\ caller = [c \in Callers |-> Idle]
  /\ logged = [failed |-> {}, twice |-> FALSE] /\ changes = 0

\* The last time a dependency was, or was not, usable.
Last(d, u) == IF usable[d] = u THEN now ELSE since[d]

\* What is wrong with an answer: the dependencies that have not been as it says for
\* longer than an evaluation takes and is kept, and readiness withdrawn before the
\* evaluation began.
Wrong(failed) ==
  {d \in Dependencies : now - Last(d, d \notin failed) >= CacheFor + Timeout}
    \cup (IF failed = {} /\ draining # 0 /\ now - (draining - 1) > Timeout THEN {"drain"} ELSE {})

Answered(c, failed) == [c EXCEPT !.pc = "answered", !.wrong = Wrong(failed)]

\* ReadyHandler.
ReadyHandler(c) ==
  /\ caller[c].pc = "idle"
  /\ caller' = [caller EXCEPT ![c] = [Idle EXCEPT !.pc = IF draining # 0 THEN "answered" ELSE "asked"]]
  /\ UNCHANGED <<now, usable, since, draining, cachedEval, lastFailed, flight, logged, changes>>

Fresh == cachedEval.evaluated /\ now - cachedEval.at < CacheFor

\* evaluate: the kept answer while it is fresh.
evaluate(c) ==
  /\ caller[c].pc = "asked"
  /\ caller' = [caller EXCEPT ![c] = IF Fresh THEN Answered(@, cachedEval.failed)
                                     ELSE [@ EXCEPT !.pc = "do"]]
  /\ UNCHANGED <<now, usable, since, draining, cachedEval, lastFailed, flight, logged, changes>>

\* flight.Do: the evaluation under way, or a new one.
Do(c) ==
  /\ caller[c].pc = "do"
  /\ flight' = IF flight.on THEN [flight EXCEPT !.waiting = @ \cup {c}]
               ELSE [on |-> TRUE, began |-> now, left |-> Dependencies, failed |-> {}, waiting |-> {c}]
  /\ caller' = [caller EXCEPT ![c].pc = "waiting"]
  /\ UNCHANGED <<now, usable, since, draining, cachedEval, lastFailed, logged, changes>>

\* A caller hangs up; the evaluation it may have started is not its own.
HangUp(c) ==
  /\ caller[c].pc = "waiting"
  /\ caller' = [caller EXCEPT ![c] = Idle]
  /\ flight' = [flight EXCEPT !.waiting = @ \ {c}]
  /\ UNCHANGED <<now, usable, since, draining, cachedEval, lastFailed, logged, changes>>

\* Check: the probes run at once, and each finds its dependency as it is then.
Probe(d) ==
  /\ flight.on /\ d \in flight.left
  /\ flight' = [flight EXCEPT !.left = @ \ {d}, !.failed = IF usable[d] THEN @ ELSE @ \cup {d}]
  /\ UNCHANGED <<now, usable, since, draining, cachedEval, lastFailed, caller, logged, changes>>

\* logChange: what fails, when that is not what failed before; nothing at boot
\* when nothing fails.
logChange(failed) ==
  IF cachedEval.evaluated /\ failed = lastFailed THEN UNCHANGED <<lastFailed, logged>>
  ELSE /\ lastFailed' = failed
       /\ logged' = IF failed = {} /\ ~cachedEval.evaluated THEN logged
                    ELSE [failed |-> failed, twice |-> logged.twice \/ failed = logged.failed]

Finish ==
  /\ flight.on /\ flight.left = {}
  /\ logChange(flight.failed)
  /\ cachedEval' = [evaluated |-> TRUE, failed |-> flight.failed, at |-> now]
  /\ caller' = [c \in Callers |-> IF c \in flight.waiting THEN Answered(caller[c], flight.failed)
                                  ELSE caller[c]]
  /\ flight' = NoFlight
  /\ UNCHANGED <<now, usable, since, draining, changes>>

Leave(c) ==
  /\ caller[c].pc = "answered" /\ caller' = [caller EXCEPT ![c] = Idle]
  /\ UNCHANGED <<now, usable, since, draining, cachedEval, lastFailed, flight, logged, changes>>

Drain ==
  /\ draining = 0 /\ draining' = now + 1
  /\ UNCHANGED <<now, usable, since, cachedEval, lastFailed, flight, caller, logged, changes>>

\* A dependency fails or recovers, or setup installs the database.
Change(d) ==
  /\ changes < MaxChanges /\ changes' = changes + 1
  /\ usable' = [usable EXCEPT ![d] = ~@] /\ since' = [since EXCEPT ![d] = now]
  /\ UNCHANGED <<now, draining, cachedEval, lastFailed, flight, caller, logged>>

Tick ==
  /\ now < MaxNow /\ now' = now + 1
  /\ flight.on => flight.left # {} /\ now < flight.began + Timeout
  /\ \A c \in Callers : caller[c].pc \in {"idle", "waiting"}
  /\ UNCHANGED <<usable, since, draining, cachedEval, lastFailed, flight, caller, logged, changes>>

Next ==
  \/ \E c \in Callers : ReadyHandler(c) \/ evaluate(c) \/ Do(c) \/ HangUp(c) \/ Leave(c)
  \/ \E d \in Dependencies : Probe(d) \/ Change(d)
  \/ Finish \/ Drain \/ Tick

Spec == Init /\ [][Next]_readyVars
-----------------------------------------------------------------------------
\* What /readyz answers was so: whoever started the evaluation and whoever hung up,
\* each dependency was as the answer says within the time an evaluation takes and
\* is kept, and an instance that is leaving says so to every request that comes
\* later than an evaluation takes ("the answer an orchestrator acts on is never
\* meaningfully older than it was", health.go:46).
AnswersTrue == \A c \in Callers : caller[c].wrong = {}

\* The log follows the evaluations: the last entry is what the last evaluation
\* found, and no two entries in a row say the same (logChange).
ChangesLogged ==
  /\ cachedEval.evaluated => logged.failed = cachedEval.failed
  /\ ~logged.twice
-----------------------------------------------------------------------------
(* What the proofs of these properties rest on.                            *)

\* health.go keeps an evaluation for cacheTTL, which is not zero.
KeptAWhile == CacheFor \in Nat \ {0} /\ Timeout \in Nat /\ MaxNow \in Nat

CallerFields == {"pc", "wrong"}

FlightFields == {"on", "began", "left", "failed", "waiting"}

ReadyShapes ==
  /\ now \in Nat /\ draining \in Nat /\ cachedEval.at \in Int
  /\ usable \in [Dependencies -> BOOLEAN]
  /\ since \in [Dependencies -> Int] /\ \A d \in Dependencies : since[d] <= now
  /\ DOMAIN caller = Callers /\ \A c \in Callers : DOMAIN caller[c] = CallerFields
  /\ DOMAIN flight = FlightFields /\ flight.began \in Int

\* A dependency was as a finding says at time t or later.
SoSince(t, failed, d) == Last(d, d \notin failed) >= t

\* An evaluation under way began no longer ago than its timeout, what it has probed
\* was so since it began, and readiness was not withdrawn before.
FlightRecent ==
  flight.on => /\ flight.began <= now /\ now <= flight.began + Timeout
               /\ flight.failed \cap flight.left = {}
               /\ \A d \in Dependencies : d \notin flight.left => SoSince(flight.began, flight.failed, d)
               /\ draining = 0 \/ draining - 1 >= flight.began

\* The kept evaluation was so within the time an evaluation takes.
KeptRecent ==
  cachedEval.evaluated =>
    /\ cachedEval.at <= now
    /\ \A d \in Dependencies : SoSince(cachedEval.at - Timeout, cachedEval.failed, d)

\* No time passes between the look at the withdrawal and the evaluation.
AskedNow == \A c \in Callers : caller[c].pc \in {"asked", "do"} => draining = 0 \/ draining = now + 1

LogFollows == lastFailed = logged.failed /\ (~cachedEval.evaluated => lastFailed = {})

ReadyInv == ReadyShapes /\ FlightRecent /\ KeptRecent /\ AskedNow /\ LogFollows /\ AnswersTrue /\ ChangesLogged
=============================================================================
