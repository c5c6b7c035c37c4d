---------------------------- MODULE SmtpListener ----------------------------
(***************************************************************************)
(* The SMTP submission listener an administrator switches on and off:      *)
(* the stored row (smtp_submission/repositories/stores/postgres/store.go), *)
(* the use case that edits and reconciles it (usecases/usecase.go) and the *)
(* supervisor that owns the socket (usecases/supervisor.go).               *)
(*                                                                         *)
(* A configuration's certificate and key travel together everywhere        *)
(* outside the store's columns, so `pair' stands for both.  An Apply holds *)
(* the supervisor's mutex from end to end and is one step; what runs       *)
(* beside it is the accept loop, which fails in one step and takes the     *)
(* mutex to report it in a later one, and the edits and reconcile passes,  *)
(* which read the row in one step and act on what they read in others.     *)
(***************************************************************************)
EXTENDS Naturals, FiniteSets

CONSTANTS Editors,      \* Update requests in flight; one more actor reconciles
          Changes,      \* what a form may ask for
          Ports,        \* the ports another process may take
          MaxReports    \* bound: accept loops dead and not yet reported

VARIABLES stored,       \* the row; the default when there is none
          running,      \* Supervisor.running
          gen,          \* Supervisor.generation
          sockets,      \* sockets the kernel holds for this process
          reports,      \* generations whose accept loop died and has yet to say so
          actor,        \* what each Update and the reconcile loop is about to do
          taken,        \* ports some other process holds
          lostPair      \* history: an edit that named no keypair removed one

lvars == <<stored, running, gen, sockets, reports, actor, taken, lostPair>>

None == "none"
Reconciler == "reconciler"
Actors == Editors \cup {Reconciler}

Default == [enabled |-> FALSE, scope |-> "loopback", port |-> 587,
            insecure |-> FALSE, pair |-> None]

\* No listener: what runs is always enabled, so this is no running one.
Off == Default

Addr(c) == <<c.scope, c.port>>

maxPort == 65535
smtpRelayPort == 25

\* Config.Validate, the rules forms can break: a pair that does not match is
\* refused before it is stored, so every pair here parses.
Validate(c) ==
    /\ c.port \in 1 .. maxPort /\ c.port # smtpRelayPort
    /\ c.insecure => c.scope = "loopback"
    /\ c.scope = "all" => c.pair # None
    /\ c.enabled => c.pair # None \/ c.insecure

\* A change that both clears and sets the pair, or brings half of one, is an
\* error that stores nothing, so `tls' is what is left: keep, clear or a pair.
merge(c, ch) ==
    [enabled |-> ch.enabled, scope |-> ch.scope, port |-> ch.port,
     insecure |-> ch.insecure,
     pair |-> IF ch.tls = "keep" THEN c.pair
              ELSE IF ch.tls = "clear" THEN None ELSE ch.tls]

\* External: the kernel refuses a second listening socket on a port when
\* either of the two is on every interface or both are on the same one.
Conflict(a, b) == a[2] = b[2] /\ (a[1] = b[1] \/ "all" \in {a[1], b[1]})

\* net.Listen in bindLocked.  The server is built first, and building fails
\* only on a keypair that does not parse.
CanBind(c, held) ==
    c.port \notin taken /\ \A s \in held : ~Conflict(Addr(c), Addr(s.cfg))

\* generation only ever has to differ from the ones still about, so the next
\* one is a small number in no use: the state stays finite without a bound.
Generations == {gen} \cup reports \cup {s.gen : s \in sockets}
NextGeneration == CHOOSE n \in 1 .. Cardinality(Generations) + 1 : n \notin Generations

Mine == {s \in sockets : s.gen = gen}

matchesRunningLocked(c) ==
    IF ~c.enabled THEN running = Off ELSE running = c

\* installLocked: a new generation with its own accept loop.
installLocked(c, held) ==
    /\ gen' = NextGeneration
    /\ running' = c
    /\ sockets' = held \cup {[gen |-> NextGeneration, cfg |-> c, accepting |-> TRUE]}

\* stopLocked and nothing after it: the socket is closed, the accept loop is
\* waited for, the sessions are shut down and the generation moves on.
stopLocked ==
    /\ gen' = IF running = Off THEN gen ELSE NextGeneration
    /\ running' = Off
    /\ sockets' = sockets \ Mine

Unchanged == UNCHANGED <<gen, running, sockets>>

\* A move to another address binds first and gives the old one up after.
Move(c) ==
    IF CanBind(c, sockets) THEN installLocked(c, sockets \ Mine) ELSE Unchanged

\* The same address cannot be held twice: stop, start, and on a failure
\* restoreLocked starts the previous configuration again, which can fail too.
\* While the address is free another process may take it, and give it up.
Restart(c) ==
    LET held == sockets \ Mine
    IN  \/ CanBind(c, held) /\ installLocked(c, held)
        \/ CanBind(running, held) /\ installLocked(running, held)
        \/ stopLocked

Apply(c) ==
    IF matchesRunningLocked(c) THEN Unchanged
    ELSE IF ~c.enabled THEN stopLocked
    ELSE IF running = Off \/ Addr(running) # Addr(c) THEN Move(c)
    ELSE Restart(c)

-----------------------------------------------------------------------------
Idle == [pc |-> "idle", cfg |-> Default]

Init ==
    /\ stored = Default
    /\ running = Off
    /\ gen = 0
    /\ sockets = {}
    /\ reports = {}
    /\ actor = [a \in Actors |-> Idle]
    /\ taken = {}
    /\ lostPair = FALSE

\* Update and Reconcile both begin by reading the row; a read that fails ends
\* them with nothing done, which is the same as not having begun.
ReadStored(a) ==
    /\ actor[a].pc = "idle"
    /\ actor' = [actor EXCEPT ![a] = [pc |-> "read", cfg |-> stored]]
    /\ UNCHANGED <<stored, running, gen, sockets, reports, taken, lostPair>>

\* merge, Validate and Save: stored before it is applied.  The pair that was
\* read is written back, whoever replaced it in between.
Save(a, ch) ==
    LET c == merge(actor[a].cfg, ch)
    IN  /\ a # Reconciler
        /\ actor[a].pc = "read"
        /\ Validate(c)
        /\ stored' = c
        /\ actor' = [actor EXCEPT ![a] = [pc |-> "saved", cfg |-> c]]
        /\ lostPair' = (lostPair \/ (ch.tls = "keep" /\ c.pair # stored.pair))
        /\ UNCHANGED <<running, gen, sockets, reports, taken>>

\* The Apply at the end of Update, of what that request stored, and of
\* Reconcile, of what it read; both are then done.
ApplyRead(a) ==
    /\ actor[a].pc = (IF a = Reconciler THEN "read" ELSE "saved")
    /\ Validate(actor[a].cfg)
    /\ Apply(actor[a].cfg)
    /\ actor' = [actor EXCEPT ![a] = Idle]
    /\ UNCHANGED <<stored, reports, taken, lostPair>>

\* server.Serve returns an error of its own: nothing is accepted any more, and
\* the goroutine still has to take the mutex to report it.  Until then an Apply
\* may stop or replace the listener it belongs to.
LoopFails(s) ==
    /\ s.accepting /\ Cardinality(reports) < MaxReports
    /\ sockets' = (sockets \ {s}) \cup {[s EXCEPT !.accepting = FALSE]}
    /\ reports' = reports \cup {s.gen}
    /\ UNCHANGED <<stored, running, gen, actor, taken, lostPair>>

serveAnyGeneration(g) ==
    /\ reports' = reports \ {g}
    /\ running' = Off
    /\ UNCHANGED <<stored, gen, sockets, actor, taken, lostPair>>

\* The goroutine has the mutex: when no newer listener has taken over it
\* forgets the one that died.  It does not close the socket.
serve(g) ==
    /\ reports' = reports \ {g}
    /\ running' = IF g = gen THEN Off ELSE running
    /\ UNCHANGED <<stored, gen, sockets, actor, taken, lostPair>>

\* External: the runtime closes a socket nothing refers to.
Collected(s) ==
    /\ ~s.accepting /\ (s.gen # gen \/ running = Off)
    /\ sockets' = sockets \ {s}
    /\ UNCHANGED <<stored, running, gen, reports, actor, taken, lostPair>>

\* Another process takes or gives up a port nobody here holds.
PortTaken(p) ==
    /\ \A s \in sockets : s.cfg.port # p
    /\ taken' = IF p \in taken THEN taken \ {p} ELSE taken \cup {p}
    /\ UNCHANGED <<stored, running, gen, sockets, reports, actor, lostPair>>

\* The process restarts: the row is what is left.
Restarted ==
    /\ running' = Off /\ sockets' = {} /\ gen' = 0 /\ reports' = {}
    /\ actor' = [a \in Actors |-> Idle]
    /\ UNCHANGED <<stored, taken, lostPair>>

Next ==
    \/ \E a \in Actors : ReadStored(a) \/ ApplyRead(a)
    \/ \E a \in Editors, ch \in Changes : Save(a, ch)
    \/ \E s \in sockets : LoopFails(s) \/ Collected(s)
    \/ \E g \in reports : serve(g)
    \/ \E p \in Ports : PortTaken(p)
    \/ Restarted

Spec == Init /\ [][Next]_lvars

\* The reconcile loop ticks and a start reconciles before anything else, a
\* goroutine that is done reports and returns, and an unreachable socket is
\* collected, whatever the administrators do.
FairSpec ==
    /\ Spec
    /\ WF_lvars(ReadStored(Reconciler)) /\ SF_lvars(ApplyRead(Reconciler))
    /\ \A a \in Editors : WF_lvars(ApplyRead(a))
    /\ WF_lvars(\E g \in reports : serve(g))
    /\ WF_lvars(\E s \in sockets : Collected(s))

-----------------------------------------------------------------------------
(* Properties *)

\* What the supervisor reports is what a client meets: whatever accepts
\* connections is the current generation's socket, under the configuration
\* State() shows, and that configuration never takes a password in the clear
\* off loopback, through every interleaving of stale applies and of accept
\* loops that die late (supervisor.go:279-310).
ReportsWhatItServes ==
    /\ \A s \in sockets : s.accepting => s.gen = gen /\ running = s.cfg
    /\ running # Off => Validate(running) /\ running.enabled
                         /\ \E s \in sockets : s.gen = gen /\ s.cfg = running

\* A step that takes a working listener down without an administrator having
\* asked for it to be off, when another address was wanted: an unavailable
\* port must cost nothing but the move (supervisor.go:141-150).
DownForAMove ==
    /\ \E a \in Actors :
         /\ actor'[a] # actor[a] /\ actor[a].pc # "idle" /\ actor'[a] = Idle
         /\ actor[a].cfg.enabled
         /\ running # Off /\ Addr(running) # Addr(actor[a].cfg)
    /\ running' = Off /\ gen' # 0

\* An edit that neither clears nor brings a keypair leaves the stored one as
\* it is (usecase.go:281-285, merge).  It fails: the pair read before another
\* edit replaced it is written back.
PairKept == ~lostPair

\* Once the forms have been quiet for ever and no other process holds the
\* port, what is stored is what is served (usecase.go:251-254).
StoredIsServed ==
    <>[](/\ \A a \in Editors : actor[a].pc = "idle"
         /\ stored.enabled /\ stored.port \notin taken)
      => []<>(running = stored)
-----------------------------------------------------------------------------
(* What the proofs of these properties rest on.                            *)

SocketFields == {"gen", "cfg", "accepting"}

\* A generation is one socket's, one whose accept loop has died accepts nothing,
\* and there are only so many of them.
ListenerInv ==
    /\ IsFiniteSet(sockets) /\ IsFiniteSet(reports)
    /\ DOMAIN actor = Actors
    /\ \A s \in sockets : DOMAIN s = SocketFields
    /\ \A s, t \in sockets : s.gen = t.gen => s = t
    /\ \A s \in sockets : s.gen \in reports => ~s.accepting
    /\ ReportsWhatItServes
=============================================================================
