------------------------------ MODULE FirstRun ------------------------------
(***************************************************************************)
(* First-run setup (setup/usecases/setup_usecase.go): the wizard's attempt *)
(* connects a database, migrates it, creates the first administrator       *)
(* (auth_usecase.go, CreateAdmin) and writes the configuration file, whose *)
(* existence is what closes setup.  Any step may fail, the caller may hang *)
(* up, and the process may die and start again (cmd/api/main.go).          *)
(*                                                                         *)
(* setupMu lets one attempt run at a time, so one is modelled; what it     *)
(* creates is named by its number, which also stands for the key it draws. *)
(***************************************************************************)
EXTENDS Naturals, FiniteSets

CONSTANTS Databases,    \* databases the wizard can name
          Emails,       \* addresses it can name
          MaxAttempts,  \* bound: attempts begun
          MaxFaults     \* bound: failures, hang-ups and crashes

VARIABLES file,      \* the configuration file
          conn,      \* the database behind the shared connection
          dbs,       \* what each database holds
          attempt,   \* the Setup in progress
          signing,   \* the key behind the token maker and the tracking signer
          up, attempts, faults,
          excuse     \* history: attempts whose rows were not taken back out

fvars == <<file, conn, dbs, attempt, signing, up, attempts, faults, excuse>>

NoFile == [state |-> "absent", db |-> "none", key |-> 0]
TornFile == [NoFile EXCEPT !.state = "torn"]
Idle == [pc |-> "idle", db |-> "none", email |-> "none", n |-> 0, gone |-> FALSE]

Fault == faults < MaxFaults /\ faults' = faults + 1

Init ==
    /\ file = NoFile /\ conn = "none" /\ signing = 0 /\ up = TRUE
    /\ dbs = [d \in Databases |-> [schema |-> FALSE, tenants |-> {}, users |-> {}, members |-> {}]]
    /\ attempt = Idle /\ attempts = 0 /\ faults = 0 /\ excuse = {}

-----------------------------------------------------------------------------
(* One attempt, step by step.                                              *)

\* The order before: the configuration first, then the administrator.
StepAfterSavingFirst(pc) ==
    CASE pc = "connect" -> "migrate" [] pc = "migrate" -> "save"
      [] pc = "save" -> "write"      [] pc = "write" -> "tenant"
      [] pc = "tenant" -> "user"     [] pc = "user" -> "member"
      [] pc = "member" -> "sign"     [] pc = "sign" -> "idle"

\* The order of Setup's steps: the configuration is saved last.
StepAfter(pc) ==
    CASE pc = "connect" -> "migrate" [] pc = "migrate" -> "tenant"
      [] pc = "tenant" -> "user"     [] pc = "user" -> "member"
      [] pc = "member" -> "save"     [] pc = "save" -> "write"
      [] pc = "write" -> "sign"      [] pc = "sign" -> "idle"

At(pc) == up /\ attempt.pc = pc
Onward == attempt' = [attempt EXCEPT !.pc = StepAfter(@)]
GiveUp == attempt' = Idle
Undo == attempt' = [attempt EXCEPT !.pc = "undo"]

\* A statement fails by itself, and always once its caller has hung up.
Works == ~attempt.gone /\ UNCHANGED faults
Fails == (attempt.gone /\ UNCHANGED faults) \/ Fault

\* IsSetup: only a file that is absent leaves setup open.  A request that is
\* refused by its own contents changes nothing and is left out.
Setup(d, e) ==
    /\ up /\ attempt.pc = "idle" /\ file.state = "absent"
    /\ attempts < MaxAttempts /\ attempts' = attempts + 1
    /\ attempt' = [pc |-> "connect", db |-> d, email |-> e, n |-> attempts + 1, gone |-> FALSE]
    /\ UNCHANGED <<file, conn, dbs, signing, up, faults, excuse>>

\* The wizard's browser goes away: the request's context is cancelled.
HangUp ==
    /\ up /\ attempt.pc # "idle" /\ ~attempt.gone /\ Fault
    /\ attempt' = [attempt EXCEPT !.gone = TRUE]
    /\ UNCHANGED <<file, conn, dbs, signing, up, attempts, excuse>>

\* Connect takes no context; the shared connection moves at once.
Connect ==
    /\ At("connect")
    /\ \/ Onward /\ conn' = attempt.db /\ UNCHANGED faults
       \/ GiveUp /\ Fault /\ UNCHANGED conn
    /\ UNCHANGED <<file, dbs, signing, up, attempts, excuse>>

Migrate ==
    /\ At("migrate")
    /\ \/ Onward /\ dbs' = [dbs EXCEPT ![conn].schema = TRUE] /\ UNCHANGED faults
       \/ GiveUp /\ Fault /\ UNCHANGED dbs
    /\ UNCHANGED <<file, conn, signing, up, attempts, excuse>>

\* CreateAdmin: a tenant of its own, ...
CreateTenant ==
    /\ At("tenant")
    /\ \/ Works /\ Onward /\ dbs' = [dbs EXCEPT ![conn].tenants = @ \cup {attempt.n}]
       \/ Fails /\ GiveUp /\ UNCHANGED dbs
    /\ UNCHANGED <<file, conn, signing, up, attempts, excuse>>

\* ... the user, whose address is unique in the database, ...
CreateUser ==
    /\ At("user")
    /\ LET taken == \E u \in dbs[conn].users : u.email = attempt.email
       IN  \/ /\ ~taken /\ Works /\ Onward
              /\ dbs' = [dbs EXCEPT ![conn].users = @ \cup {[n |-> attempt.n, email |-> attempt.email]}]
           \/ /\ (taken /\ UNCHANGED faults) \/ Fails
              /\ Undo /\ UNCHANGED dbs
    /\ UNCHANGED <<file, conn, signing, up, attempts, excuse>>

\* ... and the membership that lets it act in the tenant.
Assign ==
    /\ At("member")
    /\ \/ Works /\ Onward /\ dbs' = [dbs EXCEPT ![conn].members = @ \cup {attempt.n}]
       \/ Fails /\ Undo /\ UNCHANGED dbs
    /\ UNCHANGED <<file, conn, signing, up, attempts, excuse>>

\* saveConfig: os.WriteFile empties the file before it writes it, and it can
\* fail on either side of that.
Save ==
    /\ At("save")
    /\ \/ Onward /\ file' = TornFile /\ UNCHANGED faults
       \/ Undo /\ Fault /\ UNCHANGED file
    /\ UNCHANGED <<conn, dbs, signing, up, attempts, excuse>>

Write ==
    /\ At("write")
    /\ \/ /\ Onward /\ file' = [state |-> "whole", db |-> conn, key |-> attempt.n]
          /\ UNCHANGED faults
       \/ Undo /\ Fault /\ UNCHANGED file
    /\ UNCHANGED <<conn, dbs, signing, up, attempts, excuse>>

\* RemoveAdmin: memberships, user and tenant, stopping at the first delete that
\* fails.  It is given the request's own context: a caller who has hung up, which
\* is often why the attempt failed, has nothing taken back out.
RemoveAdmin ==
    /\ At("undo")
    /\ \E done \in 0..3 :
         /\ IF done = 3 THEN Works ELSE Fails
         /\ attempt.gone => done = 0
         /\ dbs' = [dbs EXCEPT ![conn].members = IF done > 0 THEN @ \ {attempt.n} ELSE @,
                               ![conn].users = IF done > 1 THEN {u \in @ : u.n # attempt.n} ELSE @,
                               ![conn].tenants = IF done > 2 THEN @ \ {attempt.n} ELSE @]
         /\ excuse' = IF done = 3 THEN excuse ELSE excuse \cup {attempt.n}
    /\ GiveUp
    /\ UNCHANGED <<file, conn, signing, up, attempts>>

\* The token maker and the tracking signer move to the key just saved.
SetKeys ==
    /\ At("sign") /\ Onward
    /\ signing' = attempt.n
    /\ UNCHANGED <<file, conn, dbs, up, attempts, faults, excuse>>

-----------------------------------------------------------------------------
(* The process.                                                            *)

Crash ==
    /\ up /\ Fault
    /\ up' = FALSE /\ attempt' = Idle /\ conn' = "none" /\ signing' = 0
    /\ excuse' = IF attempt.pc \in {"user", "member", "undo", "save", "write"}
                 THEN excuse \cup {attempt.n} ELSE excuse
    /\ UNCHANGED <<file, dbs, attempts>>

\* Without a file the process waits for setup; with one it connects and migrates
\* before it serves; an empty one names no database and it refuses to start.
Boot ==
    /\ ~up /\ file.state # "torn" /\ up' = TRUE
    /\ conn' = file.db /\ signing' = file.key
    /\ dbs' = IF file.state = "whole" THEN [dbs EXCEPT ![file.db].schema = TRUE] ELSE dbs
    /\ UNCHANGED <<file, attempt, attempts, faults, excuse>>

\* One cut off so that it does not parse is only logged, and the process waits
\* for a setup that the file's existence refuses.
BootUnreadable ==
    /\ ~up /\ file.state = "torn" /\ up' = TRUE
    /\ UNCHANGED <<file, conn, dbs, attempt, signing, attempts, faults, excuse>>

Next ==
    \/ \E d \in Databases, e \in Emails : Setup(d, e)
    \/ HangUp \/ Connect \/ Migrate \/ CreateTenant \/ CreateUser \/ Assign
    \/ Save \/ Write \/ RemoveAdmin \/ SetKeys \/ Crash \/ Boot \/ BootUnreadable

Spec == Init /\ [][Next]_fvars

-----------------------------------------------------------------------------
(* Properties *)

\* The administrator of attempt n is complete in database d.
Administrator(d, n) ==
    /\ dbs[d].schema
    /\ n \in dbs[d].tenants /\ n \in dbs[d].members
    /\ \E u \in dbs[d].users : u.n = n

\* What is there hangs together: a membership has its user, and a user its tenant.
NoOrphans ==
    \A d \in Databases : /\ \A n \in dbs[d].members : \E u \in dbs[d].users : u.n = n
                         /\ \A u \in dbs[d].users : u.n \in dbs[d].tenants

\* However attempts fail, retry, are hung up on and die: a whole configuration file
\* names a database where its own attempt's administrator is complete; once no
\* attempt is running the connection and both signing keys are the file's; while
\* setup is open a database holds nothing but what an attempt could not take back
\* out, for its caller had hung up, a delete failed or the process died; and even
\* that is no membership without its user and no user without its tenant.  Nothing is
\* said of a file torn by a save that failed, which closes setup for good (Setup,
\* setup_usecase.go:127-236; RemoveAdmin, auth_usecase.go:292-313).
SetupSound ==
    /\ file.state = "whole" => Administrator(file.db, file.key)
    /\ file.state = "whole" /\ up /\ attempt.pc = "idle" => conn = file.db /\ signing = file.key
    /\ file.state = "absent" /\ attempt.pc = "idle" =>
         \A d \in Databases : dbs[d].tenants \subseteq excuse
    /\ NoOrphans

\* CreateAdmin "either creates all of it or none of it ... so a refused setup can
\* simply be tried again" (auth_usecase.go:85-88): while the process lives, nothing
\* of an attempt that failed is left.  It fails when the caller hangs up before the
\* membership is written: the cleanup runs under the same cancelled context, the
\* user stays, and a retry with the same address is refused.  So does a delete that
\* fails by itself.
AllOrNone ==
    [][attempt.pc # "idle" /\ attempt'.pc = "idle" /\ up' /\ file'.state = "absent" =>
         \A d \in Databases : attempt.n \notin dbs'[d].tenants]_fvars

\* The configuration file's existence means that every earlier step, the first
\* administrator included, succeeded (the comment on IsSetup).  It fails for a file
\* torn by a save that then took the administrator out.
FileMeansAdministrator ==
    file.state # "absent" /\ attempt.pc = "idle" =>
        \E d \in Databases, n \in 1..MaxAttempts : Administrator(d, n)
-----------------------------------------------------------------------------
(* What the proofs of these properties rest on.                            *)

DbFields == {"schema", "tenants", "users", "members"}

AttemptFields == {"pc", "db", "email", "n", "gone"}

SetupSteps == {"connect", "migrate", "tenant", "user", "member", "save", "write", "sign", "undo"}

SetupShapes ==
    /\ DOMAIN dbs = Databases /\ \A d \in Databases : DOMAIN dbs[d] = DbFields
    /\ DOMAIN attempt = AttemptFields
    /\ attempt.pc \in {"idle"} \cup SetupSteps
    /\ file.state \in {"absent", "torn", "whole"}

\* What each step of an attempt stands on: a process that is up, the connection of
\* its own database, and what the steps before it created there.
StandsOn ==
    /\ attempt.pc # "idle" => up /\ attempt.db \in Databases
    /\ attempt.pc \in SetupSteps \ {"connect"} => conn = attempt.db
    /\ attempt.pc \in {"tenant", "user", "member", "save", "write"} => dbs[conn].schema
    /\ attempt.pc \in {"user", "member", "save", "write"} => attempt.n \in dbs[conn].tenants
    /\ attempt.pc \in {"member", "save", "write"} => \E u \in dbs[conn].users : u.n = attempt.n
    /\ attempt.pc \in {"save", "write"} => attempt.n \in dbs[conn].members

\* The file is there from Save on, and whole from Write on.
FileFollows ==
    /\ attempt.pc \in {"connect", "migrate", "tenant", "user", "member", "save"} => file.state = "absent"
    /\ attempt.pc = "write" => file.state = "torn"
    /\ attempt.pc = "undo" => file.state \in {"absent", "torn"}
    /\ attempt.pc = "sign" => file.state = "whole" /\ file.db = attempt.db /\ file.key = attempt.n
    /\ file.state = "torn" => attempt.pc \in {"write", "undo", "idle"}
    /\ file.state = "whole" => /\ file.db \in Databases /\ Administrator(file.db, file.key)
                               /\ up /\ attempt.pc = "idle" => conn = file.db /\ signing = file.key

\* While setup is open, whatever is there is the running attempt's, or was left.
OnlyItsOwn ==
    file.state = "absent" =>
        \A d \in Databases : \A n \in dbs[d].tenants :
            n \in excuse \/ (n = attempt.n /\ d = conn /\ attempt.pc \in {"user", "member", "save", "undo"})

SetupInv == SetupShapes /\ StandsOn /\ FileFollows /\ OnlyItsOwn /\ NoOrphans
=============================================================================
