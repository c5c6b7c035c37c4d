----------------------------- MODULE MCPlatform -----------------------------
(***************************************************************************)
(* What the rest stands on, for TLC: Access, SignIn, Accounts, SecretKeys, *)
(* FirstRun, Settings, Providers, Lifecycle and Readiness side by side.    *)
(* They share no state here, so a behaviour is one of one of them: `part`  *)
(* says which, and the variables of the others stay 0.                     *)
(***************************************************************************)
EXTENDS Integers, Sequences, FiniteSets

CONSTANTS
  \* Access
  ApiKeys, Members, Levels, Gateways, TTL, Slow, AccessUntil, MaxGrants,
  \* SignIn
  Subjects, Max, BlockFor, Capacity, EvictionProbe, SweepInterval, Records, Slots, NoSubject, SignInUntil,
  \* Accounts
  Factors, Roles,
  \* SecretKeys
  DataKeys, FirstKey, Stores, Values, Writers, MaxChanges, MaxKeyFaults,
  \* FirstRun
  Databases, Emails, MaxAttempts, MaxSetupFaults,
  \* Settings
  Servers, Pages, Messages, FromConfig, DefaultDays, MaxDays, Absent, MaxSaves, MaxQueryFaults,
  \* Providers
  Ids, KindOf, Fold(_), Requests, Drafts, Froms, Forms, Sends, MaxEdits, MaxBuilt,
  \* Lifecycle: the instances of a deploy, and one whose listeners are several
  Instances, Steps(_), Listeners, MaxRequests, Attempts, MaxFaults,
  Stopping, StoppingListeners, MaxStoppingRequests, MaxStoppingFaults,
  \* Readiness
  Probers, Dependencies, CacheFor, Timeout, ReadyUntil, MaxTurns

VARIABLES part,  \* which component this behaviour is of
  grant, expiresAt, cached, pending, evicting, lostAt, closedBy, late, reopened,
  recs, recency, running, lastSweep, guesses,
  account, enrolling, request, confirmed, raisedBy, outside,
  ring, rows, change, writer, backup, changes, undone,
  conn, dbs, attempt, signing, up, attempts,
  snapshot, ticker, trigger, worker, enforced, lastSaver, chosen, saves,
  cache, open, send, built, typed, latest, overlapped,
  versions, lock, proc, life, refused, ran,
  usable, since, draining, cachedEval, lastFailed, flight, caller, logged, turns,
  now, edits, file, faults, excuse, row, editor

granting == <<grant, expiresAt, cached, pending, evicting, lostAt, closedBy, late, reopened>>
guessing == <<recs, recency, running, lastSweep, guesses>>
enlisting == <<account, enrolling, request, confirmed, raisedBy, outside>>
sealing == <<ring, rows, change, writer, backup, changes, undone>>
installing == <<conn, dbs, attempt, signing, up, attempts>>
setting == <<snapshot, ticker, trigger, worker, enforced, lastSaver, chosen, saves>>
pooling == <<cache, open, send, built, typed, latest, overlapped>>
living == <<versions, lock, proc, life, refused, ran>>
probing == <<usable, since, draining, cachedEval, lastFailed, flight, caller, logged, turns>>
vars == <<part, now, edits, file, faults, excuse, row, editor, granting, guessing, enlisting,
        sealing, installing, setting, pooling, living, probing>>

NoGranting ==
  /\ grant = 0 /\ expiresAt = 0 /\ cached = 0 /\ pending = 0 /\ evicting = 0 /\ lostAt = 0
  /\ closedBy = 0 /\ late = 0 /\ reopened = 0
NoGuessing ==
  /\ recs = 0 /\ recency = 0 /\ running = 0 /\ lastSweep = 0 /\ guesses = 0
NoEnlisting ==
  /\ account = 0 /\ enrolling = 0 /\ request = 0 /\ confirmed = 0 /\ raisedBy = 0 /\ outside = 0
NoSealing ==
  /\ ring = 0 /\ rows = 0 /\ change = 0 /\ writer = 0 /\ backup = 0 /\ changes = 0 /\ undone = 0
NoInstalling ==
  /\ conn = 0 /\ dbs = 0 /\ attempt = 0 /\ signing = 0 /\ up = 0 /\ attempts = 0
NoSetting ==
  /\ snapshot = 0 /\ ticker = 0 /\ trigger = 0 /\ worker = 0 /\ enforced = 0 /\ lastSaver = 0
  /\ chosen = 0 /\ saves = 0
NoPooling ==
  /\ cache = 0 /\ open = 0 /\ send = 0 /\ built = 0 /\ typed = 0 /\ latest = 0 /\ overlapped = 0
NoLiving ==
  /\ versions = 0 /\ lock = 0 /\ proc = 0 /\ life = 0 /\ refused = 0 /\ ran = 0
NoProbing ==
  /\ usable = 0 /\ since = 0 /\ draining = 0 /\ cachedEval = 0 /\ lastFailed = 0 /\ flight = 0
  /\ caller = 0 /\ logged = 0 /\ turns = 0

K == INSTANCE Access WITH
       Keys <- ApiKeys, Instances <- Gateways, MaxNow <- AccessUntil, MaxEdits <- MaxGrants

G == INSTANCE SignIn WITH MaxNow <- SignInUntil

U == INSTANCE Accounts WITH Secrets <- Factors

R == INSTANCE SecretKeys WITH Keys <- DataKeys, MaxFaults <- MaxKeyFaults

F == INSTANCE FirstRun WITH MaxFaults <- MaxSetupFaults

T == INSTANCE Settings WITH
       Instances <- Servers, Editors <- Pages, MaxFaults <- MaxQueryFaults

P == INSTANCE Providers WITH Editors <- Forms

\* Two instances share the schema, and what one of them closes on its way down is its
\* own: the start is checked with two of them, the stop with two listeners of one.
L == INSTANCE Lifecycle
D == INSTANCE Lifecycle WITH
       Instances <- Stopping, Listeners <- StoppingListeners,
       MaxRequests <- MaxStoppingRequests, MaxFaults <- MaxStoppingFaults

H == INSTANCE Readiness WITH
       Callers <- Probers, MaxNow <- ReadyUntil, MaxChanges <- MaxTurns, changes <- turns

\* What the code gives these: times that are whole, absences that are no member.
ASSUME AccessAssumption == K!TimesOK
ASSUME LimiterAssumption == G!LimitsOK
ASSUME KeyAssumption == R!StoresListed
ASSUME SettingsAssumption == T!DaysOK
ASSUME IdsAssumption == P!IdsOK
ASSUME ReadyAssumption == H!KeptAWhile
ASSUME StepsAssumption ==
  /\ 0 \notin Instances \cup Stopping
  /\ \A i \in Instances \cup Stopping :
        /\ Steps(i) \subseteq Nat
        /\ \A O \in SUBSET Steps(i) : O # {} => \E v \in O : \A w \in O : v <= w

Init ==
  \/ /\ part = "access" /\ K!Init
     /\ file = 0 /\ faults = 0 /\ excuse = 0 /\ row = 0 /\ editor = 0
     /\ NoGuessing /\ NoEnlisting /\ NoSealing /\ NoInstalling /\ NoSetting
     /\ NoPooling /\ NoLiving /\ NoProbing
  \/ /\ part = "signin" /\ G!Init
     /\ edits = 0 /\ file = 0 /\ faults = 0 /\ excuse = 0 /\ row = 0
     /\ editor = 0 /\ NoGranting /\ NoEnlisting /\ NoSealing /\ NoInstalling
     /\ NoSetting /\ NoPooling /\ NoLiving /\ NoProbing
  \/ /\ part = "accounts" /\ U!Init
     /\ now = 0 /\ edits = 0 /\ file = 0 /\ faults = 0 /\ excuse = 0
     /\ row = 0 /\ editor = 0 /\ NoGranting /\ NoGuessing /\ NoSealing
     /\ NoInstalling /\ NoSetting /\ NoPooling /\ NoLiving /\ NoProbing
  \/ /\ part = "secrets" /\ R!Init
     /\ now = 0 /\ edits = 0 /\ row = 0 /\ editor = 0 /\ NoGranting
     /\ NoGuessing /\ NoEnlisting /\ NoInstalling /\ NoSetting /\ NoPooling
     /\ NoLiving /\ NoProbing
  \/ /\ part = "setup" /\ F!Init
     /\ now = 0 /\ edits = 0 /\ row = 0 /\ editor = 0 /\ NoGranting
     /\ NoGuessing /\ NoEnlisting /\ NoSealing /\ NoSetting /\ NoPooling
     /\ NoLiving /\ NoProbing
  \/ /\ part = "settings" /\ T!Init
     /\ now = 0 /\ edits = 0 /\ file = 0 /\ NoGranting /\ NoGuessing
     /\ NoEnlisting /\ NoSealing /\ NoInstalling /\ NoPooling /\ NoLiving /\ NoProbing
  \/ /\ part = "providers" /\ P!Init
     /\ now = 0 /\ file = 0 /\ faults = 0 /\ excuse = 0 /\ NoGranting
     /\ NoGuessing /\ NoEnlisting /\ NoSealing /\ NoInstalling /\ NoSetting
     /\ NoLiving /\ NoProbing
  \/ /\ part = "lifecycle" /\ L!Init
     /\ now = 0 /\ edits = 0 /\ file = 0 /\ excuse = 0 /\ row = 0
     /\ editor = 0 /\ NoGranting /\ NoGuessing /\ NoEnlisting /\ NoSealing
     /\ NoInstalling /\ NoSetting /\ NoPooling /\ NoProbing
  \/ /\ part = "shutdown" /\ D!Init
     /\ now = 0 /\ edits = 0 /\ file = 0 /\ excuse = 0 /\ row = 0
     /\ editor = 0 /\ NoGranting /\ NoGuessing /\ NoEnlisting /\ NoSealing
     /\ NoInstalling /\ NoSetting /\ NoPooling /\ NoProbing
  \/ /\ part = "readiness" /\ H!Init
     /\ edits = 0 /\ file = 0 /\ faults = 0 /\ excuse = 0 /\ row = 0 /\ editor = 0
     /\ NoGranting /\ NoGuessing /\ NoEnlisting /\ NoSealing /\ NoInstalling
     /\ NoSetting /\ NoPooling /\ NoLiving

Next ==
  \/ part = "access" /\ K!Next
     /\ UNCHANGED <<part, file, faults, excuse, row, editor, guessing, enlisting, sealing,
                  installing, setting, pooling, living, probing>>
  \/ part = "signin" /\ G!Next
     /\ UNCHANGED <<part, edits, file, faults, excuse, row, editor, granting, enlisting,
                  sealing, installing, setting, pooling, living, probing>>
  \/ part = "accounts" /\ U!Next
     /\ UNCHANGED <<part, now, edits, file, faults, excuse, row, editor, granting, guessing,
                  sealing, installing, setting, pooling, living, probing>>
  \/ part = "secrets" /\ R!Next
     /\ UNCHANGED <<part, now, edits, row, editor, granting, guessing, enlisting, installing,
                  setting, pooling, living, probing>>
  \/ part = "setup" /\ F!Next
     /\ UNCHANGED <<part, now, edits, row, editor, granting, guessing, enlisting, sealing,
                  setting, pooling, living, probing>>
  \/ part = "settings" /\ T!Next
     /\ UNCHANGED <<part, now, edits, file, granting, guessing, enlisting, sealing, installing,
                  pooling, living, probing>>
  \/ part = "providers" /\ P!Next
     /\ UNCHANGED <<part, now, file, faults, excuse, granting, guessing, enlisting, sealing,
                  installing, setting, living, probing>>
  \/ part = "lifecycle" /\ L!Next
     /\ UNCHANGED <<part, now, edits, file, excuse, row, editor, granting, guessing, enlisting,
                  sealing, installing, setting, pooling, probing>>
  \/ part = "shutdown" /\ D!Next
     /\ UNCHANGED <<part, now, edits, file, excuse, row, editor, granting, guessing, enlisting,
                  sealing, installing, setting, pooling, probing>>
  \/ part = "readiness" /\ H!Next
     /\ UNCHANGED <<part, edits, file, faults, excuse, row, editor, granting, guessing, enlisting,
                  sealing, installing, setting, pooling, living>>

Spec == Init /\ [][Next]_vars
-----------------------------------------------------------------------------
(* The components' properties, each of the behaviours of its part.         *)

\* Nobody is let through for what a key or a membership has not allowed for longer
\* than the caches' time, a key past its expiry included; a super admin is made by
\* one, the second factor in force was shown by its owner, and an administrator
\* changes neither an account it was shown as a super admin's nor, from a visited
\* tenant, anything elsewhere (api_key_usecase.go, auth_middleware.go;
\* user_service.go, auth_usecase.go).  An account promoted after the administrator's
\* handler read it is not excluded: OnlySuperAdminsDemote fails.
RightsSound == /\ part = "access" => K!RevocationReaches
               /\ part = "accounts" => U!AccountSound

\* However many requests run at once, no more wrong passwords are tried than the
\* limiter allows (attempt_limiter.go).
SignInSound == part = "signin" => G!GuessesBounded

\* Wherever a change of the data key stops, every credential can be opened with the
\* keys in memory, and with those on disk unless a save that failed or died left the
\* file empty (data_key.go, keyring.go, config.go:224).  Excused are an edit that
\* straddles the change and a backup that does.
CredentialsReadable == part = "secrets" => R!CredentialsReadable

\* Retention enforces only days somebody chose, or the defaults while no row is
\* stored, even over the choice of a file that could not be seeded; and a save is not
\* missed (policy.go, settings_usecase.go, worker.go; main.go:2060-2063).
PolicyInForce == part = "settings" => T!PolicyInForce

\* A provider keeps its secrets and the meaning of its sender list through edits,
\* and no pool of connections is forgotten (config_password.go, senders.go,
\* provider_factory.go).
ProvidersSound == part = "providers" => P!ProvidersKept /\ P!PoolSound

\* A configuration file that is whole names a whole installation, and what an open
\* setup holds besides is only what an attempt could not take back out; instances
\* that start together migrate once, each in the order of its build; nothing in use
\* is closed on the way down; and what readiness answers and logs was so
\* (setup_usecase.go, migrate.go, shutdown.go, health.go).
LifecycleSound == /\ part = "setup" => F!SetupSound
                  /\ part = "lifecycle" => L!SchemaReady /\ L!NothingClosedInUse
                  /\ part = "shutdown" => D!SchemaReady /\ D!NothingClosedInUse
                  /\ part = "readiness" => H!AnswersTrue /\ H!ChangesLogged
-----------------------------------------------------------------------------
(* The values TLC takes for the constants a configuration cannot spell.    *)

\* Two stores of credentials, of a row each.
StoresValue == <<{1}, {2}>>

\* Saves of the settings page: each leaves out what it is not about.
NotSaid == -9
SavesValue == {[base |-> 1, events |-> NotSaid, messages |-> NotSaid],
               [base |-> NotSaid, events |-> 0, messages |-> NotSaid],
               [base |-> NotSaid, events |-> -1, messages |-> 30]}
OldFile == [base |-> 0, events |-> 3, messages |-> 0]

\* Saves of the provider's form: a password, a DKIM key, neither; two spellings of
\* a name; the three forms of a sender entry.
FoldCase(n) == IF n = "Main" THEN "main" ELSE n
AnyOfX == [local |-> "", at |-> TRUE, domain |-> "x"]
OneOfY == [local |-> "a", at |-> TRUE, domain |-> "y"]
BlankLine == [local |-> "", at |-> FALSE, domain |-> ""]
KindsValue == [p |-> "api", q |-> "smtp"]
FromsValue == {[local |-> "a", domain |-> "x"], [local |-> "b", domain |-> "y"]}
RequestsValue ==
  {[name |-> "main", host |-> 1, pass |-> 1, dkim |-> 0, allowed |-> {AnyOfX, OneOfY}],
   [name |-> "main", host |-> 2, pass |-> 0, dkim |-> 1, allowed |-> {AnyOfX, BlankLine}],
   [name |-> "Main", host |-> 2, pass |-> 2, dkim |-> 0, allowed |-> {BlankLine}]}
DraftsValue == {[kind |-> k, host |-> 1, pass |-> 1, dkim |-> 0] : k \in {"smtp", "mailbox"}}

\* The second instance's build knows one migration more, of a number between.
StepsOf(i) == IF i = 1 THEN {1, 3} ELSE {1, 2, 3}
=============================================================================
