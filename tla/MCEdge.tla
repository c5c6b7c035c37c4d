------------------------------- MODULE MCEdge -------------------------------
(***************************************************************************)
(* Where mail and news of it enter and leave beside the send path, for     *)
(* TLC: InboundGate, Inbound, SmtpListener, IdleSessions, SentCopy and     *)
(* WebhookTargets side by side. They share no state, so a behaviour is one *)
(* of one of them: `part` says which, and the variables of the others stay *)
(* 0.                                                                      *)
(***************************************************************************)
EXTENDS Integers, Sequences, FiniteSets

CONSTANTS
  \* Inbound
  Posts, Readers, Instances, Verdicts, Lease, MaxNow, MaxFaults, MaxRuns,
  \* SmtpListener
  Editors, Changes, Ports, MaxReports,
  \* IdleSessions
  Providers, TenantOf, Versions, MaxSessions, MaxDelay,
  \* SentCopy
  Jobs, Filers, BatchSize, ClaimLease, AppendLimit, MaxAttempts, CopyUntil,
  \* InboundGate
  Mails, Notices, Topics, Region, MaxSteps,
  \* WebhookTargets
  Hosts, Public, Private, Schemes, Wanted, Restricted, MaxHops, Secrets, MaxEdits, MaxPosts

VARIABLES part,  \* which component this behaviour is of
  road, verdict, report, receipt, records, bounces, announced, answered, released, worker,
  runs, faults, excuse,
  running, gen, sockets, reports, actor, taken, lostPair,
  listed, entry, live, pass,
  jobs, batch, setting, edit, outcome,
  provider, amazon, post, subscribed, let, fetched, lost, steps,
  row, dns, told, pending, attempt, reached, edits, posts,
  stored, now

arriving == <<road, verdict, report, receipt, records, bounces, announced, answered, released,
            worker, runs, faults, excuse>>
listening == <<running, gen, sockets, reports, actor, taken, lostPair>>
watching == <<listed, entry, live, pass>>
filing == <<jobs, batch, setting, edit, outcome>>
entering == <<provider, amazon, post, subscribed, let, fetched, lost, steps>>
posting == <<row, dns, told, pending, attempt, reached, edits, posts>>
vars == <<part, stored, now, arriving, listening, watching, filing, entering, posting>>

NoArriving ==
  /\ road = 0 /\ verdict = 0 /\ report = 0 /\ receipt = 0 /\ records = 0 /\ bounces = 0
  /\ announced = 0 /\ answered = 0 /\ released = 0 /\ worker = 0 /\ runs = 0 /\ faults = 0
  /\ excuse = 0
NoListening ==
  /\ running = 0 /\ gen = 0 /\ sockets = 0 /\ reports = 0 /\ actor = 0 /\ taken = 0 /\ lostPair = 0
NoWatching ==
  /\ listed = 0 /\ entry = 0 /\ live = 0 /\ pass = 0
NoFiling ==
  /\ jobs = 0 /\ batch = 0 /\ setting = 0 /\ edit = 0 /\ outcome = 0

NoEntering ==
  /\ provider = 0 /\ amazon = 0 /\ post = 0 /\ subscribed = 0 /\ let = 0 /\ fetched = 0
  /\ lost = 0 /\ steps = 0
NoPosting ==
  /\ row = 0 /\ dns = 0 /\ told = 0 /\ pending = 0 /\ attempt = 0 /\ reached = 0 /\ edits = 0
  /\ posts = 0

N == INSTANCE Inbound

L == INSTANCE SmtpListener

D == INSTANCE IdleSessions

C == INSTANCE SentCopy WITH Instances <- Filers, Lease <- ClaimLease, MaxNow <- CopyUntil

G == INSTANCE InboundGate

T == INSTANCE WebhookTargets WITH Restrict <- Restricted

\* What the code gives these: counts and times that are whole, rows that are
\* finitely many, and posts that carry mail.
ASSUME IdleAssumption == D!SessionsOK
ASSUME CopyAssumption == C!CopiesOK
ASSUME GateAssumption == G!MailsOK

Init ==
  \/ /\ part = "inbound" /\ N!Init
     /\ NoListening /\ NoWatching /\ NoFiling /\ NoEntering /\ NoPosting
  \/ /\ part = "listener" /\ L!Init
     /\ now = 0 /\ NoArriving /\ NoWatching /\ NoFiling /\ NoEntering /\ NoPosting
  \/ /\ part = "idle" /\ D!Init
     /\ stored = 0 /\ now = 0 /\ NoArriving /\ NoListening /\ NoFiling /\ NoEntering /\ NoPosting
  \/ /\ part = "copies" /\ C!Init
     /\ stored = 0 /\ NoArriving /\ NoListening /\ NoWatching /\ NoEntering /\ NoPosting
  \/ /\ part = "gate" /\ G!Init
     /\ stored = 0 /\ now = 0 /\ NoArriving /\ NoListening /\ NoWatching /\ NoFiling /\ NoPosting
  \/ /\ part = "targets" /\ T!Init
     /\ stored = 0 /\ now = 0 /\ NoArriving /\ NoListening /\ NoWatching /\ NoFiling /\ NoEntering

Next ==
  \/ part = "inbound" /\ N!Next
     /\ UNCHANGED <<part, listening, watching, filing, entering, posting>>
  \/ part = "listener" /\ L!Next
     /\ UNCHANGED <<part, now, arriving, watching, filing, entering, posting>>
  \/ part = "idle" /\ D!Next
     /\ UNCHANGED <<part, stored, now, arriving, listening, filing, entering, posting>>
  \/ part = "copies" /\ C!Next
     /\ UNCHANGED <<part, stored, arriving, listening, watching, entering, posting>>
  \/ part = "gate" /\ G!Next
     /\ UNCHANGED <<part, stored, now, arriving, listening, watching, filing, posting>>
  \/ part = "targets" /\ T!Next
     /\ UNCHANGED <<part, stored, now, arriving, listening, watching, filing, entering>>

Spec == Init /\ [][Next]_vars
-----------------------------------------------------------------------------
(* The components' properties, each of the behaviours of its part.         *)

\* Mail comes in on the provider's own proof and with all it carried; what the
\* provider was told is accepted is stored or refused by a rule and not dropped,
\* its tenant hears of it once unless a retry cannot be told or something failed,
\* and of a held one not before its release; and a mailbox is watched by one
\* session at most (webhook.go, sns.go,
\* process_inbound_usecase.go, receipt_store.go, idle.go).
InboundOnce ==
  /\ part = "gate" => /\ G!OnlyTheProvidersOwn /\ G!FetchesPinned /\ G!NothingGivenUpInVain
                      /\ G!FieldsKept
  /\ part = "inbound" => N!AcceptedIsKept /\ N!AnnouncedOnce /\ N!HeldStaysQuiet
  /\ part = "idle" => D!OneWatcher

\* What the settings page is told is served is what the sockets serve, and moving
\* the listener to another address never leaves the instance without one
\* (Supervisor.State, serve and Apply, supervisor.go).
ListenerKeepsServing ==
  [](part = "listener" => L!ReportsWhatItServes) /\ [][part = "listener" => ~L!DownForAMove]_vars

\* Whatever DNS says later and wherever it is redirected, a webhook is posted to
\* the host its subscriber named, signed with the secret the subscriber was told or,
\* for a subscription that never had one, unsigned; and at no private address where
\* the operator blocks those (egress.go, newDeliveryClient, applySignature,
\* webhook_usecase.go).
TargetsKept == part = "targets" => T!NoPrivateTarget /\ T!SignedStaysHome /\ T!SignedAsTold

\* Every copy that was queued is filed, mailed to the sender, refused for good or
\* given up after its attempts, and one worker files it per claim (worker.go,
\* ClaimJobs).
CopiesAccounted == part = "copies" => C!CopyAccounted /\ C!OneFilerPerClaim
-----------------------------------------------------------------------------
(* Values of the constants for TLC.                                        *)

\* What the listener's form may ask for.
Change(enabled, scope, port, insecure, tls) ==
  [enabled |-> enabled, scope |-> scope, port |-> port, insecure |-> insecure, tls |-> tls]
ChangesValue ==
  {Change(TRUE, "all", 587, FALSE, "c1"), Change(TRUE, "loopback", 587, TRUE, "keep"),
   Change(TRUE, "loopback", 465, TRUE, "keep"), Change(FALSE, "loopback", 587, FALSE, "keep"),
   Change(TRUE, "loopback", 25, TRUE, "keep")}
HomeOf == [p \in {"p1", "p2"} |-> IF p = "p1" THEN "t1" ELSE "t2"]

\* Posts with fields, with a raw message, with both and with nothing in them, and
\* notifications with and without the message.
Mail(format, fields, raw) == [format |-> format, fields |-> fields, raw |-> raw]
SomeMails ==
  {Mail("json", {"from", "text"}, {}), Mail("form", {}, {"from", "html"}), Mail("json", {}, {}),
   Mail("form", {"from", "text"}, {"from", "subject", "html"}), Mail("broken", {}, {}),
   Mail("other", {"from"}, {})}
Notice(headers, envelope, carries, content) ==
  [kind |-> "Received", headers |-> headers, source |-> envelope, destination |-> envelope,
   carries |-> carries, content |-> content]
SomeNotices ==
  {Notice({"from", "to", "subject"}, TRUE, "nothing", {}), Notice({}, FALSE, "nothing", {}),
   Notice({"from"}, FALSE, "message", {"text", "html"}),
   Notice({"to", "subject"}, TRUE, "message", {"text", "to"}),
   Notice({"from"}, TRUE, "unparsable", {}), Notice({}, TRUE, "bad encoding", {"text"}),
   [Notice({"from"}, TRUE, "nothing", {}) EXCEPT !.kind = "Bounce"]}
RegionOf == [t \in {"t1", "t2"} |-> IF t = "t1" THEN "r1" ELSE "r2"]
=============================================================================
