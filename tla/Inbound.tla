------------------------------ MODULE Inbound ------------------------------
(***************************************************************************)
(* One message that arrives for a tenant (internal/inbound).  A provider   *)
(* posts it over HTTP, and posts it again until it is accepted and         *)
(* sometimes after; or it lies in a mailbox that the poller and the IMAP   *)
(* idle session both read, again and again.  Receipts are shared between   *)
(* the instances; the store of inbound mail is each instance's own.        *)
(*                                                                         *)
(* Every worker is one handling of the message, and runs Process in steps  *)
(* that interleave with the others'.                                       *)
(***************************************************************************)
EXTENDS Naturals, FiniteSets, Bounce

CONSTANTS
  Posts,        \* the HTTP requests that can be under way at once
  Readers,      \* the mailbox's readers: the poller and the idle session
  Instances,
  Verdicts,     \* what the tenant's rules can make of the message
  Lease,        \* claimLease
  MaxNow, MaxFaults, MaxRuns

Workers == Posts \cup Readers

VARIABLES
  road,         \* how the message arrives: "http", with an event id or a Message-ID that
                \* tells a retry of it; "keyless", posted with neither; or "mailbox"
  verdict,      \* what the rules say of it
  report,       \* the delivery report it carries, if it is a bounce
  receipt,      \* its row in inbound_receipts
  stored,       \* the instances whose store holds it
  records,      \* rows of filtered_messages written for it
  bounces,      \* bounce events recorded for it
  announced,    \* times the tenant's webhook was triggered
  answered,     \* the provider has been told it was accepted
  released,     \* a reviewer has released it
  worker,       \* what each worker is doing
  runs,         \* handlings begun
  faults,       \* failures so far
  excuse,       \* ghost: what may make a second handling proper
  now

vars == <<road, verdict, report, receipt, stored, records, bounces, announced, answered,
          released, worker, runs, faults, excuse, now>>

\* A receipt row, or none.
NoReceipt == [state |-> "none", token |-> 0, at |-> 0]

\* The message's delivery report: whether it quotes a reference that verifies for
\* the recipient, whether that message was sent there, and what it says.
Reports == {[ref |-> FALSE, sent |-> FALSE, action |-> "none", text |-> "none"]}
           \cup [ref: BOOLEAN, sent: BOOLEAN, action: {"failed", "delayed"},
                 text: {"gone", "busy"}]

Idle == [pc |-> "idle", at |-> 0, token |-> 0, did |-> "none"]

Fault(cause) == faults < MaxFaults /\ faults' = faults + 1 /\ excuse' = excuse \cup {cause}
NoFault == UNCHANGED <<faults, excuse>>

Busy(w) == worker[w].pc # "idle"

----------------------------------------------------------------------------
(* The receipt store, and delivery reports.                                *)

\* Mutation: a claim may be taken over before its lease is over.
ClaimResultEarly ==
  IF receipt.state \in {"none", "PROCESSING"} THEN "acquired" ELSE "duplicate"

\* Mutation: a message another worker is still handling counts as handled.
ClaimResultNeverInFlight ==
  IF receipt.state = "none" \/ (receipt.state = "PROCESSING" /\ receipt.at < now - Lease)
  THEN "acquired" ELSE "duplicate"

\* Claim: insert the row, else take over one whose lease has run out, else read
\* its state.
ClaimResult ==
  IF receipt.state = "none" THEN "acquired"
  ELSE IF receipt.state = "PROCESSING" /\ receipt.at < now - Lease THEN "acquired"
  ELSE IF receipt.state = "DONE" THEN "duplicate" ELSE "inflight"

\* Complete and Release settle the claim whose token they present.
Held(w) == receipt.state = "PROCESSING" /\ receipt.token = worker[w].token

Complete(w) == receipt' = IF Held(w) THEN [receipt EXCEPT !.state = "DONE"] ELSE receipt

Release(w) == receipt' = IF Held(w) THEN NoReceipt ELSE receipt

\* reportedEventType: what a reported recipient's status amounts to.
reportedEventType(r) ==
  IF r.action = "delayed" \/ r.text = "busy" THEN "SOFT_BOUNCE"
  ELSE ClassifyError([code |-> "none", prefix |-> {"hard"}, reply |-> {}]).type

\* recordBounce: a report counts when its reference verifies and the message it
\* names was sent to the address it names.
recordBounce(r) == r.action # "none" /\ r.ref /\ r.sent /\ reportedEventType(r) # "UNSPECIFIED"

----------------------------------------------------------------------------
Init ==
  /\ road \in {"http", "keyless", "mailbox"}
  /\ verdict \in Verdicts
  /\ report \in Reports
  /\ receipt = NoReceipt /\ stored = {}
  /\ records = 0 /\ bounces = 0 /\ announced = 0
  /\ answered = FALSE /\ released = FALSE
  /\ worker = [w \in Workers |-> Idle]
  /\ runs = 0 /\ faults = 0 /\ excuse = {} /\ now = 0

Begin(w, i, token) ==
  worker' = [worker EXCEPT ![w] = [pc |-> "look", at |-> i, token |-> token, did |-> "none"]]

\* A post of the message reaches an instance, is authenticated, and claims it.  A
\* store that cannot answer counts as a claim, without a receipt; a message with
\* nothing to tell its retries by is claimed by every post of it.
Post(w, i) ==
  /\ road \in {"http", "keyless"} /\ w \in Posts /\ ~Busy(w)
  /\ runs < MaxRuns /\ runs' = runs + 1
  /\ \/ /\ road = "keyless"
        /\ excuse' = IF runs = 0 THEN excuse ELSE excuse \cup {"keyless"}
        /\ Begin(w, i, 0)
        /\ UNCHANGED <<receipt, answered, faults>>
     \/ /\ road = "http" /\ ClaimResult = "acquired"
        /\ receipt' = [state |-> "PROCESSING", token |-> runs + 1, at |-> now]
        /\ excuse' = IF receipt.state = "none" THEN excuse ELSE excuse \cup {"lapsed"}
        /\ Begin(w, i, runs + 1)
        /\ UNCHANGED <<answered, faults>>
     \/ /\ road = "http" /\ Fault("receipts")
        /\ Begin(w, i, 0)
        /\ UNCHANGED <<receipt, answered>>
     \/ /\ road = "http" /\ ClaimResult = "duplicate"
        /\ answered' = TRUE
        /\ UNCHANGED <<receipt, worker, faults, excuse>>
     \/ /\ road = "http" /\ ClaimResult = "inflight"
        /\ UNCHANGED <<receipt, worker, answered, faults, excuse>>
  /\ UNCHANGED <<road, verdict, report, stored, records, bounces, announced, released, now>>

\* The poller's tick, or the idle session, reads the message in the mailbox.
Read(w, i) ==
  /\ road = "mailbox" /\ w \in Readers /\ ~Busy(w)
  /\ runs < MaxRuns /\ runs' = runs + 1
  /\ Begin(w, i, 0)
  /\ excuse' = excuse \cup {c \in {"raced", "elsewhere"} :
                             \/ c = "raced" /\ \E v \in Workers : Busy(v)
                             \/ c = "elsewhere" /\ stored \ {i} # {}}
  /\ UNCHANGED <<road, verdict, report, receipt, stored, records, bounces, announced,
                 answered, released, faults, now>>

\* inboundID: derived from the key, so that this instance's store knows the message;
\* a fresh one where there is no key.
Known(w) == road # "keyless" /\ worker[w].at \in stored

\* Process begins: a message this instance holds is left alone; one that cannot be
\* looked up counts as new.
Look(w) ==
  /\ worker[w].pc = "look"
  /\ \/ /\ Known(w)
        /\ worker' = [worker EXCEPT ![w].pc = "done", ![w].did = "stored"]
        /\ NoFault
     \/ /\ ~Known(w)
        /\ worker' = [worker EXCEPT ![w].pc = "screen"]
        /\ NoFault
     \/ /\ Known(w)
        /\ Fault("lookup")
        /\ worker' = [worker EXCEPT ![w].pc = "screen"]
  /\ UNCHANGED <<road, verdict, report, receipt, stored, records, bounces, announced,
                 answered, released, runs, now>>

\* The bounce is recorded and the rules are asked.  A rejected message is recorded
\* and dropped, a tagged one recorded; rules that cannot be read let it through.
Screen(w) ==
  /\ worker[w].pc = "screen"
  /\ bounces' = bounces + (IF recordBounce(report) THEN 1 ELSE 0)
  /\ \/ /\ verdict = "reject"
        /\ worker' = [worker EXCEPT ![w].pc = "done", ![w].did = "rejected"]
        /\ records' = records + 1
        /\ NoFault
     \/ /\ verdict \in {"deliver", "tag", "hold"}
        /\ worker' = [worker EXCEPT ![w].pc = "write", ![w].did = verdict]
        /\ records' = records + (IF verdict = "tag" THEN 1 ELSE 0)
        /\ NoFault
     \/ /\ verdict # "deliver"
        /\ Fault("rules")
        /\ worker' = [worker EXCEPT ![w].pc = "write", ![w].did = "deliver"]
        /\ UNCHANGED records
  /\ UNCHANGED <<road, verdict, report, receipt, stored, announced, answered, released, runs, now>>

\* The write, and what follows it at once: the hold's record, or the webhook.
Write(w) ==
  /\ worker[w].pc = "write"
  /\ \/ /\ stored' = stored \cup {worker[w].at}
        /\ worker' = [worker EXCEPT ![w].pc = "done", ![w].did = "stored"]
        /\ IF worker[w].did = "hold"
           THEN records' = records + 1 /\ UNCHANGED announced
           ELSE announced' = announced + 1 /\ UNCHANGED records
        /\ NoFault
     \/ /\ Fault("write")
        /\ worker' = [worker EXCEPT ![w].pc = "done", ![w].did = "failed"]
        /\ UNCHANGED <<stored, records, announced>>
  /\ UNCHANGED <<road, verdict, report, receipt, bounces, answered, released, runs, now>>

\* The handler answers: the claim is completed and the post accepted, or the claim
\* is given up and the post refused.
Finish(w) ==
  /\ worker[w].pc = "done"
  /\ IF w \in Readers \/ worker[w].token = 0 THEN UNCHANGED receipt
     ELSE IF worker[w].did = "failed" THEN Release(w) ELSE Complete(w)
  /\ answered' = (answered \/ (w \in Posts /\ worker[w].did # "failed"))
  /\ worker' = [worker EXCEPT ![w] = Idle]
  /\ UNCHANGED <<road, verdict, report, stored, records, bounces, announced, released, runs,
                 faults, excuse, now>>

\* The process dies, or the request is cut off, wherever a worker stands.
Die(w) ==
  /\ Busy(w)
  /\ Fault("crash")
  /\ worker' = [worker EXCEPT ![w] = Idle]
  /\ UNCHANGED <<road, verdict, report, receipt, stored, records, bounces, announced,
                 answered, released, runs, now>>

\* A reviewer releases the held message on an instance that stores it.  Without a
\* key each post of it is held, and released, as a message of its own.
ReleaseHeld(i) ==
  /\ verdict = "hold" /\ records > 0
  /\ ~released \/ ("keyless" \in excuse /\ announced < records)
  /\ i \in stored
  /\ released' = TRUE
  /\ announced' = announced + 1
  /\ UNCHANGED <<road, verdict, report, receipt, stored, records, bounces, answered,
                 worker, runs, faults, excuse, now>>

\* Retention: the stored copy goes, or the receipt.
Expire ==
  /\ now = MaxNow /\ "expired" \notin excuse
  /\ \/ /\ stored # {} /\ stored' = {} /\ UNCHANGED receipt
     \/ /\ receipt # NoReceipt /\ receipt' = NoReceipt /\ UNCHANGED stored
  /\ excuse' = excuse \cup {"expired"}
  /\ UNCHANGED <<road, verdict, report, records, bounces, announced, answered, released,
                 worker, runs, faults, now>>

Tick ==
  /\ now < MaxNow /\ now' = now + 1
  /\ UNCHANGED <<road, verdict, report, receipt, stored, records, bounces, announced,
                 answered, released, worker, runs, faults, excuse>>

Next ==
  \/ \E w \in Workers, i \in Instances : Post(w, i) \/ Read(w, i)
  \/ \E w \in Workers : Look(w) \/ Screen(w) \/ Write(w) \/ Finish(w) \/ Die(w)
  \/ \E i \in Instances : ReleaseHeld(i)
  \/ Expire \/ Tick

Spec == Init /\ [][Next]_vars

----------------------------------------------------------------------------
(* Properties.                                                             *)

\* Every variable holds a value of its kind.
TypeOK ==
  /\ receipt.state \in {"none", "PROCESSING", "DONE"}
  /\ stored \subseteq Instances
  /\ \A w \in Workers : worker[w].pc \in {"idle", "look", "screen", "write", "done"}
  /\ records \in Nat /\ bounces \in Nat /\ announced \in Nat
  /\ runs \in 0..MaxRuns /\ faults \in 0..MaxFaults /\ now \in 0..MaxNow

\* A provider told that its post was accepted, which will not post again, has
\* handed over a message that an instance stored, or that the tenant's rules
\* refused: no crash, race or failed write makes the answer a lie (ServeHTTP's
\* order of Process, complete and answer, and its 503 for a message in flight).
AcceptedIsKept ==
  answered => stored # {} \/ verdict = "reject" \/ "expired" \in excuse

\* Posts of one message, repeated at any moment and to any instance, trigger the
\* tenant's webhook once, unless something failed, a claim outlived its lease,
\* retention forgot the message, or it was posted again with neither an event id nor
\* a Message-ID ("a post with neither is not deduplicated": dedupe.go,
\* receipt_store.go); and so do one
\* instance's repeated reads of a mailbox that do not overlap (Process's check for
\* a known id).
AnnouncedOnce == excuse = {} => announced <= 1

\* Instances that read one mailbox in turn announce its message once ("Running
\* inbound on more than one instance stays correct either way").
OneMailboxOneAnnouncement == excuse \subseteq {"elsewhere"} => announced <= 1

\* A message held for review is announced to nobody before a reviewer releases it,
\* whatever retries it: only rules that could not be read let it through.
HeldStaysQuiet == verdict = "hold" /\ announced > 0 => released \/ "rules" \in excuse

\* An arrival is recorded once for review, and its bounce counted once, however
\* often the mailbox that still holds it is read ("screening a message the second
\* time would record a second review-queue entry for one arrival").
RecordedOnce == excuse = {} => records <= 1 /\ bounces <= 1

----------------------------------------------------------------------------
(***************************************************************************)
(* The three properties for any posts, readers, instances, rules, leases   *)
(* and faults.                                                             *)
(***************************************************************************)

Places == {"idle", "look", "screen", "write", "done"}
Doings == {"none", "deliver", "tag", "hold", "stored", "rejected", "failed"}

InboundTypes ==
  /\ worker \in [Workers -> [pc : Places, at : Instances \cup {0}, token : Nat, did : Doings]]
  /\ \A w \in Workers : Busy(w) => worker[w].at \in Instances
  /\ receipt \in [state : {"none", "PROCESSING", "DONE"}, token : Nat, at : Nat]
  /\ stored \subseteq Instances
  /\ announced \in Nat /\ records \in Nat /\ runs \in Nat /\ now \in Nat

\* What accounts for a message once its provider has been told it was accepted.
Kept == stored # {} \/ verdict = "reject" \/ "expired" \in excuse

\* A handling that is done and did not fail has kept the message, and a receipt is
\* completed only by one of those.
DoneIsKept ==
  /\ receipt.state = "DONE" => Kept
  /\ \A w \in Workers : worker[w].pc = "done" /\ worker[w].did # "failed" => Kept

\* A handling about to write carries the verdict, unless the rules were not read.
CarriesVerdict ==
  \A w \in Workers : worker[w].pc = "write" => worker[w].did = verdict \/ "rules" \in excuse

\* With nothing to excuse a second handling there is one at a time, it is past the
\* look only when no instance holds the message, and nothing was announced before
\* it was stored; a post's handling has the receipt, which stays, and without a key
\* there is the first post only.
OneHandling ==
  excuse = {} =>
    /\ \A w, v \in Workers : Busy(w) /\ Busy(v) => w = v
    /\ \A w \in Workers :
         /\ worker[w].pc = "look" => stored \subseteq {worker[w].at}
         /\ worker[w].pc = "look" /\ road = "keyless" => stored = {}
         /\ worker[w].pc \in {"screen", "write"} => stored = {}
         /\ worker[w].did # "failed"
         /\ road = "http" /\ Busy(w) => receipt.state = "PROCESSING"
    /\ road = "keyless" /\ runs = 0 =>
         stored = {} /\ announced = 0 /\ \A w \in Workers : ~Busy(w)
    /\ announced > 0 => stored # {}
    /\ road = "http" /\ stored # {} => receipt.state # "none"
    /\ announced <= 1
    /\ verdict = "hold" => (announced > 0 => released)

InboundInv ==
  InboundTypes /\ DoneIsKept /\ CarriesVerdict /\ OneHandling /\ AcceptedIsKept /\ HeldStaysQuiet
=============================================================================
