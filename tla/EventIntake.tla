---------------------------- MODULE EventIntake ----------------------------
(***************************************************************************)
(* What comes back about a message once a provider has it: the providers'  *)
(* delivery webhooks (internal/event/transports/http), the open, click and *)
(* unsubscribe links in the mail itself, RecordEvent, which files each     *)
(* report under a message, and the suppression list that some of them      *)
(* write (internal/suppression).                                           *)
(*                                                                         *)
(* There is one mailbox.  Reports stay in flight for ever once made, so a  *)
(* provider may deliver one late, twice, or after others.                  *)
(***************************************************************************)
EXTENDS Naturals, FiniteSets, Sequences, Bounce

CONSTANTS
  Messages,      \* 1..N, in the order they are admitted
  Providers,     \* the kinds of provider webhook, chosen from ProviderKinds
  Stores,        \* which event store answers: "pebble" or "postgres"
  Tolerance,     \* webhookTolerance: how old a signed report may be
  MaxNow, MaxEvents, MaxReports,
  MaxEdits       \* bound on operator steps and failed writes together

VARIABLES
  provider,      \* the kind of the provider the tenant sends through
  store,         \* the event store
  msgs,          \* message -> where it is, how it is addressed, the key of its links
  stored,        \* the messages whose body is still stored
  named,         \* the stored messages that name the provider that carried them
  events,        \* the recorded events, oldest first
  reports,       \* what the provider has reported
  secret,        \* whether the provider has a webhook secret
  key,           \* the signing key in use
  list,          \* the suppression list: the keys it holds
  causes,        \* ghost: what put the mailbox on the list, since it was last taken off
  told,          \* ghost: what was told of the mailbox since then, written or not
  edits,         \* operator steps and failed writes so far
  now

vars == <<provider, store, msgs, stored, named, events, reports, secret, key, list,
          causes, told, edits, now>>

ProviderKinds == {"sendgrid", "mailgun", "postmark", "ses", "generic"}

\* One mailbox, written three ways.
Spelling == {"bare", "mixed", "display"}

\* What a provider can have to say about a message it was handed.
Meaning == {"delivered", "opened", "gone", "busy", "refused", "complaint", "optOut", "other"}

\* No message of ours: an event filed under the provider's own id.
Orphan == 0

----------------------------------------------------------------------------
(* How the providers say it, and how each webhook is read.                 *)

Text(code, lists) == [code |-> code, prefix |-> {}, reply |-> lists]

\* A report as it is sent: the provider's word for it and the error text.
\* SendGrid and Mailgun have one word for every kind of bounce.
Worded(p, meaning) ==
  CASE meaning = "gone"    -> [word |-> "hard",  text |-> Text("5xx", {"hard"})]
    [] meaning = "busy"    -> [word |-> "soft",  text |-> Text("4xx", {"hard"})]
    [] meaning = "refused" -> [word |-> "soft",  text |-> Text("5xx", {"content"})]
    [] OTHER               -> [word |-> meaning, text |-> Text("empty", {})]

OneWordForBounces == {"sendgrid", "mailgun", "generic"}

EventTypeOf(p, word) ==
  CASE word = "delivered" -> "DELIVERED"
    [] word = "opened"    -> "OPENED"
    [] word \in {"hard", "soft"} /\ p \in OneWordForBounces -> "BOUNCED"
    [] word = "hard"      -> "HARD_BOUNCE"
    [] word = "soft"      -> "SOFT_BOUNCE"
    [] word = "complaint" -> "SPAM_REPORT"
    [] word = "optOut" /\ p # "ses" -> "UNSUBSCRIBED"
    [] OTHER              -> "UNSPECIFIED"

\* ServeHTTP's verify.  Without a secret nothing is accepted; only two of the
\* schemes sign a time.
Dated == {"sendgrid", "mailgun"}

Verified(r) ==
  /\ secret
  /\ provider \in Dated => now - r.at <= Tolerance

\* The id a provider reports under: Postmark's is a GUID, and the generic webhook
\* is given ours.  isInternalID tells ours by its shape alone.
ReportedAs(p, m) == IF p = "generic" THEN "ours" ELSE IF p = "postmark" THEN "guid" ELSE "theirs"

isInternalID(id) == id \in {"ours", "guid"}

----------------------------------------------------------------------------
(* The stores.                                                             *)

\* An address as RecordEvent keys it: trimmed and lower-cased, no more.
Lowered(s) == IF s = "mixed" THEN "bare" ELSE s

\* Mutation: the list is keyed by the address as it was written.
suppressionKeyAsWritten(s) == s

\* The suppression key: the bare lower-case mailbox, whatever was written.
suppressionKey(s) == "bare"

\* Pebble's recipient index holds the address as the message gave it, newest
\* first; Postgres takes the message of the recipient's newest event.
GetLatestMessageForRecipient(rcpt) ==
  LET indexed == {m \in stored : msgs[m].spelled = rcpt}
      filed   == {i \in DOMAIN events : events[i].rcpt = rcpt}
      newest(S) == CHOOSE x \in S : \A y \in S : y <= x
      found   == IF store = "pebble" THEN indexed
                 ELSE IF filed = {} THEN {} ELSE {events[newest(filed)].msg} \cap stored
  IN IF found = {} THEN Orphan ELSE newest(found)

\* The message an event is filed under.
FiledUnder(id, m, rcpt) ==
  IF id = "ours" THEN m
  ELSE IF isInternalID(id) THEN Orphan
  ELSE GetLatestMessageForRecipient(rcpt)

\* Mutation: the text of a bounce is not read: every bounce condemns the address.
ReclassifiedAlwaysHard(type, text) == IF type = "BOUNCED" THEN "HARD_BOUNCE" ELSE type

\* A bounce with an error text is read again; one that cannot be read stays.
Reclassified(type, text) ==
  IF type = "BOUNCED" /\ ClassifyError(text).type # "UNSPECIFIED"
  THEN ClassifyError(text).type ELSE type

\* The two outcomes that put an address on the list.
suppressForEvent(type) == type \in {"HARD_BOUNCE", "SPAM_REPORT"}

Event(m, type, rcpt) == [msg |-> m, type |-> type, rcpt |-> rcpt]

\* Mutation: the provider is noted whether or not the message is still stored.
backfillProviderAnyway(m) == {m}

\* backfillProvider: a stored message learns the provider that carried it.
backfillProvider(m) == {m} \cap stored

\* A write fails; whoever made it logs that and answers as if it had not.
Fails == edits < MaxEdits /\ edits' = edits + 1

\* RecordEvent: classify, file, write, note the provider on a delivered message
\* that names none, and suppress.  It gets through "all" of it, only to the "event",
\* or to "none": a failed write skips the rest, and a failed Add is only logged.
\* What is announced to the tenant's webhooks follows from the events
\* (WebhookDelivery).
RecordEvent(id, m, word, text, rcpt, done) ==
  LET type  == Reclassified(word, text)
      under == FiledUnder(id, m, Lowered(rcpt))
  IN
  /\ Len(events) < MaxEvents
  /\ done = "event" => suppressForEvent(type)
  /\ IF done = "all" THEN UNCHANGED edits ELSE Fails
  /\ IF done = "none"
     THEN UNCHANGED <<events, named>>
     ELSE /\ events' = Append(events, Event(under, type, Lowered(rcpt)))
          /\ named' = IF type = "DELIVERED" THEN named \cup backfillProvider(under) ELSE named
  /\ list' = IF done = "all" /\ suppressForEvent(type)
             THEN list \cup {suppressionKey(Lowered(rcpt))} ELSE list

\* An event of ours, which suppresses nobody.
Note(m, type, rcpt) ==
  \E done \in {"all", "none"} : RecordEvent("ours", m, type, Text("empty", {}), rcpt, done)

\* The recipients a message is finished with, as the queue worker reads them.
Settled == {"HARD_BOUNCE", "SPAM_REPORT", "UNSUBSCRIBED", "REJECTED", "DROPPED"}

finishedFrom(m) == \E i \in DOMAIN events :
                     events[i].msg = m /\ events[i].type \in Settled \cup {"DELIVERED"}

Suppressed(s) == suppressionKey(s) \in list

----------------------------------------------------------------------------
Init ==
  /\ provider \in Providers
  /\ store \in Stores
  /\ msgs = [m \in Messages |-> [at |-> "none", spelled |-> "bare", key |-> 0]]
  /\ stored = {} /\ named = {} /\ events = <<>> /\ reports = {}
  /\ secret = TRUE
  /\ key = 0 /\ list = {} /\ causes = {} /\ told = {}
  /\ edits = 0 /\ now = 0

\* A send to the mailbox is admitted: the message is queued and saved, and its
\* recipient shown as pending.  Messages are admitted in order.
Admit(m, s) ==
  /\ msgs[m].at = "none" /\ \A l \in Messages : l < m => msgs[l].at # "none"
  /\ ~Suppressed(s)
  /\ msgs' = [msgs EXCEPT ![m] = [at |-> "queued", spelled |-> s, key |-> 0]]
  /\ stored' = stored \cup {m}
  /\ Note(m, "PENDING", s)
  /\ UNCHANGED <<provider, store, reports, secret, key, causes, told, now>>

\* The worker's pass begins: who is finished is skipped, who was suppressed since the
\* admission is dropped, and the rest waits for its turn (paceDelivery).
BeginPass(m) ==
  /\ msgs[m].at = "queued"
  /\ IF finishedFrom(m)
     THEN /\ msgs' = [msgs EXCEPT ![m].at = "skipped"]
          /\ UNCHANGED <<events, named, list, edits>>
     ELSE IF Suppressed(msgs[m].spelled)
     THEN /\ msgs' = [msgs EXCEPT ![m].at = "dropped"]
          /\ Note(m, "DROPPED", msgs[m].spelled)
     ELSE /\ msgs' = [msgs EXCEPT ![m].at = "pacing"]
          /\ UNCHANGED <<events, named, list, edits>>
  /\ UNCHANGED <<provider, store, stored, reports, secret, key, causes, told, now>>

\* The turn is too far off, or the pass is cut: the message waits for another pass.
PacedOut(m) ==
  /\ msgs[m].at = "pacing"
  /\ msgs' = [msgs EXCEPT ![m].at = "queued"]
  /\ UNCHANGED <<provider, store, stored, named, events, reports, secret, key, list, causes,
                 told, edits, now>>

\* The turn comes: the provider accepts the message, its links signed with the key of
\* this moment.  The list is not read again.
HandOver(m) ==
  /\ msgs[m].at = "pacing"
  /\ msgs' = [msgs EXCEPT ![m].at = "handed", ![m].key = key]
  /\ Note(m, "DELIVERED", msgs[m].spelled)
  /\ UNCHANGED <<provider, store, stored, reports, secret, key, causes, told, now>>

\* The provider (external) reports on a message it was handed.
Report(m, meaning) ==
  /\ msgs[m].at = "handed"
  /\ Cardinality(reports) < MaxReports
  /\ \A r \in reports : r.msg # m \/ r.meaning # meaning
  /\ reports' = reports \cup {[msg |-> m, meaning |-> meaning, at |-> now]}
  /\ UNCHANGED <<provider, store, msgs, stored, named, events, secret, key, list, causes,
                 told, edits, now>>

\* A report arrives, for the first time or again, and is answered with a 200 whatever
\* became of it.  The address it names is bare.
Receive(r) ==
  LET w == Worded(provider, r.meaning)
      type == EventTypeOf(provider, w.word)
  IN /\ Verified(r)
     /\ type # "UNSPECIFIED"
     /\ \E done \in {"all", "event", "none"} :
          /\ RecordEvent(ReportedAs(provider, r.msg), r.msg, type, w.text, "bare", done)
          /\ causes' = causes \cup (IF done = "all" THEN {r.meaning} \cap {"gone", "complaint"} ELSE {})
     /\ told' = told \cup ({r.meaning} \cap {"gone", "complaint", "optOut"})
     /\ UNCHANGED <<provider, store, msgs, stored, reports, secret, key, now>>

\* The recipient follows a link of the message: the pixel, a destination or the
\* unsubscribe link.  A destination the stored message carries is followed even
\* when its signature no longer verifies.
Signed(m) == msgs[m].key = key

Follow(m) ==
  /\ msgs[m].at = "handed"
  /\ \/ /\ Signed(m)
        /\ Note(m, "OPENED", msgs[m].spelled)
     \/ /\ Signed(m) \/ m \in stored
        /\ Note(m, "CLICKED", msgs[m].spelled)
  /\ UNCHANGED <<provider, store, msgs, stored, reports, secret, key, causes, told, now>>

\* The one-click unsubscribe: the list first, then the event; either may fail, and the
\* recipient is told of neither.
Unsubscribe(m) ==
  /\ msgs[m].at = "handed"
  /\ Signed(m)
  /\ Len(events) < MaxEvents
  /\ \E added, written \in BOOLEAN :
       /\ list' = IF added THEN list \cup {suppressionKey(msgs[m].spelled)} ELSE list
       /\ causes' = IF added THEN causes \cup {"link"} ELSE causes
       /\ events' = IF written THEN Append(events, Event(m, "UNSUBSCRIBED", Lowered(msgs[m].spelled)))
                    ELSE events
       /\ IF added /\ written THEN UNCHANGED edits ELSE Fails
  /\ told' = told \cup {"optOut"}
  /\ UNCHANGED <<provider, store, msgs, stored, named, reports, secret, key, now>>

\* An operator adds or imports the mailbox under some spelling, or removes it.
AddSuppression(s) ==
  /\ edits < MaxEdits /\ edits' = edits + 1
  /\ list' = list \cup {suppressionKey(s)}
  /\ causes' = causes \cup {"operator"}
  /\ UNCHANGED <<provider, store, msgs, stored, named, events, reports, secret, key, told, now>>

RemoveSuppression(s) ==
  /\ edits < MaxEdits /\ edits' = edits + 1
  /\ list' = list \ {suppressionKey(s)}
  /\ causes' = {} /\ told' = {}
  /\ UNCHANGED <<provider, store, msgs, stored, named, events, reports, secret, key, now>>

\* The signing key changes, or the provider loses or gets its webhook secret.
Reconfigure ==
  /\ edits < MaxEdits /\ edits' = edits + 1
  /\ \/ key' = 1 - key /\ UNCHANGED secret
     \/ secret' = ~secret /\ UNCHANGED key
  /\ UNCHANGED <<provider, store, msgs, stored, named, events, reports, list, causes, told, now>>

\* Message bodies expire, oldest first.
TruncateMessagesBefore(m) ==
  /\ m \in stored
  /\ stored' = {n \in stored : n > m}
  /\ named' = {n \in named : n > m}
  /\ UNCHANGED <<provider, store, msgs, events, reports, secret, key, list, causes,
                 told, edits, now>>

Tick ==
  /\ now < MaxNow /\ now' = now + 1
  /\ UNCHANGED <<provider, store, msgs, stored, named, events, reports, secret, key, list,
                 causes, told, edits>>

Next ==
  \/ \E m \in Messages, s \in Spelling : Admit(m, s)
  \/ \E m \in Messages : \/ BeginPass(m) \/ PacedOut(m) \/ HandOver(m)
                         \/ Follow(m) \/ Unsubscribe(m) \/ TruncateMessagesBefore(m)
  \/ \E m \in Messages, meaning \in Meaning : Report(m, meaning)
  \/ \E r \in reports : Receive(r)
  \/ \E s \in Spelling : AddSuppression(s) \/ RemoveSuppression(s)
  \/ Reconfigure \/ Tick

Spec == Init /\ [][Next]_vars
----------------------------------------------------------------------------
(* Properties.                                                             *)

\* Every variable holds a value of its kind; only stored messages name a provider.
TypeOK ==
  /\ provider \in ProviderKinds /\ store \in {"pebble", "postgres"}
  /\ msgs \in [Messages -> [at: {"none", "queued", "pacing", "handed", "skipped", "dropped"},
                            spelled: Spelling, key: {0, 1}]]
  /\ named \subseteq stored /\ stored \subseteq Messages
  /\ \A i \in DOMAIN events : events[i].msg \in Messages \cup {Orphan}
  /\ list \subseteq Spelling
  /\ secret \in BOOLEAN /\ key \in {0, 1} /\ told \subseteq Meaning

\* The mailbox is on the suppression list only for cause: a provider said the
\* mailbox is gone or its owner complained, its owner followed the unsubscribe
\* link, or an operator put it there, and nobody has taken it off since.  A full
\* mailbox or a refused message is none of these, in whatever words the provider
\* reported it (suppressForEvent, ClassifyError and the event tables).
SuppressedForCause == list # {} => causes # {}

\* A cause keeps: while one that was written stands no send is admitted and no pass
\* sets out to deliver to the mailbox, however the address is spelled then and was
\* spelled when it was suppressed ("the list silently fails open, which is the one
\* way it must never fail", suppressionKey).  A pass that had read the list before
\* goes on (StoppedInTime), and a cause whose write failed is none (EndsUpSuppressed).
SendsWhileCause ==
  /\ causes # {}
  /\ \E m \in Messages : \/ msgs[m].at = "none" /\ msgs'[m].at = "queued"
                         \/ msgs[m].at # "pacing" /\ msgs'[m].at = "pacing"
NoSendWhileCause == [][~SendsWhileCause]_vars

\* "an unsubscribe, a complaint or an operator's suppression in that time has to stop
\* it" (doSend): nothing is handed over to a mailbox on the list.  It fails: a pass
\* waits for its turn after it has read the list.
StoppedInTime ==
  [][\A m \in Messages : msgs[m].at = "pacing" /\ msgs'[m].at = "handed" => list = {}]_vars

\* "the address ends up suppressed either way, which is the whole point"
\* (suppressForEvent): a bounce or a complaint that was answered with a 200 has the
\* mailbox on the list.  It fails: the event's write or the list's may have failed.
EndsUpSuppressed == told \cap {"gone", "complaint"} # {} => list # {}

\* Provider reports never make the queue worker skip a message: a recipient is
\* recorded as delivered, or as settled, on a message only once that message was
\* handed over or dropped ("Recipients an earlier pass finished for good",
\* finishedFrom).
DeliveredWasSent == \A m \in Messages : msgs[m].at \in {"none", "queued", "pacing"} => ~finishedFrom(m)

\* Who has opted out is on the list, by whatever road the news came ("Hard
\* bounces, complaints and unsubscribes suppress the address").
OptOutSuppresses == "optOut" \in told => list # {}
-----------------------------------------------------------------------------
(* What the proofs of these properties rest on.                            *)

\* The mailbox is on the list exactly while there is cause; reports say what a
\* provider can have to say.
IntakeInv ==
  /\ list \subseteq {"bare"}
  /\ list # {} <=> causes # {}
  /\ \A r \in reports : r.meaning \in Meaning
  /\ msgs \in [Messages -> [at : {"none", "queued", "pacing", "handed", "skipped", "dropped"},
                             spelled : Spelling, key : {0, 1}]]
  /\ key \in {0, 1}
=============================================================================
