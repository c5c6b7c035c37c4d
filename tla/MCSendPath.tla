----------------------------- MODULE MCSendPath -----------------------------
(***************************************************************************)
(* The road of a message from its client to the outbox and on to a worker, *)
(* for TLC: SmtpSession, MimeParser, Admission, Pacing, FilterRules,       *)
(* AttachText and Templates side by side. They share no state here, so a   *)
(* behaviour is one of one of them: `part` says which, and the variables   *)
(* of the others stay 0.                                                   *)
(***************************************************************************)
EXTENDS Integers, Sequences, TLC

CONSTANTS
  \* Admission
  Clients, SendKeys, NoKey, Contents, Invalid, NoContent, Suppressible, ContentCost,
  SendPairs, Window, TenantLimit, CeilingRows, CountTTL, Tenant, MaxIds, MaxNow, MaxFaults,
  MaxBuckets, IdleTTL, Minute,
  \* SmtpSession
  Conns, Jobs, NoId, NoProvider, BadProvider, Usernames, MaxRecipients, MaxDrops,
  \* FilterRules
  Nodes, Catalogue, Messages, Direction, EnabledTTL, MaxQuery, MaxWrites,
  \* Templates
  TemplateTTL, MaxRead, MaxVersion, MaxAge,
  \* the passes of Pacing
  p1, p2, p3

\* Times are whole.
ASSUME WindowAssumption == Window \in Nat
ASSUME TimesAssumption ==
  /\ EnabledTTL \in Nat /\ MaxQuery \in Nat
  /\ TemplateTTL \in Nat /\ MaxRead \in Nat /\ MaxAge \in Nat

VARIABLES part,  \* which component this behaviour is of
  keyRows, outbox, suppressed, counted, req, trail, issued, accepted, unpaced,
  conn, keyValid, job, keys, queued, aged,
  input, output,
  limitOf, pass, changes, made, sent, gift,
  versions, cached, generation, reader, writer, ages, returned, verdict,
  attachment, seen,
  tpls, current, changed, tplCached, reading, editor, goCache, message, outcome,
  faults, clock, buckets

admission == <<keyRows, outbox, suppressed, counted, req, trail, issued, accepted, unpaced>>
submitting == <<conn, keyValid, job, keys, queued, aged>>
parsing == <<input, output>>
pacing == <<limitOf, pass, changes, made, sent, gift>>
rules == <<versions, cached, generation, reader, writer, ages, returned, verdict>>
attaching == <<attachment, seen>>
templates == <<tpls, current, changed, tplCached, reading, editor, goCache, message, outcome>>
vars == <<part, faults, clock, buckets, admission, submitting, parsing, pacing, rules,
          attaching, templates>>

NoAdmission ==
  /\ keyRows = 0 /\ outbox = 0 /\ suppressed = 0 /\ counted = 0 /\ req = 0 /\ trail = 0
  /\ issued = 0 /\ accepted = 0 /\ unpaced = 0
NoSubmitting ==
  /\ conn = 0 /\ keyValid = 0 /\ job = 0 /\ keys = 0 /\ queued = 0 /\ aged = 0
NoParsing ==
  /\ input = 0 /\ output = 0
NoPacing ==
  /\ limitOf = 0 /\ pass = 0 /\ changes = 0 /\ made = 0 /\ sent = 0 /\ gift = 0
NoRules ==
  /\ versions = 0 /\ cached = 0 /\ generation = 0 /\ reader = 0 /\ writer = 0 /\ ages = 0
  /\ returned = 0 /\ verdict = 0

NoAttaching ==
  /\ attachment = 0 /\ seen = 0
NoTemplates ==
  /\ tpls = 0 /\ current = 0 /\ changed = 0 /\ tplCached = 0 /\ reading = 0 /\ editor = 0
  /\ goCache = 0 /\ message = 0 /\ outcome = 0

\* Limits of one and two tokens a tick.
TwoLimits == {[rate |-> 1, burst |-> 2], [rate |-> 2, burst |-> 1]}

\* Whether an operator's value is found in a string.
Found(op, s, v) == s = v

\* Bodies nested to the limit and past it, and the spellings of an address.
Leaf(t, a, s) == [type |-> t, attached |-> a, size |-> s]
SomeLeaves == {Leaf("plain", FALSE, 1), Leaf("plain", FALSE, 0), Leaf("html", FALSE, 2),
               Leaf("plain", TRUE, 1), Leaf("image", FALSE, 2), Leaf("image", FALSE, 3)}
Nest(S) == SomeLeaves \cup {[boundary |-> b, parts |-> s] :
                              b \in BOOLEAN, s \in UNION {[1..n -> S] : n \in 0..2}}
SomeBodies == Nest(SomeLeaves) \cup
  {[boundary |-> TRUE, parts |-> <<p, [boundary |-> TRUE, parts |-> <<q, r>>]>>] :
     p, q \in SomeLeaves, r \in Nest(SomeLeaves)}
Q == "quote"
Spellings == {<<"x">>, <<Q, ",", Q, "<", "x", ">">>, <<"(", "(", ",", ")", ",", ")", "x">>,
              <<Q, "\\", Q, ",", Q, "x">>, <<"x", ":", "x", ",", "x", ";">>,
              <<"<", "x", ",", "x", ">">>, <<"x", "@">>}

\* Parts of documents that end inside a run, break off, or hold what is no text.
Token(is, name, text) == <<[is |-> is, name |-> name, text |-> text]>>
Open(name) == Token("start", name, <<>>)
Close(name) == Token("end", name, <<>>)
Text(s) == Token("chars", "", s)
SomeRuns == {Open("t") \o Text(<<1>>) \o Close("t"), Open("t") \o Text(<<2, 2>>),
             Close("t") \o Text(<<1>>), Close("p"), Token("broken", "", <<>>),
             Open("br") \o Text(<<2>>)}
Cell(name) == Open(name) \o Open("v") \o Text(<<2>>) \o Close("v") \o Close("c")
SomeCells == {Cell("c"), Cell("c s"), Close("row"), Open("v") \o Text(<<2>>), Text(<<2>>),
              Open("t") \o Text(<<2>>) \o Close("t") \o Close("si")}
SomePages == {Token("null", "", <<>>), Token("unreadable", "", <<>>), Token("panic", "", <<>>),
              Token("page", "", <<1>>), Token("page", "", <<2, 2>>)}

A == INSTANCE Admission WITH Keys <- SendKeys, Cost <- ContentCost, Sends <- SendPairs

S == INSTANCE SmtpSession WITH MaxFaults <- MaxDrops

M == INSTANCE MimeParser WITH
       Bodies <- SomeBodies, AddressEntries <- Spellings, MaxEntries <- 3, MaxThread <- 6,
       MaxNesting <- 1, MaxPart <- 2, MaxAttachments <- 1, MaxReferences <- 3, MaxLine <- 9

P == INSTANCE Pacing WITH
       Passes <- {p1, p2, p3}, Tenant <- "tenant", Provider <- "provider", Other <- "other",
       Limits <- TwoLimits, Cost <- p1 :> 2 @@ p2 :> 1 @@ p3 :> 1, MaxPaceWait <- 1, MaxNow <- 2,
       MaxMade <- 2, MaxChanges <- 1, MaxBuckets <- 2, IdleTTL <- 1, Minute <- 2

F == INSTANCE FilterRules WITH Hits <- Found

X == INSTANCE AttachText WITH
       WordRuns <- SomeRuns, SheetRuns <- SomeCells, Pages <- SomePages, MaxRuns <- 2,
       MaxParts <- 2, MaxText <- 4, MaxUnzip <- 8, MaxPages <- 2, MaxInput <- 3

T == INSTANCE Templates WITH
       versions <- tpls, cached <- tplCached, SecondsMin <- 10, SecondsMax <- 100, Milli <- 1000,
       FieldValues <- {1, 2, 12, 13, 31, 32}, Years <- {2006, 2026}

Init ==
  \/ /\ part = "admission" /\ A!Init
     /\ NoSubmitting /\ NoParsing /\ NoPacing /\ NoRules /\ NoAttaching /\ NoTemplates
  \/ /\ part = "session" /\ S!Init
     /\ NoAdmission /\ clock = 0 /\ buckets = 0 /\ NoParsing /\ NoPacing /\ NoRules
     /\ NoAttaching /\ NoTemplates
  \/ /\ part = "mime" /\ M!Init
     /\ NoAdmission /\ faults = 0 /\ clock = 0 /\ buckets = 0 /\ NoSubmitting /\ NoPacing
     /\ NoRules /\ NoAttaching /\ NoTemplates
  \/ /\ part = "pacing" /\ P!Init
     /\ NoAdmission /\ faults = 0 /\ NoSubmitting /\ NoParsing /\ NoRules /\ NoAttaching
     /\ NoTemplates
  \/ /\ part = "rules" /\ F!Init
     /\ NoAdmission /\ faults = 0 /\ clock = 0 /\ buckets = 0 /\ NoSubmitting /\ NoParsing
     /\ NoPacing /\ NoAttaching /\ NoTemplates
  \/ /\ part = "attachments" /\ X!Init
     /\ NoAdmission /\ faults = 0 /\ clock = 0 /\ buckets = 0 /\ NoSubmitting /\ NoParsing
     /\ NoPacing /\ NoRules /\ NoTemplates
  \/ /\ part = "templates" /\ T!Init
     /\ NoAdmission /\ faults = 0 /\ clock = 0 /\ buckets = 0 /\ NoSubmitting /\ NoParsing
     /\ NoPacing /\ NoRules /\ NoAttaching

Next ==
  \/ part = "admission" /\ A!Next
     /\ UNCHANGED <<part, submitting, parsing, pacing, rules, attaching, templates>>
  \/ part = "session" /\ S!Next
     /\ UNCHANGED <<part, admission, clock, buckets, parsing, pacing, rules, attaching,
                    templates>>
  \/ part = "mime" /\ M!Next
     /\ UNCHANGED <<part, admission, faults, clock, buckets, submitting, pacing, rules,
                    attaching, templates>>
  \/ part = "pacing" /\ P!Next
     /\ UNCHANGED <<part, admission, faults, submitting, parsing, rules, attaching,
                    templates>>
  \/ part = "rules" /\ F!Next
     /\ UNCHANGED <<part, admission, faults, clock, buckets, submitting, parsing, pacing,
                    attaching, templates>>
  \/ part = "attachments" /\ X!Next
     /\ UNCHANGED <<part, admission, faults, clock, buckets, submitting, parsing, pacing,
                    rules, templates>>
  \/ part = "templates" /\ T!Next
     /\ UNCHANGED <<part, admission, faults, clock, buckets, submitting, parsing, pacing,
                    rules, attaching>>

Spec == Init /\ [][Next]_vars
-----------------------------------------------------------------------------
(* The components' properties, each of the behaviours of its part.         *)

\* A retry queues no second message within the key's window, and an answer names
\* what was queued for it (SendEmail, send_idempotency.go).
RetriesAreSafe == part = "admission" => A!RetriesAreSafe

\* What is on record of a message agrees with whether it was queued
\* (send_email_usecase.go).
TrailTellsTheTruth == part = "admission" => A!TrailTellsTheTruth

\* A cached depth lets through no more than the rate allows while it is cached, and
\* a reservation given back no more than the limits had earned, whoever waits
\* behind it (checkBacklog, send_rate_limit.go; ReserveAll and Cancel, limiter.go).
CeilingsKept ==
  /\ part = "admission" => A!BacklogBounded
  /\ part = "pacing" => P!CeilingKept

\* A rule's edit holds at once on the node that made it and within the cache's time
\* on the others, and a template's edit reaches every send within its cache's time
\* (Enabled and invalidate, store.go; getTemplate, send_email_usecase.go).
EditsReach ==
  /\ part = "rules" => F!EditAppliesHere /\ F!EditAppliesSoon
  /\ part = "templates" => T!EditReachesSends

\* An SMTP client's message is queued once in its key's window for everyone in its
\* envelope, and is not bounced for a fault of ours, but for blind recipients named
\* again in another order (session.go, errors.go, requestHash).
SubmissionsKept == part = "session" => S!SubmittedOnce /\ S!NothingBouncedInVain

\* A message is taken for what it says: no part of it is lost in parsing, the text
\* of an attachment is the beginning of its document, of the rules that match the
\* first decides, and whichever engine renders a template HTML is escaped, text is
\* not and no date is left out (mime/parser.go, attachtext.go, screen.go,
\* template_renderer.go, template_time.go).
MessagesReadRight ==
  /\ part = "mime" => M!ParsedWhole
  /\ part = "attachments" => X!TextIsPrefix /\ X!SheetsTellValues /\ X!ReadingBounded
  /\ part = "rules" => F!FirstMatchDecides
  /\ part = "templates" =>
       /\ T!EscapedWhereNeeded /\ T!DatesNeverDropped
       /\ changed = 0 /\ message.state = "new" => T!ExamplesRead /\ T!UnixTimesRead
-----------------------------------------------------------------------------
(* Values of the constants for TLC.                                        *)

\* A bucket that refills one token a tick.
OneATick == [rate |-> 1, burst |-> 1]

\* A content to one recipient and one to two, more than the bucket holds.
CostOf == "x" :> 1 @@ "y" :> 2
SendsOf == {<<"key", "x">>, <<"key", "y">>, <<NoKey, "y">>, <<NoKey, "bad">>}

\* Rules that disagree about one message, in both orders of priority.
Condition(f, op, values, n) == [field |-> f, op |-> op, values |-> values, number |-> n]
Rule(id, p, action, conditions, exceptions) ==
  [id |-> id, priority |-> p, action |-> action, conditions |-> conditions,
   exceptions |-> exceptions, direction |-> "outbound", enabled |-> TRUE]
Invoice == Condition("subject_or_body", "contains", {"invoice"}, 0)
ToMany == Condition("recipient_count", "gte", {}, 2)
FromBoss == Condition("from", "domain_is", {"boss"}, 0)
SomeRules == {Rule(1, 1, "hold", {Invoice}, {FromBoss}), Rule(2, 0, "allow", {ToMany}, {}),
              Rule(2, 1, "reject", {ToMany}, {})}
InvoiceToMany ==
  [strings |-> [from |-> {"any"}, subject_or_body |-> {"invoice", ""}],
   numbers |-> [recipient_count |-> 2], flags |-> [has_attachment |-> FALSE]]

\* A message sent in two transactions, and one with neither Message-ID nor From.
Submission(id, text, from, prov, to, env) ==
  [id |-> id, text |-> text, parses |-> TRUE, from |-> from, sender |-> TRUE, provider |-> prov,
   to |-> to, envelope |-> env]
Submissions == [split1 |-> Submission("m", "x", TRUE, "p", {"a", "b"}, {"a", "b"}),
                split2 |-> Submission("m", "x", TRUE, "p", {"a", "b"}, {"c", "d"}),
                bare |-> Submission("", "y", FALSE, "", {"a"}, {"a"})]

OneMessage == {InvoiceToMany}

Symmetry == Permutations(Clients)
=============================================================================
