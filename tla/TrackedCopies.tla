---------------------------- MODULE TrackedCopies ----------------------------
(***************************************************************************)
(* The marks doSend puts on each copy of a message, and what becomes of    *)
(* them when they come back: links rewritten through the click endpoint,   *)
(* and the reference a delivery report has to quote (send_email_usecase.go, *)
(* pkg/tracking, tracking_handler.go, recordBounce).  The pixel and the    *)
(* unsubscribe link are followed in EventIntake.                           *)
(*                                                                         *)
(* The template may be edited, the signing key and the base URL changed,   *)
(* and the stored body expire between the send, the delivery of one copy   *)
(* and another's, and the click.  An href is the sequence of its tokens: a *)
(* scheme and the character references that a URL in HTML is written with. *)
(***************************************************************************)
EXTENDS Naturals, FiniteSets, SequencesExt

CONSTANTS
  Bodies,     \* version of the template -> the hrefs of the body it renders to
  Recipients, \* [box, form]: a mailbox, written bare or with a display name
  MaxEdits    \* bound on edits, expiries and failed event writes together

VARIABLES
  version,   \* of the template
  saved,     \* the version the stored body was rendered from; 0 when none is stored
  queued,
  key,       \* the signing key in use, 0 before setup made one
  base,      \* whether a base URL is configured
  copies,    \* what was delivered, by recipient
  noted,     \* the mailboxes the event store shows the message sent to
  answer,    \* what the last step answered a click or a delivery report
  edits

copyVars == <<version, saved, queued, key, base, copies, noted, answer, edits>>

NoRef == [none |-> TRUE]
NoAnswer == [to |-> "nothing"]

Init ==
  /\ version = 1 /\ saved = 0 /\ queued = FALSE /\ key \in {0, 1} /\ base \in BOOLEAN
  /\ copies = {} /\ noted = {} /\ answer = NoAnswer /\ edits = 0
-----------------------------------------------------------------------------
(* An href, read.                                                          *)
References == {"&amp;", "&#38;", "&copy="}

\* What a client reads a token of an attribute as: a reference HTML lets one write
\* without its semicolon is left alone before "=".
InAttribute(t) ==
  CASE t \in {"&amp;", "&#38;"} -> <<"&">> [] t = "&copy=" -> <<"&", "copy=">> [] OTHER -> <<t>>
unescapeViaTokenizer(raw) == FlattenSeq([i \in DOMAIN raw |-> InAttribute(raw[i])])

\* Mutant of UnescapeHrefValue: html.UnescapeString reads an attribute as text.
UnescapeString(raw) ==
  FlattenSeq([i \in DOMAIN raw |-> IF raw[i] = "&copy=" THEN <<"(c)", "=">> ELSE InAttribute(raw[i])])

onlyAmpReferences(raw) == \A i \in DOMAIN raw : raw[i] \in References => raw[i] = "&amp;"
UnescapeHrefValue(raw) ==
  IF onlyAmpReferences(raw) THEN [i \in DOMAIN raw |-> IF raw[i] = "&amp;" THEN "&" ELSE raw[i]]
  ELSE unescapeViaTokenizer(raw)

\* HrefPattern ends the value at a quote of either kind.
Captured(raw) ==
  LET quotes == {i \in DOMAIN raw : raw[i] = "'"}
  IN IF quotes = {} THEN raw ELSE SubSeq(raw, 1, (CHOOSE i \in quotes : \A j \in quotes : i <= j) - 1)

ValidateTarget(url) == url # <<>> /\ url[1] \in {"http://site/", "https://site/"}

\* LinkTargets: the destinations of a body, in the form the send path signs them.
LinkTargets(body) == {t \in {UnescapeHrefValue(Captured(raw)) : raw \in body} : ValidateTarget(t)}

\* A query parameter, written and read back: what follows a bare "&" is another's.
QueryEscape(url) == [i \in DOMAIN url |-> IF url[i] = "&" THEN "%26" ELSE url[i]]
QueryGet(param) ==
  LET ends == {i \in DOMAIN param : param[i] = "&"}
      value == IF ends = {} THEN param
               ELSE SubSeq(param, 1, (CHOOSE i \in ends : \A j \in ends : i <= j) - 1)
  IN [i \in DOMAIN value |-> IF value[i] = "%26" THEN "&" ELSE value[i]]
-----------------------------------------------------------------------------
(* Marks.  A signature verifies under its key, for what it was made over.  *)
Sign(kind, recipient, target) ==
  IF key = 0 THEN NoRef ELSE [key |-> key, kind |-> kind, recipient |-> recipient, target |-> target]
Verify(kind, recipient, target, sig) == key # 0 /\ sig = Sign(kind, recipient, target)

\* rewriteLinks: what is not a web link is left as it is.
rewriteLinks(body, r) ==
  LET targetOf(raw) == UnescapeHrefValue(Captured(raw))
  IN {[raw |-> raw, param |-> QueryEscape(targetOf(raw)), sig |-> Sign("click", r, targetOf(raw))]
        : raw \in {x \in body : ValidateTarget(targetOf(x))}}

\* injectTracking: a body is sent untracked without a base URL or a key.
injectTracking(body, r) == IF base /\ key # 0 THEN rewriteLinks(body, r) ELSE {}

\* BounceRef: over the bare address, whatever form the recipient was given in.
BounceRef(r) == Sign("bounce", r.box, <<>>)
VerifyBounceRef(ref, box) == Verify("bounce", box, <<>>, ref)
-----------------------------------------------------------------------------
\* SendEmail: queued, and the body as it renders now stored; storing may fail.
Save ==
  /\ ~queued /\ queued' = TRUE
  /\ saved' \in {version, 0} /\ answer' = NoAnswer
  /\ UNCHANGED <<version, key, base, copies, noted, edits>>

Edit == edits < MaxEdits /\ edits' = edits + 1 /\ answer' = NoAnswer

\* doSend, for one recipient: the template is rendered again.  Nobody is told when
\* the event of it cannot be written.
Deliver(r) ==
  /\ queued /\ \A c \in copies : c.to # r
  /\ copies' = copies \cup {[to |-> r, version |-> version, key |-> key,
                             links |-> injectTracking(Bodies[version], r), ref |-> BounceRef(r)]}
  /\ \/ noted' = noted \cup {r.box} /\ answer' = NoAnswer /\ UNCHANGED edits
     \/ Edit /\ UNCHANGED noted
  /\ UNCHANGED <<version, saved, queued, key, base>>

EditTemplate ==
  /\ Edit /\ version < Len(Bodies) /\ version' = version + 1
  /\ UNCHANGED <<saved, queued, key, base, copies, noted>>

\* Setup installs the first key; later ones come with a restart.
SetKey ==
  /\ Edit /\ key' = key + 1
  /\ UNCHANGED <<version, saved, queued, base, copies, noted>>

SetBase ==
  /\ Edit /\ base' = ~base
  /\ UNCHANGED <<version, saved, queued, key, copies, noted>>

Expire ==
  /\ Edit /\ saved # 0 /\ saved' = 0
  /\ UNCHANGED <<version, queued, key, base, copies, noted>>

\* Retention removes the message's events.
ExpireEvents ==
  /\ Edit /\ noted # {} /\ noted' = {}
  /\ UNCHANGED <<version, saved, queued, key, base, copies>>

\* wasSentInThisMessage: the stored body answers for a signature that fails, if it
\* can be read.
wasSentInThisMessage(target, readable) ==
  readable /\ saved # 0 /\ target \in LinkTargets(Bodies[saved])

HandleClick(c, l, readable) ==
  LET target == QueryGet(l.param)
      follows == /\ Verify("click", c.to, target, l.sig) \/ wasSentInThisMessage(target, readable)
                 /\ ValidateTarget(target)
  IN /\ answer' = [to |-> "click", raw |-> l.raw, copy |-> c, yes |-> follows, went |-> target,
                  read |-> readable]
     /\ UNCHANGED <<version, saved, queued, key, base, copies, noted, edits>>

\* wasSentTo: an event names the recipient; a store that cannot be read counts as no.
wasSentTo(box, readable) == readable /\ box \in noted

\* recordBounce for a report that quotes one copy's reference and names a mailbox.
recordBounce(c, box, readable) ==
  /\ answer' = [to |-> "report", copy |-> c, box |-> box, read |-> readable,
                yes |-> c.ref # NoRef /\ VerifyBounceRef(c.ref, box) /\ wasSentTo(box, readable)]
  /\ UNCHANGED <<version, saved, queued, key, base, copies, noted, edits>>

Next ==
  \/ Save \/ EditTemplate \/ SetKey \/ SetBase \/ Expire \/ ExpireEvents
  \/ \E r \in Recipients : Deliver(r)
  \/ \E c \in copies, readable \in BOOLEAN :
       \/ \E l \in c.links : HandleClick(c, l, readable)
       \/ \E r \in Recipients : recordBounce(c, r.box, readable)

Spec == Init /\ [][Next]_copyVars
-----------------------------------------------------------------------------
Plain(raw) == \A i \in DOMAIN raw : raw[i] # "'"
Followed == answer.to = "click" /\ answer.yes

\* Through rewriting, signing, the query and the handler, a link leads where the
\* client would have gone had it not been tracked, under whatever key
\* (UnescapeHrefValue, rewriteLinks, HandleClick).
LinksLeadHome ==
  Followed /\ Plain(answer.raw) => answer.went = unescapeViaTokenizer(answer.raw)

\* A link of a delivered copy is refused only after the key it was signed with was
\* replaced, and then only when the stored body cannot be read, is gone or is of
\* another version of the template (HandleClick, wasSentInThisMessage).
NoLinkStranded ==
  answer.to = "click" /\ ~answer.yes =>
    answer.copy.key # key /\ (saved # answer.copy.version \/ ~answer.read)

\* A delivery report counts against the mailbox its copy went to and no other, and
\* a genuine one is heard while the key it was signed with is in use and the event of
\* the delivery can be read, however the recipient was written (setBounceRef,
\* VerifyBounceRef, wasSentTo).
BouncesItsOwn ==
  answer.to = "report" =>
    answer.yes = (/\ answer.copy.to.box = answer.box /\ answer.copy.key = key /\ key # 0
                   /\ answer.box \in noted /\ answer.read)

\* As LinksLeadHome, for an href with an apostrophe too: the pattern of links.go:97
\* ends a value at either quote, and the link leads to what comes before it.
EveryLinkLeadsHome == Followed => answer.went = unescapeViaTokenizer(answer.raw)
=============================================================================
