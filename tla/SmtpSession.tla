---------------------------- MODULE SmtpSession ----------------------------
(***************************************************************************)
(* The SMTP submission endpoint (internal/email/transports/smtp): sessions *)
(* that authenticate with an API key, take an envelope and a message, and  *)
(* hand both to SendEmail under an idempotency key made of the Message-ID  *)
(* and the envelope.  The peers are mail clients and relays: they split a  *)
(* message into transactions, lose replies, come back on another           *)
(* connection, and give up on a 5xx.                                       *)
(*                                                                         *)
(* A job is one transaction a client has to get through: a message and the *)
(* recipients of its envelope.  go-smtp (external) sequences the commands. *)
(***************************************************************************)
EXTENDS Naturals, Sequences, FiniteSets, SequencesExt

CONSTANTS
  Conns,          \* connections
  Jobs,           \* job -> [id, text, parses, from, sender, provider, to, envelope]
  NoId, NoProvider, BadProvider,
  Usernames,      \* what clients put in the AUTH username: NoProvider or an id
  MaxRecipients,
  MaxFaults       \* bound on dropped connections, transient refusals, revoked keys and
                  \* submissions that outlive their window

VARIABLES
  conn,      \* per connection: the session, and where the client is with it
  keyValid,  \* the clients' API key may still be used
  job,       \* job -> "todo", "accepted" or "bounced", as its client sees it
  keys,      \* idempotency keys within their window: [key, hash]
  queued,    \* what SendEmail queued, oldest first: [job, audience]
  aged,      \* ghost: the rows of queued whose key's window is over
  faults

vars == <<conn, keyValid, job, keys, queued, aged, faults>>

Closed == [pc |-> "closed", tenant |-> FALSE, provider |-> NoProvider, step |-> 0,
           job |-> NoId, rcpts |-> <<>>, reply |-> "none"]

Init ==
  /\ conn = [c \in Conns |-> Closed] /\ keyValid = TRUE
  /\ job = [j \in DOMAIN Jobs |-> "todo"] /\ keys = {} /\ queued = <<>> /\ aged = {}
  /\ faults = 0

Fails == faults < MaxFaults /\ faults' = faults + 1
-----------------------------------------------------------------------------
(* From a submission to a request.                                         *)

\* validateProviderID: a UUID that is not nil.
validProvider(p) == p # BadProvider

\* resolveProvider: the message's header, else the AUTH username.
resolveProvider(c, m) == IF m.provider # NoProvider THEN m.provider ELSE conn[c].provider

\* Mutation: who is named in no header is left out.
blindRecipientsNone(rcpts, visible) == {}

\* blindRecipients: the envelope's recipients that no header shows, in its order:
\* the pairs of them where the first is no later than the second.
blindRecipients(rcpts, visible) ==
  LET blind == {i \in DOMAIN rcpts : rcpts[i] \notin visible}
  IN  {<<rcpts[p[1]], rcpts[p[2]]>> : p \in {q \in blind \X blind : q[1] <= q[2]}}

\* submissionKey: the Message-ID and the envelope in any order.
submissionKey(id, rcpts) == <<id, ToSet(rcpts)>>

\* The request, as requestHash tells it apart: the message, the provider and the
\* blind recipients in order.
Request(c, m) ==
  [text |-> m.text, to |-> m.to, provider |-> resolveProvider(c, m),
   bcc |-> blindRecipients(conn[c].rcpts, m.to)]

\* resolveRecipients: everyone the request names, once.
Audience(r) == r.to \cup {p[1] : p \in r.bcc}

\* Mutation: what is not recognised is refused for good.
submissionErrorFinal(err) == IF err \in {"rate", "full"} THEN "4xx" ELSE "5xx"

\* submissionError: a reused key and a bad reply header are refused for good, and
\* whatever else went wrong may be tried again.
submissionError(err) == IF err \in {"conflict", "header"} THEN "5xx" ELSE "4xx"

\* The parser's and the session's own refusals, all for good: a message that does
\* not parse, has no sender, or names no usable provider.
Unusable(c, m) ==
  \/ ~m.parses
  \/ ~m.from /\ ~m.sender
  \/ resolveProvider(c, m) = NoProvider \/ ~validProvider(resolveProvider(c, m))

\* replay: the key is within its window, with this request or with another.
Replays(key, hash) == \E k \in keys : k.key = key /\ k.hash = hash
Conflicts(key, hash) == \E k \in keys : k.key = key /\ k.hash # hash

\* The message and its key, in one transaction; no Message-ID, no key.
Queue(j, key, r) ==
  /\ queued' = Append(queued, [job |-> j, audience |-> Audience(r)])
  /\ keys' = IF Jobs[j].id = NoId THEN keys ELSE keys \cup {[key |-> key, hash |-> r]}

\* SendEmail (Admission), as the session sees it: what it answers and what it
\* queues.  A key that cannot be read refuses the send, and a commit whose outcome
\* was lost may have queued the message.
SendEmail(j, key, r, answer) ==
  \/ /\ r.to = {} /\ answer = submissionError("invalid")
     /\ UNCHANGED <<queued, keys, faults>>
  \/ /\ r.to # {} /\ Replays(key, r) /\ answer = "250"
     /\ UNCHANGED <<queued, keys, faults>>
  \/ /\ r.to # {} /\ Conflicts(key, r) /\ answer = submissionError("conflict")
     /\ UNCHANGED <<queued, keys, faults>>
  \/ /\ r.to # {} /\ Fails /\ answer = submissionError("unread")
     /\ UNCHANGED <<queued, keys>>
  \/ /\ r.to # {} /\ ~Replays(key, r) /\ ~Conflicts(key, r)
     /\ \/ answer = "250" /\ Queue(j, key, r) /\ UNCHANGED faults
        \/ /\ Fails /\ \E err \in {"rate", "full", "other"} : answer = submissionError(err)
           /\ UNCHANGED <<queued, keys>>
        \/ Fails /\ answer = submissionError("commit") /\ Queue(j, key, r)
-----------------------------------------------------------------------------
(* The session's commands.                                                 *)

Connect(c) ==
  /\ conn[c].pc = "closed" /\ \E j \in DOMAIN Jobs : job[j] = "todo"
  /\ conn' = [conn EXCEPT ![c].pc = "open"]
  /\ UNCHANGED <<keyValid, job, keys, queued, aged, faults>>

\* LOGIN's first two exchanges: the username with the command, or when asked.
LoginUsername(c, user) ==
  /\ conn[c].pc = "open" /\ ~conn[c].tenant /\ conn[c].step < 2
  /\ \/ conn[c].step = 0 /\ conn' = [conn EXCEPT ![c].step = 1]
     \/ conn' = [conn EXCEPT ![c].step = 2, ![c].provider = user]
  /\ UNCHANGED <<keyValid, job, keys, queued, aged, faults>>

\* authenticate, by PLAIN or as LOGIN's last exchange: a usable key with the send
\* scope, and a username that is empty or a provider's id.
Authenticate(c, user) ==
  /\ conn[c].pc = "open" /\ ~conn[c].tenant
  /\ conn[c].step = 2 => user = conn[c].provider
  /\ keyValid /\ (user = NoProvider \/ validProvider(user))
  /\ conn' = [conn EXCEPT ![c].tenant = TRUE, ![c].provider = user, ![c].step = 3]
  /\ UNCHANGED <<keyValid, job, keys, queued, aged, faults>>

\* A key that is unknown, revoked or may not send, or a malformed username.
AuthRefused(c, user) ==
  /\ conn[c].pc = "open" /\ ~conn[c].tenant
  /\ ~keyValid \/ ~validProvider(user)
  /\ conn' = [conn EXCEPT ![c] = [Closed EXCEPT !.pc = "open"]]
  /\ UNCHANGED <<keyValid, job, keys, queued, aged, faults>>

\* MAIL: a transaction for a job that its client still has to get through.
Mail(c, j) ==
  /\ conn[c].pc = "open" /\ conn[c].tenant
  /\ job[j] = "todo" /\ \A d \in Conns : conn[d].job # j
  /\ conn' = [conn EXCEPT ![c].pc = "mail", ![c].job = j, ![c].rcpts = <<>>]
  /\ UNCHANGED <<keyValid, job, keys, queued, aged, faults>>

\* RCPT: the envelope's recipients in whatever order the client gives them.
Rcpt(c, a) ==
  /\ conn[c].pc = "mail" /\ a \in Jobs[conn[c].job].envelope \ ToSet(conn[c].rcpts)
  /\ Len(conn[c].rcpts) < MaxRecipients
  /\ conn' = [conn EXCEPT ![c].rcpts = Append(@, a)]
  /\ UNCHANGED <<keyValid, job, keys, queued, aged, faults>>

\* Data: parse, resolve, send, answer; the transaction is over.
Data(c) ==
  LET j == conn[c].job
      m == Jobs[j]
      r == Request(c, m)
  IN  /\ conn[c].pc = "mail" /\ conn[c].rcpts # <<>> /\ ToSet(conn[c].rcpts) = m.envelope
      /\ \E answer \in {"250", "4xx", "5xx"} :
           /\ IF Unusable(c, m)
              THEN answer = "5xx" /\ UNCHANGED <<keys, queued, faults>>
              ELSE SendEmail(j, submissionKey(m.id, conn[c].rcpts), r, answer)
           /\ conn' = [conn EXCEPT ![c].pc = "replied", ![c].rcpts = <<>>, ![c].reply = answer]
      /\ UNCHANGED <<keyValid, job, aged>>

\* The reply reaches the client: it is done, gives up, or will try again.
Reply(c) ==
  LET c0 == conn[c]
  IN  /\ c0.pc = "replied"
      /\ job' = [job EXCEPT ![c0.job] = CASE c0.reply = "250" -> "accepted"
                                          [] c0.reply = "5xx" -> "bounced"
                                          [] OTHER -> @]
      /\ conn' = [conn EXCEPT ![c].pc = "open", ![c].job = NoId, ![c].reply = "none"]
      /\ UNCHANGED <<keyValid, keys, queued, aged, faults>>

\* RSET: the transaction goes, the identity stays.
Reset(c) ==
  /\ conn[c].pc = "mail"
  /\ conn' = [conn EXCEPT ![c].pc = "open", ![c].job = NoId, ![c].rcpts = <<>>]
  /\ UNCHANGED <<keyValid, job, keys, queued, aged, faults>>

\* QUIT, and Logout with it; or the connection breaks, with any reply in it.
Logout(c) ==
  /\ conn[c].pc # "closed"
  /\ IF conn[c].pc = "open" THEN UNCHANGED faults ELSE Fails
  /\ conn' = [conn EXCEPT ![c] = Closed]
  /\ UNCHANGED <<keyValid, job, keys, queued, aged>>

\* The key is revoked: sessions that authenticated with it go on.
Revoke ==
  /\ keyValid /\ Fails /\ keyValid' = FALSE
  /\ UNCHANGED <<conn, job, keys, queued, aged>>

\* The key a row of the outbox was queued under.
KeyOf(j) == <<Jobs[j].id, Jobs[j].envelope>>

\* IdempotencyKeyWindow after it was accepted a key answers for nothing more.
WindowEnds(k) ==
  /\ Fails /\ keys' = keys \ {k}
  /\ aged' = aged \cup {i \in DOMAIN queued : KeyOf(queued[i].job) = k.key}
  /\ UNCHANGED <<conn, keyValid, job, queued>>

Next ==
  \/ \E c \in Conns :
       \/ Connect(c) \/ Data(c) \/ Reply(c) \/ Reset(c) \/ Logout(c)
       \/ \E u \in Usernames : LoginUsername(c, u) \/ Authenticate(c, u) \/ AuthRefused(c, u)
       \/ \E j \in DOMAIN Jobs : Mail(c, j)
       \/ \E a \in UNION {Jobs[j].envelope : j \in DOMAIN Jobs} : Rcpt(c, a)
  \/ Revoke
  \/ \E k \in keys : WindowEnds(k)

Spec == Init /\ [][Next]_vars
-----------------------------------------------------------------------------
TypeOK ==
  /\ \A c \in Conns : /\ conn[c].pc \in {"closed", "open", "mail", "replied"}
                      /\ conn[c].step \in 0..3 /\ conn[c].tenant \in BOOLEAN
                      /\ Len(conn[c].rcpts) <= MaxRecipients
  /\ job \in [DOMAIN Jobs -> {"todo", "accepted", "bounced"}]
  /\ faults \in 0..MaxFaults

Rows(j) == {i \in DOMAIN queued : queued[i].job = j}

\* Two submissions of a job may name its blind recipients in different orders.
Reorderable(j) == \E a, b \in Jobs[j].envelope \ Jobs[j].to : a # b

\* A client may give up on the message as it stands, or because its Message-ID and
\* envelope were accepted with another message, for another provider or with the
\* blind recipients in another order.
GivenUp(j) ==
  \/ ~Jobs[j].parses \/ (~Jobs[j].from /\ ~Jobs[j].sender)
  \/ Jobs[j].provider \in {NoProvider, BadProvider}
  \/ \E i \in DOMAIN queued :
       /\ KeyOf(queued[i].job) = KeyOf(j)
       /\ \/ Jobs[queued[i].job].text # Jobs[j].text \/ Jobs[queued[i].job].to # Jobs[j].to
          \/ Jobs[queued[i].job].provider # Jobs[j].provider
          \/ Reorderable(j)

\* "A client that resubmits after losing the reply to DATA gets the first message's
\* acceptance rather than a second copy" (submissionKey): a transaction of a
\* message with a Message-ID is queued once in its key's window (IdempotencyKeyWindow)
\* however often it is submitted and whatever was lost, and one whose client was told
\* so is queued, to everyone in its envelope.  Split transactions of one message do not stand in for each other.
SubmittedOnce ==
  \A j \in DOMAIN Jobs :
    /\ Jobs[j].id # NoId => Cardinality(Rows(j) \ aged) <= 1
    /\ job[j] = "accepted" =>
         \E i \in DOMAIN queued : /\ Jobs[queued[i].job].id = Jobs[j].id
                                  /\ Jobs[queued[i].job].text = Jobs[j].text
                                  /\ Jobs[j].envelope \subseteq queued[i].audience

\* The default reply is "deliberately temporary" (submissionError): a client gives
\* up on a message only if it cannot be used as it stands, or if its key answers for
\* another request.  That is so of another text, but also of the same message with
\* two blind recipients or more in another order, which requestHash tells apart
\* though submissionKey does not (ResubmissionAccepted, which fails): excused here.
NothingBouncedInVain == \A j \in DOMAIN Jobs : job[j] = "bounced" => GivenUp(j)

\* A resubmission is answered with the acceptance of the first: no client gives up
\* on a transaction that was queued (submissionKey's envelope "in a different order
\* and case" is the same envelope, TestSubmissionKey).  It fails: requestHash tells
\* the order of the blind recipients, and the second submission gets a 550.
ResubmissionAccepted ==
  \A j \in DOMAIN Jobs : Jobs[j].id # NoId /\ job[j] = "bounced" => Rows(j) = {}

\* "The envelope decides who actually receives the message" (Data): nobody is sent
\* a message who is not in the envelope of the transaction it came in.  It fails: the
\* request keeps the To and Cc of the headers, whatever the envelope says.
EnvelopeDecides == \A i \in DOMAIN queued : queued[i].audience \subseteq Jobs[queued[i].job].envelope
-----------------------------------------------------------------------------
(* What the proofs of these properties rest on.                            *)

Recipients == UNION {Jobs[j].envelope : j \in DOMAIN Jobs}

Everyone == UNION {Jobs[j].to \cup Jobs[j].envelope : j \in DOMAIN Jobs}

Session == [pc : {"closed", "open", "mail", "replied"}, tenant : BOOLEAN,
            provider : Usernames \cup {NoProvider}, step : 0..3, job : DOMAIN Jobs \cup {NoId},
            rcpts : Seq(Recipients), reply : {"none", "250", "4xx", "5xx"}]

SessionTypes ==
  /\ conn \in [Conns -> Session]
  /\ \A c \in Conns : conn[c].pc \in {"mail", "replied"} => conn[c].job \in DOMAIN Jobs
  /\ job \in [DOMAIN Jobs -> {"todo", "accepted", "bounced"}]
  /\ queued \in Seq([job : DOMAIN Jobs, audience : SUBSET Everyone]) /\ aged \subseteq DOMAIN queued

InQueue(j) ==
  \E i \in DOMAIN queued : /\ Jobs[queued[i].job].id = Jobs[j].id
                           /\ Jobs[queued[i].job].text = Jobs[j].text
                           /\ Jobs[j].envelope \subseteq queued[i].audience

\* The requests a job's submissions make: only the provider of the session and the
\* order of several blind recipients tell them apart.
Asked(r, j) ==
  /\ r = [text |-> Jobs[j].text, to |-> Jobs[j].to, provider |-> r.provider, bcc |-> r.bcc]
  /\ Jobs[j].provider # NoProvider => r.provider = Jobs[j].provider
  /\ ~Reorderable(j) => r.bcc = {<<a, a>> : a \in Jobs[j].envelope \ Jobs[j].to}

\* What a key answers for is queued, to everyone in the envelope; and what is queued
\* with a Message-ID and within its window holds its key, so that it is queued no
\* second time.
KeysKept ==
  /\ \A k \in keys : \E i \in DOMAIN queued :
       /\ Jobs[queued[i].job].id # NoId /\ k.key = KeyOf(queued[i].job)
       /\ Asked(k.hash, queued[i].job)
       /\ Jobs[queued[i].job].envelope \subseteq queued[i].audience
  /\ \A i \in DOMAIN queued \ aged : Jobs[queued[i].job].id # NoId =>
       \E k \in keys : k.key = KeyOf(queued[i].job)
  /\ \A i, n \in DOMAIN queued \ aged :
       queued[i].job = queued[n].job /\ Jobs[queued[i].job].id # NoId => i = n

\* An answer, on its way or read, says what became of the message.
AnswersTrue ==
  /\ \A j \in DOMAIN Jobs : /\ job[j] = "accepted" => InQueue(j)
                            /\ job[j] = "bounced" => GivenUp(j)
  /\ \A c \in Conns : conn[c].pc = "replied" =>
       /\ conn[c].reply = "250" => InQueue(conn[c].job)
       /\ conn[c].reply = "5xx" => GivenUp(conn[c].job)

SessionInv == SessionTypes /\ KeysKept /\ AnswersTrue
=============================================================================
