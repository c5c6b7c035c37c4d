----------------------------- MODULE InboundGate -----------------------------
(***************************************************************************)
(* The door of POST /inbound/{tenant}/{provider}: who a post is from, and  *)
(* what mail is read out of it.  Inbound models what becomes of the mail.  *)
(*                                                                         *)
(* A provider authenticates by a signature or a password made from the     *)
(* secret in its row, SendGrid by a password kept beside its public key,   *)
(* SES through SNS by Amazon's signature and a topic named in the row.     *)
(* Amazon, its certificates and the checks of gsmail are external.  A      *)
(* service posts again what was answered 5xx, and gives up what was        *)
(* answered 4xx.                                                           *)
(***************************************************************************)
EXTENDS Integers, Sequences, FiniteSets

CONSTANTS
  Mails,     \* what the posts of the form and JSON formats carry
  Notices,   \* what SES notifications carry
  Topics, Region,  \* SNS topics and topic -> the region in its name
  MaxSteps   \* posts, retries and changes of one behaviour

Fields == {"from", "to", "subject", "text", "html"}
None == "none"
\* Where a URL in an SNS message points: the SNS endpoint of a region, or elsewhere.
Elsewhere == "elsewhere"
Regions == {Region[t] : t \in Topics}
-----------------------------------------------------------------------------
(* What is read out of a post: for each field where its value is from.     *)
Filled(payload, field, from) == IF payload[field] = None THEN from ELSE payload[field]

\* readRaw: the raw message fills what the other fields left empty.
readRaw(payload, raw) ==
  [f \in Fields |-> IF f \in raw THEN Filled(payload, f, "raw") ELSE payload[f]]

empty(payload) == \A f \in Fields : payload[f] = None

Refusal(status) == [status |-> status, payload |-> [f \in Fields |-> None]]
Payload(p) == [status |-> 0, payload |-> p]

\* parsePayload and fromForm: JSON, multipart and urlencoded posts.
parsePayload(m) ==
  CASE m.format = "other" -> Refusal(415)
    [] m.format = "broken" -> Refusal(400)
    [] OTHER -> LET p == readRaw([f \in Fields |-> IF f \in m.fields THEN "form" ELSE None], m.raw)
                IN IF empty(p) THEN Refusal(400) ELSE Payload(p)

\* parseSESReceived: the headers SES read, and over them the message itself when
\* the notification has it; one that does not parse is kept whole as text.
parseSESReceived(n) ==
  LET headers == [f \in Fields |->
                    IF f \in n.headers THEN "headers"
                    ELSE IF f = "from" /\ n.source THEN "envelope"
                    ELSE IF f = "to" /\ n.destination THEN "envelope" ELSE None]
      parsed == [f \in Fields |->
                   IF f \in n.content THEN "content"
                   ELSE IF f = "from" THEN "envelope"
                   ELSE IF f \in {"text", "html"} THEN None ELSE headers[f]]
  IN CASE n.kind # "Received" -> Refusal(400)
       [] n.kind = "Received" /\ n.carries = "nothing" ->
            IF empty(headers) THEN Refusal(400) ELSE Payload(headers)
       [] n.kind = "Received" /\ n.carries = "bad encoding" -> Refusal(400)
       [] n.kind = "Received" /\ n.carries = "unparsable" ->
            Payload([headers EXCEPT !["text"] = "content"])
       [] OTHER -> \* without a From of its own or of its envelope it does not parse
            IF "from" \notin n.content /\ ~n.source
            THEN Payload([headers EXCEPT !["text"] = "content"])
            ELSE Payload(readRaw(parsed, n.content))
-----------------------------------------------------------------------------
VARIABLES
  provider, \* the row: its type and its secret
  amazon,   \* whether Amazon can be reached, and the certificates fetched before
  post,     \* a post on its way, or NoPost
  subscribed, \* the topics whose subscription was confirmed
  let,      \* history: posts let in, with the row they were checked against
  fetched,  \* history: where the gateway sent requests, with the row of then
  lost,     \* history: genuine posts given up, and why
  steps

gateVars == <<provider, amazon, post, subscribed, let, fetched, lost, steps>>

NoPost == [state |-> "none"]

\* The rows a provider may have: a secret of its own, one changed to, none, a
\* SendGrid row with a public key alone or a credential too, or topics.
Rows ==
  [type : {"other"}, secret : {{"s1"}, {"s2"}, {}}, public : {{}}]
    \cup [type : {"sendgrid"}, secret : {{}, {"s1"}}, public : {{"key"}}]
    \cup [type : {"ses"}, secret : SUBSET Topics, public : {{}}]

\* What a post proves itself with.  What a stranger sends is a guess, the public
\* key, or a message Amazon signed for a topic of their own.
Proofs == [by : {"signature", "basic"}, secret : {"s1", "s2", "key", "guess"}] \cup {[by |-> None]}
Envelopes ==
  [topic : Topics, cert : Regions \cup {Elsewhere}, signed : BOOLEAN,
   type : {"SubscriptionConfirmation", "UnsubscribeConfirmation", "Notification"},
   url : Regions \cup {Elsewhere}]

Init ==
  /\ provider \in Rows
  /\ amazon = [up |-> TRUE, cached |-> {}]
  /\ post = NoPost /\ subscribed = {} /\ let = {} /\ fetched = {} /\ lost = {} /\ steps = 0

Step == steps < MaxSteps /\ steps' = steps + 1

\* The service, or somebody else, posts: a service with a secret of the row, or
\* Amazon for a topic.
Posted ==
  /\ post = NoPost /\ Step
  /\ IF provider.type = "ses"
     THEN \E e \in Envelopes, n \in Notices :
            /\ e.type # "Notification" => n = CHOOSE x \in Notices : TRUE
            /\ post' = [state |-> "sent", sns |-> TRUE, envelope |-> e, mail |-> n,
                        genuine |-> e.signed /\ e.cert = Region[e.topic] /\ e.url = Region[e.topic]]
     ELSE \E p \in Proofs, m \in Mails :
            post' = [state |-> "sent", sns |-> FALSE, proof |-> p, mail |-> m,
                     genuine |-> p.by # None /\ p.secret \in {"s1", "s2"}]
  /\ UNCHANGED <<provider, amazon, subscribed, let, fetched, lost>>

\* An operator edits the row, and Amazon comes and goes.
Reconfigure ==
  \E r \in Rows :
    /\ Step /\ r.type = provider.type /\ r # provider /\ provider' = r
    /\ UNCHANGED <<amazon, post, subscribed, let, fetched, lost>>

Outage ==
  /\ Step /\ amazon' = [amazon EXCEPT !.up = ~@]
  /\ UNCHANGED <<provider, post, subscribed, let, fetched, lost>>
-----------------------------------------------------------------------------
(* Authentication.                                                         *)
\* SplitSendGridWebhookSecret: the credential, not the public key.
Credentials == provider.secret

\* authenticate, verifySignature and verifyBasic: SendGrid can only use a password.
authenticate(p) ==
  /\ p.by # None /\ p.secret \in Credentials
  /\ provider.type = "sendgrid" => p.by = "basic"

topicAllowed(topic) == topic \in provider.secret
snsURLAllowed(url, topic) == url = Region[topic]

\* verifySNS: the topic and the certificate's URL, and only then the signature,
\* for which the certificate may have to be fetched.
Pinned(e) == topicAllowed(e.topic) /\ snsURLAllowed(e.cert, e.topic)
AsksCertificate(e) == Pinned(e) /\ e.cert \notin amazon.cached

verifySNS(e) ==
  IF ~Pinned(e) THEN "forged"
  ELSE IF AsksCertificate(e) /\ ~amazon.up THEN "unreachable"
  ELSE IF e.signed THEN "genuine" ELSE "forged"

\* An answer of 5xx has the service post again, one of 4xx has it give up.
Answer(status, why) ==
  IF status >= 500 THEN post' = post /\ UNCHANGED lost
  ELSE /\ post' = NoPost
       /\ lost' = IF status >= 400 /\ post.genuine
                  THEN lost \cup {[post |-> post, why |-> why, status |-> status, row |-> provider]}
                  ELSE lost

Requests(urls) ==
  fetched' = fetched \cup {[url |-> u, topic |-> post.envelope.topic, row |-> provider] : u \in urls}

LetIn(result) ==
  let' = IF result.status # 0 THEN let
         ELSE let \cup {[post |-> post, row |-> provider, payload |-> result.payload]}

\* A body over maxInboundBody, or cut off while it was read, is refused before
\* anybody asks whose it is.
BodyRefused ==
  /\ post # NoPost /\ Step
  /\ Answer(413, "body")
  /\ UNCHANGED <<provider, amazon, subscribed, let, fetched>>

\* lookupProvider: a row that cannot be read authenticates nobody; one with no
\* secret has nothing a post could match.
LookupFails ==
  /\ post # NoPost /\ Step
  /\ Answer(401, "row")
  /\ UNCHANGED <<provider, amazon, subscribed, let, fetched>>

\* ServeHTTP for a provider with a secret.  Process may fail.
ServeParsed ==
  /\ post # NoPost /\ ~post.sns /\ Step
  /\ IF ~authenticate(post.proof) THEN Answer(401, "proof") /\ UNCHANGED let
     ELSE LET result == parsePayload(post.mail)
          IN \/ Answer(IF result.status = 0 THEN 202 ELSE result.status, "mail") /\ LetIn(result)
             \/ result.status = 0 /\ Answer(500, "process") /\ UNCHANGED let
  /\ UNCHANGED <<provider, amazon, subscribed, fetched>>

\* confirmSubscription: the URL is asked for when it is the topic's endpoint.
Confirms(e) == e.type = "SubscriptionConfirmation" /\ snsURLAllowed(e.url, e.topic)

confirmSubscription(e) ==
  \/ ~Confirms(e) /\ Answer(400, "url") /\ UNCHANGED subscribed
  \/ Confirms(e) /\ amazon.up /\ Answer(200, "confirmed") /\ subscribed' = subscribed \cup {e.topic}
  \/ Confirms(e) /\ Answer(502, "confirmation") /\ UNCHANGED subscribed

\* receiveSNS.
ServeSNS ==
  /\ post # NoPost /\ post.sns /\ Step
  /\ LET e == post.envelope
         verdict == verifySNS(e)
         result == parseSESReceived(post.mail)
     IN /\ Requests((IF AsksCertificate(e) THEN {e.cert} ELSE {})
                     \cup (IF verdict = "genuine" /\ Confirms(e) THEN {e.url} ELSE {}))
        /\ amazon' = IF AsksCertificate(e) /\ amazon.up
                     THEN [amazon EXCEPT !.cached = @ \cup {e.cert}] ELSE amazon
        /\ \/ verdict = "forged" /\ Answer(401, "proof") /\ UNCHANGED <<subscribed, let>>
           \/ verdict = "unreachable" /\ Answer(503, "amazon") /\ UNCHANGED <<subscribed, let>>
           \/ /\ verdict = "genuine" /\ e.type = "SubscriptionConfirmation"
              /\ confirmSubscription(e) /\ UNCHANGED let
           \/ /\ verdict = "genuine" /\ e.type = "UnsubscribeConfirmation"
              /\ Answer(200, "unsubscribed") /\ UNCHANGED <<subscribed, let>>
           \/ /\ verdict = "genuine" /\ e.type = "Notification"
              /\ Answer(IF result.status = 0 THEN 202 ELSE result.status, "mail")
              /\ LetIn(result) /\ UNCHANGED subscribed
           \/ /\ verdict = "genuine" /\ e.type = "Notification" /\ result.status = 0
              /\ Answer(500, "process") /\ UNCHANGED <<subscribed, let>>
  /\ UNCHANGED provider

Next == Posted \/ Reconfigure \/ Outage \/ BodyRefused \/ LookupFails \/ ServeParsed \/ ServeSNS

Spec == Init /\ [][Next]_gateVars
-----------------------------------------------------------------------------
\* Mail is let in only on the proof of someone the row names: never on the public
\* key, an unsigned message or another topic's (authenticate, verifySNS).
OnlyTheProvidersOwn ==
  \A l \in let :
    IF l.post.sns THEN l.post.envelope.signed /\ l.post.envelope.topic \in l.row.secret
    ELSE l.post.proof.by # None /\ l.post.proof.secret \in l.row.secret

\* Requests made on a message's word go to the SNS endpoint of a topic the row
\* names (snsURLAllowed).
FetchesPinned == \A f \in fetched : f.topic \in f.row.secret /\ f.url = Region[f.topic]

\* A service's own post is given up only when it is no mail, when the row no longer
\* names what it proves itself with, when the row could not be read, or when its
\* body was too large or broke off: not for want of Amazon, and not for a failure
\* in here (receiveSNS, ServeHTTP).
NothingGivenUpInVain ==
  \A g \in lost :
    \/ g.why \in {"row", "body"}
    \/ g.why = "mail"
    \/ /\ g.why = "proof"
       /\ IF g.post.sns THEN g.post.envelope.topic \notin g.row.secret
          ELSE g.post.proof.secret \notin g.row.secret
               \/ (g.row.type = "sendgrid" /\ g.post.proof.by = "signature")

\* Without the exceptions for the row and the body: ServeHTTP answers 401 when the
\* database cannot be read and 413 when a connection broke off, and a service that
\* takes 4xx for final drops the mail.
NothingLostToTheDatabase == \A g \in lost : g.why \notin {"row", "body"}

\* What a post carried of a field is kept: the mail let in has a value wherever
\* the post had one, and its own word over the raw message's or the envelope's
\* (parsePayload, readRaw, parseSESReceived).
FieldsKept ==
  \A l \in let :
    IF l.post.sns
    THEN LET n == l.post.mail
         IN /\ \A f \in n.headers : l.payload[f] # None
            /\ n.carries = "message" =>
                 \A f \in n.content : l.payload[f] # None \/ l.payload["text"] = "content"
            /\ n.carries = "unparsable" => l.payload["text"] = "content"
    ELSE /\ \A f \in l.post.mail.fields : l.payload[f] = "form"
         /\ \A f \in l.post.mail.raw : l.payload[f] # None
-----------------------------------------------------------------------------
(* What the proofs of these properties rest on.                            *)

\* Posts and notifications carry mail fields; SES reads the headers of a message
\* and not its bodies.
MailsOK ==
  /\ \A m \in Mails : m.fields \subseteq Fields /\ m.raw \subseteq Fields
  /\ \A n \in Notices : n.headers \subseteq {"from", "to", "subject"} /\ n.content \subseteq Fields

\* A post on its way is one that somebody could send.
PostShape ==
  post # NoPost =>
    IF post.sns
    THEN /\ post.envelope \in Envelopes /\ post.mail \in Notices
         /\ post.genuine <=> /\ post.envelope.signed /\ post.envelope.cert = Region[post.envelope.topic]
                             /\ post.envelope.url = Region[post.envelope.topic]
    ELSE /\ post.proof \in Proofs /\ post.mail \in Mails
         /\ post.genuine <=> post.proof.by # None /\ post.proof.secret \in {"s1", "s2"}

GateInv == PostShape /\ OnlyTheProvidersOwn /\ FetchesPinned /\ NothingGivenUpInVain /\ FieldsKept
=============================================================================
