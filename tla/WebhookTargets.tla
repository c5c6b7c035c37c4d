--------------------------- MODULE WebhookTargets ---------------------------
(***************************************************************************)
(* Where webhooks are posted: the subscription a tenant saves and edits,   *)
(* the check of its URL when it is saved, the check of the address when it *)
(* is dialled, redirects, and the secret its posts are signed with.        *)
(* WebhookDelivery models when a delivery is attempted and what becomes of *)
(* it; here an attempt is whom it reaches.  DNS changes at any time.       *)
(***************************************************************************)
EXTENDS Integers, FiniteSets

CONSTANTS
  Hosts,      \* names, with their port
  Public, Private, \* addresses, the second what Disallowed is true of
  Schemes,
  Wanted,     \* the events a subscription may ask for
  Restrict,   \* the --webhook-block-private-targets flag, off by default
  MaxHops,    \* redirects followed, 10 in the code
  Secrets,    \* signing secrets, one for each subscription a behaviour creates
  MaxEdits, MaxPosts

Addresses == Public \cup Private
\* A URL names a host or is an address itself.
URLs == [scheme : Schemes, host : Hosts \cup Addresses]

VARIABLES
  row,      \* the subscription in the table, or NoRow
  dns,      \* host -> its addresses now
  told,     \* the ids and secrets creators were told
  pending,  \* deliveries queued: the event and the subscription
  attempt,  \* a post under way, of the worker or of TestWebhook
  reached,  \* history: requests that reached an address
  edits, posts

targetVars == <<row, dns, told, pending, attempt, reached, edits, posts>>

NoURL == [scheme |-> "none", host |-> "none"]
Unsigned == "none"
NoRow == [id |-> 0, url |-> NoURL, active |-> FALSE, events |-> {}, secret |-> Unsigned]
NoAttempt == [state |-> "none"]

\* A subscription older than signing has no secret, and nobody checked its URL.
Legacy == -1
LegacyRows ==
  {[id |-> Legacy, url |-> u, active |-> TRUE, events |-> Wanted, secret |-> Unsigned] : u \in URLs}

Init ==
  /\ row \in {NoRow} \cup LegacyRows /\ dns \in [Hosts -> SUBSET Addresses] /\ told = {} /\ pending = {}
  /\ attempt = NoAttempt /\ reached = {} /\ edits = 0 /\ posts = 0
-----------------------------------------------------------------------------
Disallowed(a) == a \in Private
Resolved(host) == IF host \in Addresses THEN {host} ELSE dns[host]

\* CheckURL: an address as it is; a name by every address it has now, and one
\* that does not resolve is let through.
CheckURL(u) == Restrict => \A a \in Resolved(u.host) : ~Disallowed(a)

\* The row a subscription is stored as.
Inserted(id, u, evs, secret) ==
  [id |-> id, url |-> u, active |-> TRUE, events |-> evs, secret |-> secret]

\* Create: a secret of its own, told in the answer and never again.
Create ==
  \E u \in URLs, evs \in SUBSET Wanted :
    /\ row = NoRow /\ Cardinality(told) < Cardinality(Secrets)
    /\ CheckURL(u)
    /\ LET id == Cardinality(told) + 1
           secret == CHOOSE s \in Secrets : \A t \in told : t.secret # s
       IN /\ row' = Inserted(id, u, evs, secret)
          /\ told' = told \cup {[id |-> id, secret |-> secret]}
    /\ UNCHANGED <<dns, pending, attempt, reached, edits, posts>>

\* Update: everything but the secret.
Updated(r, u, evs, active) == [r EXCEPT !.url = u, !.events = evs, !.active = active]

Update ==
  \E u \in URLs, evs \in SUBSET Wanted, active \in BOOLEAN :
    /\ row # NoRow /\ edits < MaxEdits
    /\ CheckURL(u)
    /\ row' = Updated(row, u, evs, active)
    /\ edits' = edits + 1
    /\ UNCHANGED <<dns, told, pending, attempt, reached, posts>>

Delete ==
  /\ row # NoRow /\ edits < MaxEdits
  /\ row' = NoRow /\ edits' = edits + 1
  /\ UNCHANGED <<dns, told, pending, attempt, reached, posts>>

ChangeDNS ==
  \E h \in Hosts, as \in SUBSET Addresses :
    /\ edits < MaxEdits /\ edits' = edits + 1 /\ as # dns[h]
    /\ dns' = [dns EXCEPT ![h] = as]
    /\ UNCHANGED <<row, told, pending, attempt, reached, posts>>
-----------------------------------------------------------------------------
(* Enqueue asks ListActiveByEvent; a delivery is of the subscription it    *)
(* was queued for, and one that cannot be written is not queued.           *)
ListActiveByEvent(e) == IF row.active /\ e \in row.events THEN {row.id} ELSE {}

Enqueue ==
  \E e \in Wanted :
    /\ posts < MaxPosts /\ posts' = posts + 1
    /\ \E listed \in {ListActiveByEvent(e), {}} :
         pending' = pending \cup {[event |-> e, of |-> id] : id \in listed}
    /\ UNCHANGED <<row, dns, told, attempt, reached, edits>>

\* A request to the subscription, as far as the address: signed with the row's
\* secret, and sent unsigned where it has none (applySignature).
Starting(of) ==
  [state |-> "dial", first |-> row.url, at |-> row.url, secret |-> row.secret, of |-> of, hops |-> 0]

\* attempt: the subscription is read again, and one that is gone or disabled
\* ends its delivery.
Attempt ==
  \E d \in pending :
    /\ attempt = NoAttempt
    /\ pending' = pending \ {d}
    /\ attempt' = IF row.id # d.of \/ ~row.active THEN NoAttempt ELSE Starting(d.of)
    /\ UNCHANGED <<row, dns, told, reached, edits, posts>>

\* TestWebhook posts to a disabled subscription too.
TestWebhook ==
  /\ row # NoRow /\ attempt = NoAttempt /\ posts < MaxPosts
  /\ posts' = posts + 1
  /\ attempt' = Starting(row.id)
  /\ UNCHANGED <<row, dns, told, pending, reached, edits>>

\* Mutant of Control: the address dialled is not looked at.
ControlOff(a) == TRUE
Control(a) == Restrict => ~Disallowed(a)

\* The dialer tries the addresses the name has now; one Control refuses is not
\* connected to, and when none is left the attempt fails.
Dial ==
  /\ attempt.state = "dial"
  /\ \/ \E a \in Resolved(attempt.at.host) :
          /\ Control(a)
          /\ reached' = reached \cup {[address |-> a, at |-> attempt.at, first |-> attempt.first,
                                       secret |-> attempt.secret, of |-> attempt.of]}
          /\ attempt' = [attempt EXCEPT !.state = "answer"]
     \/ attempt' = NoAttempt /\ UNCHANGED reached
  /\ UNCHANGED <<row, dns, told, pending, edits, posts>>

\* CheckRedirect: followed only on the host and scheme of the first request, and
\* a limited number of times; else what was answered is the answer.
CheckRedirect(to) ==
  attempt.hops < MaxHops /\ to.host = attempt.first.host /\ to.scheme = attempt.first.scheme

Redirected ==
  \E to \in URLs :
    /\ attempt.state = "answer"
    /\ attempt' = IF CheckRedirect(to)
                  THEN [attempt EXCEPT !.state = "dial", !.at = to, !.hops = @ + 1]
                  ELSE NoAttempt
    /\ UNCHANGED <<row, dns, told, pending, reached, edits, posts>>

Answered ==
  /\ attempt.state = "answer" /\ attempt' = NoAttempt
  /\ UNCHANGED <<row, dns, told, pending, reached, edits, posts>>

Next ==
  \/ Create \/ Update \/ Delete \/ ChangeDNS \/ Enqueue \/ Attempt \/ TestWebhook
  \/ Dial \/ Redirected \/ Answered

Spec == Init /\ [][Next]_targetVars
-----------------------------------------------------------------------------
\* Where the operator blocks private targets, which is not the default: whatever its
\* name resolved to when it was saved, and wherever it redirects, a post reaches no
\* private address (CheckURL, Control, newDeliveryClient).
NoPrivateTarget == Restrict => \A r \in reached : r.address \notin Private

\* A request, and the signature on it, goes to no other host or scheme than the
\* subscription's (CheckRedirect).
SignedStaysHome == \A r \in reached : r.at.host = r.first.host /\ r.at.scheme = r.first.scheme

\* The id and the secret were told together, or it is the subscription without one.
Told(id, secret) == [id |-> id, secret |-> secret] \in told \/ (id = Legacy /\ secret = Unsigned)

\* Every post, after whatever edits, is signed with the secret the creator of the
\* subscription it was queued for was told (Create, Update, attempt); unsigned go
\* only those of a subscription that is older than signing ("a subscription with no
\* secret is sent unsigned rather than not sent", applySignature).
SignedAsTold == \A r \in reached : Told(r.of, r.secret)
-----------------------------------------------------------------------------
(* What the proofs of these properties rest on.                            *)

RowFields == {"id", "url", "active", "events", "secret"}

AttemptFields == {"state", "first", "at", "secret", "of", "hops"}

\* A subscription in the table, a post under way and one that arrived carry what
\* was told, and a post that is redirected is still at home.
TargetInv ==
  /\ DOMAIN row = RowFields /\ (row # NoRow => Told(row.id, row.secret))
  /\ attempt # NoAttempt => /\ DOMAIN attempt = AttemptFields
                            /\ Told(attempt.of, attempt.secret)
                            /\ attempt.at.host = attempt.first.host
                            /\ attempt.at.scheme = attempt.first.scheme
  /\ NoPrivateTarget /\ SignedStaysHome /\ SignedAsTold
=============================================================================
