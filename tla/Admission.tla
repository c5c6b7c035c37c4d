----------------------------- MODULE Admission -----------------------------
(***************************************************************************)
(* The admission of sends by one instance: the client half of SendEmail    *)
(* (send_email_usecase.go) with its idempotency keys (send_idempotency.go, *)
(* outbox_store.go), the tenant's send rate and backlog ceiling            *)
(* (send_rate_limit.go over RateLimiter), suppressions, the filter's       *)
(* decision and the writes an accepted message makes, one step per call to *)
(* a store.  Clients send, are cut off, and send again.                    *)
(*                                                                         *)
(* A request's content is what requestHash tells apart.                    *)
(***************************************************************************)
EXTENDS RateLimiter

CONSTANTS
  Clients,      \* each has one request in flight
  Keys,         \* idempotency keys
  NoKey,        \* the empty key
  Contents,     \* what is sent, as requestHash tells it apart
  Invalid,      \* requests that are wrong in themselves
  NoContent,
  Sends,        \* what clients send: pairs of a key and a content
  Cost,         \* recipientCount of each content
  Suppressible, \* contents whose recipients may be on the suppression list
  Window,       \* IdempotencyKeyWindow, in ticks
  TenantLimit,  \* the tenant's send limit
  CeilingRows,  \* PerMinute * backlogMinutes
  CountTTL,     \* backlogCountTTL, in ticks
  Tenant,       \* the tenant's bucket
  MaxIds,       \* bound on messages
  MaxNow,       \* bound on the clock
  MaxFaults     \* bound on failed reads and writes and cut connections

VARIABLES
  clock,
  keyRows,     \* send_idempotency_keys: per key its hash, message and time
  outbox,      \* the rows of the outbox: per message its status
  suppressed,  \* contents with a recipient on the suppression list
  buckets,     \* the limiter's
  counted,     \* backlogCounts: the cached depth and the ticks it is good for
  req,         \* per client, its request
  trail,       \* what was recorded of messages: events, records, saved messages, Sent copies
  issued,      \* message ids handed out
  faults,
  accepted,    \* HISTORY: every message queued, with its key, hash and stamp
  unpaced      \* HISTORY: messages the ceilings did not hold back: a limit or a depth
               \* was unreadable, or they cost more than the burst

vars == <<clock, keyRows, outbox, suppressed, buckets, counted, req, trail, issued, faults,
          accepted, unpaced>>

NoRequest == [pc |-> "idle", key |-> NoKey, content |-> NoContent, id |-> 0, stamp |-> 0,
              action |-> "deliver", open |-> FALSE]
NoCount == [depth |-> 0, left |-> -1]

Init ==
  /\ clock = 0
  /\ keyRows = [k \in {} |-> 0] /\ outbox = [i \in {} |-> 0]
  /\ suppressed \in SUBSET Suppressible
  /\ buckets = NoBuckets /\ counted = NoCount
  /\ req = [c \in Clients |-> NoRequest]
  /\ trail = {} /\ issued = 0 /\ faults = 0 /\ accepted = {} /\ unpaced = 0

At(c, pc) == req[c].pc = pc
InFlight(c) == req[c].pc \notin {"idle", "accepted"}
Fails == faults < MaxFaults /\ faults' = faults + 1
Goto(c, pc) == req' = [req EXCEPT ![c].pc = pc]
Refuse(c) == req' = [req EXCEPT ![c] = NoRequest]
Accept(c, id) ==
  req' = [req EXCEPT ![c] = [NoRequest EXCEPT !.pc = "accepted", !.id = id, !.key = req[c].key,
                                              !.content = req[c].content]]

\* A best-effort write: it is made, or it fails and is logged.
BestEffort(new) ==
  \/ trail' = trail \cup new /\ UNCHANGED faults
  \/ new # {} /\ Fails /\ UNCHANGED trail

tables == <<keyRows, outbox, accepted>>
-----------------------------------------------------------------------------
\* A client calls, or calls again after an answer or a lost connection.  A
\* request that is wrong in itself (its tenant, recipients, key, attachments,
\* reply headers or provider) is refused before anything is written.
Submit(c, key, content) ==
  /\ ~InFlight(c)
  /\ IF content \in Invalid
     THEN Refuse(c)
     ELSE req' = [req EXCEPT ![c] = [NoRequest EXCEPT
                    !.pc = IF key = NoKey THEN "rate" ELSE "replay",
                    !.key = key, !.content = content]]
  /\ UNCHANGED <<clock, tables, suppressed, buckets, counted, trail, issued, faults, unpaced>>

\* GetIdempotencyKey's condition: the use is no older than the window.
Live(k, t) == k \in DOMAIN keyRows /\ keyRows[k].at >= t - Window

\* Mutant of SameUse: what the key was used for is not compared.
SameUseUnread(k, content) == TRUE

\* The stored hash is that of this request.
SameUse(k, content) == keyRows[k].hash = content

\* replay: a live key answers with its message, if the request is the one it
\* was used for, and refuses any other; an unread key refuses too.
Replay(c) ==
  LET k == req[c].key
  IN  /\ At(c, "replay")
      /\ \/ /\ Live(k, clock) /\ SameUse(k, req[c].content)
            /\ Accept(c, keyRows[k].id) /\ UNCHANGED faults
         \/ /\ Live(k, clock) /\ ~SameUse(k, req[c].content)
            /\ Refuse(c) /\ UNCHANGED faults
         \/ ~Live(k, clock) /\ Goto(c, "rate") /\ UNCHANGED faults
         \/ Fails /\ Refuse(c)
      /\ UNCHANGED <<clock, tables, suppressed, buckets, counted, trail, issued, unpaced>>

\* lostKeyRace: the winner's message, or a refusal to be retried.
LostKeyRace(c) ==
  LET k == req[c].key
  IN  /\ At(c, "lostrace")
      /\ \/ /\ Live(k, clock) /\ SameUse(k, req[c].content)
            /\ Accept(c, keyRows[k].id) /\ UNCHANGED faults
         \/ /\ ~(Live(k, clock) /\ SameUse(k, req[c].content))
            /\ Refuse(c) /\ UNCHANGED faults
         \/ Fails /\ Refuse(c)
      /\ UNCHANGED <<clock, tables, suppressed, buckets, counted, trail, issued, unpaced>>

\* CountPending: HELD rows are not waiting for a worker.
Depth == Cardinality({i \in DOMAIN outbox : outbox[i] = "PENDING"})

\* A From the provider does not, or no longer, allow is refused first.
\* checkBacklog: the cached depth while it is good, the table's otherwise.  A
\* depth that cannot be read is no reason to refuse, and a limit that cannot be
\* read skips the rate altogether.
CheckBacklog(c) ==
  LET cached == counted.left >= 0
      depth == IF cached THEN counted.depth ELSE Depth
  IN  /\ At(c, "rate")
      /\ \/ Refuse(c) /\ UNCHANGED <<counted, faults>>
         \/ /\ counted' = IF cached THEN counted ELSE [depth |-> Depth, left |-> CountTTL]
            /\ IF depth >= CeilingRows THEN Refuse(c) ELSE Goto(c, "charge")
            /\ UNCHANGED faults
         \/ /\ Fails /\ UNCHANGED counted
            /\ \E next \in {"charge", "suppression"} :
                 req' = [req EXCEPT ![c].pc = next, ![c].open = TRUE]
      /\ UNCHANGED <<clock, tables, suppressed, buckets, trail, issued, unpaced>>

\* checkSendRate's charge for every recipient, once the depth is accepted.  A message
\* to more recipients than the burst is let through, and empties the bucket.
Charge(c) ==
  LET cost == Cost[req[c].content]
  IN
  /\ At(c, "charge")
  /\ \E res \in AllowAll(buckets, <<[key |-> Tenant, limit |-> TenantLimit]>>, cost, clock) :
       /\ buckets' = res.buckets
       /\ \/ /\ res.allowed
             /\ req' = [req EXCEPT ![c].pc = "suppression",
                                   ![c].open = @ \/ cost > Capacity(TenantLimit)]
          \/ ~res.allowed /\ Refuse(c)
  /\ UNCHANGED <<clock, tables, suppressed, counted, trail, issued, faults, unpaced>>

\* The message id is drawn, and the first suppressed recipient refuses the
\* whole message, on record.
CheckSuppression(c) ==
  /\ At(c, "suppression") /\ issued < MaxIds
  /\ issued' = issued + 1
  /\ \/ /\ req[c].content \in suppressed
        /\ BestEffort({<<issued + 1, "DROPPED">>}) /\ Refuse(c)
     \/ /\ req[c].content \notin suppressed
        /\ req' = [req EXCEPT ![c].pc = "screen", ![c].id = issued + 1]
        /\ UNCHANGED <<trail, faults>>
     \/ Fails /\ Refuse(c) /\ UNCHANGED trail
  /\ UNCHANGED <<clock, tables, suppressed, buckets, counted, unpaced>>

\* Rendering and the filter's decision: a reject is recorded and told, a hold
\* is queued HELD, a tag is recorded and sent.  What cannot be rendered or
\* screened is refused.
Screen(c) ==
  LET id == req[c].id
      Decide(action) == req' = [req EXCEPT ![c].pc = "create", ![c].stamp = clock,
                                           ![c].action = action]
  IN  /\ At(c, "screen")
      /\ \/ Decide("deliver") /\ UNCHANGED <<trail, faults>>
         \/ Decide("hold") /\ UNCHANGED <<trail, faults>>
         \/ Decide("tag") /\ BestEffort({<<id, "tag">>})
         \/ BestEffort({<<id, "reject">>, <<id, "REJECTED">>}) /\ Refuse(c)
         \/ Fails /\ Refuse(c) /\ UNCHANGED trail
      /\ UNCHANGED <<clock, tables, suppressed, buckets, counted, issued, unpaced>>

Row(c) == IF req[c].action = "hold" THEN "HELD" ELSE "PENDING"

\* Mutant of Taken: the insert does not conflict on the key.
NeverTaken(c) == FALSE

\* The key's row outlived the delete of expired ones, so the insert adds none.
Taken(c) == req[c].key # NoKey /\ Live(req[c].key, req[c].stamp)

\* Create and CreateWithIdempotencyKey: in one transaction an expired use of
\* the key is cleared, the key is inserted, and the message is queued; a key
\* still there means another request won.
Create(c) ==
  LET r == req[c]
  IN  /\ At(c, "create")
      /\ \/ /\ Taken(c) /\ Goto(c, "lostrace")
            /\ UNCHANGED <<tables, faults, unpaced>>
         \/ /\ ~Taken(c)
            /\ keyRows' = IF r.key = NoKey THEN keyRows
                          ELSE With(keyRows, r.key,
                                    [hash |-> r.content, id |-> r.id, at |-> r.stamp])
            /\ outbox' = With(outbox, r.id, Row(c))
            /\ accepted' = accepted \cup {[id |-> r.id, key |-> r.key, hash |-> r.content,
                                           at |-> r.stamp]}
            /\ unpaced' = unpaced + (IF r.open THEN 1 ELSE 0)
            /\ Goto(c, "copy") /\ UNCHANGED faults
         \/ Fails /\ Refuse(c) /\ UNCHANGED <<tables, unpaced>>
      /\ UNCHANGED <<clock, suppressed, buckets, counted, trail, issued>>

\* Mutant of FollowUp: a lost race records its own message as well.
FollowUpRegardless(c) ==
  /\ At(c, "copy") \/ At(c, "lostrace")
  /\ BestEffort({<<req[c].id, "copy">>, <<req[c].id, "saved">>, <<req[c].id, "PENDING">>})
  /\ Goto(c, "finish")
  /\ UNCHANGED <<clock, tables, suppressed, buckets, counted, issued, unpaced>>

\* What an accepted message leaves behind, in order, each part best effort:
\* the Sent copy, the saved message and PENDING for each recipient.
FollowUp(c) ==
  /\ At(c, "copy")
  /\ \E skipped \in {{}, {"copy"}, {"saved"}, {"PENDING"}} :
       /\ trail' = trail \cup {<<req[c].id, k>> : k \in {"copy", "saved", "PENDING"} \ skipped}
       /\ IF skipped = {} THEN UNCHANGED faults ELSE Fails
  /\ Goto(c, "finish")
  /\ UNCHANGED <<clock, tables, suppressed, buckets, counted, issued, unpaced>>

\* The review record of a held message, best effort, and the answer.
Finish(c) ==
  /\ At(c, "finish")
  /\ BestEffort(IF req[c].action = "hold" THEN {<<req[c].id, "hold">>} ELSE {})
  /\ Accept(c, req[c].id)
  /\ UNCHANGED <<clock, tables, suppressed, buckets, counted, issued, unpaced>>

\* The client's connection, or the process, dies: the client knows nothing.
CutOff(c) ==
  /\ InFlight(c) /\ Fails
  /\ req' = [req EXCEPT ![c] = NoRequest]
  /\ UNCHANGED <<clock, tables, suppressed, buckets, counted, trail, issued, unpaced>>
-----------------------------------------------------------------------------
\* The queue worker finishes a message.  What it records of the recipients is
\* QueueWorker's: the trail here is admission's.
Drain(i) ==
  /\ i \in DOMAIN outbox /\ outbox[i] = "PENDING"
  /\ outbox' = Without(outbox, {i})
  /\ UNCHANGED <<clock, keyRows, accepted, suppressed, buckets, counted, req, trail, issued,
                 faults, unpaced>>

\* PruneIdempotencyKeys, on retention's schedule.
PruneKeys ==
  /\ \E k \in DOMAIN keyRows : ~Live(k, clock)
  /\ keyRows' = Without(keyRows, {k \in DOMAIN keyRows : ~Live(k, clock)})
  /\ UNCHANGED <<clock, outbox, accepted, suppressed, buckets, counted, req, trail, issued,
                 faults, unpaced>>

\* Mutant of Expired: a cached depth is never counted again.
ExpiredNever(n) == n

\* The cached depth, one tick older.
Expired(n) == IF n.left > 0 THEN [n EXCEPT !.left = @ - 1] ELSE NoCount

\* A tick is longer than the steps from the backlog check to the insert.
Tick ==
  /\ clock < MaxNow
  /\ \A c \in Clients : req[c].pc \notin {"charge", "suppression", "screen", "create"}
  /\ clock' = clock + 1
  /\ counted' = Expired(counted)
  /\ UNCHANGED <<tables, suppressed, buckets, req, trail, issued, faults, unpaced>>

Next ==
  \/ \E c \in Clients :
       \/ \E k \in Keys \cup {NoKey}, x \in Contents \cup Invalid :
            <<k, x>> \in Sends /\ Submit(c, k, x)
       \/ Replay(c) \/ LostKeyRace(c) \/ CheckBacklog(c) \/ Charge(c) \/ CheckSuppression(c)
       \/ Screen(c) \/ Create(c) \/ FollowUp(c) \/ Finish(c) \/ CutOff(c)
  \/ \E i \in 1..MaxIds : Drain(i)
  \/ PruneKeys \/ Tick

Spec == Init /\ [][Next]_vars
-----------------------------------------------------------------------------
TypeOK ==
  /\ clock \in 0..MaxNow /\ DOMAIN keyRows \subseteq Keys /\ DOMAIN outbox \subseteq 1..MaxIds
  /\ \A c \in Clients : req[c].pc \in {"idle", "replay", "rate", "charge", "suppression", "screen",
                                       "create", "lostrace", "copy", "finish", "accepted"}

\* "A retried send is safe" (send_idempotency.go): however requests with one key
\* interleave, are cut off and repeated, the messages queued under it lie a
\* whole window apart, and a client told its send was accepted is told a
\* message that was queued, with the content it sent and under its key.
RetriesAreSafe ==
  /\ \A a, b \in accepted : a # b /\ a.key = b.key /\ a.key # NoKey =>
       a.at < b.at - Window \/ b.at < a.at - Window
  /\ \A c \in Clients : At(c, "accepted") =>
       \E a \in accepted : a.id = req[c].id /\ a.hash = req[c].content /\ a.key = req[c].key

\* What is on record for a message says what became of it: PENDING, a saved
\* message, a Sent copy and a review are of messages that were queued, and a
\* message admission put on record as dropped or rejected never was.
TrailTellsTheTruth ==
  LET queued == {a.id : a \in accepted}
  IN  \A t \in trail :
        /\ t[2] \in {"PENDING", "saved", "copy", "hold"} => t[1] \in queued
        /\ t[2] \in {"DROPPED", "REJECTED", "reject"} => t[1] \notin queued

\* A cached depth lets through no more than the rate allows while it is cached,
\* whoever else is in flight and however many recipients each message has: the outbox
\* stays within the ceiling and that, plus what the ceilings did not hold back: what
\* was admitted unread, and messages to more recipients than the burst, which
\* limiter.go lets through at any rate.
BacklogBounded ==
  Depth <= CeilingRows - 1 + Capacity(TenantLimit) + TenantLimit.rate * CountTTL + unpaced
-----------------------------------------------------------------------------
(* What the proofs of these properties rest on.                            *)
(*                                                                         *)
(* The window counts from what was queued, and what answers a retry is the *)
(* key's row: UsesKept ties the two together across the deletes of expired *)
(* rows.  A trail is true because an id belongs to one request until its   *)
(* message is queued or refused: OwnIds.                                   *)

Steps == {"idle", "replay", "rate", "charge", "suppression", "screen", "create", "lostrace", "copy",
          "finish", "accepted"}
Asked == Keys \cup {NoKey}
Sent == Contents \cup Invalid \cup {NoContent}

Request == [pc : Steps, key : Asked, content : Sent, id : Nat, stamp : Nat,
            action : {"deliver", "hold", "tag"}, open : BOOLEAN]

AdmissionTypes ==
  /\ clock \in Nat /\ issued \in Nat
  /\ req \in [Clients -> Request]
  /\ accepted \subseteq [id : 1..issued, key : Asked, hash : Sent, at : Nat]
  /\ \A t \in trail : t[1] \in 1..issued

\* A use of a key is on its row, or on the row of a later use, until the window
\* has passed; and what is about to be inserted is stamped with the present.
UsesKept ==
  /\ \A a \in accepted : a.key # NoKey =>
       \/ a.at < clock - Window
       \/ a.key \in DOMAIN keyRows /\ a.at <= keyRows[a.key].at
  /\ \A k \in DOMAIN keyRows : keyRows[k].at \in Nat
  /\ \A c \in Clients : At(c, "create") => req[c].stamp = clock

\* The message with this id was queued for this content, under this key.
Queued(id, content, key) == \E a \in accepted : a.id = id /\ a.hash = content /\ a.key = key

\* What a key's row, an answer and the steps after the insert speak of was queued.
SpokenOfQueued ==
  /\ \A k \in DOMAIN keyRows : Queued(keyRows[k].id, keyRows[k].hash, k)
  /\ \A c \in Clients : At(c, "copy") \/ At(c, "finish") \/ At(c, "accepted") =>
       Queued(req[c].id, req[c].content, req[c].key)

\* A message between its id and its insert: no other request has the id, it is
\* not queued, and nothing says it was dropped or rejected.
Deciding(c) == At(c, "screen") \/ At(c, "create")
Refusals == {"DROPPED", "REJECTED", "reject"}
Records == {"PENDING", "saved", "copy", "hold"}

OwnIds ==
  \A c \in Clients : Deciding(c) =>
    /\ req[c].id \in 1..issued
    /\ \A d \in Clients : Deciding(d) /\ req[d].id = req[c].id => d = c
    /\ \A a \in accepted : a.id # req[c].id
    /\ \A t \in trail : t[1] = req[c].id => t[2] \notin Refusals

RetryInv == AdmissionTypes /\ UsesKept /\ SpokenOfQueued /\ RetriesAreSafe
AdmissionInv == RetryInv /\ OwnIds /\ TrailTellsTheTruth
=============================================================================
