----------------------------- MODULE EventStore -----------------------------
(***************************************************************************)
(* Where delivery events are kept.  The local Pebble store takes them      *)
(* through a queue and one writer that commits them in batches; the        *)
(* database takes them through its own queue and batches; and the two are  *)
(* wired together in four ways: Pebble alone, Pebble with the database as  *)
(* a shadow, the database with Pebble as a mirror, and the database with   *)
(* local writes stopped.  Retention moves expired events from both to the  *)
(* archives, and hands what the writer alone may change to the writer.     *)
(*                                                                         *)
(* An event is [id, key, ts]: key is its message and recipient, and ts is  *)
(* stamped before the store is called, so events arrive out of order.      *)
(* Counters are the subject of TimeSeries.                                 *)
(***************************************************************************)
EXTENDS Integers, FiniteSets, Sequences

CONSTANTS
  Modes,      \* "pebble", "shadow", "mirror", "stopped"
  Keys,       \* message and recipient pairs
  MaxId,      \* bound on events
  MaxTs,      \* bound on timestamps
  QueueCap,   \* opChan's capacity
  WriterCap,  \* queueDepth
  ChunkSize,  \* truncateBatchSize and archiveBatch
  MaxFaults,  \* bound on failures, cancelled passes and crashes
  MaxPasses   \* bound on retention passes

VARIABLES
  mode,      \* how the stores are wired
  queue,     \* opChan
  batch,     \* the writer's uncommitted batch
  rows,      \* committed events: events:, event_id: and msg_events: entries
  latest,    \* latest_ts, per key
  ix,        \* latest_events: pairs of key and timestamp
  wqueue,    \* the database writer's channel and batch
  pg,        \* email_events
  archived,  \* events in an archive
  pass,      \* the retention pass
  passes, closed, faults,
  horizon,   \* HISTORY: the latest cutoff of any pass
  recorded,  \* HISTORY: events the store accepted
  excused    \* HISTORY: events a full queue, a failed write or a crash lost

vars == <<mode, queue, batch, rows, latest, ix, wqueue, pg, archived, pass, passes, closed,
          faults, horizon, recorded, excused>>

None == -1
Event == [id : 1..MaxId, key : Keys, ts : 0..MaxTs]

\* What the batch will do when it commits, and the writer's view of latest_ts.
NoBatch == [rows |-> {}, seen |-> [k \in {} |-> 0], add |-> {}, del |-> {}]
NoPass == [pc |-> "idle", before |-> 0, chunk |-> {}, held |-> {}]

Init ==
  /\ mode \in Modes
  /\ queue = <<>> /\ batch = NoBatch /\ rows = {}
  /\ latest = [k \in Keys |-> None] /\ ix = {}
  /\ wqueue = <<>> /\ pg = {} /\ archived = {}
  /\ pass = NoPass /\ passes = 0 /\ closed = FALSE /\ faults = 0 /\ horizon = 0
  /\ recorded = {} /\ excused = {}

local == <<queue, batch, rows, latest, ix>>
Fails == faults < MaxFaults /\ faults' = faults + 1
Shared == mode \in {"mirror", "stopped"}
-----------------------------------------------------------------------------
\* enqueue: a full channel blocks its caller, a closed store refuses.
Enqueue(op) ==
  /\ ~closed /\ Len(queue) < QueueCap
  /\ queue' = Append(queue, op)

\* Writer.Write: never blocks; a full channel drops.
WriterWrite(e, alone) ==
  IF Len(wqueue) < WriterCap
  THEN wqueue' = Append(wqueue, e) /\ excused' = excused
  ELSE wqueue' = wqueue /\ excused' = IF alone THEN excused \cup {e} ELSE excused

NewEvent(e) == ~closed /\ e.id = Cardinality(recorded) + 1 /\ recorded' = recorded \cup {e}

\* Pebble's Write, and shadowed's: the database's copy follows the local one.
WriteLocal(e) ==
  /\ mode \in {"pebble", "shadow"} /\ NewEvent(e)
  /\ Enqueue([event |-> e, expired |-> {}])
  /\ IF mode = "shadow" THEN WriterWrite(e, FALSE) ELSE UNCHANGED <<wqueue, excused>>
  /\ UNCHANGED <<mode, batch, rows, latest, ix, pg, archived, pass, passes, closed, faults, horizon>>

\* The shared Store's Write: the database's queue, and a mirror that may fail.
WriteShared(e) ==
  /\ Shared /\ NewEvent(e)
  /\ \/ /\ mode = "mirror" /\ Enqueue([event |-> e, expired |-> {}])
        /\ WriterWrite(e, FALSE) /\ UNCHANGED faults
     \/ mode = "mirror" /\ Fails /\ WriterWrite(e, TRUE) /\ UNCHANGED queue
     \/ mode = "stopped" /\ WriterWrite(e, TRUE) /\ UNCHANGED <<queue, faults>>
  /\ UNCHANGED <<mode, batch, rows, latest, ix, pg, archived, pass, passes, closed, horizon>>

\* latest_ts as the writer sees it: its batch first, then the database.
LatestSeen(b, k) == IF k \in DOMAIN b.seen THEN b.seen[k] ELSE latest[k]
Sees(b, k, ts) == [x \in DOMAIN b.seen \cup {k} |-> IF x = k THEN ts ELSE b.seen[x]]

\* performWrite: the rows, and the pointer when the event is no older than the
\* one it points at.
PerformWrite(b, e) ==
  LET old == LatestSeen(b, e.key)
      drop == IF old = None THEN {} ELSE {<<e.key, old>>}
  IN  IF old = None \/ e.ts >= old
      THEN [rows |-> b.rows \cup {e}, seen |-> Sees(b, e.key, e.ts),
            add |-> (b.add \ drop) \cup {<<e.key, e.ts>>},
            del |-> (b.del \cup drop) \ {<<e.key, e.ts>>}]
      ELSE [b EXCEPT !.rows = @ \cup {e}]

\* Mutant of StillNamed: the pointer goes whatever it points at by now.
StillNamedAnyway(b, e) == TRUE

StillNamed(b, e) == LatestSeen(b, e.key) = e.ts

\* performLatestExpiry: each pointer that still names an expired event goes.
PerformLatestExpiry(b, expired) ==
  LET gone == {e \in expired : StillNamed(b, e)}
      keys == {e.key : e \in gone}
      entries == {<<e.key, e.ts>> : e \in gone}
  IN  [rows |-> b.rows,
       seen |-> [x \in DOMAIN b.seen \cup keys |-> IF x \in keys THEN None ELSE b.seen[x]],
       add |-> b.add \ entries, del |-> b.del \cup entries]

\* The batch's effect on the database.
CommitBatch(b) ==
  /\ rows' = rows \cup b.rows
  /\ latest' = [k \in Keys |-> LatestSeen(b, k)]
  /\ ix' = (ix \ b.del) \cup b.add
  /\ batch' = NoBatch

\* The writer takes an operation; an expiry commits, and lets the pass go on.
Apply ==
  /\ queue # <<>>
  /\ queue' = Tail(queue)
  /\ LET op == Head(queue)
     IN  IF op.expired = {}
         THEN /\ batch' = PerformWrite(batch, op.event)
              /\ UNCHANGED <<rows, latest, ix, pass>>
         ELSE /\ CommitBatch(PerformLatestExpiry(batch, op.expired))
              /\ pass' = IF pass.pc = "wait" THEN [pass EXCEPT !.pc = "next"] ELSE pass
  /\ UNCHANGED <<mode, wqueue, pg, archived, passes, closed, faults, horizon, recorded, excused>>

\* The ticker, or a batch of 500.
Commit ==
  /\ batch # NoBatch /\ CommitBatch(batch)
  /\ UNCHANGED <<mode, queue, wqueue, pg, archived, pass, passes, closed, faults, horizon, recorded,
                 excused>>

InLocal(e) == e \in rows \cup batch.rows \/ \E i \in DOMAIN queue : queue[i].event = e

\* flush: one insert for the batch, a second copy of an event ignored; a
\* failure is counted and the batch is gone.
Flush ==
  /\ wqueue # <<>>
  /\ \E n \in 1..Len(wqueue) :
       LET flushed == {wqueue[i] : i \in 1..n}
       IN  /\ wqueue' = SubSeq(wqueue, n + 1, Len(wqueue))
           /\ \/ pg' = pg \cup flushed /\ UNCHANGED <<faults, excused>>
              \/ /\ Fails /\ pg' = pg
                 /\ excused' = excused \cup {e \in flushed : ~InLocal(e)}
  /\ UNCHANGED <<mode, local, archived, pass, passes, closed, horizon, recorded>>
-----------------------------------------------------------------------------
Expired(S) == {e \in S : e.ts < pass.before}
Chunks(S) == {C \in SUBSET S : Cardinality(C) = ChunkSize \/ C = S}

\* A retention pass begins: TruncateBefore with a cutoff.
StartPass(before) ==
  /\ pass.pc = "idle" /\ passes < MaxPasses /\ ~closed
  /\ passes' = passes + 1
  /\ pass' = [NoPass EXCEPT !.pc = "scan", !.before = before]
  /\ horizon' = IF before > horizon THEN before ELSE horizon
  /\ UNCHANGED <<mode, local, wqueue, pg, archived, closed, faults, recorded, excused>>

\* heldEvents: which of a chunk the database holds too, and will archive itself.
HeldEvents(chunk) == IF Shared THEN chunk \cap pg ELSE {}

\* The walk over events: collects a chunk, and asks who else holds it.
Scan ==
  /\ pass.pc = "scan"
  /\ \E C \in Chunks(Expired(rows)) :
       pass' = IF C = {} THEN [pass EXCEPT !.pc = "database"]
               ELSE [pass EXCEPT !.pc = "expire", !.chunk = C,
                                 !.held = HeldEvents(C)]
  /\ UNCHANGED <<mode, local, wqueue, pg, archived, passes, closed, faults, horizon, recorded, excused>>

\* Mutant of ToArchive: what the mirror holds is taken to be held elsewhere.
ToArchiveNothing(chunk, held) == IF Shared THEN {} ELSE chunk

\* expireEvent archives what no other store will.
ToArchive(chunk, held) == chunk \ held

\* ArchiveEvents: records reach the tenant's archive file.
ArchiveEvents(S) == archived' = archived \cup S

\* expireChunk: the records are archived, the rows deleted in one commit.
ExpireChunk ==
  /\ pass.pc = "expire"
  /\ ArchiveEvents(ToArchive(pass.chunk, pass.held))
  /\ rows' = rows \ pass.chunk
  /\ pass' = [pass EXCEPT !.pc = "latest"]
  /\ UNCHANGED <<mode, queue, batch, latest, ix, wqueue, pg, passes, closed, faults, horizon, recorded,
                 excused>>

\* expireLatest: the pointers are the writer's to drop.
ExpireLatest ==
  /\ pass.pc = "latest"
  /\ Enqueue([event |-> CHOOSE e \in pass.chunk : TRUE, expired |-> pass.chunk])
  /\ pass' = [pass EXCEPT !.pc = "wait"]
  /\ UNCHANGED <<mode, batch, rows, latest, ix, wqueue, pg, archived, passes, closed, faults,
                 horizon, recorded, excused>>

\* The writer has committed the expiry: the next chunk.
NextChunk ==
  /\ pass.pc = "next"
  /\ pass' = [pass EXCEPT !.pc = "scan", !.chunk = {}, !.held = {}]
  /\ UNCHANGED <<mode, local, wqueue, pg, archived, passes, closed, faults, horizon, recorded, excused>>

\* After the local store, the database: nothing where there is none,
\* DeleteEventsBefore for a shadow, and archiveAndDeleteEvents where the
\* database is the store, in batches: archive first, delete second.
SelectExpired ==
  /\ pass.pc = "database"
  /\ \E C \in Chunks(Expired(pg)) :
       IF ~Shared \/ C = {}
       THEN /\ pass' = NoPass /\ pg' = IF mode = "shadow" THEN pg \ Expired(pg) ELSE pg
            /\ UNCHANGED archived
       ELSE /\ ArchiveEvents(C)
            /\ pass' = [pass EXCEPT !.pc = "delete", !.chunk = C]
            /\ UNCHANGED pg
  /\ UNCHANGED <<mode, local, wqueue, passes, closed, faults, horizon, recorded, excused>>

DeleteArchived ==
  /\ pass.pc = "delete"
  /\ pg' = pg \ pass.chunk
  /\ pass' = [pass EXCEPT !.pc = "database", !.chunk = {}]
  /\ UNCHANGED <<mode, local, wqueue, archived, passes, closed, faults, horizon, recorded, excused>>

\* The pass is cancelled, a read or a write of it fails, or the store it would
\* hand pointers to is closed: what it has not done stays.
Abandon ==
  /\ pass.pc # "idle"
  /\ IF closed /\ pass.pc = "latest" THEN UNCHANGED faults ELSE Fails
  /\ pass' = NoPass
  /\ UNCHANGED <<mode, local, wqueue, pg, archived, passes, closed, horizon, recorded, excused>>
-----------------------------------------------------------------------------
\* Close and Stop: no more is accepted, and what was is applied, committed and
\* flushed.
Close ==
  /\ ~closed /\ closed' = TRUE
  /\ UNCHANGED <<mode, local, wqueue, pg, archived, pass, passes, faults, horizon, recorded, excused>>

\* A crash and a restart: the queues and the batch are gone.
Crash ==
  /\ Fails
  /\ queue' = <<>> /\ batch' = NoBatch /\ wqueue' = <<>> /\ pass' = NoPass /\ closed' = FALSE
  /\ excused' = excused \cup (recorded \ (rows \cup pg \cup archived))
                        \cup (IF mode = "shadow" THEN recorded \ (rows \cup archived) ELSE {})
  /\ UNCHANGED <<mode, rows, latest, ix, pg, archived, passes, horizon, recorded>>

Next ==
  \/ \E e \in Event : WriteLocal(e) \/ WriteShared(e)
  \/ Apply \/ Commit \/ Flush
  \/ \E before \in 1..MaxTs + 1 : StartPass(before)
  \/ Scan \/ ExpireChunk \/ ExpireLatest \/ NextChunk \/ SelectExpired \/ DeleteArchived \/ Abandon
  \/ Close \/ Crash

Spec == Init /\ [][Next]_vars
-----------------------------------------------------------------------------
TypeOK ==
  /\ rows \cup pg \cup archived \cup excused \subseteq recorded
  /\ Len(queue) <= QueueCap /\ Len(wqueue) <= WriterCap
  /\ \A k \in Keys : latest[k] \in {None} \cup 0..MaxTs
  /\ pass.pc \in {"idle", "scan", "expire", "latest", "wait", "next", "database", "delete"}

\* The delivery list shows each message and recipient once, and as it is:
\* whatever the writer, retention and crashes interleave, latest_events holds
\* exactly the entries latest_ts names, and none is older than a committed
\* event no cutoff has reached.
DeliveryListTrue ==
  /\ ix = {<<k, latest[k]>> : k \in {x \in Keys : latest[x] # None}}
  /\ \A e \in rows : e.ts >= horizon => latest[e.key] >= e.ts

\* An event the store accepted is on its way, in a store, or in an archive: no
\* retention pass, cancelled or not, and no close deletes what was not archived.
NothingLost ==
  \A e \in recorded :
    \/ e \in rows \cup pg \cup archived \cup excused \cup batch.rows
    \/ \E i \in DOMAIN queue : queue[i].event = e /\ queue[i].expired = {}
    \/ \E i \in DOMAIN wqueue : wqueue[i] = e
-----------------------------------------------------------------------------
(* What the proofs of these properties rest on.                            *)

\* What opChan, the writer's batch and a retention pass may hold.
Operations == [event : Event, expired : SUBSET Event]

Batches == [rows : SUBSET Event, seen : UNION {[S -> Int] : S \in SUBSET Keys},
            add : SUBSET (Keys \X Int), del : SUBSET (Keys \X Int)]

Passes == [pc : {"idle", "scan", "expire", "latest", "wait", "next", "database", "delete"},
           before : Int, chunk : SUBSET Event, held : SUBSET Event]

\* latest_ts once the batch is committed over l, and the list that goes with it.
After(b, l) == [k \in Keys |-> IF k \in DOMAIN b.seen THEN b.seen[k] ELSE l[k]]

Listed(l) == {<<k, l[k]>> : k \in {x \in Keys : l[x] # None}}

ListAfter(b, x) == (x \ b.del) \cup b.add

\* No event of S that no cutoff h has reached is newer than its pointer.
UpToDate(S, l, h) == \A e \in S : e.ts >= h => l[e.key] >= e.ts

StoreTypes ==
  /\ queue \in Seq(Operations) /\ wqueue \in Seq(Event)
  /\ batch \in Batches /\ rows \subseteq Event /\ latest \in [Keys -> Int]
  /\ ix \subseteq Keys \X Int /\ pass \in Passes /\ horizon \in Int

\* What an expiry may name: it is archived, or the database will archive it.
Safe(m, p, a) == IF m \in {"mirror", "stopped"} THEN a \cup p ELSE a

\* The pass keeps to its cutoff; what it deletes, or asks the writer to forget, is
\* archived or will be.
PassInv ==
  /\ pass.before <= horizon
  /\ pass.pc = "expire" => pass.held \subseteq Safe(mode, pg, {})
  /\ pass.pc \in {"expire", "latest"} => pass.chunk # {} /\ \A x \in pass.chunk : x.ts < horizon
  /\ pass.pc = "latest" => pass.chunk \subseteq Safe(mode, pg, archived)
  /\ pass.pc = "delete" => pass.chunk \subseteq archived

\* An expiry that waits names expired events, and such as are safe.
QueueInv ==
  \A i \in DOMAIN queue : queue[i].expired # {} =>
    queue[i].event \in Safe(mode, pg, archived) /\ \A x \in queue[i].expired : x.ts < horizon

\* The events whose writes wait in opChan.
Waiting(q) == {e \in Event : \E i \in DOMAIN q : q[i].event = e /\ q[i].expired = {}}

\* Where Pebble is the store, no event depends on the database's copy.
LocalInv ==
  /\ mode \in {"pebble", "shadow"} =>
       recorded \subseteq rows \cup archived \cup excused \cup batch.rows \cup Waiting(queue)
  /\ mode = "pebble" => wqueue = <<>> /\ pg = {}

\* The batch leaves the list as the pointers will be when it commits.
BatchInv ==
  /\ ListAfter(batch, ix) = Listed(After(batch, latest))
  /\ UpToDate(rows \cup batch.rows, After(batch, latest), horizon)

\* The inductive invariant of NothingLost and DeliveryListTrue.
StoreInv ==
  /\ StoreTypes /\ PassInv /\ QueueInv /\ LocalInv /\ BatchInv
  /\ recorded \subseteq Event /\ pg \subseteq Event /\ 0 <= horizon
  /\ ix = Listed(latest) /\ UpToDate(rows, latest, horizon)
  /\ recorded \subseteq rows \cup pg \cup archived \cup excused \cup batch.rows \cup Waiting(queue)
                        \cup {wqueue[i] : i \in DOMAIN wqueue}
=============================================================================
