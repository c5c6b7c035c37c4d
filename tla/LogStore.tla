------------------------------ MODULE LogStore ------------------------------
(***************************************************************************)
(* internal/logging: the log lines kept for the dashboard.  A log call     *)
(* reaches the live views at once and Pebble through a bounded queue and a *)
(* worker that commits in batches; tenants page through what is stored,    *)
(* retention truncates it, Close drains what is queued.                    *)
(*                                                                         *)
(* An entry is its key, the nanosecond of the log call and an id: two      *)
(* goroutines may write in another order than their keys', and every key   *)
(* has the same number of digits, so keys compare as numbers.  A behaviour *)
(* has a live view or a caller of List; the two share nothing but the      *)
(* entries.                                                                *)
(***************************************************************************)
EXTENDS Integers, Sequences, FiniteSets, SequencesExt, FiniteSetsExt

CONSTANTS
  Keys,        \* the keys of the entries a behaviour may write
  LogTenants,  \* tenants that log
  LogCap,      \* capacity of logChan, 10000 in the code
  BatchMax,    \* entries of one commit, 100 in the code
  ViewCap,     \* capacity of a live view's channel, 100 in the code
  ListMax,     \* page size asked for
  ScanBudget,  \* listScanBudget, 20000 in the code
  TruncMax,    \* logTruncateBatchSize, 1000 in the code
  MaxLogFaults \* commits that fail, at most

Nobody == "-"  \* the empty tenant id

VARIABLES
  tenantOf,  \* key -> tenant of the entries written so far
  writer,    \* a Write under way: its key and the views still to be told
  view,      \* a live view: its channel and what was streamed
  logChan, logBatch, db, worker, stopped, dbClosed,
  trunc,     \* a TruncateBefore under way: its cutoff and what it still visits
  lister,    \* a caller paging through List
  owed, gone, logFaults, badSend \* history

logVars == <<tenantOf, writer, view, logChan, logBatch, db, worker, stopped, dbClosed, trunc,
             lister, owed, gone, logFaults, badSend>>

NoWriter == [key |-> 0, left |-> FALSE, broadcast |-> FALSE]
Somebody == [super |-> FALSE, tenant |-> Nobody]
NoView == [state |-> "none", by |-> Somebody, scope |-> Nobody, chan |-> <<>>, sent |-> {}]
NoTrunc == [cut |-> 0, rest |-> <<>>]
NoLister == [state |-> "none", by |-> Somebody, scope |-> Nobody, token |-> 0, shown |-> <<>>,
             due |-> {}]

Init ==
  /\ tenantOf = <<>> /\ writer = NoWriter
  /\ \/ view = NoView /\ lister = [NoLister EXCEPT !.state = "absent"]
     \/ lister = NoLister /\ view = [NoView EXCEPT !.state = "absent"]
  /\ logChan = <<>> /\ logBatch = {} /\ db = {} /\ worker = "select"
  /\ stopped = FALSE /\ dbClosed = FALSE /\ trunc = NoTrunc
  /\ owed = {} /\ gone = {} /\ logFaults = 0 /\ badSend = FALSE
-----------------------------------------------------------------------------
(* PebbleHandler.Handle: the authenticated tenant, else the tenant_id      *)
(* attribute.  An attribute under a group has another name and is not it.  *)
EntryTenant(authenticated, attribute, grouped) ==
  IF authenticated # Nobody THEN authenticated
  ELSE IF grouped THEN Nobody ELSE attribute

\* Write, up to the read lock: every view in the map is told under it, and with
\* no view there is nothing to do under it.
Handle ==
  \E k \in Keys \ DOMAIN tenantOf, ctx, attr \in LogTenants \cup {Nobody}, grouped \in BOOLEAN :
    /\ writer = NoWriter
    /\ tenantOf' = [x \in DOMAIN tenantOf \cup {k} |->
                      IF x = k THEN EntryTenant(ctx, attr, grouped) ELSE tenantOf[x]]
    /\ writer' = [key |-> k, left |-> view.state = "open", broadcast |-> view.state = "open"]
    /\ UNCHANGED <<view, logChan, logBatch, db, worker, stopped, dbClosed, trunc, lister, owed,
                   gone, logFaults, badSend>>

\* A view whose channel is full misses the entry.
Broadcast ==
  /\ writer.broadcast /\ writer.left
  /\ writer' = [writer EXCEPT !.left = FALSE]
  /\ badSend' = (badSend \/ view.state = "closed")
  /\ view' = IF Len(view.chan) < ViewCap
             THEN [view EXCEPT !.chan = Append(@, writer.key)] ELSE view
  /\ UNCHANGED <<tenantOf, logChan, logBatch, db, worker, stopped, dbClosed, trunc, lister, owed,
                 gone, logFaults>>

BroadcastEnds ==
  /\ writer.broadcast /\ ~writer.left
  /\ writer' = [writer EXCEPT !.broadcast = FALSE]
  /\ UNCHANGED <<tenantOf, view, logChan, logBatch, db, worker, stopped, dbClosed, trunc, lister,
                 owed, gone, logFaults, badSend>>

\* The second select: a full queue drops the entry, and once stopChan is closed
\* either ready case may be taken.
Enqueue ==
  /\ writer # NoWriter /\ ~writer.broadcast
  /\ writer' = NoWriter
  /\ \/ /\ Len(logChan) < LogCap
        /\ logChan' = Append(logChan, writer.key)
        /\ owed' = IF stopped THEN owed ELSE owed \cup {writer.key}
     \/ /\ stopped \/ Len(logChan) = LogCap
        /\ UNCHANGED <<logChan, owed>>
  /\ UNCHANGED <<tenantOf, view, logBatch, db, worker, stopped, dbClosed, trunc, lister, gone,
                 logFaults, badSend>>
-----------------------------------------------------------------------------
(* The worker.  The error of a commit is not looked at.                    *)
Commit(batch) ==
  \/ db' = db \cup batch /\ UNCHANGED <<gone, logFaults>>
  \/ /\ logFaults < MaxLogFaults
     /\ logFaults' = logFaults + 1 /\ gone' = gone \cup batch /\ UNCHANGED db

TakeEntry ==
  /\ worker \in {"select", "drain"} /\ logChan # <<>>
  /\ logChan' = Tail(logChan)
  /\ LET batch == logBatch \cup {Head(logChan)}
     IN IF Cardinality(batch) >= BatchMax
        THEN Commit(batch) /\ logBatch' = {}
        ELSE logBatch' = batch /\ UNCHANGED <<db, gone, logFaults>>
  /\ UNCHANGED <<tenantOf, writer, view, worker, stopped, dbClosed, trunc, lister, owed, badSend>>

Tick ==
  /\ worker = "select" /\ logBatch # {}
  /\ Commit(logBatch) /\ logBatch' = {}
  /\ UNCHANGED <<tenantOf, writer, view, logChan, worker, stopped, dbClosed, trunc, lister, owed,
                 badSend>>

SeesStop ==
  /\ worker = "select" /\ stopped
  /\ worker' = "drain"
  /\ UNCHANGED <<tenantOf, writer, view, logChan, logBatch, db, stopped, dbClosed, trunc, lister,
                 owed, gone, logFaults, badSend>>

\* What the worker commits before it returns.
LastBatch == logBatch

Drained ==
  /\ worker = "drain" /\ logChan = <<>>
  /\ worker' = "done" /\ logBatch' = {}
  /\ IF LastBatch = {} THEN UNCHANGED <<db, gone, logFaults>> ELSE Commit(LastBatch)
  /\ UNCHANGED <<tenantOf, writer, view, logChan, stopped, dbClosed, trunc, lister, owed, badSend>>

CloseStop ==
  /\ ~stopped /\ trunc = NoTrunc
  /\ stopped' = TRUE
  /\ UNCHANGED <<tenantOf, writer, view, logChan, logBatch, db, worker, dbClosed, trunc, lister,
                 owed, gone, logFaults, badSend>>

CloseDb ==
  /\ stopped /\ worker = "done" /\ ~dbClosed
  /\ dbClosed' = TRUE
  /\ UNCHANGED <<tenantOf, writer, view, logChan, logBatch, db, worker, stopped, trunc, lister,
                 owed, gone, logFaults, badSend>>
-----------------------------------------------------------------------------
(* logScope: a super administrator reads everything, anybody else a tenant *)
(* of their own, and a caller with no tenant nothing.                      *)
Scopes(super, tenant) == IF super THEN {Nobody} ELSE {tenant} \ {Nobody}

Callers == {c \in [super : BOOLEAN, tenant : LogTenants \cup {Nobody}] : c.super => c.tenant = Nobody}
Within(scope, k) == scope = Nobody \/ tenantOf[k] = scope

\* StreamLogs and Subscribe.
Subscribe ==
  \E c \in Callers : \E scope \in Scopes(c.super, c.tenant) :
    /\ view.state = "none" /\ ~writer.broadcast
    /\ view' = [NoView EXCEPT !.state = "open", !.by = c, !.scope = scope]
    /\ UNCHANGED <<tenantOf, writer, logChan, logBatch, db, worker, stopped, dbClosed, trunc,
                   lister, owed, gone, logFaults, badSend>>

StreamNext ==
  /\ view.state = "open" /\ view.chan # <<>>
  /\ view' = [view EXCEPT !.chan = Tail(@),
                          !.sent = @ \cup (IF Within(view.scope, Head(view.chan))
                                           THEN {Head(view.chan)} ELSE {})]
  /\ UNCHANGED <<tenantOf, writer, logChan, logBatch, db, worker, stopped, dbClosed, trunc, lister,
                 owed, gone, logFaults, badSend>>

\* The write lock: no Write is telling its views.
SubLockFree == ~writer.broadcast

\* The caller's context ends: the view leaves the map and its channel is closed.
Unsubscribe ==
  /\ view.state = "open" /\ SubLockFree
  /\ view' = [view EXCEPT !.state = "closed", !.chan = <<>>]
  /\ UNCHANGED <<tenantOf, writer, logChan, logBatch, db, worker, stopped, dbClosed, trunc, lister,
                 owed, gone, logFaults, badSend>>
-----------------------------------------------------------------------------
(* List: backwards from the token, or from the newest entry, for at most   *)
(* ScanBudget entries, until the page is full.  The token names the first  *)
(* entry not read.                                                         *)
Descending(S) == SetToSortSeq(S, LAMBDA a, b : a > b)

From(token) ==
  IF token = 0 THEN db
  ELSE LET above == {k \in db : k >= token}
       IN IF above = {} THEN {} ELSE {k \in db : k <= Min(above)}

\* How many entries the loop reads: the page may fill, the budget may end.
ReadCount(seq, scope) ==
  LET hits(n) == Cardinality({i \in 1..n : Within(scope, seq[i])})
      stops == {n \in 0..Len(seq) : hits(n) >= ListMax \/ n >= ScanBudget \/ n = Len(seq)}
  IN Min(stops)

NextToken(seq, n) == IF n < Len(seq) THEN seq[n + 1] ELSE 0

ListLogs ==
  \E c \in Callers : \E scope \in Scopes(c.super, c.tenant) :
    /\ lister.state = "none" /\ ~dbClosed
    /\ lister' = [NoLister EXCEPT !.state = "asks", !.by = c, !.scope = scope,
                                  !.due = {k \in db : Within(scope, k)}]
    /\ UNCHANGED <<tenantOf, writer, view, logChan, logBatch, db, worker, stopped, dbClosed, trunc,
                   owed, gone, logFaults, badSend>>

ListPage ==
  /\ lister.state = "asks" /\ ~dbClosed
  /\ LET seq == Descending(From(lister.token))
         n == ReadCount(seq, lister.scope)
         page == SelectSeq(SubSeq(seq, 1, n), LAMBDA k : Within(lister.scope, k))
         token == NextToken(seq, n)
     IN lister' = [lister EXCEPT !.shown = @ \o page, !.token = token,
                                 !.state = IF token = 0 THEN "done" ELSE "asks"]
  /\ UNCHANGED <<tenantOf, writer, view, logChan, logBatch, db, worker, stopped, dbClosed, trunc,
                 owed, gone, logFaults, badSend>>
-----------------------------------------------------------------------------
(* TruncateBefore: the entries of one snapshot below the cutoff, deleted   *)
(* batch by batch; a cancelled context or a failed commit ends the pass    *)
(* with what was committed.  A zero cutoff is refused.                     *)
Expired(cut) == {k \in db : k < cut}

StartTruncate ==
  \E cut \in Keys :
    /\ trunc = NoTrunc /\ ~stopped /\ Expired(cut) # {}
    /\ trunc' = [cut |-> cut, rest |-> Reverse(Descending(Expired(cut)))]
    /\ UNCHANGED <<tenantOf, writer, view, logChan, logBatch, db, worker, stopped, dbClosed, lister,
                   owed, gone, logFaults, badSend>>

TruncateBatch ==
  /\ trunc # NoTrunc
  /\ LET n == Min({TruncMax, Len(trunc.rest)})
         batch == ToSet(SubSeq(trunc.rest, 1, n))
         rest == SubSeq(trunc.rest, n + 1, Len(trunc.rest))
     IN /\ db' = db \ batch /\ gone' = gone \cup batch
        /\ trunc' = IF rest = <<>> THEN NoTrunc ELSE [trunc EXCEPT !.rest = rest]
  /\ UNCHANGED <<tenantOf, writer, view, logChan, logBatch, worker, stopped, dbClosed, lister, owed,
                 logFaults, badSend>>

TruncateEnds ==
  /\ trunc # NoTrunc
  /\ trunc' = NoTrunc
  /\ UNCHANGED <<tenantOf, writer, view, logChan, logBatch, db, worker, stopped, dbClosed, lister,
                 owed, gone, logFaults, badSend>>

Next ==
  \/ Handle \/ Broadcast \/ BroadcastEnds \/ Enqueue
  \/ TakeEntry \/ Tick \/ SeesStop \/ Drained \/ CloseStop \/ CloseDb
  \/ Subscribe \/ StreamNext \/ Unsubscribe
  \/ ListLogs \/ ListPage \/ StartTruncate \/ TruncateBatch \/ TruncateEnds

Spec == Init /\ [][Next]_logVars
-----------------------------------------------------------------------------
\* No entry is sent on a live view's channel after it was closed, which would
\* end the process (Write and Subscribe's AfterFunc share subMu).
NoSendOnClosed == ~badSend

\* An entry the queue took before Close is in the store when Close returns, but
\* for the entries retention deleted and those of a commit that failed (worker's
\* drain, Close).
QueuedIsStored == dbClosed => owed \subseteq db \cup gone

\* A caller who pages to the end was shown every entry of their scope that was
\* stored when they began and is still there, and one twice only when retention
\* deleted the entry their token named (List, TruncateBefore).
LogPagesTellAll ==
  lister.state = "done" =>
    /\ lister.due \cap db \subseteq ToSet(lister.shown)
    /\ gone = {} => IsInjective(lister.shown)

\* What a caller may be shown.
MayRead(c, k) == c.super \/ (c.tenant # Nobody /\ tenantOf[k] = c.tenant)

\* Nobody but a super administrator is shown an entry of another tenant or of no
\* tenant, in a page or live (logScope, List, StreamLogs).
TenantsApart ==
  /\ \A k \in ToSet(lister.shown) : MayRead(lister.by, k)
  /\ \A k \in view.sent : MayRead(view.by, k)
-----------------------------------------------------------------------------
(* What the proofs of these properties rest on.                            *)

\* A Write under way.
Writers == [key : Keys \cup {0}, left : BOOLEAN, broadcast : BOOLEAN]

\* What is owed is stored, deleted, in the worker's batch or queued; once the worker
\* is done, only the first two.  While a Write tells its views, the view is open.
LogInv ==
  /\ writer \in Writers
  /\ "state" \in DOMAIN view
  /\ logChan \in Seq(Keys \cup {0})
  /\ worker \in {"select", "drain", "done"}
  /\ worker # "select" => stopped
  /\ dbClosed => worker = "done"
  /\ worker # "done" => owed \subseteq db \cup gone \cup logBatch \cup {logChan[i] : i \in DOMAIN logChan}
  /\ worker = "done" => owed \subseteq db \cup gone
  /\ writer.broadcast => view.state = "open"
  /\ ~badSend
=============================================================================
