----------------------------- MODULE EventPages -----------------------------
(***************************************************************************)
(* A tenant's event list read page by page while events are being written: *)
(* List of the Pebble store, whose token is the key the next page starts   *)
(* at, and List of the shared store, whose token is the last row returned. *)
(* LatestOnly asks for one row per message and recipient.                  *)
(***************************************************************************)
EXTENDS Integers, FiniteSets, Sequences, SequencesExt

CONSTANTS
  Stores,    \* "pebble", "postgres"
  Keys,      \* message and recipient pairs
  PageSize,
  MaxId, MaxTs,
  MaxWrites  \* bound on events written while the list is read

VARIABLES
  store, latestOnly,
  kept,     \* the events stored
  reader,   \* the reader's token, what it has been shown, and what was there when it began
  writes

vars == <<store, latestOnly, kept, reader, writes>>

Content == [key : Keys, ts : 0..MaxTs, matches : BOOLEAN]
Entry(i, c) == [id |-> i, key |-> c.key, ts |-> c.ts, matches |-> c.matches]
NoToken == [ts |-> MaxTs + 1, id |-> 0]

\* Newest first; events of one instant by id, upwards in Pebble's keys and
\* downwards in the database's ORDER BY.
Before(s, a, b) ==
  \/ a.ts > b.ts
  \/ a.ts = b.ts /\ IF s = "pebble" THEN a.id < b.id ELSE a.id > b.id

Sorted(S) == SetToSortSeq(S, LAMBDA a, b : Before(store, a, b))

\* The newest of each key, of the events in S.
Newest(S) == {e \in S : \A f \in S : f.key = e.key /\ f # e => Before(store, e, f)}

\* The index the Pebble listing walks: latest_events holds the newest event of
\* each key, events: every one.
Walked == IF latestOnly THEN Newest(kept) ELSE kept

\* List of the Pebble store: from the token's key on, skipping what the filter
\* does not want, to a full page; the token is the key the walk stopped at.
PebblePage(token) ==
  LET q == Sorted({e \in Walked : token = NoToken \/ e = token \/ Before(store, token, e)})
      wanted == SelectSeq(q, LAMBDA e : e.matches)
      shown == SubSeq(wanted, 1, IF Len(wanted) < PageSize THEN Len(wanted) ELSE PageSize)
      stop == IF Len(shown) < PageSize THEN Len(q)
              ELSE CHOOSE i \in 1..Len(q) : q[i] = shown[PageSize]
  IN  [shown |-> shown, more |-> stop < Len(q), token |-> IF stop < Len(q) THEN q[stop + 1] ELSE NoToken]

\* Mutant of LastShown: the token is the row that was fetched to see whether
\* there are more.
LastShownFetched(q, shown) == q[Len(shown) + 1]

LastShown(q, shown) == shown[Len(shown)]

\* List of the shared store: the filter and the token select, LatestOnly ranks
\* what they left, and one row more than the page tells whether there is more.
PostgresPage(token) ==
  LET after == {e \in kept : e.matches /\ (token = NoToken \/ Before(store, token, e))}
      q == Sorted(IF latestOnly THEN Newest(after) ELSE after)
      shown == SubSeq(q, 1, IF Len(q) < PageSize THEN Len(q) ELSE PageSize)
      more == Len(q) > PageSize
  IN  [shown |-> shown, more |-> more, token |-> IF more THEN LastShown(q, shown) ELSE NoToken]

Page(token) == IF store = "pebble" THEN PebblePage(token) ELSE PostgresPage(token)
-----------------------------------------------------------------------------
Init ==
  /\ store \in Stores /\ latestOnly \in BOOLEAN
  /\ \E f \in [1..MaxId - MaxWrites -> Content] : kept = {Entry(i, f[i]) : i \in DOMAIN f}
  /\ reader = [pc |-> "first", token |-> NoToken, shown |-> <<>>, start |-> kept]
  /\ writes = 0

\* The reader asks for a page, with the token the last one returned.
Read ==
  /\ reader.pc # "done"
  /\ LET p == Page(reader.token)
     IN  reader' = [reader EXCEPT !.pc = IF p.more THEN "next" ELSE "done", !.token = p.token,
                                  !.shown = @ \o p.shown]
  /\ UNCHANGED <<store, latestOnly, kept, writes>>

\* Meanwhile an event is written, newer than those there.
Insert(c) ==
  /\ writes < MaxWrites /\ reader.pc = "next" /\ c.ts = MaxTs
  /\ kept' = kept \cup {Entry(MaxId - MaxWrites + writes + 1, c)} /\ writes' = writes + 1
  /\ UNCHANGED <<store, latestOnly, reader>>

Next == Read \/ \E c \in Content : Insert(c)

Spec == Init /\ [][Next]_vars
-----------------------------------------------------------------------------
TypeOK == reader.pc \in {"first", "next", "done"} /\ Cardinality(kept) <= MaxId

\* A reader who pages to the end has been shown every event its filter wants of
\* those stored when it began, each once, whatever was written meanwhile.
PagesTellAll ==
  ~latestOnly /\ reader.pc = "done" =>
    \A e \in reader.start : e.matches =>
      Cardinality({i \in DOMAIN reader.shown : reader.shown[i] = e}) = 1

\* "One row per (message, recipient), newest first" (events.go): a list of the
\* latest events shows no message and recipient twice.
LatestListedOnce ==
  latestOnly /\ writes = 0 =>
    \A i, j \in DOMAIN reader.shown : i # j => reader.shown[i].key # reader.shown[j].key
=============================================================================
