------------------------------ MODULE MCEvents ------------------------------
(***************************************************************************)
(* What is known of a message after it was sent, for TLC: EventIntake,     *)
(* TrackedCopies, EventStore, EventPages, TimeSeries, LogStore and Redact  *)
(* side by side.  They share no state here, so a behaviour is one of one   *)
(* of them: `part` says which, and the variables of the others stay 0.     *)
(***************************************************************************)
EXTENDS Integers, Sequences

CONSTANTS
  \* EventIntake
  Messages, Providers, Stores, Tolerance, MaxNow, MaxEvents, MaxReports, MaxEdits,
  \* EventStore
  Modes, Keys, MaxId, MaxTs, QueueCap, WriterCap, ChunkSize, MaxFaults, MaxPasses,
  \* EventPages
  PageKeys, PageSize, PageIds, MaxWrites,
  \* TimeSeries
  MinutesPerHour, HoursPerDay, Last, MaxCounted, MaxPrunes,
  \* LogStore
  LogKeys, LogTenants, LogCap, BatchMax, ViewCap, ListMax, ScanBudget, TruncMax, MaxLogFaults,
  \* Redact
  Fragments, MaxFragments, Digits, MinDigits, MaxDigits,
  \* TrackedCopies
  TemplateBodies, Recipients, MaxChanges

VARIABLES
  part,
  provider, store, msgs, stored, named, events, reports, secret, key, list, causes, told,
  edits, now,
  mode, queue, batch, rows, latest, ix, wqueue, pg, archived, pass, passes, closed, faults,
  horizon, recorded, excused,
  latestOnly, kept, reader, writes,
  counted, minute, hour, day, lifetime, prunes, minuteCut, seriesCut,
  tenantOf, writer, view, logChan, logBatch, db, worker, stopped, dbClosed, trunc, lister, owed,
  gone, logFaults, badSend,
  body, setting, shown,
  version, saved, queued, signKey, base, copies, noted, answer, changes

intake == <<provider, msgs, stored, named, events, reports, secret, key, list, causes, told,
            edits, now>>
storing == <<mode, queue, batch, rows, latest, ix, wqueue, pg, archived, pass, passes, closed,
             faults, horizon, recorded, excused>>
paging == <<latestOnly, reader, writes>>
counting == <<counted, minute, hour, day, lifetime, prunes, minuteCut, seriesCut>>
logging == <<tenantOf, writer, view, logChan, logBatch, db, worker, stopped, dbClosed, trunc, lister,
             owed, gone, logFaults, badSend>>
showing == <<body, setting, shown>>
marking == <<version, saved, queued, signKey, base, copies, noted, answer, changes>>
vars == <<part, store, kept, intake, storing, paging, counting, logging, showing, marking>>

NoIntake ==
  /\ provider = 0 /\ msgs = 0 /\ stored = 0 /\ named = 0 /\ events = 0 /\ reports = 0 /\ secret = 0
  /\ key = 0 /\ list = 0 /\ causes = 0 /\ told = 0 /\ edits = 0 /\ now = 0
NoStoring ==
  /\ mode = 0 /\ queue = 0 /\ batch = 0 /\ rows = 0 /\ latest = 0 /\ ix = 0 /\ wqueue = 0 /\ pg = 0
  /\ archived = 0 /\ pass = 0 /\ passes = 0 /\ closed = 0 /\ faults = 0 /\ horizon = 0
  /\ recorded = 0 /\ excused = 0
NoPaging == latestOnly = 0 /\ reader = 0 /\ writes = 0
NoCounting ==
  /\ counted = 0 /\ minute = 0 /\ hour = 0 /\ day = 0 /\ lifetime = 0 /\ prunes = 0
  /\ minuteCut = 0 /\ seriesCut = 0
NoLogging ==
  /\ tenantOf = 0 /\ writer = 0 /\ view = 0 /\ logChan = 0 /\ logBatch = 0 /\ db = 0 /\ worker = 0
  /\ stopped = 0 /\ dbClosed = 0 /\ trunc = 0 /\ lister = 0 /\ owed = 0 /\ gone = 0
  /\ logFaults = 0 /\ badSend = 0
NoShowing == body = 0 /\ setting = 0 /\ shown = 0
NoMarking ==
  /\ version = 0 /\ saved = 0 /\ queued = 0 /\ signKey = 0 /\ base = 0 /\ copies = 0 /\ noted = 0
  /\ answer = 0 /\ changes = 0

I == INSTANCE EventIntake

S == INSTANCE EventStore

G == INSTANCE EventPages WITH Keys <- PageKeys, MaxId <- PageIds

C == INSTANCE TimeSeries WITH MaxEvents <- MaxCounted

L == INSTANCE LogStore WITH Keys <- LogKeys

R == INSTANCE Redact

T == INSTANCE TrackedCopies WITH
       Bodies <- TemplateBodies, MaxEdits <- MaxChanges, key <- signKey, edits <- changes

\* Timestamps are whole.
ASSUME TimesAssumption == MaxTs \in Nat

Init ==
  \/ /\ part = "intake" /\ I!Init
     /\ kept = 0 /\ NoStoring /\ NoPaging /\ NoCounting /\ NoLogging /\ NoShowing /\ NoMarking
  \/ /\ part = "storing" /\ S!Init
     /\ store = 0 /\ kept = 0 /\ NoIntake /\ NoPaging /\ NoCounting /\ NoLogging /\ NoShowing /\ NoMarking
  \/ /\ part = "paging" /\ G!Init
     /\ NoIntake /\ NoStoring /\ NoCounting /\ NoLogging /\ NoShowing /\ NoMarking
  \/ /\ part = "counting" /\ C!Init
     /\ store = 0 /\ NoIntake /\ NoStoring /\ NoPaging /\ NoLogging /\ NoShowing /\ NoMarking
  \/ /\ part = "logging" /\ L!Init
     /\ store = 0 /\ kept = 0 /\ NoIntake /\ NoStoring /\ NoPaging /\ NoCounting /\ NoShowing /\ NoMarking
  \/ /\ part = "showing" /\ R!Init
     /\ store = 0 /\ kept = 0 /\ NoIntake /\ NoStoring /\ NoPaging /\ NoCounting /\ NoLogging
     /\ NoMarking
  \/ /\ part = "marking" /\ T!Init
     /\ store = 0 /\ kept = 0 /\ NoIntake /\ NoStoring /\ NoPaging /\ NoCounting /\ NoLogging
     /\ NoShowing

Next ==
  \/ /\ part = "intake" /\ I!Next
     /\ UNCHANGED <<part, kept, storing, paging, counting, logging, showing, marking>>
  \/ /\ part = "storing" /\ S!Next
     /\ UNCHANGED <<part, store, kept, intake, paging, counting, logging, showing, marking>>
  \/ /\ part = "paging" /\ G!Next
     /\ UNCHANGED <<part, intake, storing, counting, logging, showing, marking>>
  \/ /\ part = "counting" /\ C!Next
     /\ UNCHANGED <<part, store, intake, storing, paging, logging, showing, marking>>
  \/ /\ part = "logging" /\ L!Next
     /\ UNCHANGED <<part, store, kept, intake, storing, paging, counting, showing, marking>>
  \/ /\ part = "showing" /\ R!Next
     /\ UNCHANGED <<part, store, kept, intake, storing, paging, counting, logging, marking>>
  \/ /\ part = "marking" /\ T!Next
     /\ UNCHANGED <<part, store, kept, intake, storing, paging, counting, logging, showing>>

Spec == Init /\ [][Next]_vars
-----------------------------------------------------------------------------
(* The parts' properties, each of the behaviours of its part.              *)

\* The suppression list holds a mailbox only for cause, and while a cause that was
\* written stands no send to the mailbox is admitted and no pass to it begins
\* (suppressForEvent, suppressionKey, dropSuppressedAtDelivery).
SuppressionsRight == [][part = "intake" => I!SuppressedForCause' /\ ~I!SendsWhileCause]_vars

\* No event is deleted that was not archived, and latest_events lists what
\* latest_ts names and nothing outdated (TruncateBefore, performWrite,
\* performLatestExpiry); a log entry the queue took is stored when Close returns,
\* and none is sent to a view that is closed (worker, Write).
EventsKept ==
  /\ part = "storing" => S!NothingLost /\ S!DeliveryListTrue
  /\ part = "logging" => L!QueuedIsStored /\ L!NoSendOnClosed

\* Pages of events or log entries read to the end show everything once, and only
\* what the reader may see (List, logScope); a range read from the coarse counters
\* is the sum of its minutes, and every point of a chart its bucket's
\* (rangeCounters, GetTimeSeriesMetrics).
ReadsTellAll ==
  /\ part = "paging" => G!PagesTellAll
  /\ part = "logging" => L!LogPagesTellAll /\ L!TenantsApart
  /\ part = "counting" => C!RangeCountsAll /\ C!ChartTrue

\* A secret that is introduced by a label, issued or in a key block is masked in
\* the message that is shown, nothing else is, and a wider level shows no more
\* (Text, HTML, Subject, luhn).  The subject of an event is not masked.
SecretsHidden ==
  part = "showing" =>
    /\ R!LabelledHidden /\ R!RestShown /\ R!KeyBlocksHidden /\ R!WiderHidesMore
    /\ body = <<>> => R!LuhnNoticesSlips

\* A tracked link leads where the untracked one did and outlives a new signing key
\* while the body it was sent with is stored and can be read; a delivery report counts against the
\* mailbox its copy went to and no other (UnescapeHrefValue, rewriteLinks,
\* HandleClick, VerifyBounceRef).
LinksLeadHome == part = "marking" => T!LinksLeadHome /\ T!NoLinkStranded /\ T!BouncesItsOwn
-----------------------------------------------------------------------------
(* Values of the constants for TLC.                                        *)

\* Pieces of a shown message: labels, separators, markup, key blocks, credentials.
SomeFragments ==
  {<<"word">>, <<"password">>, <<":">>, <<"code", ":">>, <<"line break">>, <<"<td>">>, <<"</td>">>,
   <<"<td>", "code", "</td>">>, <<"-----BEGIN">>, <<"word", "-----END">>, <<"issued credential">>,
   <<"secret", ":">>, <<"digits that pass Luhn">>}

\* Two versions of a body, by the hrefs in it, and who it goes to.
Site == "https://site/"
SomeBodies ==
  <<{<<Site>>, <<Site, "&amp;", "copy=">>, <<Site, "&copy=">>, <<"mailto:">>,
     <<Site, "x", "'", "y">>},
    {<<Site>>, <<Site, "&#38;", "copy=", "&amp;", "z">>}>>
TwoRecipients == {[box |-> "a", form |-> "bare"], [box |-> "b", form |-> "display"]}
=============================================================================
