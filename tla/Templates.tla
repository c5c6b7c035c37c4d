----------------------------- MODULE Templates -----------------------------
(***************************************************************************)
(* Templates: kept by ManageTemplatesUsecase, read through the send path's *)
(* cache, and rendered by one of two engines.  A message is rendered when  *)
(* it is admitted, for the filter rules to see, and again by the worker    *)
(* that delivers it.                                                       *)
(*                                                                         *)
(* A template's text is what the two engines make of it; the engines are   *)
(* external.  Its subject, HTML body and text body are one text here,      *)
(* rendered with and without isHTML.                                       *)
(***************************************************************************)
EXTENDS Integers, Sequences, FiniteSets, FiniteSetsExt

CONSTANTS
  TemplateTTL, \* templateCacheTTL, a minute in the code
  MaxRead,     \* how long a read of the template may take
  MaxVersion,  \* writes of the template
  MaxAge,      \* how far back changes are told apart
  SecondsMin, SecondsMax, Milli, \* unixSecondsMin and unixSecondsMax, and 1000
  FieldValues, Years             \* numbers an example date is written with

\* What a template may say: whether rewriteMethodCalls finds a call to rewrite (containsMethodCall
\* is true of each such text), and which engine parses it, rewritten or as written.
TextKinds ==
  {t \in [call : BOOLEAN, goRewritten : BOOLEAN, go : BOOLEAN, handlebars : BOOLEAN] :
     /\ t.call /\ t.go => t.goRewritten
     /\ ~t.call => t.goRewritten = t.go}
\* What the data holds: whether the field called is a date, and whether each
\* engine runs the rest of the text.
DataKinds == [date : BOOLEAN, goRuns : BOOLEAN, handlebarsRuns : BOOLEAN]

VARIABLES
  versions,  \* what each version says, from the first
  current,   \* the version in the table, 0 when there is none
  changed,   \* how long ago the table changed
  cached,    \* templateCache: a version and its age, or NoEntry
  reading,   \* a getTemplate that has missed the cache
  editor,    \* an Update between its read and its write
  goCache,   \* goHtmlCache and goTextCache: text, cache and mode compiled for
  message,   \* a message: where it is and the versions it was rendered from
  outcome    \* the last render

tplVars == <<versions, current, changed, cached, reading, editor, goCache, message, outcome>>

NoEntry == [version |-> 0, age |-> 0]
NoReading == [state |-> "none", version |-> 0, age |-> 0]
NoOutcome == [version |-> 0, changed |-> 0, latest |-> 0, html |-> [ok |-> FALSE],
              text |-> [ok |-> FALSE], date |-> FALSE]

Init ==
  /\ versions \in {<<t>> : t \in TextKinds} /\ current = 1 /\ changed = 0 /\ cached = NoEntry
  /\ reading = NoReading /\ editor = 0 /\ goCache = {}
  /\ message = [state |-> "new", screened |-> 0, delivered |-> {}] /\ outcome = NoOutcome

\* A behaviour follows one message, until it is sent or refused.
Following == message.state \in {"new", "queued"}
-----------------------------------------------------------------------------
(* ManageTemplatesUsecase.  Neither write looks at the cache of the send   *)
(* path, here or in another process.                                       *)
Write(t) ==
  /\ versions' = Append(versions, t) /\ changed' = 0

Create ==
  \E t \in TextKinds :
    /\ Following /\ current = 0 /\ Len(versions) < MaxVersion
    /\ Write(t) /\ current' = Len(versions) + 1
    /\ UNCHANGED <<cached, reading, editor, goCache, message, outcome>>

UpdateRead ==
  /\ Following /\ editor = 0 /\ current # 0 /\ Len(versions) < MaxVersion
  /\ editor' = current
  /\ UNCHANGED <<versions, current, changed, cached, reading, goCache, message, outcome>>

\* The row may be gone by now: the statement then changes nothing.
UpdateWrite ==
  /\ Following /\ editor # 0 /\ editor' = 0
  /\ IF current = 0 \/ Len(versions) = MaxVersion THEN UNCHANGED <<versions, current, changed>>
     ELSE \E t \in TextKinds : Write(t) /\ current' = Len(versions) + 1
  /\ UNCHANGED <<cached, reading, goCache, message, outcome>>

Delete ==
  /\ Following /\ current # 0
  /\ current' = 0 /\ changed' = 0
  /\ UNCHANGED <<versions, cached, reading, editor, goCache, message, outcome>>
-----------------------------------------------------------------------------
(* getTemplate: the cache, else the table, and what was found is cached    *)
(* from when the read ends.                                                *)
\* Mutant of Live: an entry is used however old it is.
LiveAnyAge(entry) == entry.version # 0
Live(entry) == entry.version # 0 /\ entry.age < TemplateTTL

ReadTemplate ==
  /\ Following /\ reading = NoReading /\ ~Live(cached)
  /\ reading' = [state |-> "read", version |-> current, age |-> 0]
  /\ UNCHANGED <<versions, current, changed, cached, editor, goCache, message, outcome>>

GotTemplate ==
  /\ reading.state = "read"
  /\ reading' = [reading EXCEPT !.state = "got"]
  /\ cached' = IF reading.version # 0 THEN [version |-> reading.version, age |-> 0] ELSE cached
  /\ UNCHANGED <<versions, current, changed, editor, goCache, message, outcome>>

FromCache ==
  /\ Following /\ reading = NoReading /\ Live(cached)
  /\ reading' = [state |-> "got", version |-> cached.version, age |-> 0]
  /\ UNCHANGED <<versions, current, changed, cached, editor, goCache, message, outcome>>
-----------------------------------------------------------------------------
(* renderGo: a text is compiled once for each of the two caches, escaping  *)
(* in the one and not in the other.                                        *)
Source(v, rewritten) == [version |-> v, rewritten |-> rewritten]
CacheFor(isHTML) == isHTML

Compiled(v, rewritten, isHTML) ==
  LET found == {e \in goCache : e.source = Source(v, rewritten) /\ e.cache = CacheFor(isHTML)}
  IN IF found # {} THEN CHOOSE e \in found : TRUE
     ELSE [source |-> Source(v, rewritten), cache |-> CacheFor(isHTML), escapes |-> isHTML]

Refused(why) == [ok |-> FALSE, why |-> why, compiled |-> {}]
ByGo(v, rewritten, isHTML, runs) ==
  LET e == Compiled(v, rewritten, isHTML)
  IN IF ~runs THEN [ok |-> FALSE, why |-> "execution", compiled |-> {e}]
     ELSE [ok |-> TRUE, engine |-> "go", escaped |-> e.escapes, dated |-> rewritten, compiled |-> {e}]
\* markSafeForPlainText keeps the engine from escaping what is not HTML.
ByHandlebars(isHTML) ==
  [ok |-> TRUE, engine |-> "handlebars", escaped |-> isHTML, dated |-> FALSE, compiled |-> {}]

Render(v, data, isHTML) ==
  LET t == versions[v]
  IN IF t.call /\ t.goRewritten THEN ByGo(v, TRUE, isHTML, data.date /\ data.goRuns)
     ELSE IF t.handlebars /\ data.handlebarsRuns THEN ByHandlebars(isHTML)
     ELSE IF t.go THEN ByGo(v, FALSE, isHTML, data.goRuns /\ ~t.call)
     ELSE Refused("syntax")

\* renderTemplate, at admission and at delivery: a template that is gone or that
\* any of its parts refuses stops the message.
RenderTemplate ==
  /\ reading.state = "got" /\ reading' = NoReading
  /\ IF reading.version = 0
     THEN message' = [message EXCEPT !.state = "refused"] /\ UNCHANGED <<goCache, outcome>>
     ELSE \E data \in DataKinds :
            LET v == reading.version
                html == Render(v, data, TRUE)
                text == Render(v, data, FALSE)
                ok == html.ok /\ text.ok
            IN /\ goCache' = goCache \cup html.compiled \cup text.compiled
               /\ outcome' = [version |-> v, changed |-> changed, latest |-> current, html |-> html,
                              text |-> text, date |-> data.date]
               /\ message' = IF ~ok THEN [message EXCEPT !.state = "refused"]
                             ELSE IF message.state = "new"
                             THEN [message EXCEPT !.state = "queued", !.screened = v]
                             ELSE [message EXCEPT !.state = "sent", !.delivered = {v}]
  /\ UNCHANGED <<versions, current, changed, cached, editor>>

\* A compiled text leaves its cache when the cache is full or its time is over.
Evict ==
  \E e \in goCache :
    /\ Following /\ goCache' = goCache \ {e}
    /\ UNCHANGED <<versions, current, changed, cached, reading, editor, message, outcome>>

Tick ==
  /\ Following
  /\ reading.state = "read" => reading.age < MaxRead
  /\ reading.state # "got" \* rendering takes no time to speak of
  /\ changed' = Min({MaxAge, changed + 1})
  /\ cached' = IF cached = NoEntry THEN NoEntry
               ELSE [cached EXCEPT !.age = Min({TemplateTTL, @ + 1})]
  /\ reading' = IF reading.state = "read" THEN [reading EXCEPT !.age = @ + 1] ELSE reading
  /\ UNCHANGED <<versions, current, editor, goCache, message, outcome>>

Next ==
  \/ Create \/ UpdateRead \/ UpdateWrite \/ Delete
  \/ ReadTemplate \/ GotTemplate \/ FromCache \/ RenderTemplate \/ Evict \/ Tick

Spec == Init /\ [][Next]_tplVars
-----------------------------------------------------------------------------
(* Dates.  An example date is a separator and three numbers; the layouts   *)
(* it may be an example of are tried in the order of exampleLayouts.       *)
Layout(sep, order) == [sep |-> sep, order |-> order]
exampleLayouts ==
  <<Layout("-", <<"y", "m", "d">>), Layout("/", <<"y", "m", "d">>), Layout("/", <<"m", "d", "y">>),
    Layout("/", <<"d", "m", "y">>), Layout("-", <<"d", "m", "y">>), Layout("-", <<"m", "d", "y">>)>>

Fits(field, n) ==
  CASE field = "y" -> n \in Years
    [] field = "m" -> n \in 1..12
    [] field = "d" -> n \in 1..31

Parses(layout, date) ==
  layout.sep = date.sep /\ \A i \in 1..3 : Fits(layout.order[i], date.fields[i])

AsWritten == Layout("as written", <<>>)
\* goLayout of an example date; of named layouts and tokens it is their layout.
goLayout(date) ==
  LET fits == {i \in DOMAIN exampleLayouts : Parses(exampleLayouts[i], date)}
  IN IF fits = {} THEN AsWritten ELSE exampleLayouts[Min(fits)]

\* The layout of Go's own that a date would be: 2006 the year, 1 the month, 2 the day.
OwnFields == [y |-> 2006, m |-> 1, d |-> 2]
OwnDate(layout) == [sep |-> layout.sep, fields |-> [i \in 1..3 |-> OwnFields[layout.order[i]]]]

\* A number is a Unix time in seconds or in milliseconds, or no date: the second
\* it names, or -1.
fromUnix(n) ==
  IF n >= SecondsMin /\ n < SecondsMax THEN n
  ELSE IF n >= SecondsMin * Milli /\ n < SecondsMax * Milli THEN n \div Milli
  ELSE -1
-----------------------------------------------------------------------------
\* A template is rendered as it was at most one time to live, and the read that
\* cached it, ago: an edit or a deletion reaches every send after that
\* (getTemplate, templateCacheTTL).
EditReachesSends ==
  outcome.version # outcome.latest => outcome.changed <= TemplateTTL + MaxRead

\* HTML is escaped and text is not, whichever engine ran and whatever the caches
\* held (Render, renderGo, markSafeForPlainText).
EscapedWhereNeeded ==
  /\ outcome.html.ok => outcome.html.escaped
  /\ outcome.text.ok => ~outcome.text.escaped

\* A text that calls Format or In and is Go once rewritten has its date in what
\* is sent, or is refused: never rendered with the date left out (Render).
DatesNeverDropped ==
  outcome.version # 0 =>
    LET t == versions[outcome.version]
    IN t.call /\ t.goRewritten =>
         \A o \in {outcome.html, outcome.text} : o.ok => o.dated /\ outcome.date

\* An example date is read in an order its numbers allow, and in the only one
\* when they allow one; a layout of Go's own is itself, but for the two an
\* earlier one takes (goLayout, exampleLayouts).
ExamplesRead ==
  /\ \A sep \in {"-", "/"}, fields \in [1..3 -> FieldValues \cup Years] :
       LET date == [sep |-> sep, fields |-> fields]
           fits == {i \in DOMAIN exampleLayouts : Parses(exampleLayouts[i], date)}
       IN /\ goLayout(date) = AsWritten <=> fits = {}
          /\ fits # {} => Parses(goLayout(date), date)
  /\ \A i \in DOMAIN exampleLayouts \ {4, 6} :
       goLayout(OwnDate(exampleLayouts[i])) = exampleLayouts[i]

\* The comment on goLayout says so of every layout; 02/01/2006 is read as the
\* second of January written month first, and prints the other order.
OwnLayoutsAlwaysKept ==
  \A i \in DOMAIN exampleLayouts : goLayout(OwnDate(exampleLayouts[i])) = exampleLayouts[i]

\* A time in seconds and the same in milliseconds are the same time, and no
\* number is both (asTime, fromUnix).
UnixTimesRead ==
  \A n \in SecondsMin..(SecondsMax - 1) :
    fromUnix(n) = n /\ \A ms \in 0..1 : fromUnix(n * Milli + ms * (Milli - 1)) = n

\* What a recipient is sent was rendered from the version the filter rules saw:
\* the comment above the screening in SendEmail says a rule "has to see what the
\* recipient will see".  The worker renders again, from the template of then.
SentAsScreened == message.delivered \subseteq {message.screened}
-----------------------------------------------------------------------------
(* What the proofs of these properties rest on.                            *)

\* Times are whole.
TemplateTimes == TemplateTTL \in Nat /\ MaxRead \in Nat /\ MaxAge \in Nat

\* A version that is no longer the table's was until the table changed: a read has
\* gone on at least as long, and what is cached is older by at most one read.
VersionsRecent ==
  /\ changed \in Nat
  /\ cached \in [version : Nat, age : Nat]
  /\ reading \in [state : {"none", "read", "got"}, version : Nat, age : Nat]
  /\ current \in Nat /\ Len(versions) \in Nat
  /\ reading.age <= MaxRead
  /\ reading.state = "read" /\ reading.version # current => changed <= reading.age
  /\ reading.state = "got" /\ reading.version # current => changed <= TemplateTTL + MaxRead
  /\ Live(cached) /\ cached.version # current => changed <= cached.age + MaxRead

TemplatesInv == versions \in Seq(TextKinds) /\ VersionsRecent /\ EditReachesSends
=============================================================================
