----------------------------- MODULE TimeSeries -----------------------------
(***************************************************************************)
(* The counters behind the dashboard: every event bumps a minute, an hour  *)
(* and a day counter and a lifetime total, retention prunes the minutes    *)
(* early, the hours and days late, and the events on a schedule of their   *)
(* own, and a range is read from the coarsest counters that tile it        *)
(* (timeseries.go, telemetry_retention.go, GetMetrics).  Time is in        *)
(* minutes; MinutesPerHour and HoursPerDay scale the calendar down.        *)
(***************************************************************************)
EXTENDS Integers, FiniteSets, FiniteSetsExt

CONSTANTS
  MinutesPerHour, HoursPerDay,
  Last,       \* the last minute of the calendar
  MaxEvents,  \* bound on events
  MaxPrunes   \* bound on retention passes

VARIABLES
  counted,  \* HISTORY: events of each minute, as they were recorded
  minute, hour, day,  \* the counter families, by bucket
  lifetime,           \* the totals
  kept,               \* events still stored, of each minute
  prunes,
  minuteCut, seriesCut  \* HISTORY: the latest cutoffs used

vars == <<counted, minute, hour, day, lifetime, kept, prunes, minuteCut, seriesCut>>

Minutes == 0..Last
MinutesPerDay == MinutesPerHour * HoursPerDay
HourOf(m) == m \div MinutesPerHour
DayOf(m) == m \div MinutesPerDay
Zero(S) == [b \in S |-> 0]
SumOver(f, S) == MapThenSumSet(LAMBDA b : f[b], S \cap DOMAIN f)

Init ==
  /\ counted = Zero(Minutes) /\ minute = Zero(Minutes) /\ kept = Zero(Minutes)
  /\ hour = Zero(0..HourOf(Last)) /\ day = Zero(0..DayOf(Last))
  /\ lifetime = 0 /\ prunes = 0 /\ minuteCut = 0 /\ seriesCut = 0

\* performWrite, or a flush with bumpCounters and bumpTimeseries: one event
\* bumps every family.
Bump(m) ==
  /\ lifetime < MaxEvents
  /\ counted' = [counted EXCEPT ![m] = @ + 1] /\ kept' = [kept EXCEPT ![m] = @ + 1]
  /\ minute' = [minute EXCEPT ![m] = @ + 1]
  /\ hour' = [hour EXCEPT ![HourOf(m)] = @ + 1] /\ day' = [day EXCEPT ![DayOf(m)] = @ + 1]
  /\ lifetime' = lifetime + 1
  /\ UNCHANGED <<prunes, minuteCut, seriesCut>>

\* pruneCounters: a family's buckets before the cutoff's bucket go.
Pruned(family, cutoff) == [b \in DOMAIN family |-> IF b < cutoff THEN 0 ELSE family[b]]

PruneMinuteSeriesBefore(before) ==
  /\ prunes < MaxPrunes /\ prunes' = prunes + 1
  /\ minute' = Pruned(minute, before)
  /\ minuteCut' = IF before > minuteCut THEN before ELSE minuteCut
  /\ UNCHANGED <<counted, hour, day, lifetime, kept, seriesCut>>

PruneHourDaySeriesBefore(before) ==
  /\ prunes < MaxPrunes /\ prunes' = prunes + 1
  /\ hour' = Pruned(hour, HourOf(before)) /\ day' = Pruned(day, DayOf(before))
  /\ seriesCut' = IF before > seriesCut THEN before ELSE seriesCut
  /\ UNCHANGED <<counted, minute, lifetime, kept, minuteCut>>

\* TruncateBefore takes the events and leaves the counters.
PruneEvents(before) ==
  /\ prunes < MaxPrunes /\ prunes' = prunes + 1
  /\ kept' = Pruned(kept, before)
  /\ UNCHANGED <<counted, minute, hour, day, lifetime, minuteCut, seriesCut>>

Next ==
  \/ \E m \in Minutes : Bump(m)
  \/ \E before \in 1..Last + 1 : \/ PruneMinuteSeriesBefore(before) \/ PruneEvents(before)
                                 \/ PruneHourDaySeriesBefore(before)

Spec == Init /\ [][Next]_vars
-----------------------------------------------------------------------------
Lesser(a, b) == IF a < b THEN a ELSE b

\* Mutant of Steps: an hour span takes one bucket too many.
StepsPastTheDay(cur, remaining) ==
  IF cur % MinutesPerDay = 0 /\ remaining >= MinutesPerDay
  THEN [width |-> MinutesPerDay, n |-> remaining \div MinutesPerDay]
  ELSE IF cur % MinutesPerHour = 0 /\ remaining >= MinutesPerHour
  THEN [width |-> MinutesPerHour, n |-> 1 + (remaining \div MinutesPerHour)]
  ELSE [width |-> 1, n |-> Lesser(remaining, MinutesPerHour - (cur % MinutesPerHour))]

\* The next span of rangeCounters from cur: the coarsest family that starts
\* here and fits, and how many of its buckets, up to the boundary at which a
\* coarser one may take over.
Steps(cur, remaining) ==
  IF cur % MinutesPerDay = 0 /\ remaining >= MinutesPerDay
  THEN [width |-> MinutesPerDay, n |-> remaining \div MinutesPerDay]
  ELSE IF cur % MinutesPerHour = 0 /\ remaining >= MinutesPerHour
  THEN [width |-> MinutesPerHour,
        n |-> Lesser(remaining \div MinutesPerHour,
                     (MinutesPerDay - (cur % MinutesPerDay)) \div MinutesPerHour)]
  ELSE [width |-> 1, n |-> Lesser(remaining, MinutesPerHour - (cur % MinutesPerHour))]

\* sumCounters over one span.
SpanSum(cur, st) ==
  LET first == cur \div st.width
      family == CASE st.width = MinutesPerDay -> day
                  [] st.width = MinutesPerHour /\ st.width # MinutesPerDay -> hour
                  [] OTHER -> minute
  IN  SumOver(family, first..first + st.n - 1)

\* rangeCounters: the range, span by span.
RangeCounters(start, end) ==
  LET from[cur \in 0..end + 1] ==
        IF cur > end THEN 0
        ELSE LET st == Steps(cur, end - cur + 1)
                 next == cur + st.n * st.width
             IN  SpanSum(cur, st) + (IF next > end THEN 0 ELSE from[next])
  IN  from[start]

\* The families a chart can ask for, and the bucket of a minute in each.
Granularities == {"minute", "hour", "day"}
timeseriesFamily(g) == CASE g = "minute" -> minute [] g = "hour" -> hour [] g = "day" -> day
BucketOf(g, m) == CASE g = "minute" -> m [] g = "hour" -> HourOf(m) [] g = "day" -> DayOf(m)

\* The stored events of a range, by bucket: what is scanned when the counters
\* say nothing.
Scanned(g, start, end) ==
  [b \in DOMAIN timeseriesFamily(g) |-> SumOver(kept, {m \in start..end : BucketOf(g, m) = b})]

\* GetTimeSeriesMetrics of the database: the family's buckets from the start's
\* to the end's.
SharedTimeSeries(g, start, end) ==
  [b \in DOMAIN timeseriesFamily(g) |->
     IF b \in BucketOf(g, start)..BucketOf(g, end) THEN timeseriesFamily(g)[b] ELSE 0]

\* GetTimeSeriesMetrics of Pebble: the same, or a scan when none has a count.
GetTimeSeriesMetrics(g, start, end) ==
  LET counters == SharedTimeSeries(g, start, end)
  IN  IF \E b \in DOMAIN counters : counters[b] > 0 THEN counters ELSE Scanned(g, start, end)

\* GetMetrics of Pebble: the tiled counters between two bounds, and a scan when
\* they say nothing; the minutes after one bound alone.
GetMetrics(start, end) ==
  LET tiled == RangeCounters(start, end)
  IN  IF end < start THEN 0 ELSE IF tiled > 0 THEN tiled ELSE SumOver(kept, start..end)
GetMetricsSince(start) ==
  LET read == GetTimeSeriesMetrics("minute", start, Last)
  IN  SumOver(read, DOMAIN read)

\* GetMetrics of the database counts the events it still has.
SharedMetrics(start, end) == SumOver(kept, start..end)
-----------------------------------------------------------------------------
TypeOK == lifetime \in 0..MaxEvents /\ \A m \in Minutes : minute[m] <= counted[m]

\* The hours of the range that are not wholly inside it.
Ragged(m, start, end) ==
  HourOf(m) * MinutesPerHour < start \/ (HourOf(m) + 1) * MinutesPerHour - 1 > end

\* "The answer is identical to the minute sum" (timeseries.go): whatever was
\* pruned, no range counts an event twice, and the only events it misses lie
\* before the series cutoff, or before the minutes' in a partial hour at its
\* edge.
RangeCountsAll ==
  \A start \in Minutes : \A end \in start..Last :
    LET true == SumOver(counted, start..end)
        kepthere == {m \in start..end : /\ m >= minuteCut \/ ~Ragged(m, start, end)
                                        /\ DayOf(m) >= DayOf(seriesCut) /\ HourOf(m) >= HourOf(seriesCut)}
    IN  /\ RangeCounters(start, end) <= true
        /\ RangeCounters(start, end) >= SumOver(counted, kepthere)
        /\ GetMetrics(start, end) <= true /\ GetMetricsSince(start) <= SumOver(counted, start..Last)
        /\ SharedMetrics(start, end) <= true
        /\ lifetime = SumOver(counted, Minutes)

\* A chart's points are true: none shows more than its bucket holds, and one no
\* cutoff has reached shows all of it, whichever store answers and whatever else
\* was pruned (GetTimeSeriesMetrics).
ChartTrue ==
  \A g \in Granularities, start \in Minutes : \A end \in start..Last :
    LET cut == BucketOf(g, IF g = "minute" THEN minuteCut ELSE seriesCut)
        shown == GetTimeSeriesMetrics(g, start, end)
    IN  \A b \in BucketOf(g, start)..BucketOf(g, end) :
          LET true == SumOver(counted, {m \in Minutes : BucketOf(g, m) = b})
          IN  /\ shown[b] <= true /\ SharedTimeSeries(g, start, end)[b] <= true
              /\ b >= cut => shown[b] = true /\ SharedTimeSeries(g, start, end)[b] = true
=============================================================================
