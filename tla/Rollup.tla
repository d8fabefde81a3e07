------------------------------- MODULE Rollup -------------------------------
(***************************************************************************)
(* The rollup engine (backend/rollup/engine.go) above a store: WritePoint  *)
(* by several writers, the open hour of each series under e.mu, the hourly *)
(* and daily files with failing and partial appends, Flush and the signal  *)
(* handler of main.go, a process crash anywhere, and the query planner.    *)
(*                                                                         *)
(* The store is the set of points it serves, as DurableSeries has it and   *)
(* Store implements it.  The aggregate of a window (count, sum, minimum,   *)
(* maximum) is represented by the set of points it aggregates, which       *)
(* determines it; a point's value is the serial number of its write.       *)
(*                                                                         *)
(* e.mu is held by a writer between the append of the hour it closes and   *)
(* the reset of the bucket, and by Flush from its first line to its last.  *)
(***************************************************************************)
EXTENDS Integers, Sequences, FiniteSets

CONSTANTS
  Series,           \* series names
  Writers,          \* goroutines that call Engine.WritePoint
  Timestamps,       \* timestamps they write
  HourSecs,         \* 3600
  HoursPerDay,      \* 24
  HourlyThreshold,  \* config.HourlyThresholdSecs
  DailyThreshold,   \* config.DailyThresholdSecs
  QueryTimes,       \* ends of the ranges that are asked for
  Faults,           \* the failures that may happen, see FaultKinds
  MaxWrites         \* bound: WritePoint calls

\* write: Store.WritePoint returns an error; append: an append to a rollup file
\* fails and writes nothing; torn: it fails and writes a part of the record.
FaultKinds == {"write", "append", "torn"}

Point == [ts : Timestamps, val : 1..MaxWrites]
Call  == [series : Series, pt : Point]

DaySecs == HoursPerDay * HourSecs

ASSUME RollupAssumption ==
  /\ Timestamps \subseteq Nat
  /\ QueryTimes \subseteq Nat
  /\ HourSecs \in Nat \ {0}
  /\ HoursPerDay \in Nat \ {0}
  /\ HourlyThreshold \in Nat
  /\ DailyThreshold \in Nat
  /\ Faults \subseteq FaultKinds
  /\ MaxWrites \in Nat

VARIABLES
  \* the data directory: what a crash leaves
  stored,   \* [Series -> SUBSET Point]: points the store serves
  hourly,   \* [Series -> Seq(records)]: whole records of hourly_rollup.dat
  daily,    \* [Series -> Seq(records)]: whole records of daily_rollup.dat
  tornHourly, tornDaily,  \* series whose file ends with a part of a record
  \* the process
  acc,      \* [Series -> record]: e.accumulators; no points: count is 0
  call,     \* [Writers -> SUBSET Call]: the stored point a writer carries to e.mu
  closing,  \* series whose hour has been appended and not yet reset
  closer,   \* the writer that closes it; none when Flush does
  signal,   \* the signal handler: "none", "flushing" or "flushed"
  todo,     \* series that Flush still has to visit
  \* history
  serial,   \* number of WritePoint calls
  refused,  \* [Series -> SUBSET Point]: stored, though the client got an error
  lost,     \* [Series -> SUBSET Point]: points whose aggregate was not written
  atFlush   \* [Series -> SUBSET Point]: the open buckets when Flush took e.mu

fileVars == <<stored, hourly, daily, tornHourly, tornDaily>>
muVars   == <<closing, closer, signal, todo>>
histVars == <<serial, refused, lost, atFlush>>
vars     == <<fileVars, acc, call, muVars, histVars>>

HourOf(ts) == (ts \div HourSecs) * HourSecs
DayOf(ts)  == (ts \div DaySecs) * DaySecs
LastHour(day) == day + (HoursPerDay - 1) * HourSecs

Record == [start : Nat, pts : SUBSET Point]

newAccumulator == [start |-> 0, pts |-> {}]
-----------------------------------------------------------------------------
Init ==
  /\ stored = [s \in Series |-> {}]
  /\ hourly = [s \in Series |-> <<>>] /\ daily = [s \in Series |-> <<>>]
  /\ tornHourly = {} /\ tornDaily = {}
  /\ acc = [s \in Series |-> newAccumulator]
  /\ call = [w \in Writers |-> {}]
  /\ closing = {} /\ closer = {} /\ signal = "none" /\ todo = {}
  /\ serial = 0
  /\ refused = [s \in Series |-> {}]
  /\ lost = [s \in Series |-> {}]
  /\ atFlush = [s \in Series |-> {}]

\* Nobody holds e.mu.
EMuFree == closing = {} /\ signal # "flushing"

-----------------------------------------------------------------------------
(* Rollup files *)

\* appendHourlyRecord: the aggregate of the open bucket goes to the end of the
\* file; its error is ignored by both callers.  A partial record is left there
\* once at most: a second one, which could realign the file, is not modelled.
AppendHourly(s) ==
  \/ /\ hourly' = [hourly EXCEPT ![s] = Append(@, acc[s])]
     /\ UNCHANGED <<tornHourly, lost>>
  \/ /\ "append" \in Faults
     /\ lost' = [lost EXCEPT ![s] = @ \cup acc[s].pts]
     /\ UNCHANGED <<hourly, tornHourly>>
  \/ /\ "torn" \in Faults /\ s \notin tornHourly
     /\ tornHourly' = tornHourly \cup {s}
     /\ lost' = [lost EXCEPT ![s] = @ \cup acc[s].pts]
     /\ UNCHANGED hourly

\* The points that the records of a file at some positions aggregate.
Rows(recs, at) == UNION {recs[i].pts : i \in at}

\* Mutant: a day with more records than hours is complete too.
DayComplete_AtLeast(at) == Cardinality(at) >= HoursPerDay

DayComplete(at) == Cardinality(at) = HoursPerDay

\* readHourlyRecordsForDay: the positions in the file of what it returns.
HoursOfDay(recs, day) ==
  {i \in DOMAIN recs : recs[i].start >= day /\ recs[i].start < day + DaySecs}

\* Mutant: the loop over the records starts at the second.
DailyRecord_SkipsFirst(day, recs, at) ==
  [start |-> day, pts |-> Rows(recs, {j \in at : \E i \in at : i < j})]

\* The aggregate of the hourly records, each weighted by its count.
DailyRecord(day, recs, at) == [start |-> day, pts |-> Rows(recs, at)]

\* maybeFinalizeDailyRecord: after the last hour of a day, if the file can be
\* read and has the right number of records for that day.
MaybeFinalizeDaily(s) ==
  LET day == DayOf(acc[s].start)
      at  == HoursOfDay(hourly[s], day)
  IN IF /\ acc[s].start = LastHour(day)
        /\ s \notin tornHourly
        /\ DayComplete(at)
     THEN \/ /\ daily' = [daily EXCEPT ![s] = Append(@, DailyRecord(day, hourly[s], at))]
             /\ UNCHANGED tornDaily
          \/ /\ "append" \in Faults
             /\ UNCHANGED <<daily, tornDaily>>
          \/ /\ "torn" \in Faults /\ s \notin tornDaily
             /\ tornDaily' = tornDaily \cup {s}
             /\ UNCHANGED daily
     ELSE UNCHANGED <<daily, tornDaily>>
-----------------------------------------------------------------------------
(* Engine.WritePoint *)

\* Store.WritePoint returns nil: the writer goes on to lock e.mu.
StorePoint(w, s, ts) ==
  LET p == [ts |-> ts, val |-> serial + 1] IN
  /\ call[w] = {} /\ serial < MaxWrites
  /\ serial' = serial + 1
  /\ stored' = [stored EXCEPT ![s] = @ \cup {p}]
  /\ call' = [call EXCEPT ![w] = {[series |-> s, pt |-> p]}]
  /\ UNCHANGED <<hourly, daily, tornHourly, tornDaily, acc, muVars,
                 refused, lost, atFlush>>

\* Store.WritePoint returns an error and WritePoint returns it, also when only
\* the rotation failed and the point is in the log and the buffer.
StorePointFails(w, s, ts) ==
  LET p == [ts |-> ts, val |-> serial + 1] IN
  /\ "write" \in Faults
  /\ call[w] = {} /\ serial < MaxWrites
  /\ serial' = serial + 1
  /\ \/ /\ stored' = [stored EXCEPT ![s] = @ \cup {p}]
        /\ refused' = [refused EXCEPT ![s] = @ \cup {p}]
     \/ UNCHANGED <<stored, refused>>
  /\ UNCHANGED <<hourly, daily, tornHourly, tornDaily, acc, call, muVars,
                 lost, atFlush>>

\* The bucket a point opens.
FreshWith(p) == [start |-> HourOf(p.ts), pts |-> {p}]

\* Mutant: a point always opens a new bucket.
AddToBucket_Overwrites(w) == \E c \in call[w] :
  LET s == c.series IN
  /\ EMuFree
  /\ acc[s].pts = {} \/ acc[s].start = HourOf(c.pt.ts)
  /\ acc' = [acc EXCEPT ![s] = FreshWith(c.pt)]
  /\ call' = [call EXCEPT ![w] = {}]
  /\ UNCHANGED <<fileVars, muVars, histVars>>

\* updateAccumulator with the point's own hour open, or nothing accumulated.
AddToBucket(w) == \E c \in call[w] :
  LET s == c.series IN
  /\ EMuFree
  /\ \/ /\ acc[s].pts # {} /\ acc[s].start = HourOf(c.pt.ts)
        /\ acc' = [acc EXCEPT ![s].pts = @ \cup {c.pt}]
     \/ /\ acc[s].pts = {}
        /\ acc' = [acc EXCEPT ![s] = FreshWith(c.pt)]
  /\ call' = [call EXCEPT ![w] = {}]
  /\ UNCHANGED <<fileVars, muVars, histVars>>

\* Mutant: e.mu is not taken.
CloseHour_Unlocked(w) == \E c \in call[w] :
  LET s == c.series IN
  /\ acc[s].pts # {} /\ acc[s].start # HourOf(c.pt.ts)
  /\ AppendHourly(s)
  /\ closing' = closing \cup {s} /\ closer' = {w}
  /\ UNCHANGED <<stored, daily, tornDaily, acc, call, signal, todo,
                 serial, refused, atFlush>>

\* updateAccumulator across an hour boundary, forwards or backwards: the open
\* hour is appended to the file, with e.mu held from here on.
CloseHour(w) == \E c \in call[w] :
  LET s == c.series IN
  /\ EMuFree
  /\ acc[s].pts # {} /\ acc[s].start # HourOf(c.pt.ts)
  /\ AppendHourly(s)
  /\ closing' = {s} /\ closer' = {w}
  /\ UNCHANGED <<stored, daily, tornDaily, acc, call, signal, todo,
                 serial, refused, atFlush>>

\* Mutant: the accumulator is not reset before the point is added.
OpenHour_NoReset(w) == \E c \in call[w] :
  LET s == c.series IN
  /\ w \in closer
  /\ MaybeFinalizeDaily(s)
  /\ acc' = [acc EXCEPT ![s] = [start |-> HourOf(c.pt.ts), pts |-> @.pts \cup {c.pt}]]
  /\ call' = [call EXCEPT ![w] = {}]
  /\ closing' = {} /\ closer' = {}
  /\ UNCHANGED <<stored, hourly, tornHourly, signal, todo, histVars>>

\* Mutant: e.mu is not unlocked.
OpenHour_KeepsLock(w) == \E c \in call[w] :
  LET s == c.series IN
  /\ w \in closer
  /\ MaybeFinalizeDaily(s)
  /\ acc' = [acc EXCEPT ![s] = FreshWith(c.pt)]
  /\ call' = [call EXCEPT ![w] = {}]
  /\ UNCHANGED <<stored, hourly, tornHourly, muVars, histVars>>

\* The daily record, if it is due; then the bucket is reset to the point's hour.
OpenHour(w) == \E c \in call[w] :
  LET s == c.series IN
  /\ w \in closer
  /\ MaybeFinalizeDaily(s)
  /\ acc' = [acc EXCEPT ![s] = FreshWith(c.pt)]
  /\ call' = [call EXCEPT ![w] = {}]
  /\ closing' = {} /\ closer' = {}
  /\ UNCHANGED <<stored, hourly, tornHourly, signal, todo, histVars>>
-----------------------------------------------------------------------------
(* Flush, called by the signal handler of main.go *)

BeginFlush ==
  /\ signal = "none" /\ EMuFree
  /\ signal' = "flushing"
  /\ todo' = {s \in Series : acc[s].pts # {}}
  /\ atFlush' = [s \in Series |-> acc[s].pts]
  /\ UNCHANGED <<fileVars, acc, call, closing, closer, serial, refused, lost>>

FlushHour(s) ==
  /\ signal = "flushing" /\ s \in todo /\ closing = {}
  /\ AppendHourly(s)
  /\ closing' = {s}
  /\ UNCHANGED <<stored, daily, tornDaily, acc, call, closer, signal, todo,
                 serial, refused, atFlush>>

\* Mutant: Flush returns after the first series.
FlushReset_Returns(s) ==
  /\ signal = "flushing" /\ s \in closing
  /\ MaybeFinalizeDaily(s)
  /\ acc' = [acc EXCEPT ![s].pts = {}]
  /\ closing' = {} /\ todo' = {}
  /\ UNCHANGED <<stored, hourly, tornHourly, call, closer, signal, histVars>>

\* Mutant: Flush does not reset the bucket.
FlushReset_Keeps(s) ==
  /\ signal = "flushing" /\ s \in closing
  /\ MaybeFinalizeDaily(s)
  /\ closing' = {} /\ todo' = todo \ {s}
  /\ UNCHANGED <<stored, hourly, tornHourly, acc, call, closer, signal, histVars>>

\* The bucket is reset and keeps its hour.
FlushReset(s) ==
  /\ signal = "flushing" /\ s \in closing
  /\ MaybeFinalizeDaily(s)
  /\ acc' = [acc EXCEPT ![s].pts = {}]
  /\ closing' = {} /\ todo' = todo \ {s}
  /\ UNCHANGED <<stored, hourly, tornHourly, call, closer, signal, histVars>>

EndFlush ==
  /\ signal = "flushing" /\ todo = {}
  /\ signal' = "flushed"
  /\ UNCHANGED <<fileVars, acc, call, closing, closer, todo, histVars>>

\* The points the process has and the hourly files have not: what it carries to
\* e.mu and its open buckets, unless their record is already appended.
Carried(s) == {c.pt : c \in {d \in UNION {call[w] : w \in Writers} : d.series = s}}
Open(s) == IF s \in closing THEN {} ELSE acc[s].pts

\* The end of the process and the start of the next: NewEngine makes empty
\* accumulators, whatever the store recovers.
NewEngine ==
  /\ lost' = [s \in Series |-> lost[s] \cup Carried(s) \cup Open(s)]
  /\ acc' = [s \in Series |-> newAccumulator]
  /\ call' = [w \in Writers |-> {}]
  /\ closing' = {} /\ closer' = {} /\ signal' = "none" /\ todo' = {}
  /\ atFlush' = [s \in Series |-> {}]
  /\ UNCHANGED <<fileVars, serial, refused>>

Crash == signal # "flushed" /\ NewEngine

\* store.FlushAllSeries, which changes nothing of what the store serves, and
\* os.Exit(0), whatever the writers are doing.
Exit == signal = "flushed" /\ NewEngine
-----------------------------------------------------------------------------
Next ==
  \/ \E w \in Writers, s \in Series, ts \in Timestamps :
       StorePoint(w, s, ts) \/ StorePointFails(w, s, ts)
  \/ \E w \in Writers : AddToBucket(w) \/ CloseHour(w) \/ OpenHour(w)
  \/ BeginFlush
  \/ \E s \in Series : FlushHour(s) \/ FlushReset(s)
  \/ EndFlush
  \/ Crash
  \/ Exit

Spec == Init /\ [][Next]_vars

\* A goroutine that holds e.mu goes on; one that waits for it gets it in the end,
\* as sync.Mutex hands itself to a waiter that has starved for a millisecond.
Fairness ==
  /\ \A w \in Writers : WF_vars(OpenHour(w)) /\ SF_vars(AddToBucket(w) \/ CloseHour(w))
  /\ \A s \in Series : WF_vars(FlushHour(s) \/ FlushReset(s))
  /\ WF_vars(EndFlush)

LiveSpec == Spec /\ Fairness
-----------------------------------------------------------------------------
(* Engine.Query *)

\* Mutant: a window that begins before the range is left out.
Overlaps_StartsInside(r, start, end) == r.start >= start /\ r.start <= end

\* readRollupFile's filter: windows are an hour long, those of days too.
Overlaps(r, start, end) == r.start + HourSecs > start /\ r.start <= end

\* readRollupFile, the positions of what it returns: an error, and so no records,
\* if the size is no multiple of 36.
ReadRollup(recs, isTorn, start, end) ==
  IF isTorn THEN {} ELSE {i \in DOMAIN recs : Overlaps(recs[i], start, end)}

\* The tier that answers, and the points its rows aggregate or are.
Query(s, start, end) ==
  LET width == end - start
      days  == ReadRollup(daily[s], s \in tornDaily, start, end)
      hours == ReadRollup(hourly[s], s \in tornHourly, start, end)
  IN IF width >= DailyThreshold /\ days # {}
     THEN [tier |-> "daily", pts |-> Rows(daily[s], days)]
     ELSE IF width >= HourlyThreshold /\ hours # {}
     THEN [tier |-> "hourly", pts |-> Rows(hourly[s], hours)]
     ELSE [tier |-> "raw", pts |-> {p \in stored[s] : start <= p.ts /\ p.ts <= end}]
-----------------------------------------------------------------------------
\* Types, and e.mu has one holder: a writer that closes an hour, or Flush.
TypeOK ==
  /\ stored \in [Series -> SUBSET Point]
  /\ hourly \in [Series -> Seq(Record)] /\ daily \in [Series -> Seq(Record)]
  /\ tornHourly \subseteq Series /\ tornDaily \subseteq Series
  /\ acc \in [Series -> Record]
  /\ call \in [Writers -> SUBSET Call]
  /\ closing = {} \/ \E s \in Series : closing = {s}
  /\ closer = {} \/ \E w \in Writers : closer = {w}
  /\ closer # {} => closing # {} /\ signal # "flushing"
  /\ signal \in {"none", "flushing", "flushed"} /\ todo \subseteq Series
  /\ serial \in 0..MaxWrites
  /\ refused \in [Series -> SUBSET Point]
  /\ lost \in [Series -> SUBSET Point]
  /\ atFlush \in [Series -> SUBSET Point]

Recorded(s) == Rows(hourly[s], DOMAIN hourly[s])
Missing(s) == Carried(s) \cup Open(s) \cup lost[s] \cup refused[s]

\* Nothing slips through between two hours, two goroutines or two processes: a
\* point the store serves is in an hourly record, on its way there, in a write
\* that was refused, or was lost with a failed append or with the process.
Accounted == \A s \in Series : stored[s] = Recorded(s) \cup Missing(s)

Own(hour, pts) == \A p \in pts : HourOf(p.ts) = hour

\* No point is aggregated twice, and none in an hour that is not its own: the
\* records, the open bucket and the points on their way to it are disjoint,
\* however the writers reach e.mu and however often an hour is opened again.
CountedOnce ==
  \A s \in Series :
    /\ \A i, j \in DOMAIN hourly[s] : i # j => hourly[s][i].pts \cap hourly[s][j].pts = {}
    /\ Recorded(s) \cap Missing(s) = {}
    /\ Carried(s) \cap (Open(s) \cup lost[s] \cup refused[s]) = {}
    /\ Open(s) \cap (lost[s] \cup refused[s]) = {}
    /\ Own(acc[s].start, acc[s].pts)
    /\ \A i \in DOMAIN hourly[s] : Own(hourly[s][i].start, hourly[s][i].pts)

\* ui/README.md, "only fires when all 24 hourly records for a day are present":
\* a daily record is the aggregate of the first 24 records its day got, and of
\* nothing else.
DailyFromHours ==
  \A s \in Series : \A i \in DOMAIN daily[s] :
    LET at == HoursOfDay(hourly[s], daily[s][i].start) IN
    \E first \in SUBSET at :
      /\ Cardinality(first) = HoursPerDay /\ daily[s][i].pts = Rows(hourly[s], first)
      /\ \A j \in first, k \in at \ first : j < k

\* A day gets a second daily record only when an append of its last hour failed:
\* then the count of its records is the same the next time that hour closes.
DailyOnce ==
  \A s \in Series : \A i, j \in DOMAIN daily[s] :
    i # j /\ daily[s][i].start = daily[s][j].start =>
      \E p \in lost[s] : HourOf(p.ts) = LastHour(daily[s][i].start)

\* README.md, Graceful Shutdown: when Flush returns, every point that was in an
\* open bucket when it took e.mu is in an hourly record, or its append failed.
FlushFinalizes ==
  signal = "flushed" => \A s \in Series : atFlush[s] \subseteq Recorded(s) \cup lost[s]

\* What a rollup tier leaves out of a range has a reason.  Hourly records leave
\* out what is not recorded; daily records what is in none of them, or in a day
\* that began more than an hour before the range.
TierMissesAccounted ==
  \A s \in Series : \A start, end \in QueryTimes : start < end =>
    LET answer == Query(s, start, end)
        missed == {p \in stored[s] : start <= p.ts /\ p.ts <= end} \ answer.pts
        inDays == Rows(daily[s], DOMAIN daily[s])
    IN CASE answer.tier = "raw"    -> missed = {}
         [] answer.tier = "hourly" -> missed \subseteq Missing(s)
         [] answer.tier = "daily"  ->
              \A p \in missed : p \notin inDays \/ DayOf(p.ts) + HourSecs <= start

\* Every point a writer has stored reaches its bucket, or the process ends: no
\* path through an hour boundary or a Flush keeps e.mu.
PointsReachBucket == \A w \in Writers : call[w] # {} ~> call[w] = {}
=============================================================================
