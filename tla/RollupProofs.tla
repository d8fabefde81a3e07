---------------------------- MODULE RollupProofs ----------------------------
(***************************************************************************)
(* Every stored point is in one hourly record, or on its way there, or     *)
(* there is a reason why not; Flush leaves no bucket behind; a daily       *)
(* record is the aggregate of the first records of its day, as many as a   *)
(* day has hours, and a day gets one at most; what a tier leaves out of a  *)
(* range has a reason; and the engine implements HourLedger: for any       *)
(* series, writers, timestamps, lengths of an hour and of a day,           *)
(* thresholds, ranges, failures and bounds.                                *)
(***************************************************************************)
EXTENDS RollupRefinement, FiniteSetTheorems, SequenceTheorems, TLAPS

\* A writer carries one point at most, and no two carry the same.
CallInv ==
  \A v, w \in Writers : \A c \in call[v], d \in call[w] :
    /\ c.pt.val <= serial
    /\ v = w \/ c.pt.val = d.pt.val => v = w /\ c = d

\* Who holds e.mu between the append of an hour and the reset of its bucket,
\* and that the bucket's points are no longer in memory only.
HolderInv ==
  /\ \A w \in closer : \E c \in call[w] : closing = {c.series}
  /\ closing # {} /\ closer = {} => signal = "flushing" /\ closing \subseteq todo
  /\ \A s \in closing : acc[s].pts \subseteq Recorded(s) \cup lost[s]

\* The places a point can be in are disjoint and hold what is stored; values are
\* given in the order of the calls, which makes the next point a new one.
PlacesInv(s) ==
  /\ stored[s] = Recorded(s) \cup Missing(s)
  /\ \A p \in stored[s] : p.val <= serial
  /\ Recorded(s) \cap Missing(s) = {}
  /\ Carried(s) \cap (Open(s) \cup lost[s] \cup refused[s]) = {}
  /\ Open(s) \cap (lost[s] \cup refused[s]) = {}
  /\ Own(acc[s].start, acc[s].pts)

\* The records of a file are disjoint and each has points of its own hour.
RecordsInv(s) ==
  /\ \A i, j \in DOMAIN hourly[s] : i # j => hourly[s][i].pts \cap hourly[s][j].pts = {}
  /\ \A i \in DOMAIN hourly[s] : Own(hourly[s][i].start, hourly[s][i].pts)

\* Flush has still to visit what it found open, and has written the rest.
FlushInv ==
  /\ signal = "flushing" => \A s \in Series :
       IF s \in todo THEN acc[s].pts = atFlush[s] /\ acc[s].pts # {}
       ELSE atFlush[s] \subseteq Recorded(s) \cup lost[s]
  /\ FlushFinalizes

LedgerInv ==
  /\ TypeOK
  /\ CallInv /\ HolderInv
  /\ \A s \in Series : PlacesInv(s) /\ RecordsInv(s)
-----------------------------------------------------------------------------
(* Types *)

\* The hour of a timestamp is one, and not behind it.
LEMMA HourOfType ==
  ASSUME NEW ts \in Nat
  PROVE  HourOf(ts) \in Nat /\ DayOf(ts) \in Nat /\ HourOf(ts) <= ts
  <1>1. HourSecs \in Nat \ {0} /\ HoursPerDay \in Nat \ {0}
    BY RollupAssumption
  <1>2. DaySecs \in Nat \ {0}
    BY <1>1 DEF DaySecs
  <1>3. \A n \in Nat \ {0} : (ts \div n) * n \in Nat /\ (ts \div n) * n <= ts
    OBVIOUS
  <1> QED BY <1>1, <1>2, <1>3 DEF HourOf, DayOf

\* An engine that starts has its types.
LEMMA InitTypeOK == Init => TypeOK
  BY RollupAssumption, EmptySeq
  DEF Init, TypeOK, newAccumulator, Record

\* A record at the end of a file leaves the others where they are.
LEMMA AppendRecord ==
  ASSUME NEW recs \in Seq(Record), NEW rec \in Record
  PROVE  LET longer == Append(recs, rec) IN
         /\ longer \in Seq(Record)
         /\ DOMAIN longer = DOMAIN recs \cup {Len(recs) + 1}
         /\ Len(recs) + 1 \notin DOMAIN recs
         /\ longer[Len(recs) + 1] = rec
         /\ \A i \in DOMAIN recs : longer[i] = recs[i]
         /\ Rows(longer, DOMAIN longer) = Rows(recs, DOMAIN recs) \cup rec.pts
  <1> DEFINE longer == Append(recs, rec)
  <1>1. /\ longer \in Seq(Record)
        /\ DOMAIN longer = DOMAIN recs \cup {Len(recs) + 1}
        /\ Len(recs) + 1 \notin DOMAIN recs
        /\ longer[Len(recs) + 1] = rec
        /\ \A i \in DOMAIN recs : longer[i] = recs[i]
    <2>1. longer \in Seq(Record) /\ Len(longer) = Len(recs) + 1
      BY AppendProperties
    <2>2. longer[Len(recs) + 1] = rec /\ \A i \in 1..Len(recs) : longer[i] = recs[i]
      BY AppendProperties
    <2>3. DOMAIN longer = 1..(Len(recs) + 1) /\ DOMAIN recs = 1..Len(recs) /\ Len(recs) \in Nat
      BY <2>1, LenProperties
    <2> QED BY <2>1, <2>2, <2>3
  <1> HIDE DEF longer
  <1>2. Rows(longer, DOMAIN longer) = Rows(recs, DOMAIN recs) \cup rec.pts
    BY <1>1 DEF Rows
  <1> QED BY <1>1, <1>2 DEF longer

\* An append adds one record, or part of one, and keeps the types.
LEMMA AppendHourlyType ==
  ASSUME TypeOK, NEW s \in Series, AppendHourly(s)
  PROVE  /\ hourly' \in [Series -> Seq(Record)]
         /\ tornHourly' \subseteq Series
         /\ lost' \in [Series -> SUBSET Point]
  <1> USE DEF TypeOK
  <1>1. Append(hourly[s], acc[s]) \in Seq(Record)
    BY AppendRecord
  <1>2. lost[s] \cup acc[s].pts \in SUBSET Point
    BY DEF Record
  <1>3. \/ hourly' = [hourly EXCEPT ![s] = Append(@, acc[s])] /\ UNCHANGED <<tornHourly, lost>>
        \/ hourly' = hourly /\ tornHourly' \subseteq tornHourly \cup {s}
           /\ lost' = [lost EXCEPT ![s] = @ \cup acc[s].pts]
    BY DEF AppendHourly
  <1>4. CASE hourly' = [hourly EXCEPT ![s] = Append(@, acc[s])] /\ UNCHANGED <<tornHourly, lost>>
    BY <1>1, <1>4
  <1>5. CASE hourly' = hourly /\ tornHourly' \subseteq tornHourly \cup {s}
             /\ lost' = [lost EXCEPT ![s] = @ \cup acc[s].pts]
    BY <1>2, <1>5
  <1> QED BY <1>3, <1>4, <1>5

\* So does the append of a daily record.
LEMMA FinalizeType ==
  ASSUME TypeOK, NEW s \in Series, MaybeFinalizeDaily(s)
  PROVE  daily' \in [Series -> Seq(Record)] /\ tornDaily' \subseteq Series
  <1> USE DEF TypeOK
  <1> DEFINE day == DayOf(acc[s].start)
             at  == HoursOfDay(hourly[s], day)
             rec == DailyRecord(day, hourly[s], at)
  <1>1. day \in Nat
    BY HourOfType DEF Record
  <1>2. rec \in Record
    <2>1. hourly[s] \in Seq(Record) /\ at \subseteq DOMAIN hourly[s]
      BY DEF HoursOfDay
    <2>2. \A i \in at : hourly[s][i].pts \subseteq Point
      <3>1. \A i \in DOMAIN hourly[s] : hourly[s][i] \in Record
        BY <2>1, LenProperties, ElementOfSeq
      <3> QED BY <2>1, <3>1 DEF Record
    <2> QED BY <1>1, <2>2 DEF DailyRecord, Record, Rows
  <1>3. CASE daily' = [daily EXCEPT ![s] = Append(@, rec)] /\ UNCHANGED tornDaily
    BY <1>2, <1>3, AppendRecord
  <1>4. CASE daily' = daily /\ tornDaily' \subseteq tornDaily \cup {s}
    BY <1>4
  <1>5. \/ daily' = [daily EXCEPT ![s] = Append(@, rec)] /\ UNCHANGED tornDaily
        \/ daily' = daily /\ tornDaily' \subseteq tornDaily \cup {s}
    <2> HIDE DEF rec
    <2> QED BY DEF MaybeFinalizeDaily, rec
  <1> QED BY <1>3, <1>4, <1>5

\* A bucket that opens with a point is a record of its hour.
LEMMA FreshType ==
  ASSUME NEW p \in Point
  PROVE  FreshWith(p) \in Record
  BY RollupAssumption, HourOfType DEF FreshWith, Point, Record

\* Every step keeps the types.
LEMMA NextTypeOK ==
  ASSUME TypeOK, [Next]_vars
  PROVE  TypeOK'
  <1> USE DEF TypeOK, fileVars, muVars, histVars, EMuFree
  <1>1. ASSUME NEW w \in Writers, NEW s \in Series, NEW ts \in Timestamps,
               StorePoint(w, s, ts) \/ StorePointFails(w, s, ts)
        PROVE  TypeOK'
    <2> DEFINE p == [ts |-> ts, val |-> serial + 1]
    <2>1. p \in Point /\ serial' \in 0..MaxWrites
      BY <1>1, RollupAssumption DEF StorePoint, StorePointFails, Point
    <2>2. [series |-> s, pt |-> p] \in Call
      BY <2>1 DEF Call
    <2> HIDE DEF p
    <2>3. CASE StorePoint(w, s, ts)
      <3>1. /\ stored' = [stored EXCEPT ![s] = @ \cup {p}]
            /\ call' = [call EXCEPT ![w] = {[series |-> s, pt |-> p]}]
        BY <2>3 DEF StorePoint, p
      <3>2. stored' \in [Series -> SUBSET Point] /\ call' \in [Writers -> SUBSET Call]
        BY <2>1, <2>2, <3>1
      <3> QED BY <2>1, <2>3, <3>2 DEF StorePoint
    <2>4. CASE StorePointFails(w, s, ts)
      <3>1. \/ /\ stored' = [stored EXCEPT ![s] = @ \cup {p}]
               /\ refused' = [refused EXCEPT ![s] = @ \cup {p}]
            \/ UNCHANGED <<stored, refused>>
        BY <2>4 DEF StorePointFails, p
      <3>2. CASE /\ stored' = [stored EXCEPT ![s] = @ \cup {p}]
                 /\ refused' = [refused EXCEPT ![s] = @ \cup {p}]
        BY <2>1, <2>4, <3>2 DEF StorePointFails
      <3>3. CASE UNCHANGED <<stored, refused>>
        BY <2>1, <2>4, <3>3 DEF StorePointFails
      <3> QED BY <3>1, <3>2, <3>3
    <2> QED BY <1>1, <2>3, <2>4
  <1>2. ASSUME NEW w \in Writers, AddToBucket(w)
        PROVE  TypeOK'
    <2>1. PICK c \in call[w] :
               /\ \/ acc' = [acc EXCEPT ![c.series].pts = @ \cup {c.pt}]
                  \/ acc' = [acc EXCEPT ![c.series] = FreshWith(c.pt)]
               /\ call' = [call EXCEPT ![w] = {}]
      BY <1>2 DEF AddToBucket
    <2>2. c.series \in Series /\ c.pt \in Point
      BY DEF Call
    <2>3. acc' \in [Series -> Record]
      <3>1. CASE acc' = [acc EXCEPT ![c.series].pts = @ \cup {c.pt}]
        BY <2>2, <3>1, ZenonT(40) DEF Record
      <3>2. CASE acc' = [acc EXCEPT ![c.series] = FreshWith(c.pt)]
        BY <2>2, <3>2, FreshType
      <3> QED BY <2>1, <3>1, <3>2
    <2> QED BY <1>2, <2>1, <2>3 DEF AddToBucket
  <1>3. ASSUME NEW w \in Writers, CloseHour(w)
        PROVE  TypeOK'
    <2>1. PICK c \in call[w] : AppendHourly(c.series) /\ closing' = {c.series}
      BY <1>3 DEF CloseHour
    <2>2. c.series \in Series
      BY DEF Call
    <2> QED BY <1>3, <2>1, <2>2, AppendHourlyType DEF CloseHour
  <1>4. ASSUME NEW w \in Writers, OpenHour(w)
        PROVE  TypeOK'
    <2>1. PICK c \in call[w] : MaybeFinalizeDaily(c.series)
                            /\ acc' = [acc EXCEPT ![c.series] = FreshWith(c.pt)]
      BY <1>4 DEF OpenHour
    <2>2. c.series \in Series /\ c.pt \in Point
      BY DEF Call
    <2> QED BY <1>4, <2>1, <2>2, FinalizeType, FreshType DEF OpenHour
  <1>5. CASE BeginFlush
    BY <1>5 DEF BeginFlush, Record
  <1>6. ASSUME NEW s \in Series, FlushHour(s)
        PROVE  TypeOK'
    BY <1>6, AppendHourlyType DEF FlushHour
  <1>7. ASSUME NEW s \in Series, FlushReset(s)
        PROVE  TypeOK'
    BY <1>7, FinalizeType, ZenonT(40) DEF FlushReset, Record
  <1>8. CASE EndFlush
    BY <1>8 DEF EndFlush
  <1>9. CASE NewEngine
    <2>1. \A s \in Series : Carried(s) \cup Open(s) \subseteq Point
      BY DEF Carried, Open, Call, Record
    <2> QED BY <1>9, <2>1 DEF NewEngine, newAccumulator, Record
  <1>10. CASE UNCHANGED vars
    BY <1>10 DEF vars
  <1> QED BY <1>1, <1>2, <1>3, <1>4, <1>5, <1>6, <1>7, <1>8, <1>9, <1>10
      DEF Next, Crash, Exit

\* engine.go: the files and the accumulators keep their types, and e.mu has one
\* holder.
THEOREM TypeCorrect == Spec => []TypeOK
  BY InitTypeOK, NextTypeOK, PTL DEF Spec
-----------------------------------------------------------------------------
(* Points move between disjoint places *)

\* A point that is carried is carried by a writer.
LEMMA CarriedBy ==
  \A s, p : p \in Carried(s) <=> \E w \in Writers : \E c \in call[w] : c.series = s /\ c.pt = p
  BY DEF Carried

\* An engine that starts has no points yet.
LEMMA InitLedgerInv == Init => LedgerInv
  <1> SUFFICES ASSUME Init PROVE LedgerInv
    OBVIOUS
  <1>1. TypeOK
    BY InitTypeOK
  <1>2. CallInv /\ HolderInv
    BY DEF Init, CallInv, HolderInv
  <1>3. ASSUME NEW s \in Series
        PROVE  PlacesInv(s) /\ RecordsInv(s)
    <2>1. Carried(s) = {} /\ Open(s) = {} /\ Recorded(s) = {}
      BY DEF Init, Carried, Open, Recorded, Rows, newAccumulator
    <2> QED BY <2>1 DEF Init, PlacesInv, RecordsInv, Missing, Own, newAccumulator
  <1> QED BY <1>1, <1>2, <1>3 DEF LedgerInv

\* A series that a step leaves alone.
Untouched(s) ==
  /\ stored'[s] = stored[s] /\ hourly'[s] = hourly[s] /\ acc'[s] = acc[s]
  /\ lost'[s] = lost[s] /\ refused'[s] = refused[s]
  /\ Carried(s)' = Carried(s) /\ Open(s)' = Open(s)
  /\ serial' \in Nat /\ serial <= serial'

\* What a step leaves alone stays as it was.
LEMMA UntouchedInv ==
  ASSUME LedgerInv, NEW s \in Series, Untouched(s)
  PROVE  PlacesInv(s)' /\ RecordsInv(s)'
  <1>1. \A p \in stored[s] : p.val \in Nat
    BY DEF LedgerInv, TypeOK, Point
  <1>2. Recorded(s)' = Recorded(s) /\ Missing(s)' = Missing(s)
    BY DEF Untouched, Recorded, Rows, Missing
  <1>3. PlacesInv(s)'
    BY <1>1, <1>2 DEF LedgerInv, PlacesInv, Untouched, TypeOK
  <1>4. RecordsInv(s)'
    BY DEF LedgerInv, RecordsInv, Untouched
  <1> QED BY <1>3, <1>4

\* A writer that carried nothing carries a point.
LEMMA CarryPoint ==
  ASSUME TypeOK, NEW w \in Writers, NEW s \in Series, NEW p, call[w] = {},
         call' = [call EXCEPT ![w] = {[series |-> s, pt |-> p]}], NEW r \in Series
  PROVE  Carried(r)' = IF r = s THEN Carried(r) \cup {p} ELSE Carried(r)
  <1> USE DEF TypeOK
  <1> DEFINE c == [series |-> s, pt |-> p]
  <1>1. c.series = s /\ c.pt = p /\ \A v \in Writers : call'[v] = IF v = w THEN {c} ELSE call[v]
    OBVIOUS
  <1> HIDE DEF c
  <1>2. \A q : q \in Carried(r)' <=>
          \E v \in Writers : \E d \in call'[v] : d.series = r /\ d.pt = q
    BY DEF Carried
  <1>3. \A q : q \in Carried(r) <=> \E v \in Writers : \E d \in call[v] : d.series = r /\ d.pt = q
    BY CarriedBy
  <1>4. ASSUME NEW q
        PROVE  q \in Carried(r)' <=> q \in Carried(r) \/ (r = s /\ q = p)
    <2>1. CASE r = s /\ q = p
      BY <1>1, <1>2, <2>1, ZenonT(40)
    <2>2. CASE ~ (r = s /\ q = p)
      <3>1. ~ \E d \in call'[w] : d.series = r /\ d.pt = q
        BY <1>1, <2>2
      <3>2. ~ \E d \in call[w] : d.series = r /\ d.pt = q
        OBVIOUS
      <3>3. \A v \in Writers \ {w} : call'[v] = call[v]
        BY <1>1
      <3>4. CASE q \in Carried(r)
        <4>1. PICK v \in Writers : \E d \in call[v] : d.series = r /\ d.pt = q
          BY <1>3, <3>4
        <4> QED BY <1>2, <2>2, <3>2, <3>3, <3>4, <4>1
      <3>5. CASE q \in Carried(r)'
        <4>1. PICK v \in Writers : \E d \in call'[v] : d.series = r /\ d.pt = q
          BY <1>2, <3>5
        <4> QED BY <1>3, <2>2, <3>1, <3>3, <3>5, <4>1
      <3> QED BY <2>2, <3>4, <3>5
    <2> QED BY <2>1, <2>2
  <1> QED BY <1>4

\* StorePoint: the point is new, so it is in no other place.
LEMMA StorePointInv ==
  ASSUME LedgerInv, NEW w \in Writers, NEW s \in Series, NEW ts \in Timestamps,
         StorePoint(w, s, ts)
  PROVE  LedgerInv'
  <1> USE DEF LedgerInv, TypeOK
  <1> DEFINE p == [ts |-> ts, val |-> serial + 1]
             c == [series |-> s, pt |-> p]
  <1>1. TypeOK'
    BY NextTypeOK DEF Next
  <1>2. /\ call[w] = {} /\ call' = [call EXCEPT ![w] = {c}] /\ serial' = serial + 1
        /\ stored' = [stored EXCEPT ![s] = @ \cup {p}]
        /\ UNCHANGED <<hourly, acc, closing, closer, signal, todo, lost, refused>>
    BY DEF StorePoint, muVars
  <1>3. /\ p.val = serial + 1 /\ c.pt = p /\ c.series = s /\ serial \in Nat
        /\ \A v \in Writers : \A d \in call[v] : d.pt.val \in Nat
    BY RollupAssumption DEF Call, Point
  <1> HIDE DEF p, c
  <1>4. CallInv'
    BY <1>2, <1>3 DEF CallInv
  <1>5. HolderInv'
    <2>1. \A v \in closer : v # w /\ call'[v] = call[v]
      BY <1>2 DEF HolderInv
    <2>2. \A r \in Series : Recorded(r)' = Recorded(r)
      BY <1>2 DEF Recorded
    <2> QED BY <1>2, <2>1, <2>2 DEF HolderInv
  <1>6. ASSUME NEW r \in Series
        PROVE  PlacesInv(r)' /\ RecordsInv(r)'
    <2>1. Carried(r)' = IF r = s THEN Carried(r) \cup {p} ELSE Carried(r)
      BY <1>2, CarryPoint DEF c
    <2>2. Open(r)' = Open(r) /\ Recorded(r)' = Recorded(r)
      BY <1>2 DEF Open, Recorded
    <2>3. CASE r # s
      <3>1. stored'[r] = stored[r]
        BY <1>2, <2>3
      <3>2. Untouched(r)
        BY <1>2, <1>3, <2>1, <2>2, <2>3, <3>1 DEF Untouched
      <3> QED BY <3>2, UntouchedInv
    <2>4. CASE r = s
      <3>1. p \notin stored[s] /\ \A q \in stored[s] : q.val \in Nat
        BY <1>3 DEF PlacesInv, Point
      <3>2. PlacesInv(s)'
        BY <1>2, <1>3, <2>1, <2>2, <2>4, <3>1 DEF PlacesInv, Missing
      <3> QED BY <1>2, <2>4, <3>2 DEF RecordsInv
    <2> QED BY <2>3, <2>4
  <1> QED BY <1>1, <1>4, <1>5, <1>6

\* A write that fails is refused, and stored or not.
LEMMA StorePointFailsInv ==
  ASSUME LedgerInv, NEW w \in Writers, NEW s \in Series, NEW ts \in Timestamps,
         StorePointFails(w, s, ts)
  PROVE  LedgerInv'
  <1> USE DEF LedgerInv, TypeOK
  <1> DEFINE p == [ts |-> ts, val |-> serial + 1]
  <1>1. TypeOK'
    BY NextTypeOK DEF Next
  <1>2. /\ serial' = serial + 1
        /\ UNCHANGED <<hourly, acc, call, closing, closer, signal, todo, lost>>
        /\ \/ /\ stored' = [stored EXCEPT ![s] = @ \cup {p}]
              /\ refused' = [refused EXCEPT ![s] = @ \cup {p}]
           \/ UNCHANGED <<stored, refused>>
    BY DEF StorePointFails, muVars
  <1>3. /\ p.val = serial + 1 /\ serial \in Nat
        /\ \A v \in Writers : \A d \in call[v] : d.pt.val \in Nat
    BY RollupAssumption DEF Call, Point
  <1> HIDE DEF p
  <1>4. CallInv'
    BY <1>2, <1>3 DEF CallInv
  <1>5. HolderInv'
    BY <1>2 DEF HolderInv, Recorded
  <1>6. ASSUME NEW r \in Series
        PROVE  PlacesInv(r)' /\ RecordsInv(r)'
    <2>1. Carried(r)' = Carried(r) /\ Open(r)' = Open(r) /\ Recorded(r)' = Recorded(r)
      BY <1>2 DEF Carried, Open, Recorded
    <2>2. CASE stored'[r] = stored[r] /\ refused'[r] = refused[r]
      <3>1. Untouched(r)
        BY <1>2, <1>3, <2>1, <2>2 DEF Untouched
      <3> QED BY <3>1, UntouchedInv
    <2>3. CASE stored'[r] = stored[r] \cup {p} /\ refused'[r] = refused[r] \cup {p}
      <3>1. p \notin stored[r] /\ \A q \in stored[r] : q.val \in Nat
        BY <1>3 DEF PlacesInv, Point
      <3>2. PlacesInv(r)'
        BY <1>2, <1>3, <2>1, <2>3, <3>1 DEF PlacesInv, Missing
      <3> QED BY <1>2, <3>2 DEF RecordsInv
    <2> QED BY <1>2, <2>2, <2>3
  <1> QED BY <1>1, <1>4, <1>5, <1>6

\* A point that is taken to its bucket is carried no longer.
LEMMA TakePoint ==
  ASSUME TypeOK, CallInv, NEW w \in Writers, NEW c \in call[w],
         call' = [call EXCEPT ![w] = {}], serial' = serial
  PROVE  /\ CallInv'
         /\ c.series \in Series /\ c.pt \in Point
         /\ c.pt \in Carried(c.series)
         /\ Carried(c.series)' = Carried(c.series) \ {c.pt}
         /\ \A r \in Series \ {c.series} : Carried(r)' = Carried(r)
  <1> USE DEF TypeOK
  <1>1. c.series \in Series /\ c.pt \in Point /\ c.pt \in Carried(c.series)
    BY CarriedBy DEF Call
  <1>2. \A v \in Writers : call'[v] = IF v = w THEN {} ELSE call[v]
    OBVIOUS
  <1>3. CallInv'
    BY <1>2 DEF CallInv
  <1>4. ASSUME NEW r, NEW q
        PROVE  q \in Carried(r)' <=> q \in Carried(r) /\ ~ (r = c.series /\ q = c.pt)
    <2>1. q \in Carried(r)' <=> \E v \in Writers : \E d \in call'[v] : d.series = r /\ d.pt = q
      BY DEF Carried
    <2>2. q \in Carried(r)' <=>
            \E v \in Writers \ {w} : \E d \in call[v] : d.series = r /\ d.pt = q
      BY <1>2, <2>1
    <2>3. \A d \in call[w] : d = c
      BY DEF CallInv
    <2>4. \A v \in Writers \ {w} : \A d \in call[v] : d.pt # c.pt
      BY DEF CallInv
    <2>5. q \in Carried(r) <=> \/ q \in Carried(r)'
                               \/ r = c.series /\ q = c.pt
      <3>1. q \in Carried(r) <=> \E v \in Writers : \E d \in call[v] : d.series = r /\ d.pt = q
        BY CarriedBy
      <3> QED BY <2>2, <2>3, <3>1
    <2>6. ~ (r = c.series /\ q = c.pt /\ q \in Carried(r)')
      BY <2>2, <2>4
    <2> QED BY <2>5, <2>6
  <1>5. Carried(c.series)' = Carried(c.series) \ {c.pt}
    BY <1>4
  <1>6. ASSUME NEW r \in Series \ {c.series}
        PROVE  Carried(r)' = Carried(r)
    <2>1. \A q : q \in Carried(r)' <=> q \in Carried(r)
      BY <1>4
    <2> QED BY <2>1
  <1> QED BY <1>1, <1>3, <1>5, <1>6

\* AddToBucket, e.mu free: from the writer to the open bucket.
LEMMA AddToBucketInv ==
  ASSUME LedgerInv, NEW w \in Writers, AddToBucket(w)
  PROVE  LedgerInv'
  <1> USE DEF LedgerInv, TypeOK
  <1>1. TypeOK'
    BY NextTypeOK DEF Next
  <1>2. PICK c \in call[w] :
          /\ closing = {}
          /\ \/ /\ acc[c.series].start = HourOf(c.pt.ts)
                /\ acc' = [acc EXCEPT ![c.series].pts = @ \cup {c.pt}]
             \/ /\ acc[c.series].pts = {}
                /\ acc' = [acc EXCEPT ![c.series] = FreshWith(c.pt)]
          /\ call' = [call EXCEPT ![w] = {}]
          /\ UNCHANGED <<stored, hourly, closing, closer, signal, serial, lost, refused>>
    BY DEF AddToBucket, EMuFree, fileVars, muVars, histVars
  <1> DEFINE s == c.series
             p == c.pt
  <1>3. /\ CallInv'
        /\ s \in Series /\ p \in Point /\ p \in Carried(s)
        /\ Carried(s)' = Carried(s) \ {p}
        /\ \A r \in Series \ {s} : Carried(r)' = Carried(r)
    BY <1>2, TakePoint
  <1>4. /\ acc'[s].pts = acc[s].pts \cup {p} /\ acc'[s].start = HourOf(p.ts)
        /\ acc[s].pts # {} => acc[s].start = HourOf(p.ts)
        /\ \A r \in Series \ {s} : acc'[r] = acc[r]
    <2>1. acc[s] \in Record
      BY <1>3
    <2>2. CASE acc' = [acc EXCEPT ![s].pts = @ \cup {p}] /\ acc[s].start = HourOf(p.ts)
      BY <1>3, <2>1, <2>2 DEF Record
    <2>3. CASE acc' = [acc EXCEPT ![s] = FreshWith(p)] /\ acc[s].pts = {}
      BY <1>3, <2>3 DEF FreshWith
    <2> QED BY <1>2, <2>2, <2>3
  <1> HIDE DEF s, p
  <1>5. HolderInv'
    <2>1. closer = {}
      BY <1>2
    <2> QED BY <1>2, <2>1 DEF HolderInv
  <1>6. ASSUME NEW r \in Series
        PROVE  PlacesInv(r)' /\ RecordsInv(r)'
    <2>1. Recorded(r)' = Recorded(r) /\ Open(r) = acc[r].pts /\ Open(r)' = acc'[r].pts
      BY <1>2 DEF Open, Recorded
    <2>2. CASE r # s
      BY <1>2, <1>3, <1>4, <2>1, <2>2, UntouchedInv DEF Untouched
    <2>3. CASE r = s
      <3>1. Own(acc'[s].start, acc'[s].pts)
        BY <1>3, <1>4 DEF PlacesInv, Own
      <3>2. PlacesInv(s)'
        BY <1>2, <1>3, <1>4, <2>1, <2>3, <3>1 DEF PlacesInv, Missing
      <3> QED BY <1>2, <2>3, <3>2 DEF RecordsInv
    <2> QED BY <2>2, <2>3
  <1> QED BY <1>1, <1>3, <1>5, <1>6

\* What appendHourlyRecord does with the open bucket of s.
LEMMA AppendParts ==
  ASSUME TypeOK, NEW s \in Series, AppendHourly(s)
  PROVE  /\ \A r \in Series \ {s} : hourly'[r] = hourly[r] /\ lost'[r] = lost[r]
         /\ \/ /\ hourly'[s] = Append(hourly[s], acc[s])
               /\ Recorded(s)' = Recorded(s) \cup acc[s].pts
               /\ lost'[s] = lost[s]
            \/ /\ hourly'[s] = hourly[s]
               /\ Recorded(s)' = Recorded(s)
               /\ lost'[s] = lost[s] \cup acc[s].pts
  <1> USE DEF TypeOK
  <1>1. \/ hourly' = [hourly EXCEPT ![s] = Append(@, acc[s])] /\ lost' = lost
        \/ hourly' = hourly /\ lost' = [lost EXCEPT ![s] = @ \cup acc[s].pts]
    BY DEF AppendHourly
  <1>2. CASE hourly' = [hourly EXCEPT ![s] = Append(@, acc[s])] /\ lost' = lost
    <2>1. hourly'[s] = Append(hourly[s], acc[s]) /\ \A r \in Series \ {s} : hourly'[r] = hourly[r]
      BY <1>2
    <2>2. Rows(hourly'[s], DOMAIN hourly'[s]) = Recorded(s) \cup acc[s].pts
      BY <2>1, AppendRecord DEF Recorded
    <2>3. Recorded(s)' = Rows(hourly'[s], DOMAIN hourly'[s])
      BY DEF Recorded, Rows
    <2> QED BY <1>2, <2>1, <2>2, <2>3
  <1>3. CASE hourly' = hourly /\ lost' = [lost EXCEPT ![s] = @ \cup acc[s].pts]
    BY <1>3 DEF Recorded
  <1> QED BY <1>1, <1>2, <1>3

\* CloseHour and FlushHour: the open bucket moves to the file, or is lost, and
\* e.mu is held.
LEMMA CloseInv ==
  ASSUME LedgerInv, NEW s \in Series, AppendHourly(s),
         closing = {}, closing' = {s},
         UNCHANGED <<stored, acc, call, signal, serial, refused>>
  PROVE  /\ acc[s].pts \subseteq Recorded(s)' \cup lost'[s]
         /\ \A r \in Series : PlacesInv(r)' /\ RecordsInv(r)'
  <1> USE DEF LedgerInv, TypeOK
  <1>1. /\ \A r \in Series \ {s} : hourly'[r] = hourly[r] /\ lost'[r] = lost[r]
        /\ \/ /\ hourly'[s] = Append(hourly[s], acc[s])
              /\ Recorded(s)' = Recorded(s) \cup acc[s].pts
              /\ lost'[s] = lost[s]
           \/ /\ hourly'[s] = hourly[s]
              /\ Recorded(s)' = Recorded(s)
              /\ lost'[s] = lost[s] \cup acc[s].pts
    BY AppendParts
  <1>2. ASSUME NEW r \in Series
        PROVE  PlacesInv(r)' /\ RecordsInv(r)'
    <2>1. /\ Carried(r)' = Carried(r) /\ Open(r) = acc[r].pts
          /\ Open(r)' = IF r = s THEN {} ELSE acc[r].pts
      BY DEF Carried, Open
    <2>2. CASE r # s
      BY <1>1, <2>1, <2>2, UntouchedInv DEF Untouched
    <2>3. CASE r = s
      <3>1. PlacesInv(s)'
        BY <1>1, <2>1, <2>3 DEF PlacesInv, Missing
      <3>2. CASE hourly'[s] = hourly[s]
        BY <2>3, <3>1, <3>2 DEF RecordsInv
      <3>3. CASE hourly'[s] = Append(hourly[s], acc[s])
        <4> DEFINE n == Len(hourly[s]) + 1
        <4>1. /\ DOMAIN hourly'[s] = DOMAIN hourly[s] \cup {n} /\ n \notin DOMAIN hourly[s]
              /\ hourly'[s][n] = acc[s]
              /\ \A i \in DOMAIN hourly[s] : hourly'[s][i] = hourly[s][i]
          BY <3>3, AppendRecord
        <4> HIDE DEF n
        <4>2. \A i \in DOMAIN hourly[s] : hourly[s][i].pts \cap acc[s].pts = {}
          BY <2>1, <2>3 DEF PlacesInv, Recorded, Rows, Missing
        <4>3. RecordsInv(s)'
          BY <4>1, <4>2 DEF RecordsInv, PlacesInv
        <4> QED BY <2>3, <3>1, <4>3
      <3> QED BY <1>1, <3>2, <3>3
    <2> QED BY <2>2, <2>3
  <1> QED BY <1>1, <1>2

\* A writer closes an hour: its points go from the bucket to the file, or are lost.
LEMMA CloseHourInv ==
  ASSUME LedgerInv, NEW w \in Writers, CloseHour(w)
  PROVE  LedgerInv'
  <1> USE DEF LedgerInv, TypeOK
  <1>1. TypeOK'
    BY NextTypeOK DEF Next
  <1>2. PICK c \in call[w] :
          /\ closing = {} /\ signal # "flushing" /\ AppendHourly(c.series)
          /\ closing' = {c.series} /\ closer' = {w}
          /\ UNCHANGED <<stored, acc, call, signal, todo, serial, refused>>
    BY DEF CloseHour, EMuFree
  <1>3. c.series \in Series
    BY DEF Call
  <1>4. CallInv'
    BY <1>2 DEF CallInv
  <1>5. /\ acc[c.series].pts \subseteq Recorded(c.series)' \cup lost'[c.series]
        /\ \A r \in Series : PlacesInv(r)' /\ RecordsInv(r)'
    BY <1>2, <1>3, CloseInv
  <1>6. HolderInv'
    BY <1>2, <1>5 DEF HolderInv
  <1> QED BY <1>1, <1>4, <1>5, <1>6

\* Flush does the same.
LEMMA FlushHourInv ==
  ASSUME LedgerInv, NEW s \in Series, FlushHour(s)
  PROVE  LedgerInv'
  <1> USE DEF LedgerInv, TypeOK
  <1>1. TypeOK'
    BY NextTypeOK DEF Next
  <1>2. /\ signal = "flushing" /\ closing = {} /\ AppendHourly(s) /\ closing' = {s}
        /\ s \in todo
        /\ UNCHANGED <<stored, acc, call, closer, signal, todo, serial, refused>>
    BY DEF FlushHour
  <1>3. CallInv'
    BY <1>2 DEF CallInv
  <1>4. /\ acc[s].pts \subseteq Recorded(s)' \cup lost'[s]
        /\ \A r \in Series : PlacesInv(r)' /\ RecordsInv(r)'
    BY <1>2, CloseInv
  <1>5. HolderInv'
    BY <1>2, <1>4 DEF HolderInv
  <1> QED BY <1>1, <1>3, <1>4, <1>5

\* OpenHour: the bucket is reset to the point its writer carries.
LEMMA OpenHourInv ==
  ASSUME LedgerInv, NEW w \in Writers, OpenHour(w)
  PROVE  LedgerInv'
  <1> USE DEF LedgerInv, TypeOK
  <1>1. TypeOK'
    BY NextTypeOK DEF Next
  <1>2. PICK c \in call[w] :
          /\ w \in closer /\ acc' = [acc EXCEPT ![c.series] = FreshWith(c.pt)]
          /\ call' = [call EXCEPT ![w] = {}] /\ closing' = {} /\ closer' = {}
          /\ UNCHANGED <<stored, hourly, signal, serial, lost, refused>>
    BY DEF OpenHour, histVars
  <1> DEFINE s == c.series
             p == c.pt
  <1>3. /\ CallInv'
        /\ s \in Series /\ p \in Point /\ p \in Carried(s)
        /\ Carried(s)' = Carried(s) \ {p}
        /\ \A r \in Series \ {s} : Carried(r)' = Carried(r)
    BY <1>2, TakePoint
  <1>4. closing = {s}
    BY <1>2 DEF HolderInv, CallInv
  <1>5. /\ acc'[s] = FreshWith(p)
        /\ \A r \in Series \ {s} : acc'[r] = acc[r]
    BY <1>2, <1>3
  <1> HIDE DEF s, p
  <1>6. HolderInv'
    BY <1>2 DEF HolderInv
  <1>7. ASSUME NEW r \in Series
        PROVE  PlacesInv(r)' /\ RecordsInv(r)'
    <2>1. /\ Recorded(r)' = Recorded(r) /\ Open(r)' = acc'[r].pts
          /\ Open(r) = IF r = s THEN {} ELSE acc[r].pts
      BY <1>2, <1>4 DEF Open, Recorded
    <2>2. CASE r # s
      BY <1>2, <1>3, <1>5, <2>1, <2>2, UntouchedInv DEF Untouched
    <2>3. CASE r = s
      <3>1. acc'[s].pts = {p} /\ Own(acc'[s].start, acc'[s].pts)
        BY <1>5 DEF FreshWith, Own
      <3>2. PlacesInv(s)'
        BY <1>2, <1>3, <2>1, <2>3, <3>1 DEF PlacesInv, Missing
      <3> QED BY <1>2, <2>3, <3>2 DEF RecordsInv
    <2> QED BY <2>2, <2>3
  <1> QED BY <1>1, <1>3, <1>6, <1>7

\* When Flush resets a bucket, the points are no longer in it only.
LEMMA FlushResetInv ==
  ASSUME LedgerInv, NEW s \in Series, FlushReset(s)
  PROVE  LedgerInv'
  <1> USE DEF LedgerInv, TypeOK
  <1>1. TypeOK'
    BY NextTypeOK DEF Next
  <1>2. /\ signal = "flushing" /\ closing = {s} /\ closing' = {}
        /\ acc' = [acc EXCEPT ![s].pts = {}]
        /\ UNCHANGED <<stored, hourly, call, closer, signal, serial, lost, refused>>
    BY DEF FlushReset, histVars
  <1>3. /\ acc'[s].pts = {} /\ acc'[s].start = acc[s].start
        /\ \A r \in Series \ {s} : acc'[r] = acc[r]
    BY <1>2 DEF Record
  <1>4. CallInv' /\ HolderInv'
    BY <1>2 DEF CallInv, HolderInv
  <1>5. ASSUME NEW r \in Series
        PROVE  PlacesInv(r)' /\ RecordsInv(r)'
    <2>1. /\ Carried(r)' = Carried(r) /\ Recorded(r)' = Recorded(r) /\ Open(r)' = acc'[r].pts
          /\ Open(r) = IF r = s THEN {} ELSE acc[r].pts
      BY <1>2 DEF Carried, Open, Recorded
    <2>2. CASE r # s
      BY <1>2, <1>3, <2>1, <2>2, UntouchedInv DEF Untouched
    <2>3. CASE r = s
      <3>1. PlacesInv(s)'
        BY <1>2, <1>3, <2>1, <2>3 DEF PlacesInv, Missing, Own
      <3> QED BY <1>2, <2>3, <3>1 DEF RecordsInv
    <2> QED BY <2>2, <2>3
  <1> QED BY <1>1, <1>4, <1>5

\* Crash and Exit: what is only in memory is lost, and only that.
LEMMA NewEngineInv ==
  ASSUME LedgerInv, Crash \/ Exit
  PROVE  LedgerInv'
  <1> USE DEF LedgerInv, TypeOK
  <1>1. TypeOK'
    BY NextTypeOK DEF Next
  <1>2. /\ lost' = [s \in Series |-> lost[s] \cup Carried(s) \cup Open(s)]
        /\ acc' = [s \in Series |-> newAccumulator] /\ call' = [w \in Writers |-> {}]
        /\ closing' = {} /\ closer' = {}
        /\ UNCHANGED <<stored, hourly, serial, refused>>
    BY DEF Crash, Exit, NewEngine, fileVars
  <1>3. CallInv' /\ HolderInv'
    BY <1>2 DEF CallInv, HolderInv
  <1>4. ASSUME NEW r \in Series
        PROVE  PlacesInv(r)' /\ RecordsInv(r)'
    <2>1. /\ Carried(r)' = {} /\ Recorded(r)' = Recorded(r)
          /\ acc'[r].pts = {} /\ Open(r)' = {}
      BY <1>2 DEF Carried, Open, Recorded, newAccumulator
    <2>2. PlacesInv(r)'
      BY <1>2, <2>1 DEF PlacesInv, Missing, Own
    <2> QED BY <1>2, <2>2 DEF RecordsInv
  <1> QED BY <1>1, <1>3, <1>4

\* Every step moves points between two places.
LEMMA NextLedgerInv ==
  ASSUME LedgerInv, [Next]_vars
  PROVE  LedgerInv'
  <1>1. CASE BeginFlush \/ EndFlush \/ UNCHANGED vars
    <2>1. /\ UNCHANGED <<stored, hourly, acc, call, closing, closer, serial, lost, refused>>
          /\ closing # {} => (signal' = signal /\ todo' = todo) \/ closer # {}
      BY <1>1 DEF BeginFlush, EndFlush, EMuFree, LedgerInv, HolderInv, fileVars, muVars, histVars, vars
    <2>2. CallInv' /\ HolderInv'
      BY <2>1 DEF LedgerInv, CallInv, HolderInv, Recorded
    <2>3. ASSUME NEW s \in Series
          PROVE  PlacesInv(s)' /\ RecordsInv(s)'
      BY <2>1, UntouchedInv DEF Untouched, Carried, Open, LedgerInv, TypeOK
    <2>4. TypeOK'
      BY NextTypeOK DEF LedgerInv
    <2> QED BY <2>2, <2>3, <2>4 DEF LedgerInv
  <1> QED BY <1>1, StorePointInv, StorePointFailsInv, AddToBucketInv, CloseHourInv,
             OpenHourInv, FlushHourInv, FlushResetInv, NewEngineInv DEF Next

\* engine.go: every point the store serves is in an hourly record, or on its way
\* there, or its write was refused, or it was lost with a failed append or with
\* its process.
THEOREM EveryPointAccounted == Spec => []Accounted
  <1>1. LedgerInv => Accounted
    BY DEF LedgerInv, Accounted, PlacesInv
  <1> QED BY InitLedgerInv, NextLedgerInv, <1>1, PTL DEF Spec

\* engine.go, updateAccumulator and Flush: no point is aggregated twice, and none
\* in an hour that is not its own.
THEOREM EveryPointOnce == Spec => []CountedOnce
  <1>1. LedgerInv => CountedOnce
    BY DEF LedgerInv, CountedOnce, PlacesInv, RecordsInv
  <1> QED BY InitLedgerInv, NextLedgerInv, <1>1, PTL DEF Spec
-----------------------------------------------------------------------------
(* Flush *)

\* What is in a record or lost stays so.
LEMMA WrittenGrows ==
  ASSUME LedgerInv, [Next]_vars, NEW s \in Series
  PROVE  Recorded(s) \cup lost[s] \subseteq Recorded(s)' \cup lost'[s]
  <1> USE DEF LedgerInv, TypeOK
  <1>1. ASSUME NEW r \in Series, AppendHourly(r)
        PROVE  Recorded(s) \cup lost[s] \subseteq Recorded(s)' \cup lost'[s]
    <2>1. CASE s = r
      <3>1. \/ Recorded(s)' = Recorded(s) \cup acc[s].pts /\ lost'[s] = lost[s]
            \/ Recorded(s)' = Recorded(s) /\ lost'[s] = lost[s] \cup acc[s].pts
        BY <1>1, <2>1, AppendParts
      <3> QED BY <3>1
    <2>2. CASE s # r
      BY <1>1, <2>2, AppendParts DEF Recorded
    <2> QED BY <2>1, <2>2
  <1>2. CASE hourly' = hourly /\ lost' = lost
    BY <1>2 DEF Recorded
  <1>3. CASE Crash \/ Exit
    BY <1>3 DEF Crash, Exit, NewEngine, fileVars, Recorded
  <1>4. ASSUME NEW w \in Writers, CloseHour(w)
        PROVE  Recorded(s) \cup lost[s] \subseteq Recorded(s)' \cup lost'[s]
    BY <1>1, <1>4 DEF CloseHour, Call
  <1>5. ASSUME NEW r \in Series, FlushHour(r)
        PROVE  Recorded(s) \cup lost[s] \subseteq Recorded(s)' \cup lost'[s]
    BY <1>1, <1>5 DEF FlushHour
  <1>6. \/ hourly' = hourly /\ lost' = lost
        \/ Crash \/ Exit
        \/ \E w \in Writers : CloseHour(w)
        \/ \E r \in Series : FlushHour(r)
    BY DEF Next, StorePoint, StorePointFails, AddToBucket, OpenHour, BeginFlush,
       FlushReset, EndFlush, fileVars, histVars, vars
  <1> QED BY <1>2, <1>3, <1>4, <1>5, <1>6

\* What Flush found is still to be visited, or written, or lost.
LEMMA NextFlushInv ==
  ASSUME LedgerInv, FlushInv, [Next]_vars
  PROVE  FlushInv'
  <1> USE DEF LedgerInv, TypeOK
  <1>1. \A s \in Series : Recorded(s) \cup lost[s] \subseteq Recorded(s)' \cup lost'[s]
    BY WrittenGrows
  <1>2. CASE signal' = signal /\ atFlush' = atFlush /\ (signal = "flushing" => UNCHANGED <<acc, todo>>)
    BY <1>1, <1>2 DEF FlushInv, FlushFinalizes
  <1>3. CASE BeginFlush
    BY <1>3 DEF BeginFlush, FlushInv, FlushFinalizes
  <1>4. ASSUME NEW s \in Series, FlushReset(s)
        PROVE  FlushInv'
    <2>1. /\ signal = "flushing" /\ signal' = signal /\ atFlush' = atFlush /\ todo' = todo \ {s}
          /\ \A r \in Series \ {s} : acc'[r] = acc[r]
          /\ s \in closing /\ lost' = lost /\ hourly' = hourly
      BY <1>4 DEF FlushReset, histVars
    <2>2. s \in todo /\ acc[s].pts \subseteq Recorded(s) \cup lost[s]
      BY <2>1 DEF HolderInv
    <2>3. \A r \in Series : Recorded(r)' = Recorded(r)
      BY <2>1 DEF Recorded
    <2> QED BY <2>1, <2>2, <2>3 DEF FlushInv, FlushFinalizes
  <1>5. CASE EndFlush
    BY <1>1, <1>5 DEF EndFlush, FlushInv, FlushFinalizes, histVars
  <1>6. CASE Crash \/ Exit
    BY <1>6 DEF Crash, Exit, NewEngine, FlushInv, FlushFinalizes
  <1>7. ASSUME NEW w \in Writers, AddToBucket(w) \/ CloseHour(w) \/ OpenHour(w)
        PROVE  FlushInv'
    <2>1. signal # "flushing" /\ signal' = signal /\ atFlush' = atFlush
      BY <1>7 DEF AddToBucket, CloseHour, OpenHour, EMuFree, muVars, histVars
    <2> QED BY <1>2, <2>1
  <1>8. ASSUME NEW w \in Writers, NEW s \in Series, NEW ts \in Timestamps,
               StorePoint(w, s, ts) \/ StorePointFails(w, s, ts)
        PROVE  FlushInv'
    BY <1>2, <1>8 DEF StorePoint, StorePointFails, muVars
  <1>9. ASSUME NEW s \in Series, FlushHour(s)
        PROVE  FlushInv'
    BY <1>2, <1>9 DEF FlushHour
  <1>10. CASE UNCHANGED vars
    BY <1>2, <1>10 DEF vars, muVars, histVars
  <1> QED BY <1>3, <1>4, <1>5, <1>6, <1>7, <1>8, <1>9, <1>10 DEF Next

\* Engine.Flush: when it returns, every bucket that was open when it began is in
\* an hourly record, or its append failed.
THEOREM FlushWritesAll == Spec => []FlushFinalizes
  <1>1. Init => FlushInv
    BY DEF Init, FlushInv, FlushFinalizes
  <1>2. FlushInv => FlushFinalizes
    BY DEF FlushInv
  <1> QED BY InitLedgerInv, NextLedgerInv, NextFlushInv, <1>1, <1>2, PTL DEF Spec
-----------------------------------------------------------------------------
(* Daily records and tiers *)

\* d is the aggregate of the first records of its day.
Aggregated(d, recs) ==
  LET at == HoursOfDay(recs, d.start) IN
  \E first \in SUBSET at :
    /\ Cardinality(first) = HoursPerDay /\ d.pts = Rows(recs, first)
    /\ \A j \in first, k \in at \ first : j < k

\* Daily records begin with a day, and are aggregates.
DailyInv ==
  \A s \in Series : \A i \in DOMAIN daily[s] :
    /\ \E x \in Nat : daily[s][i].start = DayOf(x)
    /\ Aggregated(daily[s][i], hourly[s])
-----------------------------------------------------------------------------
\* A later hour changes nothing of a day that is complete.
LEMMA AggregatedKept ==
  ASSUME NEW d \in Record, NEW recs \in Seq(Record), NEW rec \in Record, Aggregated(d, recs)
  PROVE  Aggregated(d, Append(recs, rec))
  <1> DEFINE longer == Append(recs, rec)
             n      == Len(recs) + 1
             at     == HoursOfDay(recs, d.start)
             atNow  == HoursOfDay(longer, d.start)
  <1>1. /\ DOMAIN longer = DOMAIN recs \cup {n}
        /\ \A i \in DOMAIN recs : longer[i] = recs[i]
    BY AppendRecord
  <1>2. \A i \in DOMAIN recs : i \in Nat /\ i < n
    BY LenProperties
  <1> HIDE DEF longer, n
  <1>3. at \subseteq atNow /\ atNow \subseteq at \cup {n} /\ at \subseteq DOMAIN recs
    BY <1>1 DEF HoursOfDay
  <1>4. PICK first \in SUBSET at :
          /\ Cardinality(first) = HoursPerDay /\ d.pts = Rows(recs, first)
          /\ \A j \in first, k \in at \ first : j < k
    BY DEF Aggregated
  <1>5. Rows(longer, first) = Rows(recs, first)
    BY <1>1, <1>3 DEF Rows
  <1>6. \A j \in first, k \in atNow \ first : j < k
    BY <1>2, <1>3, <1>4
  <1>7. first \in SUBSET atNow
    BY <1>3
  <1> QED BY <1>4, <1>5, <1>6, <1>7 DEF Aggregated, longer

\* What maybeFinalizeDailyRecord does to the file of s.
LEMMA FinalizeParts ==
  ASSUME TypeOK, NEW s \in Series, MaybeFinalizeDaily(s)
  PROVE  /\ \A r \in Series \ {s} : daily'[r] = daily[r]
         /\ \/ daily'[s] = daily[s]
            \/ \E d \in Record :
                 /\ daily'[s] = Append(daily[s], d)
                 /\ \E x \in Nat : d.start = DayOf(x)
                 /\ Aggregated(d, hourly[s])
  <1> USE DEF TypeOK
  <1> DEFINE day == DayOf(acc[s].start)
             at  == HoursOfDay(hourly[s], day)
             d   == DailyRecord(day, hourly[s], at)
  <1>1. CASE daily' = daily
    BY <1>1
  <1>2. CASE daily' = [daily EXCEPT ![s] = Append(@, d)] /\ DayComplete(at)
    <2>1. acc[s].start \in Nat /\ day \in Nat
      BY HourOfType DEF Record
    <2>2. d.start = day /\ d.pts = Rows(hourly[s], at)
      BY DEF DailyRecord
    <2>3. d \in Record
      <3>1. hourly[s] \in Seq(Record) /\ at \subseteq DOMAIN hourly[s]
        BY DEF HoursOfDay
      <3>2. \A i \in DOMAIN hourly[s] : hourly[s][i] \in Record
        BY <3>1, LenProperties, ElementOfSeq
      <3> QED BY <2>1, <3>1, <3>2 DEF DailyRecord, Record, Rows
    <2>4. Aggregated(d, hourly[s])
      BY <1>2, <2>2 DEF Aggregated, DayComplete
    <2> HIDE DEF d, at
    <2> QED BY <1>2, <2>1, <2>2, <2>3, <2>4
  <1>3. daily' = daily \/ (daily' = [daily EXCEPT ![s] = Append(@, d)] /\ DayComplete(at))
    <2> HIDE DEF d
    <2> QED BY DEF MaybeFinalizeDaily, d
  <1> QED BY <1>1, <1>2, <1>3

\* Daily records stay the aggregates of the first records of their days.
LEMMA NextDailyInv ==
  ASSUME LedgerInv, DailyInv, [Next]_vars
  PROVE  DailyInv'
  <1> USE DEF LedgerInv, TypeOK
  <1>1. CASE UNCHANGED <<hourly, daily>>
    BY <1>1 DEF DailyInv
  <1>2. ASSUME NEW s \in Series, AppendHourly(s), daily' = daily
        PROVE  DailyInv'
    <2>1. ASSUME NEW r \in Series, NEW i \in DOMAIN daily[r]
          PROVE  Aggregated(daily[r][i], hourly'[r])
      <3>1. hourly'[r] = hourly[r] \/ (r = s /\ hourly'[r] = Append(hourly[r], acc[r]))
        BY <1>2, AppendParts
      <3>2. daily[r] \in Seq(Record) /\ Aggregated(daily[r][i], hourly[r])
        BY DEF DailyInv
      <3>3. daily[r][i] \in Record
        BY <3>2, LenProperties, ElementOfSeq
      <3>4. Aggregated(daily[r][i], Append(hourly[r], acc[r]))
        BY <3>2, <3>3, AggregatedKept
      <3> QED BY <3>1, <3>2, <3>4
    <2>2. \A r \in Series : \A i \in DOMAIN daily'[r] : Aggregated(daily'[r][i], hourly'[r])
      BY <1>2, <2>1
    <2>3. \A r \in Series : \A i \in DOMAIN daily'[r] : \E x \in Nat : daily'[r][i].start = DayOf(x)
      BY <1>2 DEF DailyInv
    <2> QED BY <2>2, <2>3 DEF DailyInv
  <1>3. ASSUME NEW s \in Series, MaybeFinalizeDaily(s), hourly' = hourly
        PROVE  DailyInv'
    <2> DEFINE Good(d, r) == (\E x \in Nat : d.start = DayOf(x)) /\ Aggregated(d, hourly[r])
    <2>1. ASSUME NEW r \in Series, NEW i \in DOMAIN daily'[r]
          PROVE  Good(daily'[r][i], r)
      <3>1. CASE daily'[r] = daily[r]
        BY <2>1, <3>1 DEF DailyInv
      <3>2. CASE daily'[r] # daily[r]
        <4>1. r = s
          BY <1>3, <3>2, FinalizeParts
        <4>2. PICK d \in Record : daily'[s] = Append(daily[s], d) /\ Good(d, s)
          BY <1>3, <3>2, <4>1, FinalizeParts
        <4>3. /\ DOMAIN daily'[s] = DOMAIN daily[s] \cup {Len(daily[s]) + 1}
              /\ daily'[s][Len(daily[s]) + 1] = d
              /\ \A j \in DOMAIN daily[s] : daily'[s][j] = daily[s][j]
          BY <4>2, AppendRecord
        <4>4. \A j \in DOMAIN daily[s] : Good(daily[s][j], s)
          BY DEF DailyInv
        <4> HIDE DEF Good
        <4> QED BY <2>1, <4>1, <4>2, <4>3, <4>4
      <3> QED BY <3>1, <3>2
    <2>2. \A r \in Series : \A i \in DOMAIN daily'[r] : Aggregated(daily'[r][i], hourly'[r])
      BY <1>3, <2>1
    <2>3. \A r \in Series : \A i \in DOMAIN daily'[r] : \E x \in Nat : daily'[r][i].start = DayOf(x)
      BY <2>1
    <2> QED BY <2>2, <2>3 DEF DailyInv
  <1>4. ASSUME NEW w \in Writers, CloseHour(w)
        PROVE  DailyInv'
    BY <1>2, <1>4 DEF CloseHour, Call
  <1>5. ASSUME NEW w \in Writers, OpenHour(w)
        PROVE  DailyInv'
    BY <1>3, <1>5 DEF OpenHour, Call
  <1>6. ASSUME NEW s \in Series, FlushHour(s) \/ FlushReset(s)
        PROVE  DailyInv'
    BY <1>2, <1>3, <1>6 DEF FlushHour, FlushReset
  <1> QED BY <1>1, <1>4, <1>5, <1>6
      DEF Next, StorePoint, StorePointFails, AddToBucket, BeginFlush, EndFlush,
          Crash, Exit, NewEngine, fileVars, vars

\* engine.go, maybeFinalizeDailyRecord: a daily record is the aggregate of the
\* first records its day got, as many as a day has hours, and of nothing else.
THEOREM DaysFromHours == Spec => []DailyFromHours
  <1>1. Init => DailyInv
    BY EmptySeq DEF Init, DailyInv
  <1>2. DailyInv => DailyFromHours
    BY DEF DailyInv, DailyFromHours, Aggregated
  <1> QED BY InitLedgerInv, NextLedgerInv, NextDailyInv, <1>1, <1>2, PTL DEF Spec
-----------------------------------------------------------------------------
(* What a tier leaves out *)

\* Multiples in order have their factors in order.
LEMMA MultipleLess ==
  ASSUME NEW a \in Nat, NEW b \in Nat, NEW m \in Nat \ {0}, a * m < b * m
  PROVE  a + 1 <= b
  <1>1. CASE b <= a
    <2>1. PICK d \in Nat : a = b + d
      <3>1. a - b \in Nat /\ a = b + (a - b)
        BY <1>1
      <3> QED BY <3>1
    <2>2. a * m = b * m + d * m /\ d * m >= 0
      BY <2>1
    <2> QED BY <2>2
  <1> QED BY <1>1

\* Times of the hours of a day are times of that day.
LEMMA DayOfHour ==
  ASSUME NEW x \in Nat, NEW ts \in Nat,
         HourOf(ts) >= DayOf(x), HourOf(ts) < DayOf(x) + DaySecs
  PROVE  DayOf(ts) = DayOf(x)
  <1> DEFINE H == HourSecs
             N == HoursPerDay
             q == x \div DaySecs
             k == ts \div H
  <1>1. H \in Nat \ {0} /\ N \in Nat \ {0} /\ DaySecs = N * H /\ DaySecs \in Nat \ {0}
    BY RollupAssumption DEF DaySecs
  <1>2. q \in Nat /\ k \in Nat
    BY <1>1
  <1>3. HourOf(ts) = k * H /\ DayOf(x) = q * DaySecs
    BY DEF HourOf, DayOf
  <1>4. k * H <= ts /\ ts < k * H + H
    BY <1>1
  <1> HIDE DEF H, N, q, k
  <1>5. (k + 1) * H = k * H + H /\ (q + 1) * DaySecs = q * DaySecs + DaySecs
    BY <1>1, <1>2
  <1>6. ((q + 1) * N) * H = (q + 1) * DaySecs /\ (q + 1) * N \in Nat
    BY <1>1, <1>2
  <1>7. k * H < ((q + 1) * N) * H
    BY <1>3, <1>5, <1>6
  <1>8. k + 1 <= (q + 1) * N
    BY <1>1, <1>2, <1>6, <1>7, MultipleLess
  <1>9. (k + 1) * H <= ((q + 1) * N) * H
    <2>1. PICK d \in Nat : (q + 1) * N = (k + 1) + d
      <3> DEFINE e == (q + 1) * N
      <3>1. e \in Nat /\ k + 1 \in Nat /\ k + 1 <= e
        BY <1>2, <1>6, <1>8
      <3> HIDE DEF e
      <3>2. e - (k + 1) \in Nat /\ e = (k + 1) + (e - (k + 1))
        BY <3>1
      <3> QED BY <3>2 DEF e
    <2>2. ((k + 1) + d) * H = (k + 1) * H + d * H /\ d * H >= 0
      BY <1>1, <1>2
    <2> QED BY <1>1, <1>2, <2>1, <2>2
  <1>10. q * DaySecs <= ts /\ ts < q * DaySecs + DaySecs
    BY <1>1, <1>2, <1>3, <1>4, <1>5, <1>6, <1>9
  <1>11. ts \div DaySecs = q
    BY <1>1, <1>2, <1>10
  <1> QED BY <1>3, <1>11 DEF DayOf

\* Points of a daily record are points of its day.
LEMMA DailyOwn ==
  ASSUME LedgerInv, DailyInv, NEW s \in Series, NEW i \in DOMAIN daily[s],
         NEW p \in daily[s][i].pts
  PROVE  daily[s][i].start = DayOf(p.ts)
  <1>1. PICK x \in Nat : daily[s][i].start = DayOf(x)
    BY DEF DailyInv
  <1>2. PICK k \in HoursOfDay(hourly[s], daily[s][i].start) : p \in hourly[s][k].pts
    BY DEF DailyInv, Aggregated, Rows
  <1>3. k \in DOMAIN hourly[s] /\ hourly[s][k].start = HourOf(p.ts)
    BY <1>2 DEF HoursOfDay, LedgerInv, RecordsInv, Own
  <1>4. p.ts \in Nat
    <2>1. hourly[s] \in Seq(Record)
      BY DEF LedgerInv, TypeOK
    <2>2. hourly[s][k] \in Record
      BY <1>3, <2>1, LenProperties, ElementOfSeq
    <2> QED BY <1>2, <2>2, RollupAssumption DEF Record, Point
  <1>5. HourOf(p.ts) >= DayOf(x) /\ HourOf(p.ts) < DayOf(x) + DaySecs
    BY <1>1, <1>2, <1>3 DEF HoursOfDay
  <1> QED BY <1>1, <1>4, <1>5, DayOfHour

\* A timestamp is within its hour.
LEMMA HourSpan ==
  ASSUME NEW ts \in Nat
  PROVE  HourOf(ts) <= ts /\ ts < HourOf(ts) + HourSecs /\ HourOf(ts) \in Nat
  BY RollupAssumption DEF HourOf

\* What each tier of the planner leaves out.
LEMMA MissesAccounted ==
  ASSUME LedgerInv, DailyInv
  PROVE  TierMissesAccounted
  <1> SUFFICES ASSUME NEW s \in Series, NEW start \in QueryTimes, NEW end \in QueryTimes
               PROVE  LET answer == Query(s, start, end)
                          missed == {p \in stored[s] : start <= p.ts /\ p.ts <= end} \ answer.pts
                          inDays == Rows(daily[s], DOMAIN daily[s])
                      IN CASE answer.tier = "raw"    -> missed = {}
                           [] answer.tier = "hourly" -> missed \subseteq Missing(s)
                           [] answer.tier = "daily"  ->
                                \A p \in missed : p \notin inDays \/ DayOf(p.ts) + HourSecs <= start
    BY DEF TierMissesAccounted
  <1> DEFINE days  == ReadRollup(daily[s], s \in tornDaily, start, end)
             hours == ReadRollup(hourly[s], s \in tornHourly, start, end)
             range == {p \in stored[s] : start <= p.ts /\ p.ts <= end}
  <1>1. start \in Nat /\ end \in Nat /\ \A p \in stored[s] : p.ts \in Nat
    <2>1. stored[s] \subseteq Point
      BY DEF LedgerInv, TypeOK
    <2> QED BY <2>1, RollupAssumption DEF Point
  <1>2. CASE Query(s, start, end) = [tier |-> "raw", pts |-> range]
    BY <1>2
  <1>3. CASE hours # {} /\ Query(s, start, end) = [tier |-> "hourly", pts |-> Rows(hourly[s], hours)]
    <2>1. ASSUME NEW p \in range, p \notin Rows(hourly[s], hours)
          PROVE  p \in Missing(s)
      <3>1. SUFFICES ASSUME p \in Recorded(s) PROVE FALSE
        BY DEF LedgerInv, PlacesInv
      <3>2. PICK i \in DOMAIN hourly[s] : p \in hourly[s][i].pts
        BY <3>1 DEF Recorded, Rows
      <3>3. hourly[s][i].start = HourOf(p.ts)
        BY <3>2 DEF LedgerInv, RecordsInv, Own
      <3>4. Overlaps(hourly[s][i], start, end)
        BY <1>1, <3>3, HourSpan, RollupAssumption DEF Overlaps
      <3>5. i \in hours
        BY <1>3, <3>4 DEF ReadRollup
      <3> QED BY <2>1, <3>2, <3>5 DEF Rows
    <2> HIDE DEF hours
    <2> QED BY <1>3, <2>1
  <1>4. CASE days # {} /\ Query(s, start, end) = [tier |-> "daily", pts |-> Rows(daily[s], days)]
    <2>1. ASSUME NEW p \in range, p \notin Rows(daily[s], days),
                 p \in Rows(daily[s], DOMAIN daily[s])
          PROVE  DayOf(p.ts) + HourSecs <= start
      <3>1. PICK i \in DOMAIN daily[s] : p \in daily[s][i].pts
        BY <2>1 DEF Rows
      <3>2. daily[s][i].start = DayOf(p.ts)
        BY <3>1, DailyOwn
      <3>3. ~ Overlaps(daily[s][i], start, end)
        BY <1>4, <2>1, <3>1 DEF Rows, ReadRollup
      <3>4. DayOf(p.ts) \in Nat /\ DayOf(p.ts) <= p.ts
        <4>1. DaySecs \in Nat \ {0}
          BY RollupAssumption DEF DaySecs
        <4> QED BY <1>1, <4>1 DEF DayOf
      <3> QED BY <1>1, <3>2, <3>3, <3>4, RollupAssumption DEF Overlaps
    <2> HIDE DEF days
    <2> QED BY <1>4, <2>1
  <1>5. \/ Query(s, start, end) = [tier |-> "raw", pts |-> range]
        \/ hours # {} /\ Query(s, start, end) = [tier |-> "hourly", pts |-> Rows(hourly[s], hours)]
        \/ days # {} /\ Query(s, start, end) = [tier |-> "daily", pts |-> Rows(daily[s], days)]
    <2> HIDE DEF days, hours
    <2> QED BY DEF Query, days, hours
  <1> QED BY <1>2, <1>3, <1>4, <1>5

\* engine.go, Query: the hourly tier leaves out of a range only what no record
\* has, the daily tier only what no daily record has and the days whose first
\* hour ended before the range; raw answers leave out nothing.
THEOREM TierGaps == Spec => []TierMissesAccounted
  <1>1. Init => DailyInv
    BY EmptySeq DEF Init, DailyInv
  <1> QED BY InitLedgerInv, NextLedgerInv, NextDailyInv, <1>1, MissesAccounted, PTL DEF Spec
-----------------------------------------------------------------------------
(* A second record of a day *)

\* A point of the last hour of a day is lost.
LastHourLost(s, day) == \E p \in lost[s] : HourOf(p.ts) = LastHour(day)

\* Once the last hour of a day that has its record is appended, there is a record too
\* many for another, or the append has failed.
DayOnceInv ==
  /\ DailyOnce
  /\ \A s \in closing : \A i \in DOMAIN daily[s] :
       daily[s][i].start = DayOf(acc[s].start) /\ acc[s].start = LastHour(daily[s][i].start) =>
         \/ LastHourLost(s, daily[s][i].start)
         \/ Cardinality(HoursOfDay(hourly[s], daily[s][i].start)) > HoursPerDay

\* An hour lies within its day.
LEMMA InDay ==
  ASSUME NEW x \in Nat
  PROVE  DayOf(x) \in Nat /\ DayOf(x) <= x /\ x < DayOf(x) + DaySecs
  <1>1. HourSecs \in Nat \ {0} /\ HoursPerDay \in Nat \ {0}
    BY RollupAssumption
  <1>2. DaySecs \in Nat \ {0}
    BY <1>1 DEF DaySecs
  <1>3. \A n \in Nat \ {0} : (x \div n) * n \in Nat /\ (x \div n) * n <= x /\ x < (x \div n) * n + n
    OBVIOUS
  <1> QED BY <1>2, <1>3 DEF DayOf

\* A day with its record has the records of all its hours.
LEMMA DayFull ==
  ASSUME TypeOK, NEW s \in Series, NEW d, Aggregated(d, hourly[s])
  PROVE  /\ IsFiniteSet(HoursOfDay(hourly[s], d.start))
         /\ Cardinality(HoursOfDay(hourly[s], d.start)) >= HoursPerDay
  <1> DEFINE at == HoursOfDay(hourly[s], d.start)
  <1>1. hourly[s] \in Seq(Record) /\ at \subseteq DOMAIN hourly[s]
    BY DEF TypeOK, HoursOfDay
  <1>2. DOMAIN hourly[s] = 1..Len(hourly[s]) /\ Len(hourly[s]) \in Nat
    BY <1>1, LenProperties
  <1>3. IsFiniteSet(1..Len(hourly[s]))
    BY <1>2, FS_Interval
  <1>4. IsFiniteSet(at)
    BY <1>1, <1>2, <1>3, FS_Subset
  <1>5. PICK first \in SUBSET at : Cardinality(first) = HoursPerDay
    BY DEF Aggregated
  <1> HIDE DEF at
  <1>6. Cardinality(first) <= Cardinality(at) /\ Cardinality(at) \in Nat
    BY <1>4, FS_Subset, FS_CardinalityType
  <1>7. HoursPerDay \in Nat
    BY RollupAssumption
  <1> QED BY <1>4, <1>5, <1>6, <1>7 DEF at

\* The last hour of a day is appended, once more.
LEMMA CloseDayInv ==
  ASSUME LedgerInv, DailyInv, DayOnceInv, NEW s \in Series, AppendHourly(s),
         acc[s].pts # {}, closing' = {s}, UNCHANGED <<acc, daily>>
  PROVE  DayOnceInv'
  <1> USE DEF LedgerInv, TypeOK
  <1>1. /\ \A r \in Series \ {s} : hourly'[r] = hourly[r] /\ lost'[r] = lost[r]
        /\ \/ hourly'[s] = Append(hourly[s], acc[s]) /\ lost'[s] = lost[s]
           \/ hourly'[s] = hourly[s] /\ lost'[s] = lost[s] \cup acc[s].pts
    BY AppendParts
  <1>2. \A r \in Series : lost[r] \subseteq lost'[r]
    BY <1>1
  <1>3. DailyOnce'
    <2> SUFFICES ASSUME NEW r \in Series, NEW i \in DOMAIN daily[r], NEW j \in DOMAIN daily[r],
                        i # j, daily[r][i].start = daily[r][j].start
                 PROVE  \E p \in lost'[r] : HourOf(p.ts) = LastHour(daily[r][i].start)
      BY DEF DailyOnce
    <2>1. \E p \in lost[r] : HourOf(p.ts) = LastHour(daily[r][i].start)
      BY DEF DayOnceInv, DailyOnce
    <2> QED BY <1>2, <2>1
  <1>4. ASSUME NEW i \in DOMAIN daily[s], daily[s][i].start = DayOf(acc[s].start),
               acc[s].start = LastHour(daily[s][i].start)
        PROVE  \/ \E p \in lost'[s] : HourOf(p.ts) = LastHour(daily[s][i].start)
               \/ Cardinality(HoursOfDay(hourly'[s], daily[s][i].start)) > HoursPerDay
    <2> DEFINE day == daily[s][i].start
    <2>1. acc[s] \in Record /\ acc[s].start \in Nat
      BY DEF Record
    <2>2. CASE hourly'[s] = hourly[s] /\ lost'[s] = lost[s] \cup acc[s].pts
      <3>1. PICK p \in acc[s].pts : TRUE
        OBVIOUS
      <3>2. p \in lost'[s] /\ HourOf(p.ts) = acc[s].start
        BY <2>2, <3>1 DEF PlacesInv, Own
      <3> QED BY <1>4, <3>2
    <2>3. CASE hourly'[s] = Append(hourly[s], acc[s])
      <3> DEFINE at == HoursOfDay(hourly[s], day)
                 n  == Len(hourly[s]) + 1
      <3>1. /\ DOMAIN hourly'[s] = DOMAIN hourly[s] \cup {n} /\ n \notin DOMAIN hourly[s]
            /\ hourly'[s][n] = acc[s]
            /\ \A k \in DOMAIN hourly[s] : hourly'[s][k] = hourly[s][k]
        BY <2>1, <2>3, AppendRecord
      <3>2. acc[s].start >= day /\ acc[s].start < day + DaySecs
        BY <1>4, <2>1, InDay
      <3>3. IsFiniteSet(at) /\ Cardinality(at) >= HoursPerDay
        <4>1. Aggregated(daily[s][i], hourly[s])
          BY <1>4 DEF DailyInv
        <4> QED BY <4>1, DayFull
      <3> HIDE DEF n
      <3>4. HoursOfDay(hourly'[s], day) = at \cup {n} /\ n \notin at
        BY <3>1, <3>2 DEF HoursOfDay
      <3> HIDE DEF at, day
      <3>5. Cardinality(at \cup {n}) = Cardinality(at) + 1 /\ Cardinality(at) \in Nat /\ HoursPerDay \in Nat
        BY <3>3, <3>4, FS_AddElement, FS_CardinalityType, RollupAssumption
      <3>6. Cardinality(HoursOfDay(hourly'[s], day)) > HoursPerDay
        BY <3>3, <3>4, <3>5
      <3> QED BY <3>6 DEF day
    <2> QED BY <1>1, <2>2, <2>3
  <1>5. ASSUME NEW r \in closing', NEW i \in DOMAIN daily'[r],
               daily'[r][i].start = DayOf(acc'[r].start), acc'[r].start = LastHour(daily'[r][i].start)
        PROVE  \/ \E p \in lost'[r] : HourOf(p.ts) = LastHour(daily'[r][i].start)
               \/ Cardinality(HoursOfDay(hourly'[r], daily'[r][i].start)) > HoursPerDay
    <2>1. r = s /\ daily' = daily /\ acc' = acc
      OBVIOUS
    <2>2. /\ i \in DOMAIN daily[s] /\ daily[s][i].start = DayOf(acc[s].start)
          /\ acc[s].start = LastHour(daily[s][i].start)
      BY ONLY <1>5, <2>1
    <2>3. \/ \E p \in lost'[s] : HourOf(p.ts) = LastHour(daily[s][i].start)
          \/ Cardinality(HoursOfDay(hourly'[s], daily[s][i].start)) > HoursPerDay
      BY <1>4, <2>2
    <2> QED BY ONLY <2>1, <2>3
  <1> QED BY <1>3, <1>5 DEF DayOnceInv, LastHourLost

\* maybeFinalizeDailyRecord does not write a day again that has a record too many.
LEMMA FinalizeDayInv ==
  ASSUME LedgerInv, DayOnceInv, NEW s \in Series, MaybeFinalizeDaily(s),
         closing = {s}, closing' = {}, UNCHANGED <<hourly, lost>>
  PROVE  DayOnceInv'
  <1> USE DEF LedgerInv, TypeOK
  <1> DEFINE day == DayOf(acc[s].start)
             at  == HoursOfDay(hourly[s], day)
             rec == DailyRecord(day, hourly[s], at)
  <1>1. rec.start = day
    BY DEF DailyRecord
  <1>2. acc[s].start \in Nat /\ day \in Nat
    BY HourOfType DEF Record
  <1>3. rec \in Record
    <2>1. hourly[s] \in Seq(Record) /\ at \subseteq DOMAIN hourly[s]
      BY DEF HoursOfDay
    <2>2. \A i \in DOMAIN hourly[s] : hourly[s][i] \in Record
      BY <2>1, LenProperties, ElementOfSeq
    <2> QED BY <1>2, <2>1, <2>2 DEF DailyRecord, Record, Rows
  <1>4. \/ daily' = daily
        \/ /\ daily' = [daily EXCEPT ![s] = Append(@, rec)]
           /\ acc[s].start = LastHour(day) /\ Cardinality(at) = HoursPerDay
    <2> HIDE DEF rec
    <2> QED BY DEF MaybeFinalizeDaily, DayComplete, rec
  <1>5. ASSUME NEW r \in Series, NEW i \in DOMAIN daily'[r], NEW j \in DOMAIN daily'[r],
               i # j, daily'[r][i].start = daily'[r][j].start
        PROVE  \E p \in lost[r] : HourOf(p.ts) = LastHour(daily'[r][i].start)
    <2>1. CASE daily'[r] = daily[r]
      BY <1>5, <2>1 DEF DayOnceInv, DailyOnce
    <2>2. CASE daily'[r] # daily[r]
      <3> DEFINE n == Len(daily[s]) + 1
      <3>1. r = s /\ acc[s].start = LastHour(day) /\ Cardinality(at) = HoursPerDay
        BY <1>4, <2>2
      <3>2. daily'[s] = Append(daily[s], rec)
        BY <1>4, <2>2
      <3>3. /\ DOMAIN daily'[s] = DOMAIN daily[s] \cup {n} /\ n \notin DOMAIN daily[s]
            /\ daily'[s][n] = rec
            /\ \A k \in DOMAIN daily[s] : daily'[s][k] = daily[s][k]
        <4>1. daily[s] \in Seq(Record)
          OBVIOUS
        <4> HIDE DEF rec
        <4> QED BY <1>3, <3>2, <4>1, AppendRecord, SMTT(30)
      <3> HIDE DEF rec, n
      <3>4. CASE i \in DOMAIN daily[s] /\ j \in DOMAIN daily[s]
        <4>1. daily[s][i].start = daily[s][j].start /\ daily'[r][i].start = daily[s][i].start
          BY <1>5, <3>1, <3>3, <3>4
        <4> QED BY <1>5, <3>1, <3>4, <4>1, ZenonT(40) DEF DayOnceInv, DailyOnce
      <3>5. CASE ~(i \in DOMAIN daily[s] /\ j \in DOMAIN daily[s])
        <4>1. PICK k \in DOMAIN daily[s] : daily[s][k].start = day /\ daily'[r][i].start = day
          BY <1>1, <1>5, <3>1, <3>3, <3>5
        <4>2. ~(Cardinality(at) > HoursPerDay)
          BY <3>1, RollupAssumption
        <4>3. LastHourLost(s, day)
          BY <3>1, <4>1, <4>2 DEF DayOnceInv
        <4> QED BY <3>1, <4>1, <4>3 DEF LastHourLost
      <3> QED BY <3>4, <3>5
    <2> QED BY <2>1, <2>2
  <1>6. DailyOnce'
    BY <1>5 DEF DailyOnce, LastHour, HourOf
  <1> QED BY <1>6 DEF DayOnceInv

\* Steps that write no record.
LEMMA QuietDayInv ==
  ASSUME LedgerInv, DayOnceInv, UNCHANGED <<hourly, daily>>,
         \A s \in Series : lost[s] \subseteq lost'[s],
         closing' = {} \/ (closing' = closing /\ acc' = acc)
  PROVE  DayOnceInv'
  <1> USE DEF LedgerInv, TypeOK
  <1>1. ASSUME NEW s \in Series, NEW day, LastHourLost(s, day)
        PROVE  LastHourLost(s, day)'
    BY <1>1 DEF LastHourLost, LastHour, HourOf
  <1>2. DailyOnce'
    <2>1. \A s \in Series : \A i, j \in DOMAIN daily[s] :
            i # j /\ daily[s][i].start = daily[s][j].start => LastHourLost(s, daily[s][i].start)'
      BY <1>1 DEF DayOnceInv, DailyOnce, LastHourLost
    <2> QED BY <2>1 DEF DailyOnce, LastHourLost
  <1>3. CASE closing' = {}
    BY <1>2, <1>3 DEF DayOnceInv
  <1>4. CASE closing' = closing /\ acc' = acc
    <2>1. closing \subseteq Series
      OBVIOUS
    <2>2. ASSUME NEW s \in closing, NEW i \in DOMAIN daily[s],
                 daily[s][i].start = DayOf(acc[s].start), acc[s].start = LastHour(daily[s][i].start)
          PROVE  \/ LastHourLost(s, daily[s][i].start)'
                 \/ Cardinality(HoursOfDay(hourly[s], daily[s][i].start)) > HoursPerDay
      BY <1>1, <2>1, <2>2 DEF DayOnceInv
    <2>3. \A s \in closing' : \A i \in DOMAIN daily'[s] :
            daily'[s][i].start = DayOf(acc'[s].start) /\ acc'[s].start = LastHour(daily'[s][i].start) =>
              \/ \E p \in lost'[s] : HourOf(p.ts) = LastHour(daily'[s][i].start)
              \/ Cardinality(HoursOfDay(hourly'[s], daily'[s][i].start)) > HoursPerDay
      BY <1>4, <2>2 DEF LastHourLost
    <2> QED BY <1>2, <2>3 DEF DayOnceInv, LastHourLost
  <1> QED BY <1>3, <1>4

\* Every step keeps it.
LEMMA NextDayOnceInv ==
  ASSUME LedgerInv, FlushInv, DailyInv, DayOnceInv, [Next]_vars
  PROVE  DayOnceInv'
  <1> USE DEF LedgerInv, TypeOK
  <1>1. ASSUME NEW w \in Writers, CloseHour(w)
        PROVE  DayOnceInv'
    <2>1. PICK c \in call[w] : /\ acc[c.series].pts # {} /\ AppendHourly(c.series)
                               /\ closing' = {c.series} /\ UNCHANGED <<acc, daily>>
      BY <1>1 DEF CloseHour
    <2>2. c.series \in Series
      BY <2>1 DEF Call
    <2> QED BY <2>1, <2>2, CloseDayInv
  <1>2. ASSUME NEW s \in Series, FlushHour(s)
        PROVE  DayOnceInv'
    BY <1>2, CloseDayInv DEF FlushHour, FlushInv
  <1>3. ASSUME NEW w \in Writers, OpenHour(w)
        PROVE  DayOnceInv'
    <2>1. PICK c \in call[w] : /\ w \in closer /\ MaybeFinalizeDaily(c.series) /\ closing' = {}
                               /\ UNCHANGED <<hourly, lost>>
      BY <1>3 DEF OpenHour, histVars
    <2>2. c.series \in Series /\ closing = {c.series}
      BY <2>1 DEF Call, HolderInv, CallInv
    <2> QED BY <2>1, <2>2, FinalizeDayInv
  <1>4. ASSUME NEW s \in Series, FlushReset(s)
        PROVE  DayOnceInv'
    <2>1. closing = {s}
      BY <1>4 DEF FlushReset
    <2> QED BY <1>4, <2>1, FinalizeDayInv DEF FlushReset, histVars
  <1>5. ASSUME UNCHANGED <<hourly, daily>>, \A s \in Series : lost[s] \subseteq lost'[s],
               closing' = {} \/ (closing' = closing /\ acc' = acc)
        PROVE  DayOnceInv'
    BY <1>5, QuietDayInv
  <1>6. ASSUME NEW w \in Writers, AddToBucket(w)
        PROVE  DayOnceInv'
    BY <1>5, <1>6 DEF AddToBucket, EMuFree, fileVars, muVars, histVars
  <1>7. CASE Crash \/ Exit
    BY <1>5, <1>7 DEF Crash, Exit, NewEngine, fileVars
  <1>8. ASSUME NEW w \in Writers, NEW s \in Series, NEW ts \in Timestamps,
               StorePoint(w, s, ts) \/ StorePointFails(w, s, ts)
        PROVE  DayOnceInv'
    BY <1>5, <1>8 DEF StorePoint, StorePointFails, muVars
  <1>9. CASE BeginFlush \/ EndFlush \/ UNCHANGED vars
    BY <1>5, <1>9 DEF BeginFlush, EndFlush, fileVars, muVars, histVars, vars
  <1> QED BY <1>1, <1>2, <1>3, <1>4, <1>6, <1>7, <1>8, <1>9 DEF Next

\* engine.go, maybeFinalizeDailyRecord: a day gets a second daily record only when an
\* append of its last hour failed.
THEOREM DaysOnce == Spec => []DailyOnce
  <1>1. Init => FlushInv /\ DailyInv /\ DayOnceInv
    BY EmptySeq DEF Init, FlushInv, FlushFinalizes, DailyInv, DayOnceInv, DailyOnce
  <1>2. DayOnceInv => DailyOnce
    BY DEF DayOnceInv
  <1> QED BY InitLedgerInv, NextLedgerInv, NextFlushInv, NextDailyInv, NextDayOnceInv, <1>1, <1>2, PTL DEF Spec
-----------------------------------------------------------------------------
(* The ledger *)

Waiting == [s \in Series |-> Carried(s)]
OpenBucket == [s \in Series |-> Open(s)]
Aggregates(s) == {hourly[s][i].pts : i \in DOMAIN hourly[s]}
Booked  == [s \in Series |-> Aggregates(s)]
Dropped == [s \in Series |-> lost[s] \cup refused[s]]

\* An engine that starts is a ledger that starts.
LEMMA InitLedger == Init => Ledger!Init
  BY DEF Init, Ledger!Init, Carried, Open, newAccumulator

\* What the ledger knows is what the store serves.
LEMMA KnownStored ==
  ASSUME LedgerInv, NEW s \in Series
  PROVE  Ledger!Known(s) = stored[s]
  <1>1. UNION Aggregates(s) = Recorded(s)
    BY DEF Aggregates, Recorded, Rows
  <1>2. Ledger!Known(s) = Carried(s) \cup Open(s) \cup (UNION Aggregates(s))
                            \cup (lost[s] \cup refused[s])
    BY DEF Ledger!Known, Aggregates
  <1>3. stored[s] = Recorded(s) \cup Missing(s)
    BY DEF LedgerInv, PlacesInv
  <1>4. stored[s] = Carried(s) \cup Open(s) \cup Recorded(s) \cup (lost[s] \cup refused[s])
    BY <1>3 DEF Missing
  <1> QED BY <1>1, <1>2, <1>4

\* A point that is new is a step of the ledger, whether accepted or refused.
LEMMA NewPoint ==
  ASSUME NEW s \in Series, NEW p \in Point, p \notin Ledger!Known(s),
         Ledger!Accept(s, p) \/ Ledger!Refuse(s, p)
  PROVE  Ledger!Next
  BY DEF Ledger!Next

LedgerVars == <<Waiting, OpenBucket, Booked, Dropped>>

\* Points are stored as they are accepted.
LEMMA StorePointRefines ==
  ASSUME LedgerInv, NEW w \in Writers, NEW s \in Series, NEW ts \in Timestamps,
         StorePoint(w, s, ts)
  PROVE  Ledger!Next
  <1> USE DEF LedgerInv, TypeOK
  <1> DEFINE p == [ts |-> ts, val |-> serial + 1]
  <1>1. /\ call[w] = {} /\ call' = [call EXCEPT ![w] = {[series |-> s, pt |-> p]}]
        /\ UNCHANGED <<hourly, acc, closing, lost, refused>>
    BY DEF StorePoint, muVars
  <1>2. p \in Point /\ p \notin stored[s]
    BY RollupAssumption DEF StorePoint, PlacesInv, Point
  <1> HIDE DEF p
  <1>3. \A r \in Series : Carried(r)' = IF r = s THEN Carried(r) \cup {p} ELSE Carried(r)
    BY <1>1, CarryPoint
  <1>4. Waiting' = [Waiting EXCEPT ![s] = @ \cup {p}]
    BY <1>3 DEF Waiting
  <1>5. UNCHANGED <<OpenBucket, Booked, Dropped>>
    BY <1>1 DEF OpenBucket, Open, Booked, Aggregates, Dropped
  <1>6. Ledger!Accept(s, p)
    BY <1>4, <1>5 DEF Ledger!Accept, Waiting, OpenBucket, Booked, Aggregates, Dropped
  <1> QED BY <1>2, <1>6, KnownStored, NewPoint

\* A refused point that is stored all the same is in no bucket.
LEMMA StorePointFailsRefines ==
  ASSUME LedgerInv, NEW w \in Writers, NEW s \in Series, NEW ts \in Timestamps,
         StorePointFails(w, s, ts)
  PROVE  Ledger!Next \/ UNCHANGED LedgerVars
  <1> USE DEF LedgerInv, TypeOK
  <1>. PICK p : p = [ts |-> ts, val |-> serial + 1]
    OBVIOUS
  <1>1. /\ UNCHANGED <<hourly, acc, call, closing, lost>>
        /\ refused' = [refused EXCEPT ![s] = @ \cup {p}] \/ refused' = refused
    BY DEF StorePointFails, muVars
  <1>2. p \in Point /\ p \notin stored[s]
    BY RollupAssumption DEF StorePointFails, PlacesInv, Point
  <1>3. UNCHANGED <<Waiting, OpenBucket, Booked>>
    BY <1>1 DEF Waiting, Carried, OpenBucket, Open, Booked, Aggregates
  <1>4. CASE refused' = [refused EXCEPT ![s] = @ \cup {p}]
    <2>1. Dropped' = [Dropped EXCEPT ![s] = @ \cup {p}]
      BY <1>1, <1>4 DEF Dropped
    <2>2. Ledger!Refuse(s, p)
      BY <1>3, <2>1 DEF Ledger!Refuse, Waiting, OpenBucket, Booked, Aggregates, Dropped
    <2>3. p \notin Ledger!Known(s)
      BY <1>2, KnownStored
    <2> QED BY <1>2, <2>2, <2>3, NewPoint
  <1>5. CASE refused' = refused
    <2>1. Dropped' = Dropped
      BY <1>1, <1>5 DEF Dropped
    <2> QED BY <1>3, <2>1 DEF LedgerVars
  <1> QED BY <1>1, <1>4, <1>5

\* The point goes from its writer to the bucket of its hour, whether the bucket
\* was open or is opened with it.
LEMMA AddRefines ==
  ASSUME LedgerInv, LedgerInv', NEW w \in Writers, AddToBucket(w) \/ OpenHour(w)
  PROVE  Ledger!Next
  <1> USE DEF LedgerInv, TypeOK
  <1>1. PICK c \in call[w] :
          /\ call' = [call EXCEPT ![w] = {}] /\ serial' = serial
          /\ UNCHANGED <<hourly, lost, refused>>
          /\ \/ /\ closing = {} /\ closing' = {}
                /\ acc[c.series].start = HourOf(c.pt.ts)
                /\ acc' = [acc EXCEPT ![c.series].pts = @ \cup {c.pt}]
             \/ /\ closing = {} /\ closing' = {}
                /\ acc[c.series].pts = {}
                /\ acc' = [acc EXCEPT ![c.series] = FreshWith(c.pt)]
             \/ /\ w \in closer /\ closing' = {}
                /\ acc' = [acc EXCEPT ![c.series] = FreshWith(c.pt)]
    BY DEF AddToBucket, OpenHour, EMuFree, fileVars, muVars, histVars
  <1> DEFINE s == c.series
             p == c.pt
  <1>2. /\ s \in Series /\ p \in Point /\ p \in Carried(s)
        /\ Carried(s)' = Carried(s) \ {p}
        /\ \A r \in Series \ {s} : Carried(r)' = Carried(r)
    BY <1>1, TakePoint
  <1>3. /\ \A r \in Series : Open(r)' = IF r = s THEN Open(r) \cup {p} ELSE Open(r)
        /\ \A q \in Open(s) : HourOf(q.ts) = HourOf(p.ts)
    <2>1. /\ acc[s] \in Record /\ Own(acc[s].start, acc[s].pts)
          /\ \A r \in Series : Open(r)' = acc'[r].pts
          /\ \A r \in Series \ {s} : acc'[r] = acc[r]
      BY <1>1, <1>2 DEF Open, PlacesInv
    <2>2. CASE closing = {} /\ acc[s].start = HourOf(p.ts)
               /\ acc' = [acc EXCEPT ![s].pts = @ \cup {p}]
      <3>1. acc'[s].pts = acc[s].pts \cup {p}
        BY <1>2, <2>1, <2>2 DEF Record
      <3>2. \A r \in Series : Open(r) = acc[r].pts
        BY <2>2 DEF Open
      <3>3. \A r \in Series : Open(r)' = IF r = s THEN Open(r) \cup {p} ELSE Open(r)
        BY <2>1, <3>1, <3>2, ZenonT(40)
      <3>4. \A q \in Open(s) : HourOf(q.ts) = HourOf(p.ts)
        BY <1>2, <2>1, <2>2, <3>2 DEF Own
      <3> QED BY <3>3, <3>4
    <2>3. CASE closing = {} /\ acc[s].pts = {} /\ acc' = [acc EXCEPT ![s] = FreshWith(p)]
      <3>1. acc'[s].pts = {p}
        BY <1>2, <2>3 DEF FreshWith
      <3>2. \A r \in Series : Open(r) = acc[r].pts
        BY <2>3 DEF Open
      <3> HIDE DEF LedgerInv, TypeOK
      <3>3. \A r \in Series : Open(r)' = IF r = s THEN Open(r) \cup {p} ELSE Open(r)
        <4>1. Open(s)' = Open(s) \cup {p}
          BY <1>2, <2>1, <2>3, <3>1, <3>2
        <4>2. \A r \in Series \ {s} : Open(r)' = Open(r)
          BY <2>1, <3>2
        <4> QED BY <4>1, <4>2
      <3>4. Open(s) = {}
        BY <1>2, <2>3, <3>2
      <3> QED BY <3>3, <3>4
    <2>4. CASE w \in closer /\ acc' = [acc EXCEPT ![s] = FreshWith(p)]
      <3>1. closing = {s}
        BY <2>4 DEF HolderInv, CallInv
      <3>2. acc'[s].pts = {p}
        BY <1>2, <2>4 DEF FreshWith
      <3> QED BY <2>1, <3>1, <3>2 DEF Open
    <2> QED BY <1>1, <2>2, <2>3, <2>4
  <1> HIDE DEF s, p
  <1>4. Waiting' = [Waiting EXCEPT ![s] = @ \ {p}]
    BY <1>2 DEF Waiting
  <1>5. OpenBucket' = [OpenBucket EXCEPT ![s] = @ \cup {p}]
    BY <1>2, <1>3 DEF OpenBucket
  <1>6. UNCHANGED <<Booked, Dropped>>
    BY <1>1 DEF Booked, Aggregates, Dropped
  <1>7. Open(s) \subseteq Point
    BY <1>2 DEF Open, Record
  <1>8. Ledger!Add(s, p)
    BY <1>2, <1>3, <1>4, <1>5, <1>6, <1>7
       DEF Ledger!Add, Waiting, OpenBucket, Booked, Aggregates, Dropped
  <1> QED BY <1>2, <1>8 DEF Ledger!Next

\* The append of an hourly record books the open bucket, a failed one drops it.
LEMMA CloseRefines ==
  ASSUME TypeOK, NEW s \in Series, AppendHourly(s), closing = {}, closing' = {s},
         acc[s].pts # {}, UNCHANGED <<acc, call, refused>>
  PROVE  Ledger!Next
  <1> USE DEF TypeOK
  <1>1. /\ \A r \in Series : Open(r)' = IF r = s THEN {} ELSE Open(r)
        /\ Open(s) = acc[s].pts /\ acc[s] \in Record /\ hourly[s] \in Seq(Record)
    BY DEF Open
  <1>2. OpenBucket' = [OpenBucket EXCEPT ![s] = {}]
    BY <1>1 DEF OpenBucket
  <1>3. Waiting' = Waiting
    BY DEF Waiting, Carried
  <1>4. CASE hourly' = [hourly EXCEPT ![s] = Append(@, acc[s])] /\ lost' = lost
    <2>1. Aggregates(s)' = Aggregates(s) \cup {Open(s)}
      <3> DEFINE n == Len(hourly[s]) + 1
      <3>1. /\ DOMAIN hourly'[s] = DOMAIN hourly[s] \cup {n}
            /\ hourly'[s][n] = acc[s]
            /\ \A i \in DOMAIN hourly[s] : hourly'[s][i] = hourly[s][i]
            /\ n \notin DOMAIN hourly[s]
        BY <1>1, <1>4, AppendRecord
      <3> HIDE DEF n, TypeOK
      <3> QED BY <1>1, <3>1 DEF Aggregates
    <2>2. \A r \in Series \ {s} : Aggregates(r)' = Aggregates(r)
      BY <1>4 DEF Aggregates
    <2>3. Booked' = [Booked EXCEPT ![s] = @ \cup {OpenBucket[s]}]
      BY <2>1, <2>2 DEF Booked, OpenBucket
    <2>4. Dropped' = Dropped
      BY <1>4 DEF Dropped
    <2>5. Ledger!Book(s)
      BY <1>1, <1>2, <1>3, <2>3, <2>4
         DEF Ledger!Book, Waiting, OpenBucket, Booked, Aggregates, Dropped
    <2> QED BY <2>5 DEF Ledger!Next
  <1>5. CASE hourly' = hourly /\ lost' = [lost EXCEPT ![s] = @ \cup acc[s].pts]
    <2>1. Booked' = Booked
      BY <1>5 DEF Booked, Aggregates
    <2>2. Dropped' = [Dropped EXCEPT ![s] = @ \cup OpenBucket[s]]
      BY <1>1, <1>5 DEF Dropped, OpenBucket
    <2>3. Ledger!Drop(s)
      BY <1>2, <1>3, <2>1, <2>2
         DEF Ledger!Drop, Waiting, OpenBucket, Booked, Aggregates, Dropped
    <2> QED BY <2>3 DEF Ledger!Next
  <1> QED BY <1>4, <1>5 DEF AppendHourly

\* The bucket is reset after it was booked: the ledger does not see it.
LEMMA FlushResetRefines ==
  ASSUME LedgerInv, NEW s \in Series, FlushReset(s)
  PROVE  UNCHANGED LedgerVars
  <1> USE DEF LedgerInv, TypeOK
  <1>1. /\ closing = {s} /\ closing' = {} /\ acc' = [acc EXCEPT ![s].pts = {}]
        /\ UNCHANGED <<hourly, call, lost, refused>>
    BY DEF FlushReset, histVars
  <1>2. acc'[s].pts = {} /\ \A r \in Series \ {s} : acc'[r] = acc[r]
    BY <1>1 DEF Record
  <1>3. \A r \in Series : Open(r)' = Open(r)
    BY <1>1, <1>2 DEF Open
  <1>4. UNCHANGED <<Waiting, Booked, Dropped>>
    BY <1>1 DEF Waiting, Carried, Booked, Aggregates, Dropped
  <1> QED BY <1>3, <1>4 DEF LedgerVars, OpenBucket

\* The end of a process drops what was in memory only.
LEMMA NewEngineRefines ==
  ASSUME TypeOK, NewEngine
  PROVE  Ledger!Restart
  <1>1. \A s \in Series : Carried(s)' = {} /\ Open(s)' = {}
    BY DEF NewEngine, Carried, Open, newAccumulator
  <1>2. Waiting' = [s \in Series |-> {}] /\ OpenBucket' = [s \in Series |-> {}]
    BY <1>1 DEF Waiting, OpenBucket
  <1>3. Dropped' = [s \in Series |-> Dropped[s] \cup Waiting[s] \cup OpenBucket[s]]
    BY DEF NewEngine, Dropped, Waiting, OpenBucket
  <1>4. Booked' = Booked
    BY DEF NewEngine, fileVars, Booked, Aggregates
  <1> QED BY <1>2, <1>3, <1>4
          DEF Ledger!Restart, Waiting, OpenBucket, Booked, Aggregates, Dropped

\* Every step of the engine is a step of the ledger, or changes nothing of it.
LEMMA NextRefines ==
  ASSUME LedgerInv, LedgerInv', FlushInv, [Next]_vars
  PROVE  Ledger!Next \/ UNCHANGED LedgerVars
  <1>1. ASSUME NEW w \in Writers, NEW s \in Series, NEW ts \in Timestamps,
               StorePoint(w, s, ts) \/ StorePointFails(w, s, ts)
        PROVE  Ledger!Next \/ UNCHANGED LedgerVars
    BY <1>1, StorePointRefines, StorePointFailsRefines
  <1>2. ASSUME NEW w \in Writers, AddToBucket(w) \/ OpenHour(w)
        PROVE  Ledger!Next
    BY <1>2, AddRefines
  <1>3. ASSUME NEW w \in Writers, CloseHour(w)
        PROVE  Ledger!Next
    <2>1. PICK c \in call[w] : /\ closing = {} /\ acc[c.series].pts # {}
                               /\ AppendHourly(c.series) /\ closing' = {c.series}
                               /\ UNCHANGED <<acc, call, refused>>
      BY <1>3 DEF CloseHour, EMuFree
    <2>2. c.series \in Series
      BY DEF LedgerInv, TypeOK, Call
    <2> QED BY <2>1, <2>2, CloseRefines DEF LedgerInv
  <1>4. ASSUME NEW s \in Series, FlushHour(s)
        PROVE  Ledger!Next
    <2>1. /\ closing = {} /\ acc[s].pts # {} /\ AppendHourly(s) /\ closing' = {s}
          /\ UNCHANGED <<acc, call, refused>>
      BY <1>4 DEF FlushHour, FlushInv
    <2> QED BY <2>1, CloseRefines DEF LedgerInv
  <1>5. ASSUME NEW s \in Series, FlushReset(s)
        PROVE  UNCHANGED LedgerVars
    BY <1>5, FlushResetRefines
  <1>6. CASE BeginFlush \/ EndFlush \/ UNCHANGED vars
    <2>1. UNCHANGED <<hourly, acc, call, closing, lost, refused>>
      BY <1>6 DEF BeginFlush, EndFlush, fileVars, muVars, histVars, vars
    <2> QED BY <2>1 DEF LedgerVars, Waiting, Carried, OpenBucket, Open, Booked, Aggregates, Dropped
  <1>7. CASE Crash \/ Exit
    BY <1>7, NewEngineRefines DEF Crash, Exit, LedgerInv, Ledger!Next
  <1> QED BY <1>1, <1>2, <1>3, <1>4, <1>5, <1>6, <1>7 DEF Next

\* engine.go: calls, accumulators, the lock and the hourly files, with failing
\* appends, Flush and crashes, book every point at most once and with points of
\* its own hour, and what they do not book is dropped for good.
THEOREM LedgerRefinement == Spec => ImplementsHourLedger
  <1>1. Init => FlushInv
    BY DEF Init, FlushInv, FlushFinalizes
  <1>2. LedgerInv /\ LedgerInv' /\ FlushInv /\ [Next]_vars =>
          [Ledger!Next]_<<Waiting, OpenBucket, Booked, Dropped>>
    BY NextRefines DEF LedgerVars
  <1>3. Init => Ledger!Init
    BY InitLedger
  <1> QED BY InitLedgerInv, NextLedgerInv, NextFlushInv, <1>1, <1>2, <1>3, PTL
          DEF Spec, ImplementsHourLedger, Ledger!Spec, Ledger!vars, Waiting, OpenBucket,
              Booked, Aggregates, Dropped
=============================================================================
