-------------------------- MODULE StoreQueryProofs --------------------------
(***************************************************************************)
(* What readers get: index ranges cover their chunks, no point is stored   *)
(* or returned twice within a process, what a query misses was published   *)
(* behind its back, and a count never exceeds what is stored; for any      *)
(* number of series, points and chunks.                                    *)
(***************************************************************************)
EXTENDS StoreProofs, StoreQueryInv

-----------------------------------------------------------------------------
(* Time order *)

\* A point no earlier than the others keeps a sequence in time order.
LEMMA AppendInOrder ==
  ASSUME NEW pts \in Seq(Record), NEW p \in Record, InTimeOrder(pts),
         \A q \in Range(pts) : q.ts <= p.ts
  PROVE  InTimeOrder(Append(pts, p))
  <1> DEFINE n == Len(pts)
             longer == Append(pts, p)
  <1>1. /\ n \in Nat /\ DOMAIN pts = 1..n /\ DOMAIN longer = 1..(n + 1)
        /\ \A i \in 1..n : longer[i] = pts[i] /\ pts[i] \in Range(pts)
        /\ longer[n + 1] = p
    BY DEF Range
  <1>2. ASSUME NEW i \in 1..(n + 1), NEW j \in 1..(n + 1), i <= j
        PROVE  longer[i].ts <= longer[j].ts
    <2>1. CASE j \in 1..n
      <3>1. i \in 1..n
        BY <1>1, <1>2, <2>1
      <3> HIDE DEF n, longer
      <3> QED BY <1>1, <1>2, <2>1, <3>1 DEF InTimeOrder
    <2>2. CASE j = n + 1 /\ i \in 1..n
      <3> HIDE DEF n, longer
      <3> QED BY <1>1, <2>2
    <2>3. CASE j = n + 1 /\ i = n + 1
      <3>1. p.ts <= p.ts
        BY DEF Record
      <3> HIDE DEF n, longer
      <3> QED BY <1>1, <2>3, <3>1
    <2> QED BY <1>1, <2>1, <2>2, <2>3
  <1> QED BY <1>1, <1>2 DEF InTimeOrder

\* What OrderInv says of one series.
SeriesInOrder(s) ==
  /\ InTimeOrder(RecoverWAL(wal[s])) /\ InTimeOrder(buffer[s])
  /\ \A id \in ChunkIDs : InTimeOrder(chunks[s][id])
  /\ phase[s] = "free" => inflight[s] = {}
  /\ \A p \in inflight[s], q \in submitted[s] : q.ts <= p.ts

\* Steps that write no point keep a series in order.
LEMMA SeriesInOrderFrame ==
  ASSUME NEW t \in Series, SeriesInOrder(t),
         wal'[t] = wal[t] \/ wal'[t] = <<>>,
         buffer'[t] \in {buffer[t], RecoverWAL(wal[t]), <<>>},
         \A id \in ChunkIDs : chunks'[t][id] \in {chunks[t][id], buffer[t]},
         submitted'[t] = submitted[t],
         \/ inflight'[t] = {}
         \/ inflight'[t] = inflight[t] /\ (phase'[t] = "free" => phase[t] = "free")
  PROVE  SeriesInOrder(t)'
  <1>1. Len(<<>>) = 0 /\ 0 \div 2 = 0
    OBVIOUS
  <1>2. InTimeOrder(RecoverWAL(<<>>)) /\ InTimeOrder(<<>>)
    BY <1>1 DEF RecoverWAL, InTimeOrder
  <1>3. InTimeOrder(RecoverWAL(wal[t])')
    BY <1>2 DEF SeriesInOrder
  <1>4. InTimeOrder(buffer'[t])
    BY <1>2 DEF SeriesInOrder
  <1>5. \A id \in ChunkIDs : InTimeOrder(chunks'[t][id])
    BY DEF SeriesInOrder
  <1> QED BY <1>3, <1>4, <1>5 DEF SeriesInOrder

\* Every step keeps OrderInv.
LEMMA NextOrderInv ==
  ASSUME "wal1" \notin Faults, InOrder, TypeInv, OriginInv, OrderInv, [Next]_vars
  PROVE  OrderInv'
  <1> USE DEF TypeInv, TypeOK
  <1>a. \A t \in Series : SeriesInOrder(t) /\ SeriesOriginal(t)
    BY DEF OrderInv, SeriesInOrder, OriginInv, SeriesOriginal
  <1>b. SUFFICES \A t \in Series : SeriesInOrder(t)'
    BY DEF OrderInv, SeriesInOrder
  <1>1. CASE UNCHANGED vars
    BY <1>1, <1>a, SeriesInOrderFrame DEF vars, diskVars, memVars, histVars
  <1>2. CASE Crash
    BY <1>2, <1>a, SeriesInOrderFrame DEF Crash, diskVars
  <1>3. ASSUME NEW s \in Series, NEW p \in Point,
               \/ AppendWAL(s, p)
               \/ \E n \in 0..2 : WalFault(n) \in Faults /\ AppendWALFails(s, p, n)
        PROVE  \A t \in Series : SeriesInOrder(t)'
    <2>1. /\ UNCHANGED <<buffer, chunks>> /\ submitted' = [submitted EXCEPT ![s] = @ \cup {p}]
          /\ phase[s] = "free" /\ \A q \in submitted[s] : q.ts <= p.ts
      BY <1>3 DEF AppendWAL, AppendWALFails, Submit, CanStart, memVars
    <2>2. SeriesInOrder(s)'
      <3>1. p \in Record /\ p.ts <= p.ts
        BY PointType
      <3>2. InTimeOrder(RecoverWAL(wal'[s]))
        <4>1. RecoverWAL(wal'[s]) \in {RecoverWAL(wal[s]), Append(RecoverWAL(wal[s]), p)}
          BY <1>3, <1>a, AppendedWords DEF SeriesOriginal
        <4>2. RecoverWAL(wal[s]) \in Seq(Record)
          BY RecoverWALType
        <4>3. \A q \in Range(RecoverWAL(wal[s])) : q.ts <= p.ts
          BY <1>a, <2>1 DEF SeriesOriginal, WalPoints
        <4>4. InTimeOrder(Append(RecoverWAL(wal[s]), p))
          BY <1>a, <3>1, <4>2, <4>3, AppendInOrder DEF SeriesInOrder
        <4> QED BY <1>a, <4>1, <4>4 DEF SeriesInOrder
      <3>3. \/ inflight'[s] = {} /\ phase'[s] = "free"
            \/ inflight'[s] = {p} /\ phase'[s] = "logged"
        BY <1>3, <1>a, <2>1 DEF SeriesInOrder, AppendWAL, AppendWALFails, memVars
      <3>4. \A q \in submitted'[s] : q.ts <= p.ts
        BY <2>1, <3>1
      <3>5. \A id \in ChunkIDs : InTimeOrder(chunks'[s][id])
        BY <1>a, <2>1 DEF SeriesInOrder
      <3> QED BY <1>a, <2>1, <3>2, <3>3, <3>4, <3>5 DEF SeriesInOrder
    <2>3. ASSUME NEW t \in Series, t # s PROVE SeriesInOrder(t)'
      <3>1. /\ wal'[t] = wal[t] /\ inflight'[t] = inflight[t]
            /\ submitted'[t] = submitted[t] /\ phase'[t] = phase[t]
        BY <1>3, <2>3 DEF AppendWAL, AppendWALFails, Submit, memVars
      <3> QED BY <1>a, <2>1, <3>1, SeriesInOrderFrame
    <2> QED BY <2>2, <2>3
  <1>4. ASSUME NEW s \in Series, BufferPoint(s)
        PROVE  \A t \in Series : SeriesInOrder(t)'
    <2>1. PICK p \in inflight[s] : buffer' = [buffer EXCEPT ![s] = Append(buffer[s], p)]
      BY <1>4 DEF BufferPoint
    <2>2. UNCHANGED <<wal, chunks, submitted>>
      BY <1>4 DEF BufferPoint, diskVars
    <2>3. \A t \in Series : \/ inflight'[t] = {}
                            \/ /\ inflight'[t] = inflight[t]
                               /\ phase'[t] = "free" => phase[t] = "free"
      BY <1>4 DEF BufferPoint, Return
    <2>4. SeriesInOrder(s)'
      <3>1. p \in Record /\ buffer'[s] = Append(buffer[s], p)
        BY <2>1, PointType
      <3>2. \A q \in Range(buffer[s]) : q.ts <= p.ts
        BY <1>a DEF SeriesInOrder, SeriesOriginal
      <3>3. InTimeOrder(buffer'[s])
        BY <1>a, <3>1, <3>2, AppendInOrder DEF SeriesInOrder
      <3>4. RecoverWAL(wal[s])' = RecoverWAL(wal[s])
        BY <2>2
      <3> QED BY <1>a, <2>2, <2>3, <3>3, <3>4 DEF SeriesInOrder
    <2>5. ASSUME NEW t \in Series, t # s PROVE SeriesInOrder(t)'
      BY <1>a, <2>1, <2>2, <2>3, <2>5, SeriesInOrderFrame
    <2> QED BY <2>4, <2>5
  <1>5. ASSUME NEW s \in Series,
               \/ FlushSeries(s) \/ FlushEmpty(s) \/ WriteChunkFails(s) \/ LockIndex(s)
               \/ WriteIndexFile(s) \/ WriteIndexFileFails(s) \/ SwapIndex(s)
               \/ ClearBuffer(s) \/ SkipSeries(s) \/ LoseIndex(s)
        PROVE  \A t \in Series : SeriesInOrder(t)'
    <2> SUFFICES ASSUME NEW t \in Series PROVE SeriesInOrder(t)'
      OBVIOUS
    <2>1. /\ buffer'[t] = buffer[t] \/ buffer'[t] = <<>>
          /\ \/ inflight'[t] = {}
             \/ inflight'[t] = inflight[t] /\ (phase'[t] = "free" => phase[t] = "free")
      BY <1>5 DEF FlushSeries, FlushEmpty, WriteChunkFails, LockIndex, WriteIndexFile,
         WriteIndexFileFails, SwapIndex, ClearBuffer, SkipSeries, LoseIndex, Return,
         vars, memVars
    <2>2. UNCHANGED <<wal, chunks, submitted>>
      BY <1>5 DEF FlushSeries, FlushEmpty, WriteChunkFails, LockIndex, WriteIndexFile,
         WriteIndexFileFails, SwapIndex, ClearBuffer, SkipSeries, LoseIndex,
         vars, diskVars, histVars
    <2> QED BY <1>a, <2>1, <2>2, SeriesInOrderFrame
  <1>6. ASSUME NEW s \in Series, WriteChunk(s)
        PROVE  \A t \in Series : SeriesInOrder(t)'
    <2> SUFFICES ASSUME NEW t \in Series PROVE SeriesInOrder(t)'
      OBVIOUS
    <2>1. UNCHANGED <<wal, buffer, inflight, submitted>>
      BY <1>6 DEF WriteChunk, histVars
    <2>2. \A id \in ChunkIDs : chunks'[t][id] \in {chunks[t][id], buffer[t]}
      BY <1>6 DEF WriteChunk
    <2>3. phase'[t] = "free" => phase[t] = "free"
      BY <1>6 DEF WriteChunk
    <2> QED BY <1>a, <2>1, <2>2, <2>3, SeriesInOrderFrame
  <1>7. ASSUME NEW s \in Series, TruncateWAL(s)
        PROVE  \A t \in Series : SeriesInOrder(t)'
    <2> SUFFICES ASSUME NEW t \in Series PROVE SeriesInOrder(t)'
      OBVIOUS
    <2>1. wal'[t] = wal[t] \/ wal'[t] = <<>>
      <3>1. wal' = wal \/ wal' = [wal EXCEPT ![s] = <<>>]
        BY <1>7 DEF TruncateWAL
      <3> QED BY <3>1
    <2>2. \/ inflight'[t] = {}
          \/ inflight'[t] = inflight[t] /\ (phase'[t] = "free" => phase[t] = "free")
      BY <1>7 DEF TruncateWAL, Return
    <2> QED BY <1>7, <1>a, <2>1, <2>2, SeriesInOrderFrame DEF TruncateWAL
  <1>8. ASSUME NEW s \in Series, RecoverSeries(s)
        PROVE  \A t \in Series : SeriesInOrder(t)'
    <2> SUFFICES ASSUME NEW t \in Series PROVE SeriesInOrder(t)'
      OBVIOUS
    <2>1. UNCHANGED <<wal, chunks, inflight, phase, submitted>>
      BY <1>8, RecoverSeriesStep DEF histVars
    <2>2. buffer'[t] = buffer[t] \/ buffer'[t] = RecoverWAL(wal[t])
      <3>1. buffer' = [buffer EXCEPT ![s] = RecoverWAL(wal[s])] \/ buffer' = buffer
        BY <1>8, RecoverSeriesStep
      <3> QED BY <3>1
    <2> QED BY <1>a, <2>1, <2>2, SeriesInOrderFrame
  <1> QED
    BY <1>1, <1>2, <1>3, <1>4, <1>5, <1>6, <1>7, <1>8, NextCases

\* Nothing is written yet.
LEMMA InitOrderInv == Init => OrderInv
  <1>1. Len(<<>>) = 0 /\ 0 \div 2 = 0
    OBVIOUS
  <1>2. InTimeOrder(RecoverWAL(<<>>)) /\ InTimeOrder(<<>>)
    BY <1>1 DEF RecoverWAL, InTimeOrder
  <1> QED BY <1>2 DEF Init, OrderInv

\* The first and last points of a chunk in time order bound the others.
LEMMA EntryCovers ==
  ASSUME NEW id, NEW pts \in Seq(Record), InTimeOrder(pts), NEW p \in Range(pts)
  PROVE  EntryOf(id, pts).start <= p.ts /\ p.ts <= EntryOf(id, pts).end
  <1>1. PICK i \in 1..Len(pts) : pts[i] = p
    BY DEF Range
  <1>2. 1 \in 1..Len(pts) /\ Len(pts) \in 1..Len(pts) /\ 1 <= i /\ i <= Len(pts)
    BY <1>1
  <1>3. DOMAIN pts = 1..Len(pts)
    OBVIOUS
  <1>4. pts[1].ts <= pts[i].ts /\ pts[i].ts <= pts[Len(pts)].ts
    BY <1>2, <1>3 DEF InTimeOrder
  <1> QED BY <1>1, <1>4 DEF EntryOf

\* RangesCover follows from the order of every chunk.
LEMMA OrderCovers ==
  ASSUME ConsistencyInv, OrderInv
  PROVE  RangesCover
  <1> SUFFICES ASSUME NEW s \in Series, NEW e \in Range(index[s]),
                      NEW p \in Range(chunks[s][e.id])
               PROVE  e.start <= p.ts /\ p.ts <= e.end
    BY DEF RangesCover
  <1>1. e \in Entry /\ e = EntryOf(e.id, chunks[s][e.id])
    <2>1. index[s] \in Seq(Entry)
      BY DEF ConsistencyInv, TypeInv, TypeOK
    <2> QED BY <2>1 DEF ConsistencyInv, IndexInv, Range
  <1>2. e.id \in ChunkIDs
    BY <1>1 DEF Entry
  <1>3. InTimeOrder(chunks[s][e.id]) /\ chunks[s][e.id] \in Seq(Record)
    BY <1>2 DEF OrderInv, ConsistencyInv, TypeInv, TypeOK
  <1> QED BY <1>1, <1>3, EntryCovers

\* The time range by which FindChunks selects a chunk covers its points, provided
\* that clients write in time order, no append tears and chunk ids stay within
\* four digits.
THEOREM RangesCovered ==
  ASSUME InOrder, "wal1" \notin Faults, MaxChunks <= MaxNamedID
  PROVE  Spec => []RangesCover
  <1> DEFINE I == ConsistencyInv /\ OriginInv /\ OrderInv
  <1>1. Init => I
    BY InitConsistencyInv, InitOriginInv, InitOrderInv
  <1>2. I /\ [Next]_vars => I'
    BY NextConsistencyInv, NextOriginInv, NextOrderInv DEF ConsistencyInv
  <1>3. I => RangesCover
    BY OrderCovers
  <1> HIDE DEF I
  <1> QED BY <1>1, <1>2, <1>3, PTL DEF Spec
-----------------------------------------------------------------------------
(* No point twice *)

\* What OnceInv says of one series.
SeriesOnce(s) ==
  /\ \A p \in submitted[s] : p.val <= serial
  /\ DistinctIDs(index[s]) /\ DistinctIDs(indexFile[s])
  /\ phase[s] \in {"renamed", "indexing", "swap"} =>
       \A e \in Range(index[s]) : e.id # nextID[s]
  /\ FreshOnce(buffer[s]) /\ ChunksOnce(s)
  /\ phase[s] # "clear" => PlacesApart(s)
  /\ phase[s] = "logged" =>
       \A p \in inflight[s] : p \notin Stored(s)

\* OnceInv series by series.
LEMMA OnceBySeries ==
  OnceInv <=> (~Running => bootSerial = serial) /\ \A s \in Series : SeriesOnce(s)
  BY DEF OnceInv, SeriesOnce

\* Header entries have different ids, and scanChunkHeaders lists each once.
LEMMA HeadersDistinct ==
  ASSUME NEW s \in Series, NEW entries \in SortedByStart(Headers(s))
  PROVE  DistinctIDs(entries)
  <1> DEFINE n == Cardinality(Headers(s))
  <1>1. n \in Nat
    BY HeadersFinite
  <1>2. entries \in [1..n -> Headers(s)] /\ Range(entries) = Headers(s)
    BY DEF SortedByStart
  <1>3. entries \in Surjection(1..n, Headers(s))
    BY <1>2 DEF Surjection, Range
  <1>4. IsFiniteSet(1..n) /\ Cardinality(1..n) = n
    <2> HIDE DEF n
    <2> QED BY <1>1, FS_Interval
  <1>5. entries \in Injection(1..n, Headers(s))
    BY <1>3, <1>4, FS_SurjSameCardinalityImpliesInj
  <1>6. \A i, j \in 1..n : entries[i] = entries[j] => i = j
    BY <1>5 DEF Injection, IsInjective
  <1>7. \A e, f \in Headers(s) : e.id = f.id => e = f
    BY EntryIds
  <1> HIDE DEF n
  <1> QED BY <1>2, <1>6, <1>7 DEF DistinctIDs

\* An entry with a new id keeps the ids distinct.
LEMMA AppendDistinct ==
  ASSUME NEW entries \in Seq(Entry), NEW e \in Entry, DistinctIDs(entries),
         \A f \in Range(entries) : f.id # e.id
  PROVE  DistinctIDs(Append(entries, e))
  <1> DEFINE n == Len(entries)
             longer == Append(entries, e)
  <1>1. /\ n \in Nat /\ DOMAIN entries = 1..n /\ DOMAIN longer = 1..(n + 1)
        /\ \A i \in 1..n : longer[i] = entries[i] /\ entries[i] \in Range(entries)
        /\ longer[n + 1] = e
    BY DEF Range
  <1>2. \A i \in 1..(n + 1) : i \in 1..n \/ i = n + 1
    BY <1>1
  <1> HIDE DEF n, longer
  <1>3. DistinctIDs(longer)
    BY <1>1, <1>2 DEF DistinctIDs
  <1> QED BY <1>3 DEF longer

\* What is in an index is an entry, and its id is a chunk id.
LEMMA EntryIdType ==
  ASSUME NEW entries \in Seq(Entry), NEW e \in Range(entries)
  PROVE  e \in Entry /\ e.id \in ChunkIDs
  <1>1. e \in Entry
    BY DEF Range
  <1> QED BY <1>1 DEF Entry

\* ChunksOnce is about the indexed chunks only.
LEMMA ChunksOnceFrame ==
  ASSUME NEW t \in Series, ChunksOnce(t), index'[t] = index[t], bootSerial' = bootSerial,
         \A e \in Range(index[t]) : chunks'[t][e.id] = chunks[t][e.id]
  PROVE  ChunksOnce(t)'
  <1>1. ASSUME NEW e \in Range(index'[t]), NEW f \in Range(index'[t]),
               NEW i \in DOMAIN chunks'[t][e.id], NEW j \in DOMAIN chunks'[t][f.id],
               chunks'[t][e.id][i] = chunks'[t][f.id][j],
               chunks'[t][e.id][i].val > bootSerial'
        PROVE  e.id = f.id /\ i = j
    <2>1. chunks'[t][e.id] = chunks[t][e.id] /\ chunks'[t][f.id] = chunks[t][f.id]
      OBVIOUS
    <2>2. Fresh(chunks[t][e.id][i])
      BY <1>1, <2>1 DEF Fresh
    <2> QED BY <1>1, <2>1, <2>2 DEF ChunksOnce
  <1> QED BY <1>1 DEF ChunksOnce, Fresh

\* Steps that move no point and publish no entry of a series.
LEMMA SeriesOnceFrame ==
  ASSUME TypeOK, NEW t \in Series, SeriesOnce(t),
         index'[t] = index[t], DistinctIDs(indexFile'[t]),
         buffer'[t] \in {buffer[t], <<>>},
         \A e \in Range(index[t]) : chunks'[t][e.id] = chunks[t][e.id],
         \/ phase'[t] \notin {"renamed", "indexing", "swap"}
         \/ \A e \in Range(index[t]) : e.id # nextID'[t],
         phase'[t] # "clear" => phase[t] # "clear" \/ buffer'[t] = <<>>,
         phase'[t] = "logged" => phase[t] = "logged" /\ inflight'[t] = inflight[t],
         submitted'[t] = submitted[t],
         serial' \in Nat, serial <= serial', bootSerial' = bootSerial
  PROVE  SeriesOnce(t)'
  <1>1. PointsOf(t, Range(index[t]))' = PointsOf(t, Range(index[t]))
    BY DEF PointsOf
  <1>2. Range(buffer'[t]) \subseteq Range(buffer[t])
    BY DEF Range
  <1>3. Stored(t)' \subseteq Stored(t)
    BY <1>1, <1>2 DEF Stored
  <1>5. \A p \in submitted'[t] : p.val <= serial'
    <2>1. \A p \in submitted[t] : p.val \in Nat /\ p.val <= serial
      BY PointType DEF TypeOK, SeriesOnce
    <2>2. serial \in Nat
      BY StoreAssumption DEF TypeOK
    <2> QED BY <2>1, <2>2
  <1>6. FreshOnce(buffer[t])'
    BY DEF SeriesOnce, FreshOnce, Fresh
  <1>7. phase'[t] # "clear" => PlacesApart(t)'
    <2>1. buffer'[t] = <<>> => Range(buffer'[t]) = {}
      BY DEF Range
    <2> QED BY <1>1, <1>2, <2>1 DEF SeriesOnce, PlacesApart, Fresh
  <1>8. ChunksOnce(t)'
    BY ChunksOnceFrame DEF SeriesOnce
  <1>9. phase'[t] = "logged" => \A p \in inflight'[t] : p \notin Stored(t)'
    BY <1>3 DEF SeriesOnce
  <1>10. DistinctIDs(index'[t])
    BY DEF SeriesOnce
  <1>11. phase'[t] \in {"renamed", "indexing", "swap"} =>
           \A e \in Range(index'[t]) : e.id # nextID'[t]
    OBVIOUS
  <1> QED BY <1>5, <1>6, <1>7, <1>8, <1>9, <1>10, <1>11 DEF SeriesOnce

\* After a crash, and until Open has returned, nothing is fresh.
LEMMA NothingFresh ==
  ASSUME NEW t \in Series, TypeOK', OriginInv', bootSerial' = serial',
         DistinctIDs(index'[t]), DistinctIDs(indexFile'[t]),
         phase'[t] = "free", \A p \in submitted'[t] : p.val <= serial'
  PROVE  SeriesOnce(t)'
  <1>1. \A p \in submitted'[t] : ~(p.val > bootSerial')
    <2>1. \A p \in submitted'[t] : p.val \in Nat
      BY PointType DEF TypeOK
    <2>2. serial' \in Nat
      BY StoreAssumption DEF TypeOK
    <2> QED BY <2>1, <2>2
  <1>2. \A i \in DOMAIN buffer'[t] : ~(buffer'[t][i].val > bootSerial')
    BY <1>1 DEF OriginInv, Range
  <1>3. \A e \in Range(index'[t]) : e.id \in ChunkIDs
    BY EntryIdType DEF TypeOK
  <1>4. \A e \in Range(index'[t]) : Range(chunks'[t][e.id]) \subseteq submitted'[t]
    BY <1>3 DEF OriginInv
  <1>5. \A e \in Range(index'[t]) : \A i \in DOMAIN chunks'[t][e.id] :
          ~(chunks'[t][e.id][i].val > bootSerial')
    BY <1>1, <1>4 DEF Range
  <1>6. FreshOnce(buffer[t])'
    BY <1>2 DEF FreshOnce, Fresh
  <1>7. ChunksOnce(t)'
    BY <1>5, Zenon DEF ChunksOnce, Fresh
  <1>8. PlacesApart(t)'
    BY <1>1, <1>4 DEF PlacesApart, PointsOf, Fresh
  <1> QED BY <1>6, <1>7, <1>8 DEF SeriesOnce

\* A point that is just being logged is nowhere else yet.
LEMMA LoggedOnce ==
  ASSUME TypeInv, OriginInv, NEW s \in Series, SeriesOnce(s), NEW p \in Point,
         AppendWAL(s, p) \/ \E n \in 0..2 : AppendWALFails(s, p, n)
  PROVE  SeriesOnce(s)'
  <1> USE DEF TypeInv, TypeOK
  <1>1. /\ UNCHANGED <<index, indexFile, buffer, chunks, nextID, bootSerial>>
        /\ submitted'[s] = submitted[s] \cup {p}
        /\ p.val = serial + 1 /\ serial' = serial + 1
        /\ phase[s] = "free" /\ phase'[s] \in {"free", "logged"}
    BY DEF AppendWAL, AppendWALFails, Submit, CanStart, memVars
  <1>2. serial \in Nat
    BY StoreAssumption
  <1>3. \A q \in submitted[s] : q.val \in Nat /\ q.val <= serial
    BY PointType DEF SeriesOnce
  <1>4. \A q \in submitted'[s] : q.val <= serial'
    BY <1>1, <1>2, <1>3
  <1>5. p \notin submitted[s]
    BY <1>1, <1>2, <1>3
  <1>6. Stored(s) \subseteq submitted[s] /\ Stored(s)' = Stored(s)
    <2>1. index[s] \in Seq(Entry)
      OBVIOUS
    <2>2. \A e \in Range(index[s]) : e.id \in ChunkIDs
      BY <2>1, EntryIdType
    <2> QED BY <1>1, <2>2 DEF Stored, PointsOf, OriginInv
  <1>7. phase'[s] = "logged" => inflight'[s] = {p}
    BY <1>1 DEF AppendWAL, AppendWALFails, memVars
  <1>8. PointsOf(s, Range(index[s]))' = PointsOf(s, Range(index[s]))
    BY <1>1 DEF PointsOf
  <1>9. FreshOnce(buffer[s])' /\ ChunksOnce(s)'
    BY <1>1 DEF SeriesOnce, FreshOnce, ChunksOnce, Fresh
  <1>10. PlacesApart(s)'
    BY <1>1, <1>8 DEF SeriesOnce, PlacesApart, Fresh
  <1> QED BY <1>1, <1>4, <1>5, <1>6, <1>7, <1>9, <1>10 DEF SeriesOnce

\* A point that enters the buffer was not in it, nor in an indexed chunk.
LEMMA BufferedOnce ==
  ASSUME TypeInv, NEW s \in Series, SeriesOnce(s), BufferPoint(s)
  PROVE  SeriesOnce(s)'
  <1> USE DEF TypeInv, TypeOK
  <1>1. PICK p \in inflight[s] : buffer' = [buffer EXCEPT ![s] = Append(buffer[s], p)]
    BY DEF BufferPoint
  <1>2. /\ UNCHANGED <<index, indexFile, chunks, nextID, serial, submitted, bootSerial>>
        /\ phase[s] = "logged" /\ phase'[s] \in {"free", "rotate"}
    BY DEF BufferPoint, diskVars, Return
  <1>3. p \in Record /\ buffer'[s] = Append(buffer[s], p) /\ buffer[s] \in Seq(Record)
    BY <1>1, PointType
  <1>4. p \notin Range(buffer[s]) /\ p \notin PointsOf(s, Range(index[s]))
    BY <1>2 DEF SeriesOnce, Stored
  <1>6. FreshOnce(buffer[s])'
    <2> DEFINE n == Len(buffer[s])
               longer == Append(buffer[s], p)
    <2>1. /\ n \in Nat /\ DOMAIN buffer[s] = 1..n /\ DOMAIN longer = 1..(n + 1)
          /\ \A i \in 1..n : longer[i] = buffer[s][i] /\ buffer[s][i] \in Range(buffer[s])
          /\ longer[n + 1] = p
      BY <1>3 DEF Range
    <2>2. \A i \in 1..(n + 1) : i \in 1..n \/ i = n + 1
      BY <2>1
    <2> HIDE DEF n, longer
    <2>3. FreshOnce(longer)
      BY <1>4, <2>1, <2>2 DEF SeriesOnce, FreshOnce
    <2>4. buffer'[s] = longer /\ bootSerial' = bootSerial
      BY <1>2, <1>3 DEF longer
    <2> QED BY <2>3, <2>4 DEF FreshOnce, Fresh
  <1>7. Range(buffer'[s]) = Range(buffer[s]) \cup {p}
    BY <1>3, RangeAppend
  <1>8. PointsOf(s, Range(index[s]))' = PointsOf(s, Range(index[s]))
    BY <1>2 DEF PointsOf
  <1>9. PlacesApart(s)'
    BY <1>2, <1>4, <1>7, <1>8 DEF SeriesOnce, PlacesApart, Fresh
  <1>10. ChunksOnce(s)'
    BY <1>2, ChunksOnceFrame DEF SeriesOnce
  <1> QED BY <1>2, <1>6, <1>9, <1>10 DEF SeriesOnce

\* The swap publishes the buffer's points in a chunk that no entry named, and they
\* were in no other indexed chunk.
LEMMA SwappedOnce ==
  ASSUME ConsistencyInv, NEW s \in Series, SeriesOnce(s), SwapIndex(s)
  PROVE  SeriesOnce(s)'
  <1> USE DEF ConsistencyInv, TypeInv, TypeOK
  <1> DEFINE n == nextID[s]
             e == EntryOf(n, buffer[s])
  <1>1. /\ UNCHANGED <<indexFile, chunks, buffer, nextID, serial, submitted, bootSerial>>
        /\ phase[s] = "swap" /\ phase'[s] = "clear"
        /\ chunks[s][n] = buffer[s] /\ index'[s] = Append(index[s], e)
        /\ buffer[s] # <<>> /\ n \in ChunkIDs /\ index[s] \in Seq(Entry)
    <2>1. /\ UNCHANGED <<indexFile, chunks, buffer, nextID, serial, submitted, bootSerial>>
          /\ phase[s] = "swap" /\ phase'[s] = "clear" /\ index' = newIdx[s]
      BY DEF SwapIndex, diskVars, histVars
    <2>2. newIdx[s] = WithEntry(s) /\ chunks[s][n] = buffer[s]
      BY <2>1 DEF RotationInv
    <2>3. buffer[s] # <<>> /\ n \in ChunkIDs
      BY <2>1 DEF BoundsInv
    <2>4. WithEntry(s)[s] = Append(index[s], e)
      BY DEF WithEntry
    <2> QED BY <2>1, <2>2, <2>3, <2>4
  <1>2. e.id = n /\ e \in Entry
    BY <1>1, EntryOfType, EntryIds
  <1>3. \A f \in Range(index[s]) : f.id # n
    BY <1>1 DEF SeriesOnce
  <1> HIDE DEF n, e
  <1>4. Range(index'[s]) = Range(index[s]) \cup {e}
    BY <1>1, <1>2, RangeAppend
  <1>5. DistinctIDs(index'[s])
    <2>1. DistinctIDs(index[s])
      BY DEF SeriesOnce
    <2>2. DistinctIDs(Append(index[s], e))
      BY <1>1, <1>2, <1>3, <2>1, AppendDistinct
    <2> QED BY <1>1, <2>2
  <1>7. \A f \in Range(index[s]) : \A i \in DOMAIN chunks[s][f.id] :
          Fresh(chunks[s][f.id][i]) => chunks[s][f.id][i] \notin Range(buffer[s])
    <2>1. \A f \in Range(index[s]) : \A i \in DOMAIN chunks[s][f.id] :
            chunks[s][f.id][i] \in PointsOf(s, Range(index[s]))
      <3> SUFFICES ASSUME NEW f \in Range(index[s]), NEW i \in DOMAIN chunks[s][f.id]
                   PROVE  chunks[s][f.id][i] \in PointsOf(s, Range(index[s]))
        OBVIOUS
      <3>1. chunks[s][f.id][i] \in Range(chunks[s][f.id])
        BY DEF Range
      <3> QED BY <3>1 DEF PointsOf
    <2> QED BY <1>1, <2>1 DEF SeriesOnce, PlacesApart
  <1>8. \A i \in DOMAIN buffer[s] : buffer[s][i] \in Range(buffer[s])
    BY DEF Range
  <1>9. ASSUME NEW f \in Range(index'[s]), NEW g \in Range(index'[s]),
               NEW i \in DOMAIN chunks[s][f.id], NEW j \in DOMAIN chunks[s][g.id],
               chunks[s][f.id][i] = chunks[s][g.id][j], Fresh(chunks[s][f.id][i])
        PROVE  f.id = g.id /\ i = j
    <2>1. CASE f \in Range(index[s]) /\ g \in Range(index[s])
      BY <1>9, <2>1 DEF SeriesOnce, ChunksOnce
    <2>2. CASE f = e /\ g = e
      BY <1>1, <1>2, <1>9, <2>2 DEF SeriesOnce, FreshOnce
    <2>3. CASE f = e /\ g \in Range(index[s])
      BY <1>1, <1>2, <1>7, <1>8, <1>9, <2>3
    <2>4. CASE f \in Range(index[s]) /\ g = e
      BY <1>1, <1>2, <1>7, <1>8, <1>9, <2>4
    <2> QED BY <1>4, <2>1, <2>2, <2>3, <2>4
  <1>10. ChunksOnce(s)'
    BY <1>1, <1>9 DEF ChunksOnce, Fresh
  <1>11. FreshOnce(buffer[s])'
    BY <1>1 DEF SeriesOnce, FreshOnce, Fresh
  <1>12. (\A p \in submitted[s] : p.val <= serial)' /\ DistinctIDs(indexFile[s])'
    BY <1>1 DEF SeriesOnce
  <1> QED BY <1>1, <1>5, <1>10, <1>11, <1>12 DEF SeriesOnce
\* What OnceInv rests on.
OnceBase == ConsistencyInv /\ OriginInv /\ OnceInv

\* Every step keeps OnceInv.
LEMMA NextOnceInv ==
  ASSUME "wal1" \notin Faults, MaxChunks <= MaxNamedID, OnceBase, [Next]_vars
  PROVE  OnceInv'
  <1> USE DEF OnceBase
  <1>t. TypeOK /\ TypeInv /\ TypeOK' /\ ConsistencyInv' /\ OriginInv'
    BY NextConsistencyInv, NextOriginInv DEF ConsistencyInv, TypeInv
  <1>a. (~Running => bootSerial = serial) /\ \A t \in Series : SeriesOnce(t)
    BY OnceBySeries
  <1>n. serial \in Nat
    BY <1>t, StoreAssumption DEF TypeOK
  <1>k. UNCHANGED serial => serial' \in Nat /\ serial <= serial'
    BY <1>n
  <1>1. CASE UNCHANGED vars
    <2>1. UNCHANGED <<index, indexFile, chunks, buffer, nextID, phase, inflight, submitted,
                      opened, serial, bootSerial>>
      BY <1>1 DEF vars, diskVars, memVars, histVars
    <2>2. ASSUME NEW t \in Series PROVE SeriesOnce(t)'
      <3>1. /\ SeriesOnce(t) /\ DistinctIDs(indexFile'[t])
            /\ phase'[t] \in {"renamed", "indexing", "swap"} =>
                 \A e \in Range(index[t]) : e.id # nextID'[t]
        BY <1>a, <2>1 DEF SeriesOnce
      <3> QED BY <1>t, <1>k, <2>1, <3>1, SeriesOnceFrame
    <2> QED BY <1>a, <2>1, <2>2 DEF OnceInv, SeriesOnce, Running
  <1>2. CASE Crash
    <2>1. /\ UNCHANGED <<indexFile, serial, submitted>> /\ bootSerial' = serial
          /\ \A t \in Series : index'[t] = <<>> /\ phase'[t] = "free"
      BY <1>2 DEF Crash, diskVars, EmptyIndex
    <2>2. ASSUME NEW t \in Series PROVE SeriesOnce(t)'
      <3>1. DistinctIDs(indexFile'[t]) /\ \A p \in submitted'[t] : p.val <= serial'
        BY <1>a, <2>1 DEF SeriesOnce
      <3>2. DistinctIDs(index'[t])
        BY <2>1 DEF DistinctIDs
      <3> QED BY <1>t, <2>1, <3>1, <3>2, NothingFresh
    <2> QED BY <2>1, <2>2 DEF OnceInv, SeriesOnce
  <1>3. ASSUME NEW s \in Series, NEW p \in Point,
               AppendWAL(s, p) \/ \E n \in 0..2 : AppendWALFails(s, p, n)
        PROVE  OnceInv'
    <2>1. /\ UNCHANGED <<index, indexFile, chunks, buffer, nextID, opened, bootSerial>>
          /\ submitted' = [submitted EXCEPT ![s] = @ \cup {p}]
          /\ serial' = serial + 1 /\ Running
      BY <1>3 DEF AppendWAL, AppendWALFails, Submit, CanStart, memVars
    <2>2. SeriesOnce(s)'
      BY <1>3, <1>a, <1>t, LoggedOnce
    <2>3. ASSUME NEW t \in Series, t # s PROVE SeriesOnce(t)'
      <3>1. /\ inflight'[t] = inflight[t] /\ submitted'[t] = submitted[t]
            /\ phase'[t] = phase[t]
        BY <1>3, <1>t, <2>3, ZenonT(40) DEF AppendWAL, AppendWALFails, Submit, memVars, TypeOK
      <3>2. serial' \in Nat /\ serial <= serial'
        BY <1>n, <2>1
      <3>3. SeriesOnce(t) /\ DistinctIDs(indexFile'[t])
        BY <1>a, <2>1 DEF SeriesOnce
      <3>4. phase'[t] \in {"renamed", "indexing", "swap"} =>
              \A e \in Range(index[t]) : e.id # nextID'[t]
        BY <2>1, <3>1, <3>3 DEF SeriesOnce
      <3> QED BY <1>t, <2>1, <3>1, <3>2, <3>3, <3>4, SeriesOnceFrame
    <2>4. Running'
      BY <2>1 DEF Running
    <2> QED BY <2>2, <2>3, <2>4 DEF OnceInv, SeriesOnce
  <1>4. ASSUME NEW s \in Series, BufferPoint(s)
        PROVE  OnceInv'
    <2>1. /\ UNCHANGED <<index, indexFile, chunks, nextID, submitted, opened, serial, bootSerial>>
          /\ \A t \in Series : t # s =>
               /\ buffer'[t] = buffer[t] /\ inflight'[t] = inflight[t] /\ phase'[t] = phase[t]
      BY <1>4, <1>t DEF BufferPoint, Return, diskVars, TypeOK
    <2>2. SeriesOnce(s)'
      BY <1>4, <1>a, <1>t, BufferedOnce
    <2>3. ASSUME NEW t \in Series, t # s PROVE SeriesOnce(t)'
      <3>1. /\ SeriesOnce(t) /\ DistinctIDs(indexFile'[t])
            /\ phase'[t] \in {"renamed", "indexing", "swap"} =>
                 \A e \in Range(index[t]) : e.id # nextID'[t]
        BY <1>a, <2>1, <2>3 DEF SeriesOnce
      <3> QED BY <1>t, <1>k, <2>1, <2>3, <3>1, SeriesOnceFrame
    <2> QED BY <1>a, <2>1, <2>2, <2>3, OnceBySeries DEF OnceInv, SeriesOnce, Running
  <1>5. ASSUME NEW s \in Series,
               \/ FlushSeries(s) \/ WriteChunkFails(s) \/ LockIndex(s)
               \/ WriteIndexFileFails(s) \/ ClearBuffer(s) \/ SkipSeries(s)
               \/ TruncateWAL(s) \/ LoseIndex(s)
        PROVE  OnceInv'
    <2>1. /\ UNCHANGED <<index, chunks, submitted, serial, bootSerial>>
          /\ opened \subseteq opened'
      BY <1>5 DEF FlushSeries, WriteChunkFails, LockIndex, WriteIndexFileFails, ClearBuffer,
         SkipSeries, TruncateWAL, LoseIndex, diskVars, memVars, histVars
    <2>2. ASSUME NEW t \in Series PROVE SeriesOnce(t)'
      <3>1. DistinctIDs(<<>>)
        BY DEF DistinctIDs
      <3>2. indexFile'[t] \in {indexFile[t], <<>>} /\ buffer'[t] \in {buffer[t], <<>>}
        BY <1>5, <1>t DEF FlushSeries, WriteChunkFails, LockIndex, WriteIndexFileFails, ClearBuffer,
         SkipSeries, TruncateWAL, LoseIndex, diskVars, memVars, histVars, TypeOK
      <3>3. /\ phase'[t] # "clear" => phase[t] # "clear" \/ buffer'[t] = <<>>
            /\ phase'[t] = "logged" => phase[t] = "logged" /\ inflight'[t] = inflight[t]
            /\ phase'[t] \in {"renamed", "indexing", "swap"} =>
                 phase[t] \in {"renamed", "indexing", "swap"} /\ nextID'[t] = nextID[t]
        <4> USE <1>t DEF TypeOK
        <4>1. CASE WriteChunkFails(s)
          BY <4>1 DEF WriteChunkFails, Return
        <4>2. CASE WriteIndexFileFails(s)
          BY <4>2 DEF WriteIndexFileFails, Return
        <4>3. CASE TruncateWAL(s)
          BY <4>3 DEF TruncateWAL, Return
        <4>4. CASE FlushSeries(s)
          BY <4>4 DEF FlushSeries, CanStart
        <4>5. CASE LockIndex(s)
          BY <4>5 DEF LockIndex
        <4>6. CASE ClearBuffer(s)
          BY <4>6 DEF ClearBuffer
        <4>7. CASE SkipSeries(s) \/ LoseIndex(s)
          BY <4>7 DEF SkipSeries, LoseIndex, memVars
        <4> QED BY <1>5, <4>1, <4>2, <4>3, <4>4, <4>5, <4>6, <4>7
      <3>4. SeriesOnce(t) /\ DistinctIDs(indexFile'[t])
        BY <1>a, <3>1, <3>2 DEF SeriesOnce
      <3>5. phase'[t] \in {"renamed", "indexing", "swap"} =>
              \A e \in Range(index[t]) : e.id # nextID'[t]
        BY <3>3, <3>4 DEF SeriesOnce
      <3> QED BY <1>t, <1>k, <2>1, <3>2, <3>3, <3>4, <3>5, SeriesOnceFrame
    <2>3. Running => Running'
      BY <1>t, <2>1 DEF Running, TypeOK
    <2> QED BY <1>a, <2>1, <2>2, <2>3 DEF OnceInv, SeriesOnce
  <1>6. ASSUME NEW s \in Series, WriteChunk(s)
        PROVE  OnceInv'
    <2>1. /\ UNCHANGED <<index, indexFile, buffer, inflight, submitted, opened, serial, bootSerial>>
          /\ phase[s] = "rotate" /\ phase' = [phase EXCEPT ![s] = "renamed"]
          /\ nextID' = [nextID EXCEPT ![s] = @ + 1]
          /\ chunks' = [chunks EXCEPT ![s][nextID[s] + 1] = buffer[s]]
      BY <1>6 DEF WriteChunk, histVars
    <2>2. nextID[s] \in Nat /\ nextID'[s] = nextID[s] + 1
      BY <1>t, <2>1, StoreAssumption DEF TypeOK
    <2>3. s \in opened
      BY <1>t, <2>1 DEF TypeInv, BoundsInv, Running
    <2>4. \A e \in Range(index[s]) : e.id <= nextID[s] /\ e.id \in Nat
      <3>1. \A e \in Range(index[s]) : e.id <= nextID[s]
        BY <2>3 DEF ConsistencyInv, IndexInv
      <3>2. \A e \in Range(index[s]) : e.id \in ChunkIDs
        BY <1>t, EntryIdType DEF TypeOK
      <3> QED BY <3>1, <3>2, StoreAssumption DEF ChunkIDs
    <2>5. \A e \in Range(index[s]) : e.id # nextID'[s]
      BY <2>2, <2>4
    <2>6. ASSUME NEW t \in Series PROVE SeriesOnce(t)'
      <3>1. \A e \in Range(index[t]) : chunks'[t][e.id] = chunks[t][e.id]
        BY <1>t, <2>1, <2>2, <2>5 DEF TypeOK
      <3>2. /\ phase'[t] # "clear" => phase[t] # "clear"
            /\ phase'[t] = "logged" => phase[t] = "logged"
            /\ t = s \/ (phase'[t] = phase[t] /\ nextID'[t] = nextID[t])
        <4>1. phase'[s] = "renamed" /\ \A u \in Series : u # s =>
                phase'[u] = phase[u] /\ nextID'[u] = nextID[u]
          BY <1>t, <2>1 DEF TypeOK
        <4>2. phase[s] = "rotate"
          BY <2>1
        <4> QED BY <4>1, <4>2
      <3>3. SeriesOnce(t) /\ DistinctIDs(indexFile'[t])
        BY <1>a, <2>1 DEF SeriesOnce
      <3>4. phase'[t] \in {"renamed", "indexing", "swap"} =>
              \A e \in Range(index[t]) : e.id # nextID'[t]
        BY <2>5, <3>2, <3>3 DEF SeriesOnce
      <3> QED BY <1>t, <1>k, <2>1, <3>1, <3>2, <3>3, <3>4, SeriesOnceFrame
    <2> QED BY <1>a, <2>1, <2>6 DEF OnceInv, SeriesOnce, Running
  <1>7. ASSUME NEW s \in Series, WriteIndexFile(s)
        PROVE  OnceInv'
    <2>1. /\ UNCHANGED <<index, chunks, buffer, nextID, inflight, submitted, opened, serial, bootSerial>>
          /\ phase[s] = "indexing" /\ phase' = [phase EXCEPT ![s] = "swap"]
          /\ indexFile' = [indexFile EXCEPT ![s] = newIdx[s][s]]
      BY <1>7 DEF WriteIndexFile, histVars
    <2>2. DistinctIDs(newIdx[s][s])
      <3> DEFINE e == EntryOf(nextID[s], buffer[s])
      <3>1. newIdx[s][s] = Append(index[s], e)
        BY <1>t, <2>1 DEF ConsistencyInv, RotationInv, WithEntry, TypeOK
      <3>2. e \in Entry /\ e.id = nextID[s]
        BY <1>t, <2>1, EntryOfType, EntryIds DEF TypeInv, BoundsInv, TypeOK
      <3>3. /\ DistinctIDs(index[s]) /\ \A f \in Range(index[s]) : f.id # e.id
            /\ index[s] \in Seq(Entry)
        BY <1>a, <1>t, <2>1, <3>2 DEF SeriesOnce, TypeOK
      <3> HIDE DEF e
      <3> QED BY <3>1, <3>2, <3>3, AppendDistinct
    <2>3. ASSUME NEW t \in Series PROVE SeriesOnce(t)'
      <3>1. /\ phase'[t] # "clear" => phase[t] # "clear"
            /\ phase'[t] = "logged" => phase[t] = "logged"
            /\ phase'[t] \in {"renamed", "indexing", "swap"} =>
                 phase[t] \in {"renamed", "indexing", "swap"}
        BY <1>t, <2>1 DEF TypeOK
      <3>2. SeriesOnce(t) /\ DistinctIDs(indexFile'[t])
        BY <1>a, <1>t, <2>1, <2>2 DEF SeriesOnce, TypeOK
      <3>3. phase'[t] \in {"renamed", "indexing", "swap"} =>
              \A e \in Range(index[t]) : e.id # nextID'[t]
        BY <2>1, <3>1, <3>2 DEF SeriesOnce
      <3> QED BY <1>t, <1>k, <2>1, <3>1, <3>2, <3>3, SeriesOnceFrame
    <2> QED BY <1>a, <2>1, <2>3 DEF OnceInv, SeriesOnce, Running
  <1>8. ASSUME NEW s \in Series, SwapIndex(s)
        PROVE  OnceInv'
    <2>1. /\ UNCHANGED <<indexFile, chunks, buffer, nextID, inflight, submitted, opened, serial, bootSerial>>
          /\ phase[s] = "swap" /\ phase' = [phase EXCEPT ![s] = "clear"]
          /\ index' = newIdx[s]
      BY <1>8 DEF SwapIndex, diskVars, histVars
    <2>2. SeriesOnce(s)'
      BY <1>8, <1>a, SwappedOnce
    <2>3. ASSUME NEW t \in Series, t # s PROVE SeriesOnce(t)'
      <3>1. index'[t] = index[t]
        BY <1>t, <2>1, <2>3 DEF ConsistencyInv, RotationInv, WithEntry, TypeOK
      <3>2. phase'[t] = phase[t]
        BY <2>1, <2>3
      <3>3. /\ SeriesOnce(t) /\ DistinctIDs(indexFile'[t])
            /\ phase'[t] \in {"renamed", "indexing", "swap"} =>
                 \A e \in Range(index[t]) : e.id # nextID'[t]
        BY <1>a, <2>1, <3>2 DEF SeriesOnce
      <3> QED BY <1>t, <1>k, <2>1, <3>1, <3>2, <3>3, SeriesOnceFrame
    <2> QED BY <1>a, <2>1, <2>2, <2>3 DEF OnceInv, SeriesOnce, Running
  <1>9. ASSUME NEW s \in Series, RecoverSeries(s)
        PROVE  OnceInv'
    <2>1. PICK loaded, n : LoadEntries(s, loaded) /\ index' = [index EXCEPT ![s] = loaded]
      BY <1>9, RecoverSeriesStep
    <2>2. /\ s \notin opened /\ opened' = opened \cup {s}
          /\ UNCHANGED <<chunks, phase, inflight, submitted, serial, bootSerial>>
      BY <1>9, RecoverSeriesStep DEF histVars
    <2>3. ~Running /\ bootSerial' = serial' /\ \A t \in Series : phase'[t] = "free"
      BY <1>a, <1>t, <2>2 DEF Running, TypeInv, BoundsInv
    <2>4. DistinctIDs(loaded) /\ DistinctIDs(indexFile'[s])
      <3>1. DistinctIDs(indexFile[s])
        BY <1>a DEF SeriesOnce
      <3>2. CASE loaded = indexFile[s] /\ UNCHANGED <<hasIndex, indexFile>>
        BY <3>1, <3>2
      <3>3. CASE /\ loaded \in SortedByStart(Headers(s))
                 /\ \/ indexFile' = [indexFile EXCEPT ![s] = loaded]
                    \/ UNCHANGED <<hasIndex, indexFile>>
        BY <1>t, <3>1, <3>3, HeadersDistinct DEF TypeOK
      <3> QED BY <2>1, <3>2, <3>3 DEF LoadEntries
    <2>5. ASSUME NEW t \in Series PROVE SeriesOnce(t)'
      <3>1. DistinctIDs(index'[t]) /\ DistinctIDs(indexFile'[t])
        <4>1. CASE t = s
          BY <1>t, <2>1, <2>4, <4>1 DEF TypeOK
        <4>2. CASE t # s
          <5>1. index'[t] = index[t] /\ indexFile'[t] = indexFile[t]
            BY <1>9, <1>t, <4>2, RecoverSeriesFrame
          <5> QED BY <1>a, <5>1 DEF SeriesOnce
        <4> QED BY <4>1, <4>2
      <3>2. \A p \in submitted'[t] : p.val <= serial'
        BY <1>a, <2>2 DEF SeriesOnce
      <3> QED BY <1>t, <2>3, <3>1, <3>2, NothingFresh
    <2> QED BY <2>3, <2>5 DEF OnceInv, SeriesOnce
  <1>10. ASSUME NEW s \in Series, FlushEmpty(s)
         PROVE  OnceInv'
    BY <1>1, <1>10 DEF FlushEmpty
  <1> QED
    BY <1>1, <1>2, <1>3, <1>4, <1>5, <1>6, <1>7, <1>8, <1>9, <1>10, NextCases

\* At the start there is no point at all.
LEMMA InitOnceInv == Init => OnceInv
  BY DEF Init, OnceInv, Running, EmptyIndex, DistinctIDs, FreshOnce, ChunksOnce, PlacesApart,
         PointsOf, Range

\* Sets without two different elements have one at most.
LEMMA AtMostOne ==
  ASSUME NEW T, \A x, y \in T : x = y
  PROVE  Cardinality(T) \in {0, 1}
  <1>1. CASE T = {}
    BY <1>1, FS_EmptySet
  <1>2. CASE T # {}
    <2>1. PICK x : T = {x}
      BY <1>2
    <2> QED BY <2>1, FS_Singleton
  <1> QED BY <1>1, <1>2

\* Between two operations a point written since the process started is stored at
\* most once, whatever failed, provided that no append tears and chunk ids stay
\* within four digits.
THEOREM NoDuplicates ==
  ASSUME "wal1" \notin Faults, MaxChunks <= MaxNamedID
  PROVE  Spec => []StoredOnce
  <1>1. Init => OnceBase
    BY InitConsistencyInv, InitOriginInv, InitOnceInv DEF OnceBase
  <1>2. OnceBase /\ [Next]_vars => OnceBase'
    BY NextConsistencyInv, NextOriginInv, NextOnceInv DEF OnceBase, ConsistencyInv
  <1>3. OnceBase => StoredOnce
    <2> SUFFICES ASSUME OnceBase, NEW s \in opened, phase[s] = "free",
                        NEW p \in submitted[s], p.val > bootSerial
                 PROVE  Copies(s, p) <= 1
      BY DEF StoredOnce
    <2>1. s \in Series /\ index[s] \in Seq(Entry)
      BY DEF OnceBase, ConsistencyInv, TypeInv, TypeOK
    <2>2. SeriesOnce(s)
      BY <2>1, OnceBySeries DEF OnceBase
    <2> DEFINE A == {c \in (DOMAIN index[s]) \X (1..MaxWrites) :
                       LET pts == chunks[s][index[s][c[1]].id]
                       IN c[2] \in DOMAIN pts /\ pts[c[2]] = p}
               B == {i \in DOMAIN buffer[s] : buffer[s][i] = p}
    <2>3. \A c, d \in A : c = d
      <3> SUFFICES ASSUME NEW c \in A, NEW d \in A PROVE c = d
        OBVIOUS
      <3> DEFINE e == index[s][c[1]]
                 f == index[s][d[1]]
      <3>1. e \in Range(index[s]) /\ f \in Range(index[s])
        BY DEF Range
      <3>2. /\ c[2] \in DOMAIN chunks[s][e.id] /\ d[2] \in DOMAIN chunks[s][f.id]
            /\ chunks[s][e.id][c[2]] = p /\ chunks[s][f.id][d[2]] = p
        OBVIOUS
      <3>3. e.id = f.id /\ c[2] = d[2]
        <4>1. ChunksOnce(s)
          BY <2>2 DEF SeriesOnce
        <4>2. Fresh(chunks[s][e.id][c[2]])
          BY <3>2 DEF Fresh
        <4> HIDE DEF e, f
        <4>3. \A i \in DOMAIN chunks[s][e.id], j \in DOMAIN chunks[s][f.id] :
                chunks[s][e.id][i] = chunks[s][f.id][j] /\ Fresh(chunks[s][e.id][i])
                  => e.id = f.id /\ i = j
          BY <3>1, <4>1 DEF ChunksOnce
        <4> QED BY <3>2, <4>2, <4>3
      <3>4. c[1] = d[1]
        BY <2>2, <3>3 DEF SeriesOnce, DistinctIDs
      <3>5. c = <<c[1], c[2]>> /\ d = <<d[1], d[2]>>
        OBVIOUS
      <3> QED BY <3>3, <3>4, <3>5
    <2>4. \A i, j \in B : i = j
      BY <2>2 DEF SeriesOnce, FreshOnce, Fresh
    <2>5. A = {} \/ B = {}
      <3> SUFFICES ASSUME NEW c \in A, NEW i \in B PROVE FALSE
        OBVIOUS
      <3> DEFINE e == index[s][c[1]]
      <3>1. e \in Range(index[s]) /\ p \in Range(chunks[s][e.id]) /\ p \in Range(buffer[s])
        BY DEF Range
      <3>2. p \in PointsOf(s, Range(index[s]))
        BY <3>1 DEF PointsOf
      <3> QED BY <2>2, <3>1, <3>2 DEF SeriesOnce, PlacesApart, Fresh
    <2>6. Copies(s, p) = Cardinality(A) + Cardinality(B)
      BY DEF Copies
    <2> HIDE DEF A, B
    <2>7. Cardinality(A) \in {0, 1} /\ Cardinality(B) \in {0, 1}
      BY <2>3, <2>4, AtMostOne
    <2> QED BY <2>5, <2>6, <2>7, FS_EmptySet
  <1> QED BY <1>1, <1>2, <1>3, PTL DEF Spec
-----------------------------------------------------------------------------
(* Readers *)

\* What a step does to a store that is up and stays up.
LEMMA RunningStep ==
  ASSUME TypeInv, LockInv, RotationInv, Running, Next, opened' # {}
  PROVE  /\ Running' /\ bootSerial' = bootSerial
         /\ \A t \in Series : acked[t] \subseteq acked'[t]
         /\ \A t \in Series :
              \/ index'[t] = index[t]
              \/ SwapIndex(t) /\ index'[t] = Append(index[t], EntryOf(nextID[t], buffer[t]))
  <1> USE DEF TypeInv, TypeOK, Running
  <1>1. CASE Crash
    BY <1>1 DEF Crash
  <1>2. ASSUME NEW s \in Series, NEW p \in Point,
               AppendWAL(s, p) \/ \E n \in 0..2 : AppendWALFails(s, p, n)
        PROVE  UNCHANGED <<opened, bootSerial, acked, index>>
    BY <1>2 DEF AppendWAL, AppendWALFails, memVars
  <1>3. ASSUME NEW s \in Series, BufferPoint(s)
        PROVE  /\ UNCHANGED <<opened, bootSerial, index>>
               /\ \A t \in Series : acked[t] \subseteq acked'[t]
    <2>1. PICK p \in inflight[s] : UNCHANGED acked \/ acked' = [acked EXCEPT ![s] = @ \cup {p}]
      BY <1>3 DEF BufferPoint
    <2>2. \A t \in Series : acked[t] \subseteq acked'[t]
      BY <2>1
    <2> QED BY <1>3, <2>2 DEF BufferPoint
  <1>4. ASSUME NEW s \in Series,
               \/ FlushSeries(s) \/ FlushEmpty(s) \/ WriteChunk(s) \/ WriteChunkFails(s)
               \/ LockIndex(s) \/ WriteIndexFile(s) \/ WriteIndexFileFails(s)
               \/ ClearBuffer(s) \/ LoseIndex(s)
        PROVE  UNCHANGED <<opened, bootSerial, acked, index>>
    BY <1>4 DEF FlushSeries, FlushEmpty, WriteChunk, WriteChunkFails, LockIndex, WriteIndexFile,
                WriteIndexFileFails, ClearBuffer, LoseIndex, vars, memVars, histVars
  <1>5. ASSUME NEW s \in Series, TruncateWAL(s)
        PROVE  /\ UNCHANGED <<opened, bootSerial, index>>
               /\ \A t \in Series : acked[t] \subseteq acked'[t]
    BY <1>5 DEF TruncateWAL
  <1>6. ASSUME NEW s \in Series, RecoverSeries(s) \/ SkipSeries(s)
        PROVE  FALSE
    BY <1>6, RecoverSeriesStep DEF SkipSeries
  <1>7. ASSUME NEW s \in Series, SwapIndex(s)
        PROVE  /\ UNCHANGED <<opened, bootSerial, acked>>
               /\ index'[s] = Append(index[s], EntryOf(nextID[s], buffer[s]))
               /\ \A t \in Series : t # s => index'[t] = index[t]
    <2>1. index' = newIdx[s] /\ phase[s] = "swap" /\ UNCHANGED <<opened, bootSerial, acked>>
      BY <1>7 DEF SwapIndex, histVars
    <2>2. newIdx[s] = WithEntry(s)
      BY <2>1 DEF RotationInv
    <2> QED BY <2>1, <2>2 DEF WithEntry
  <1>8. CASE \E s \in Series : SwapIndex(s)
    BY <1>7, <1>8
  <1>9. ASSUME NEW s \in Series, ~SwapIndex(s), ~Crash,
               \/ \E p \in Point : AppendWAL(s, p)
               \/ \E p \in Point, n \in 0..2 : WalFault(n) \in Faults /\ AppendWALFails(s, p, n)
               \/ BufferPoint(s) \/ FlushSeries(s) \/ FlushEmpty(s)
               \/ WriteChunk(s) \/ LockIndex(s) \/ WriteIndexFile(s)
               \/ SwapIndex(s) \/ ClearBuffer(s) \/ TruncateWAL(s)
               \/ WriteChunkFails(s) \/ WriteIndexFileFails(s)
               \/ RecoverSeries(s) \/ SkipSeries(s)
               \/ "indexLost" \in Faults /\ LoseIndex(s)
        PROVE  /\ UNCHANGED <<opened, bootSerial, index>>
               /\ \A t \in Series : acked[t] \subseteq acked'[t]
    BY <1>2, <1>3, <1>4, <1>5, <1>6, <1>9
  <1> QED BY <1>1, <1>8, <1>9, NextCases

\* A step of the writers, as a reader sees it: it is over, or the store stays up.
LEMMA WriterCases ==
  ASSUME ReaderInv, Next, query' = IF opened' = {} THEN Idle ELSE query
  PROVE  query' = Idle \/ (query' = query /\ query # Idle /\ Running /\ opened' # {})
  BY DEF ReaderInv

\* The fields of the reader.
LEMMA ReaderFields ==
  ASSUME ReaderInv
  PROVE  /\ query.step \in {"idle", "chunks", "done", "meta", "metaDone"}
         /\ query.step # "idle" => Running /\ query # Idle
         /\ query.step \in {"chunks", "done"} =>
              /\ query \in [step : {"chunks", "done"}, series : Series,
                            from : Timestamps, to : Timestamps, files : Seq(Entry),
                            got : Seq(Record), due : SUBSET Point, seen : SUBSET Entry]
              /\ query.series \in Series /\ query.files \in Seq(Entry)
              /\ query.got \in Seq(Record) /\ query.seen \subseteq Entry
              /\ query.due \subseteq Point /\ query.from \in Nat /\ query.to \in Nat
         /\ query.step \in {"meta", "metaDone"} =>
              /\ query \in [step : {"meta", "metaDone"}, series : Series, count : Nat]
              /\ query.series \in Series /\ query.count \in Nat
  <1>1. CASE query = Idle
    BY <1>1 DEF Idle
  <1>2. CASE query \in [step : {"chunks", "done"}, series : Series,
                        from : Timestamps, to : Timestamps, files : Seq(Entry),
                        got : Seq(Record), due : SUBSET Point, seen : SUBSET Entry]
    <2>1. /\ query.step \in {"chunks", "done"} /\ query.series \in Series
          /\ query.files \in Seq(Entry) /\ query.got \in Seq(Record)
          /\ query.seen \subseteq Entry /\ query.due \subseteq Point
          /\ query.from \in Timestamps /\ query.to \in Timestamps
      BY <1>2
    <2>2. query # Idle
      BY <2>1 DEF Idle
    <2>3. query.from \in Nat /\ query.to \in Nat
      BY <2>1, StoreAssumption
    <2> QED BY <1>2, <2>1, <2>2, <2>3 DEF ReaderInv
  <1>3. CASE query \in [step : {"meta", "metaDone"}, series : Series, count : Nat]
    BY <1>3 DEF ReaderInv, Idle
  <1> QED BY <1>1, <1>2, <1>3 DEF ReaderInv

\* The counts of entries are natural numbers and so is their total, to which an
\* entry adds its count.
LEMMA CountedAppend ==
  ASSUME NEW entries \in Seq(Entry)
  PROVE  /\ Counted(entries) \in Nat
         /\ \A e \in Entry : Counted(Append(entries, e)) = Counted(entries) + e.count
  <1> DEFINE counts == [i \in DOMAIN entries |-> entries[i].count]
  <1>1. counts \in Seq(Nat) /\ Len(counts) = Len(entries)
    <2>1. \A i \in 1..Len(entries) : entries[i].count \in Nat
      <3>1. \A i \in 1..Len(entries) : entries[i] \in Entry
        BY ElementOfSeq
      <3> QED BY <3>1 DEF Entry
    <2>2. counts \in [1..Len(entries) -> Nat]
      BY <2>1
    <2> HIDE DEF counts
    <2> QED BY <2>2
  <1>2. Counted(entries) = Total(counts)
    BY DEF Counted
  <1>3. ASSUME NEW e \in Entry
        PROVE  Counted(Append(entries, e)) = Counted(entries) + e.count
    <2> DEFINE longer == Append(entries, e)
               more == [i \in DOMAIN longer |-> longer[i].count]
    <2>1. e.count \in Nat
      BY DEF Entry
    <2>2. /\ Len(entries) \in Nat /\ DOMAIN longer = 1..(Len(entries) + 1)
          /\ longer[Len(entries) + 1] = e
          /\ \A i \in 1..Len(entries) : longer[i] = entries[i]
      OBVIOUS
    <2>3. more = Append(counts, e.count)
      <3>1. /\ Append(counts, e.count) \in [1..(Len(entries) + 1) -> Nat]
            /\ Append(counts, e.count)[Len(entries) + 1] = e.count
            /\ \A i \in 1..Len(entries) : Append(counts, e.count)[i] = counts[i]
        <4> HIDE DEF counts
        <4>1. /\ Append(counts, e.count) \in Seq(Nat)
              /\ Len(Append(counts, e.count)) = Len(entries) + 1
              /\ Append(counts, e.count)[Len(entries) + 1] = e.count
              /\ \A i \in 1..Len(entries) : Append(counts, e.count)[i] = counts[i]
          BY <1>1, <2>1, AppendProperties
        <4> QED BY <4>1, LenProperties
      <3>2. \A i \in 1..Len(entries) : counts[i] = entries[i].count
        OBVIOUS
      <3>3. \A i \in 1..(Len(entries) + 1) : i \in 1..Len(entries) \/ i = Len(entries) + 1
        BY <2>2
      <3>4. more = [i \in 1..(Len(entries) + 1) |-> longer[i].count]
        BY <2>2
      <3>5. \A i \in 1..(Len(entries) + 1) : longer[i].count = Append(counts, e.count)[i]
        <4> HIDE DEF longer, counts
        <4> QED BY <2>2, <3>1, <3>2, <3>3
      <3> HIDE DEF more, longer, counts
      <3> QED BY <3>1, <3>4, <3>5
    <2>4. Counted(longer) = Total(more)
      BY DEF Counted
    <2> HIDE DEF more, longer, counts
    <2>5. Counted(longer) = Counted(entries) + e.count
      BY <1>1, <1>2, <2>1, <2>3, <2>4, TotalAppend
    <2> QED BY <2>5 DEF longer
  <1> HIDE DEF counts
  <1> QED BY <1>1, <1>2, <1>3, TotalType

\* The points of a filtered sequence are points of the sequence, those in range.
LEMMA FilteredPoints ==
  ASSUME NEW pts \in Seq(Record), NEW from, NEW to
  PROVE  /\ Filtered(pts, from, to) \in Seq(Record)
         /\ Range(Filtered(pts, from, to)) = {p \in Range(pts) : InRange(p, from, to)}
  <1> DEFINE T == {p \in Range(pts) : InRange(p, from, to)}
  <1>1. Filtered(pts, from, to) = Select(pts, T)
    BY DEF Filtered
  <1>2. Select(pts, T) \in Seq(Record)
    <2> HIDE DEF T
    <2> QED BY SelectType
  <1>3. Range(Select(pts, T)) = Range(pts) \cap T
    <2> HIDE DEF T
    <2> QED BY SelectRange
  <1> QED BY <1>1, <1>2, <1>3

\* The reader's own steps keep its types.
LEMMA ReaderStepInv ==
  ASSUME TypeInv, ReaderInv, Reader
  PROVE  ReaderInv'
  <1> USE DEF TypeInv, TypeOK
  <1>0. UNCHANGED vars /\ (Running' <=> Running)
    BY DEF Reader, FindChunks, ReadChunk, GetBufferedPoints, SkipChunk, LoadMeta, CountBuffered,
           Answered, vars, memVars, Running
  <1>1. ASSUME NEW s \in Series, NEW from \in Timestamps, NEW to \in Timestamps,
               FindChunks(s, from, to)
        PROVE  ReaderInv'
    <2> DEFINE hits == {e \in Range(index[s]) : Overlaps(e, from, to)}
               late == {p \in acked[s] : InRange(p, from, to)}
    <2>1. Select(index[s], hits) \in Seq(Entry)
      <3>1. index[s] \in Seq(Entry)
        OBVIOUS
      <3> HIDE DEF hits
      <3> QED BY <3>1, SelectType
    <2>2. Range(index[s]) \subseteq Entry
      BY EntryIdType
    <2>3. late \subseteq Point
      OBVIOUS
    <2>4. /\ query' = [step |-> "chunks", series |-> s, from |-> from, to |-> to,
                       files |-> Select(index[s], hits), got |-> <<>>, due |-> late,
                       seen |-> Range(index[s])]
          /\ Running
      BY <1>1 DEF FindChunks
    <2>5. <<>> \in Seq(Record)
      OBVIOUS
    <2> HIDE DEF hits, late
    <2>6. query' \in [step : {"chunks", "done"}, series : Series,
                      from : Timestamps, to : Timestamps, files : Seq(Entry),
                      got : Seq(Record), due : SUBSET Point, seen : SUBSET Entry]
      BY <2>1, <2>2, <2>3, <2>4, <2>5
    <2> QED BY <1>0, <2>4, <2>6 DEF ReaderInv
  <1>2. CASE ReadChunk \/ SkipChunk
    <2>1. query.step = "chunks" /\ query.files # <<>>
      BY <1>2 DEF ReadChunk, SkipChunk
    <2>2. Tail(query.files) \in Seq(Entry) /\ Head(query.files) \in Entry
      BY <2>1, ReaderFields
    <2>3. query.got \o chunks[query.series][Head(query.files).id] \in Seq(Record)
      <3>1. Head(query.files).id \in ChunkIDs /\ query.series \in Series
        BY <2>1, <2>2, ReaderFields DEF Entry
      <3>2. chunks[query.series][Head(query.files).id] \in Seq(Record)
        BY <3>1
      <3> QED BY <2>1, <3>2, ReaderFields
    <2>4. query' \in [step : {"chunks", "done"}, series : Series,
                      from : Timestamps, to : Timestamps, files : Seq(Entry),
                      got : Seq(Record), due : SUBSET Point, seen : SUBSET Entry]
      <3>1. CASE ReadChunk
        BY <2>1, <2>2, <2>3, <3>1, ReaderFields DEF ReadChunk
      <3>2. CASE SkipChunk
        BY <2>1, <2>2, <3>2, ReaderFields DEF SkipChunk
      <3> QED BY <1>2, <3>1, <3>2
    <2> QED BY <1>0, <2>1, <2>4, ReaderFields DEF ReaderInv
  <1>3. CASE GetBufferedPoints
    <2>1. query.step = "chunks"
      BY <1>3 DEF GetBufferedPoints
    <2>2. query.got \o buffer[query.series] \in Seq(Record)
      BY <2>1, ReaderFields
    <2>3. Filtered(query.got \o buffer[query.series], query.from, query.to) \in Seq(Record)
      BY <2>2, FilteredPoints
    <2>4. query' \in [step : {"chunks", "done"}, series : Series,
                      from : Timestamps, to : Timestamps, files : Seq(Entry),
                      got : Seq(Record), due : SUBSET Point, seen : SUBSET Entry]
      BY <1>3, <2>1, <2>3, ReaderFields DEF GetBufferedPoints
    <2> QED BY <1>0, <2>1, <2>4, ReaderFields DEF ReaderInv
  <1>4. ASSUME NEW s \in Series, LoadMeta(s)
        PROVE  ReaderInv'
    <2>1. Counted(index[s]) \in Nat
      BY CountedAppend
    <2> QED BY <1>0, <1>4, <2>1 DEF LoadMeta, ReaderInv
  <1>5. CASE CountBuffered
    <2>1. query.step = "meta" /\ query.count + Len(buffer[query.series]) \in Nat
      <3>1. query.step = "meta" /\ query.series \in Series /\ query.count \in Nat
        BY <1>5, ReaderFields DEF CountBuffered
      <3>2. Len(buffer[query.series]) \in Nat
        BY <3>1
      <3> QED BY <3>1, <3>2
    <2>2. query' \in [step : {"meta", "metaDone"}, series : Series, count : Nat]
      BY <1>5, <2>1, ReaderFields DEF CountBuffered
    <2> QED BY <1>0, <2>1, <2>2, ReaderFields DEF ReaderInv
  <1>6. CASE Answered
    BY <1>6 DEF Answered, ReaderInv
  <1> QED BY <1>1, <1>2, <1>3, <1>4, <1>5, <1>6 DEF Reader

\* Every step keeps the reader's types.
LEMMA NextReaderInv ==
  ASSUME TypeInv, LockInv, RotationInv, ReaderInv, [QueryNext]_qvars
  PROVE  ReaderInv'
  <1>1. CASE Reader
    BY <1>1, ReaderStepInv
  <1>2. CASE Next /\ query' = IF opened' = {} THEN Idle ELSE query
    BY <1>2, WriterCases, RunningStep DEF ReaderInv
  <1>3. CASE UNCHANGED qvars
    BY <1>3 DEF qvars, vars, memVars, ReaderInv, Running
  <1> QED BY <1>1, <1>2, <1>3 DEF QueryNext

\* Every step of a query is a step of the store, or none.
LEMMA QueryStoreStep == [QueryNext]_qvars => [Next]_vars
  BY DEF QueryNext, qvars, Reader, FindChunks, ReadChunk, GetBufferedPoints, SkipChunk,
         LoadMeta, CountBuffered, Answered

\* What a step that publishes nothing of a series does to its buffer.
LEMMA ClearsOrGrows ==
  ASSUME TypeInv, Running, Next, opened' # {}, NEW t \in Series, ~SwapIndex(t)
  PROVE  \/ phase[t] = "clear" /\ buffer'[t] = <<>>
         \/ phase[t] = "clear" /\ phase'[t] = "clear"
         \/ phase[t] # "clear" /\ phase'[t] # "clear" /\ buffer'[t] = buffer[t]
         \/ /\ phase[t] # "clear" /\ phase'[t] # "clear"
            /\ \E p \in Record : buffer'[t] = Append(buffer[t], p)
  <1> USE DEF TypeInv, TypeOK
  <1>1. CASE Crash
    BY <1>1 DEF Crash
  <1>2. ASSUME NEW s \in Series, NEW p \in Point,
               AppendWAL(s, p) \/ \E n \in 0..2 : AppendWALFails(s, p, n)
        PROVE  buffer' = buffer /\ (phase'[t] = "clear" <=> phase[t] = "clear")
    BY <1>2 DEF AppendWAL, AppendWALFails, Submit, CanStart, memVars
  <1>3. ASSUME NEW s \in Series, BufferPoint(s)
        PROVE  \/ buffer'[t] = buffer[t] /\ (phase'[t] = "clear" <=> phase[t] = "clear")
               \/ /\ phase[t] # "clear" /\ phase'[t] # "clear"
                  /\ \E p \in Record : buffer'[t] = Append(buffer[t], p)
    <2>1. PICK p \in inflight[s] : buffer' = [buffer EXCEPT ![s] = Append(buffer[s], p)]
      BY <1>3 DEF BufferPoint
    <2>2. phase[s] = "logged" /\ phase'[s] \in {"free", "rotate"}
      BY <1>3 DEF BufferPoint, Return
    <2>3. \A u \in Series : u # s => phase'[u] = phase[u]
      BY <1>3 DEF BufferPoint, Return
    <2>4. p \in Record
      BY PointType
    <2> QED BY <2>1, <2>2, <2>3, <2>4
  <1>4. ASSUME NEW s \in Series,
               \/ FlushSeries(s) \/ FlushEmpty(s) \/ WriteChunk(s) \/ WriteChunkFails(s)
               \/ LockIndex(s) \/ WriteIndexFile(s) \/ WriteIndexFileFails(s) \/ LoseIndex(s)
               \/ TruncateWAL(s)
        PROVE  buffer' = buffer /\ (phase'[t] = "clear" <=> phase[t] = "clear")
    <2>1. CASE FlushSeries(s) \/ FlushEmpty(s) \/ WriteChunk(s) \/ WriteChunkFails(s)
      BY <2>1 DEF FlushSeries, FlushEmpty, CanStart, WriteChunk, WriteChunkFails, Return, vars, memVars
    <2>2. CASE LockIndex(s) \/ WriteIndexFile(s) \/ WriteIndexFileFails(s)
      BY <2>2 DEF LockIndex, WriteIndexFile, WriteIndexFileFails, Return
    <2>3. CASE LoseIndex(s) \/ TruncateWAL(s)
      BY <2>3 DEF LoseIndex, TruncateWAL, Return, memVars
    <2> QED BY <1>4, <2>1, <2>2, <2>3
  <1>5. ASSUME NEW s \in Series, ClearBuffer(s)
        PROVE  \/ phase[t] = "clear" /\ buffer'[t] = <<>>
               \/ buffer'[t] = buffer[t] /\ (phase'[t] = "clear" <=> phase[t] = "clear")
    BY <1>5 DEF ClearBuffer
  <1>6. ASSUME NEW s \in Series, SwapIndex(s)
        PROVE  buffer' = buffer /\ (phase'[t] = "clear" <=> phase[t] = "clear")
    BY <1>6 DEF SwapIndex
  <1>7. ASSUME NEW s \in Series, RecoverSeries(s) \/ SkipSeries(s)
        PROVE  FALSE
    BY <1>7, RecoverSeriesStep DEF SkipSeries, Running
  <1> QED BY <1>1, <1>2, <1>3, <1>4, <1>5, <1>6, <1>7, NextCases

\* Every step keeps CountInv.
LEMMA NextCountInv ==
  ASSUME TypeInv, LockInv, RotationInv, ReaderInv, CountInv, [QueryNext]_qvars
  PROVE  CountInv'
  <1> USE DEF TypeInv, TypeOK
  <1> DEFINE s == query.series
             Bound == IF phase[s] = "clear" THEN 0 ELSE Len(buffer[s])
  <1>0. /\ \A t \in Series : Counted(index[t]) \in Nat /\ Len(buffer[t]) \in Nat
        /\ \A t \in Series : index[t] \in Seq(Entry)
    <2>1. \A t \in Series : index[t] \in Seq(Entry) /\ buffer[t] \in Seq(Record)
      OBVIOUS
    <2> QED BY <2>1, CountedAppend
  <1>1. CASE UNCHANGED qvars
    BY <1>1 DEF qvars, vars, memVars, CountInv
  <1>2. CASE Reader
    <2>1. UNCHANGED <<index, phase, buffer>>
      BY <1>2 DEF Reader, FindChunks, ReadChunk, GetBufferedPoints, SkipChunk, LoadMeta,
                  CountBuffered, Answered, vars, memVars
    <2>2. ASSUME NEW t \in Series, LoadMeta(t)
          PROVE  CountInv'
      <3>1. query' = [step |-> "meta", series |-> t, count |-> Counted(index[t])]
        BY <2>2 DEF LoadMeta
      <3>2. query'.step = "meta" /\ query'.count = Counted(index[t]) /\ query'.series = t
        BY <3>1
      <3> QED BY <1>0, <2>1, <3>2 DEF CountInv
    <2>3. CASE CountBuffered
      <3>1. query.step = "meta" /\ s \in Series /\ query.count \in Nat /\ phase[s] = "free"
        BY <2>3, ReaderFields DEF CountBuffered
      <3>2. /\ query'.step = "metaDone" /\ query'.series = s
            /\ query'.count = query.count + Len(buffer[s])
        BY <2>3, <3>1, ReaderFields DEF CountBuffered
      <3>3. query.count <= Counted(index[s])
        BY <3>1 DEF CountInv
      <3>4. query.count + Len(buffer[s]) <= Counted(index[s]) + Len(buffer[s])
        BY <1>0, <3>1, <3>3
      <3> QED BY <2>1, <3>1, <3>2, <3>4 DEF CountInv
    <2>4. ASSUME Reader, ~CountBuffered, \A t \in Series : ~LoadMeta(t)
          PROVE  query'.step \notin {"meta", "metaDone"}
      <3>1. ASSUME NEW t \in Series, NEW from, NEW to, FindChunks(t, from, to)
            PROVE  query'.step = "chunks"
        BY <3>1 DEF FindChunks
      <3>2. CASE ReadChunk \/ SkipChunk \/ GetBufferedPoints
        <4>1. query.step = "chunks"
          BY <3>2 DEF ReadChunk, SkipChunk, GetBufferedPoints
        <4>2. query \in [step : {"chunks", "done"}, series : Series,
                         from : Timestamps, to : Timestamps, files : Seq(Entry),
                         got : Seq(Record), due : SUBSET Point, seen : SUBSET Entry]
          BY <4>1, ReaderFields
        <4> QED BY <3>2, <4>1, <4>2 DEF ReadChunk, SkipChunk, GetBufferedPoints
      <3>3. CASE Answered
        BY <3>3 DEF Answered, Idle
      <3> QED BY <2>4, <3>1, <3>2, <3>3 DEF Reader
    <2> QED BY <1>2, <2>2, <2>3, <2>4 DEF CountInv
  <1>3. CASE Next /\ query' = IF opened' = {} THEN Idle ELSE query
    <2>1. CASE query' = Idle
      BY <2>1 DEF CountInv, Idle
    <2>2. CASE query' = query /\ query # Idle /\ Running /\ opened' # {}
      <3> SUFFICES ASSUME query.step \in {"meta", "metaDone"}
                   PROVE  CountInv'
        BY <2>2 DEF CountInv
      <3>1. s \in Series /\ query.count \in Nat
        BY ReaderFields
      <3>2. CASE SwapIndex(s)
        <4>1. /\ phase[s] = "swap" /\ phase'[s] = "clear" /\ buffer' = buffer
              /\ index'[s] = Append(index[s], EntryOf(nextID[s], buffer[s]))
          <5>1. phase[s] = "swap" /\ phase'[s] = "clear" /\ buffer' = buffer /\ index' = newIdx[s]
            BY <3>1, <3>2 DEF SwapIndex
          <5>2. newIdx[s] = WithEntry(s)
            BY <3>1, <5>1 DEF RotationInv
          <5> QED BY <3>1, <5>1, <5>2 DEF WithEntry
        <4>2. /\ EntryOf(nextID[s], buffer[s]) \in Entry
              /\ EntryOf(nextID[s], buffer[s]).count = Len(buffer[s])
          <5>1. nextID[s] \in ChunkIDs /\ buffer[s] # <<>> /\ buffer[s] \in Seq(Record)
            BY <3>1, <4>1 DEF BoundsInv
          <5> QED BY <5>1, EntryOfType DEF EntryOf
        <4>3. Counted(index'[s]) = Counted(index[s]) + Len(buffer[s])
          BY <1>0, <3>1, <4>1, <4>2, CountedAppend
        <4>4. /\ query.step = "meta" => query.count <= Counted(index[s])
              /\ query.step = "metaDone" => query.count <= Counted(index[s]) + Len(buffer[s])
          BY <4>1 DEF CountInv
        <4>5. Counted(index[s]) \in Nat /\ Len(buffer[s]) \in Nat
          BY <1>0, <3>1
        <4>6. query.count <= Counted(index'[s])
          BY <3>1, <4>3, <4>4, <4>5
        <4>7. Counted(index'[s]) \in Nat
          BY <4>3, <4>5
        <4>8. query.count <= Counted(index'[s]) + 0
          BY <3>1, <4>6, <4>7
        <4> QED BY <2>2, <4>1, <4>6, <4>8 DEF CountInv
      <3>3. CASE ~SwapIndex(s)
        <4>1. index'[s] = index[s]
          BY <1>3, <2>2, <3>1, <3>3, RunningStep
        <4>2. \/ phase[s] = "clear" /\ buffer'[s] = <<>>
              \/ phase[s] = "clear" /\ phase'[s] = "clear"
              \/ phase[s] # "clear" /\ phase'[s] # "clear" /\ buffer'[s] = buffer[s]
              \/ /\ phase[s] # "clear" /\ phase'[s] # "clear"
                 /\ \E p \in Record : buffer'[s] = Append(buffer[s], p)
          BY <1>3, <2>2, <3>1, <3>3, ClearsOrGrows
        <4>3. Len(buffer[s]) \in Nat /\ Len(<<>>) = 0
          BY <1>0, <3>1
        <4>4. ASSUME NEW p \in Record, buffer'[s] = Append(buffer[s], p)
              PROVE  Len(buffer'[s]) = Len(buffer[s]) + 1
          BY <3>1, <4>4
        <4>5. Counted(index[s]) \in Nat
          BY <1>0, <3>1
        <4>6. CASE query.step = "meta"
          BY <2>2, <4>1, <4>6 DEF CountInv
        <4>7. CASE query.step = "metaDone"
          <5>1. query.count <= Counted(index[s]) + Bound
            BY <4>7 DEF CountInv
          <5>2. Bound \in Nat /\ Bound' \in Nat /\ Bound <= Bound'
            <6>1. Bound' = IF phase'[s] = "clear" THEN 0 ELSE Len(buffer'[s])
              BY <2>2
            <6>2. \A a \in Nat : 0 <= a /\ a <= a /\ a <= a + 1 /\ a + 1 \in Nat
              OBVIOUS
            <6>3. CASE phase[s] = "clear"
              BY <4>2, <4>3, <6>1, <6>2, <6>3
            <6>4. CASE phase[s] # "clear"
              BY <4>2, <4>3, <4>4, <6>1, <6>2, <6>4
            <6> QED BY <6>3, <6>4
          <5> HIDE DEF Bound
          <5>3. query.count <= Counted(index[s]) + Bound'
            BY <3>1, <4>5, <5>1, <5>2
          <5> QED BY <2>2, <4>1, <4>7, <5>3 DEF CountInv, Bound
        <4> QED BY <4>6, <4>7
      <3> QED BY <3>2, <3>3
    <2> QED BY <1>3, <2>1, <2>2, WriterCases
  <1> QED BY <1>1, <1>2, <1>3 DEF QueryNext

\* The point count that is reported never exceeds the points the store holds,
\* whatever fails and whatever the order of the writes.
THEOREM MetaBounded == QuerySpec => []MetaNeverOvercounts
  <1> DEFINE I == TypeInv /\ LockInv /\ RotationInv /\ ReaderInv /\ CountInv
  <1>1. QueryInit => I
    BY InitConsistencyInv DEF QueryInit, ConsistencyInv, ReaderInv, CountInv, Idle
  <1>2. I /\ [QueryNext]_qvars => I'
    BY QueryStoreStep, NextTypeInv, NextLockInv, NextRotationInv, NextReaderInv, NextCountInv
  <1>3. I => MetaNeverOvercounts
    <2> SUFFICES ASSUME I, query.step = "metaDone"
                 PROVE  query.count <= Counted(index[query.series]) + Len(buffer[query.series])
      BY DEF MetaNeverOvercounts
    <2>1. query.series \in Series /\ query.count \in Nat
      BY ReaderFields
    <2>2. index[query.series] \in Seq(Entry) /\ Len(buffer[query.series]) \in Nat
      BY <2>1 DEF TypeInv, TypeOK
    <2>3. Counted(index[query.series]) \in Nat
      BY <2>2, CountedAppend
    <2> QED BY <2>1, <2>2, <2>3 DEF CountInv
  <1> HIDE DEF I
  <1> QED BY <1>1, <1>2, <1>3, PTL DEF QuerySpec
-----------------------------------------------------------------------------
(* Queries *)

\* A sequence is its head and its tail; without repetitions the head is not in
\* the tail, which has none either.
LEMMA HeadAndTail ==
  ASSUME NEW S, NEW seq \in Seq(S), seq # <<>>
  PROVE  /\ Head(seq) \in S /\ Range(seq) = {Head(seq)} \cup Range(Tail(seq))
         /\ (\A i, j \in DOMAIN seq : seq[i] = seq[j] => i = j) =>
              /\ Head(seq) \notin Range(Tail(seq))
              /\ \A i, j \in DOMAIN Tail(seq) : Tail(seq)[i] = Tail(seq)[j] => i = j
  <1> DEFINE n == Len(seq)
             rest == Tail(seq)
  <1>1. n \in Nat /\ n >= 1 /\ DOMAIN seq = 1..n /\ Head(seq) = seq[1] /\ Head(seq) \in S
    OBVIOUS
  <1>2. DOMAIN rest = 1..(n - 1) /\ \A i \in 1..(n - 1) : rest[i] = seq[i + 1]
    OBVIOUS
  <1>3. /\ 1 \in 1..n /\ \A i \in 1..(n - 1) : i + 1 \in 1..n /\ i + 1 # 1
        /\ \A i \in 1..n : i = 1 \/ (i - 1 \in 1..(n - 1) /\ (i - 1) + 1 = i)
        /\ \A i, j \in 1..(n - 1) : i + 1 = j + 1 => i = j
    BY <1>1
  <1> HIDE DEF n, rest
  <1>4. Range(seq) = {Head(seq)} \cup Range(rest)
    <2>1. \A i \in 1..(n - 1) : rest[i] = seq[i + 1] /\ i + 1 \in DOMAIN seq
      BY <1>1, <1>2, <1>3
    <2>2. Range(rest) \subseteq Range(seq) /\ Head(seq) \in Range(seq)
      <3>1. 1 \in DOMAIN seq /\ Head(seq) = seq[1]
        BY <1>1, <1>3
      <3>2. \A x \in Range(rest) : x \in Range(seq)
        BY <1>2, <2>1, Zenon DEF Range
      <3> QED BY <3>1, <3>2, Zenon DEF Range
    <2>3. \A i \in 1..n : seq[i] = Head(seq) \/ seq[i] \in Range(rest)
      <3> TAKE i \in 1..n
      <3>1. CASE i - 1 \in DOMAIN rest /\ rest[i - 1] = seq[i]
        BY <3>1 DEF Range
      <3>2. i = 1 \/ (i - 1 \in DOMAIN rest /\ rest[i - 1] = seq[(i - 1) + 1])
        BY <1>2, <1>3
      <3>3. i = 1 \/ (i - 1) + 1 = i
        BY <1>3
      <3> QED BY <1>1, <3>1, <3>2, <3>3
    <2> QED BY <1>1, <2>2, <2>3 DEF Range
  <1>5. ASSUME \A i, j \in DOMAIN seq : seq[i] = seq[j] => i = j
        PROVE  /\ Head(seq) \notin Range(rest)
               /\ \A i, j \in DOMAIN rest : rest[i] = rest[j] => i = j
    <2>1. Head(seq) \notin Range(rest)
      BY <1>1, <1>2, <1>3, <1>5 DEF Range
    <2>2. \A i, j \in DOMAIN rest : rest[i] = rest[j] => i = j
      <3> TAKE i, j \in DOMAIN rest
      <3>1. /\ i + 1 \in DOMAIN seq /\ j + 1 \in DOMAIN seq
            /\ rest[i] = seq[i + 1] /\ rest[j] = seq[j + 1]
        BY <1>1, <1>2, <1>3
      <3>2. i + 1 = j + 1 => i = j
        BY <1>2, <1>3
      <3> QED BY <1>5, <3>1, <3>2
    <2> QED BY <2>1, <2>2
  <1> QED BY <1>1, <1>4, <1>5 DEF rest

\* What is in a concatenation, and in which positions.
LEMMA ConcatPoints ==
  ASSUME NEW p \in Seq(Record), NEW q \in Seq(Record)
  PROVE  /\ p \o q \in Seq(Record)
         /\ Range(p \o q) = Range(p) \cup Range(q)
         /\ FreshOnce(p) /\ FreshOnce(q) /\ (\A x \in Range(p) : Fresh(x) => x \notin Range(q))
              => FreshOnce(p \o q)
  <1> DEFINE m == Len(p)
             n == Len(q)
             both == p \o q
  <1>1. m \in Nat /\ n \in Nat /\ DOMAIN p = 1..m /\ DOMAIN q = 1..n
    OBVIOUS
  <1>2. /\ both \in Seq(Record) /\ DOMAIN both = 1..(m + n)
        /\ \A i \in 1..(m + n) : both[i] = IF i <= m THEN p[i] ELSE q[i - m]
    <2>1. both \in Seq(Record) /\ Len(both) = m + n
          /\ \A i \in 1..(m + n) : both[i] = IF i <= m THEN p[i] ELSE q[i - m]
      BY ConcatProperties, Zenon
    <2>2. DOMAIN both = 1..Len(both)
      BY <2>1, LenProperties
    <2> QED BY <2>1, <2>2
  <1>3. /\ \A i \in 1..m : i \in 1..(m + n) /\ i <= m
        /\ \A i \in 1..n : i + m \in 1..(m + n) /\ ~(i + m <= m) /\ (i + m) - m = i
        /\ \A i \in 1..(m + n) : \/ i \in 1..m /\ i <= m
                                 \/ i - m \in 1..n /\ ~(i <= m)
        /\ \A i, j \in 1..(m + n) : i - m = j - m => i = j
    BY <1>1
  <1> HIDE DEF m, n, both
  <1>4. Range(both) = Range(p) \cup Range(q)
    <2>1. \A i \in 1..(m + n) : both[i] \in Range(p) \cup Range(q)
      <3> TAKE i \in 1..(m + n)
      <3>1. (i \in DOMAIN p /\ both[i] = p[i]) \/ (i - m \in DOMAIN q /\ both[i] = q[i - m])
        BY <1>1, <1>2, <1>3
      <3> QED BY <3>1, Zenon DEF Range
    <2>2. \A i \in 1..m : p[i] \in Range(both)
      BY <1>1, <1>2, <1>3 DEF Range
    <2>3. \A i \in 1..n : q[i] \in Range(both)
      <3> TAKE i \in 1..n
      <3>1. both[i + m] = q[i] /\ i + m \in DOMAIN both
        BY <1>2, <1>3
      <3> QED BY <3>1 DEF Range
    <2> QED BY <1>1, <1>2, <2>1, <2>2, <2>3 DEF Range
  <1>5. ASSUME FreshOnce(p), FreshOnce(q), \A x \in Range(p) : Fresh(x) => x \notin Range(q),
               NEW i \in 1..(m + n), NEW j \in 1..(m + n), both[i] = both[j], Fresh(both[i])
        PROVE  i = j
    <2>1. CASE i <= m /\ j <= m
      <3>1. i \in DOMAIN p /\ j \in DOMAIN p /\ both[i] = p[i] /\ both[j] = p[j]
        BY <1>1, <1>2, <1>3, <2>1
      <3> QED BY <1>5, <3>1 DEF FreshOnce
    <2>2. CASE ~(i <= m) /\ ~(j <= m)
      <3>1. i - m \in 1..n /\ j - m \in 1..n /\ both[i] = q[i - m] /\ both[j] = q[j - m]
        BY <1>2, <1>3, <2>2
      <3>2. i - m = j - m
        BY <1>1, <1>5, <3>1 DEF FreshOnce
      <3> QED BY <1>3, <3>2
    <2>3. CASE i <= m /\ ~(j <= m)
      <3>1. i \in DOMAIN p /\ both[i] = p[i] /\ j - m \in DOMAIN q /\ both[j] = q[j - m]
        BY <1>1, <1>2, <1>3, <2>3
      <3>2. both[i] \in Range(p) /\ both[j] \in Range(q)
        BY <3>1, Zenon DEF Range
      <3> QED BY <1>5, <3>2
    <2>4. CASE ~(i <= m) /\ j <= m
      <3>1. j \in DOMAIN p /\ both[j] = p[j] /\ i - m \in DOMAIN q /\ both[i] = q[i - m]
        BY <1>1, <1>2, <1>3, <2>4
      <3>2. both[j] \in Range(p) /\ both[i] \in Range(q)
        BY <3>1, Zenon DEF Range
      <3> QED BY <1>5, <3>2
    <2> QED BY <2>1, <2>2, <2>3, <2>4
  <1>6. FreshOnce(p) /\ FreshOnce(q) /\ (\A x \in Range(p) : Fresh(x) => x \notin Range(q))
          => FreshOnce(both)
    BY <1>2, <1>5 DEF FreshOnce
  <1> QED BY <1>2, <1>4, <1>6 DEF both

\* While the store is up its index only grows, and what it names stays as it is.
LEMMA IndexGrows ==
  ASSUME ConsistencyInv, Running, Next, opened' # {}, NEW t \in Series
  PROVE  /\ bootSerial' = bootSerial /\ acked[t] \subseteq acked'[t]
         /\ Range(index[t]) \subseteq Range(index'[t])
         /\ \A e \in Range(index[t]) : chunks'[t][e.id] = chunks[t][e.id]
  <1>1. TypeInv /\ LockInv /\ RotationInv
    BY DEF ConsistencyInv
  <1>2. \A e \in Range(index[t]) : chunks'[t][e.id] = chunks[t][e.id]
    BY IndexedChunksKept
  <1>3. ASSUME SwapIndex(t), index'[t] = Append(index[t], EntryOf(nextID[t], buffer[t]))
        PROVE  Range(index[t]) \subseteq Range(index'[t])
    <2>1. phase[t] = "swap"
      BY <1>3 DEF SwapIndex
    <2>2. EntryOf(nextID[t], buffer[t]) \in Entry /\ index[t] \in Seq(Entry)
      BY <1>1, <2>1, EntryOfType DEF TypeInv, TypeOK, BoundsInv
    <2> QED BY <1>3, <2>2, RangeAppend
  <1>4. Range(index[t]) \subseteq Range(index'[t])
    BY <1>1, <1>3, RunningStep
  <1> QED BY <1>1, <1>2, <1>4, RunningStep

\* What the invariants of queries rest on.
QueryBase == OnceBase /\ ReaderInv /\ FilesInv

\* What FindChunks hands to the reader.
LEMMA FindStep ==
  ASSUME OnceBase, NEW s \in Series, NEW from \in Timestamps, NEW to \in Timestamps,
         FindChunks(s, from, to)
  PROVE  /\ UNCHANGED vars
         /\ query'.step = "chunks" /\ query'.series = s /\ query'.from = from /\ query'.to = to
         /\ query'.got = <<>> /\ query'.seen = Range(index[s])
         /\ query'.due = {p \in acked[s] : InRange(p, from, to)}
         /\ Range(query'.files) = {e \in Range(index[s]) : Overlaps(e, from, to)}
         /\ \A i, j \in DOMAIN query'.files : query'.files[i] = query'.files[j] => i = j
  <1> DEFINE hits == {e \in Range(index[s]) : Overlaps(e, from, to)}
             late == {p \in acked[s] : InRange(p, from, to)}
             picked == Select(index[s], hits)
  <1>1. query' = [step |-> "chunks", series |-> s, from |-> from, to |-> to,
                  files |-> picked, got |-> <<>>, due |-> late, seen |-> Range(index[s])]
    BY DEF FindChunks
  <1>2. index[s] \in Seq(Entry)
    BY DEF OnceBase, ConsistencyInv, TypeInv, TypeOK
  <1>3. DistinctIDs(index[s])
    BY OnceBySeries DEF OnceBase, SeriesOnce
  <1>4. picked \in Seq(Entry) /\ Range(picked) = Range(index[s]) \cap hits
    <2> HIDE DEF hits
    <2> QED BY <1>2, SelectType, SelectRange
  <1>5. \A i, j \in DOMAIN picked : picked[i] = picked[j] => i = j
    <2>1. \A i, j \in 1..Len(index[s]) :
             index[s][i] = index[s][j] /\ index[s][i] \in Entry => i = j
      BY <1>2, <1>3 DEF DistinctIDs
    <2> HIDE DEF hits
    <2>2. \A i, j \in 1..Len(picked) : picked[i] = picked[j] /\ picked[i] \in Entry => i = j
      BY <1>2, <2>1, SelectDistinct
    <2> HIDE DEF picked
    <2>3. DOMAIN picked = 1..Len(picked) /\ \A i \in 1..Len(picked) : picked[i] \in Entry
      BY <1>4
    <2> QED BY <2>2, <2>3
  <1>6. Range(picked) = hits
    BY <1>4
  <1>7. UNCHANGED vars
    BY DEF FindChunks
  <1> HIDE DEF hits, late, picked
  <1>8. /\ query'.step = "chunks" /\ query'.series = s /\ query'.from = from /\ query'.to = to
        /\ query'.got = <<>> /\ query'.seen = Range(index[s])
        /\ query'.due = late /\ query'.files = picked
    BY <1>1
  <1> QED BY <1>5, <1>6, <1>7, <1>8 DEF hits, late

\* What the reader keeps, and gains, when it reads the next chunk or skips it.
LEMMA FileStep ==
  ASSUME ReaderInv, ReadChunk \/ SkipChunk
  PROVE  /\ UNCHANGED vars /\ query.step = "chunks" /\ query'.step = "chunks"
         /\ query.files # <<>> /\ query'.files = Tail(query.files)
         /\ query'.series = query.series /\ query'.from = query.from
         /\ query'.to = query.to /\ query'.due = query.due
         /\ \/ /\ query'.seen = query.seen
               /\ query'.got = query.got \o chunks[query.series][Head(query.files).id]
            \/ /\ query'.seen = query.seen \ {Head(query.files)}
               /\ query'.got = query.got
  <1>1. query.step = "chunks" /\ query.files # <<>> /\ UNCHANGED vars
    BY DEF ReadChunk, SkipChunk
  <1>2. query \in [step : {"chunks", "done"}, series : Series,
                   from : Timestamps, to : Timestamps, files : Seq(Entry),
                   got : Seq(Record), due : SUBSET Point, seen : SUBSET Entry]
    BY <1>1, ReaderFields
  <1>3. CASE ReadChunk
    <2> DEFINE more == query.got \o chunks[query.series][Head(query.files).id]
    <2>1. query' = [query EXCEPT !.files = Tail(query.files), !.got = more]
      BY <1>3 DEF ReadChunk
    <2> HIDE DEF more
    <2>2. /\ query'.step = query.step /\ query'.files = Tail(query.files)
          /\ query'.series = query.series /\ query'.from = query.from
          /\ query'.to = query.to /\ query'.due = query.due
          /\ query'.seen = query.seen /\ query'.got = more
      BY <1>2, <2>1
    <2> QED BY <1>1, <2>2 DEF more
  <1>4. CASE SkipChunk
    <2> DEFINE fewer == query.seen \ {Head(query.files)}
    <2>1. query' = [query EXCEPT !.files = Tail(query.files), !.seen = fewer]
      BY <1>4 DEF SkipChunk
    <2> HIDE DEF fewer
    <2>2. /\ query'.step = query.step /\ query'.files = Tail(query.files)
          /\ query'.series = query.series /\ query'.from = query.from
          /\ query'.to = query.to /\ query'.due = query.due
          /\ query'.seen = fewer /\ query'.got = query.got
      BY <1>2, <2>1
    <2> QED BY <1>1, <2>2 DEF fewer
  <1> QED BY <1>3, <1>4, Zenon

\* What it returns once it has looked at the buffer.
LEMMA BufferStep ==
  ASSUME ReaderInv, GetBufferedPoints
  PROVE  /\ UNCHANGED vars /\ query.step = "chunks" /\ query'.step = "done"
         /\ query.files = <<>> /\ phase[query.series] = "free"
         /\ query'.series = query.series /\ query'.due = query.due
         /\ query'.seen = query.seen
         /\ query'.got = Filtered(query.got \o buffer[query.series], query.from, query.to)
  <1>1. query.step = "chunks"
    BY DEF GetBufferedPoints
  <1>2. query \in [step : {"chunks", "done"}, series : Series,
                   from : Timestamps, to : Timestamps, files : Seq(Entry),
                   got : Seq(Record), due : SUBSET Point, seen : SUBSET Entry]
    BY <1>1, ReaderFields
  <1>3. query' = [query EXCEPT !.step = "done",
                    !.got = Filtered(@ \o buffer[query.series], query.from, query.to)]
    BY DEF GetBufferedPoints
  <1> QED BY <1>1, <1>2, <1>3 DEF GetBufferedPoints

\* The steps that matter to a query.
LEMMA QueryCases ==
  ASSUME ReaderInv, [QueryNext]_qvars
  PROVE  \/ UNCHANGED vars /\ UNCHANGED query
         \/ query'.step \notin {"chunks", "done"}
         \/ \E s \in Series, from, to \in Timestamps : FindChunks(s, from, to)
         \/ ReadChunk \/ SkipChunk
         \/ GetBufferedPoints
         \/ Next /\ query' = query /\ query # Idle /\ Running /\ opened' # {}
  <1>1. CASE UNCHANGED qvars
    BY <1>1 DEF qvars
  <1>2. CASE Next /\ query' = IF opened' = {} THEN Idle ELSE query
    BY <1>2, WriterCases DEF Idle
  <1>3. CASE Reader
    <2>1. ASSUME NEW s, LoadMeta(s) PROVE query'.step = "meta"
      BY <2>1 DEF LoadMeta
    <2>2. ASSUME CountBuffered PROVE query'.step = "metaDone"
      BY <2>2, ReaderFields DEF CountBuffered
    <2>3. ASSUME Answered PROVE query'.step = "idle"
      BY <2>3 DEF Answered, Idle
    <2> QED BY <1>3, <2>1, <2>2, <2>3 DEF Reader
  <1> QED BY <1>1, <1>2, <1>3 DEF QueryNext

\* Every step keeps FilesInv.
LEMMA NextFilesInv ==
  ASSUME OnceBase, ReaderInv, FilesInv, [QueryNext]_qvars
  PROVE  FilesInv'
  <1>1. CASE UNCHANGED vars /\ UNCHANGED query
    BY <1>1 DEF vars, memVars, FilesInv
  <1>2. CASE query'.step \notin {"chunks", "done"}
    BY <1>2 DEF FilesInv
  <1>3. ASSUME NEW s \in Series, NEW from \in Timestamps, NEW to \in Timestamps,
               FindChunks(s, from, to)
        PROVE  FilesInv'
    BY <1>3, FindStep DEF FilesInv, vars, memVars
  <1>4. CASE ReadChunk \/ SkipChunk
    <2>1. query.files \in Seq(Entry) /\ query.files # <<>>
      BY <1>4, FileStep, ReaderFields
    <2>2. /\ Range(Tail(query.files)) \subseteq Range(query.files)
          /\ \A i, j \in DOMAIN Tail(query.files) :
               Tail(query.files)[i] = Tail(query.files)[j] => i = j
      <3>1. \A i, j \in DOMAIN query.files : query.files[i] = query.files[j] => i = j
        BY <1>4, FileStep DEF FilesInv
      <3> DEFINE files == query.files
      <3> HIDE DEF files
      <3>2. files \in Seq(Entry) /\ files # <<>>
        BY <2>1 DEF files
      <3>3. /\ Range(Tail(files)) \subseteq Range(files)
            /\ (\A i, j \in DOMAIN files : files[i] = files[j] => i = j) =>
                 \A i, j \in DOMAIN Tail(files) : Tail(files)[i] = Tail(files)[j] => i = j
        BY <3>2, HeadAndTail
      <3> QED BY <3>1, <3>3 DEF files
    <2>3. index' = index /\ query'.seen \subseteq query.seen
      BY <1>4, FileStep DEF vars, memVars
    <2> QED BY <1>4, <2>2, <2>3, FileStep DEF FilesInv
  <1>5. CASE GetBufferedPoints
    BY <1>5, BufferStep DEF FilesInv
  <1>6. CASE Next /\ query' = query /\ query # Idle /\ Running /\ opened' # {}
    BY <1>6, IndexGrows, ReaderFields DEF OnceBase, FilesInv
  <1> QED BY <1>1, <1>2, <1>3, <1>4, <1>5, <1>6, QueryCases
-----------------------------------------------------------------------------
(* What a query misses *)

\* A chunk that FindChunks leaves out has no point of the range.
LEMMA FindCovers ==
  ASSUME OnceBase, OrderInv, NEW s \in Series, NEW from \in Timestamps, NEW to \in Timestamps,
         FindChunks(s, from, to)
  PROVE  CoverageInv'
  <1>1. /\ UNCHANGED vars
        /\ query'.step = "chunks" /\ query'.series = s /\ query'.from = from /\ query'.to = to
        /\ query'.seen = Range(index[s])
        /\ query'.due = {p \in acked[s] : InRange(p, from, to)}
        /\ Range(query'.files) = {e \in Range(index[s]) : Overlaps(e, from, to)}
    BY FindStep
  <1>2. UNCHANGED <<acked, chunks>>
    BY <1>1 DEF vars, diskVars, histVars
  <1>3. ASSUME NEW e \in Range(index[s]), ~Overlaps(e, from, to),
               NEW p \in Range(chunks[s][e.id])
        PROVE  ~InRange(p, from, to)
    <2>1. e.start <= p.ts /\ p.ts <= e.end
      BY OrderCovers DEF OnceBase, RangesCover
    <2>2. e.start \in Nat /\ e.end \in Nat /\ e.id \in ChunkIDs
      <3>1. index[s] \in Seq(Entry)
        BY DEF OnceBase, ConsistencyInv, TypeInv, TypeOK
      <3>2. e \in Entry
        BY <3>1, EntryIdType
      <3> QED BY <3>2 DEF Entry
    <2>3. p.ts \in Nat
      <3>1. chunks[s][e.id] \in Seq(Record)
        BY <2>2 DEF OnceBase, ConsistencyInv, TypeInv, TypeOK
      <3>2. p \in Record
        BY <3>1 DEF Range
      <3> QED BY <3>2 DEF Record
    <2>4. from \in Nat /\ to \in Nat
      BY StoreAssumption
    <2>5. ~(e.end >= from) \/ ~(e.start <= to)
      BY <1>3 DEF Overlaps
    <2> QED BY <2>1, <2>2, <2>3, <2>4, <2>5 DEF InRange
  <1>4. \A e \in query'.seen \ Range(query'.files) :
          \A p \in Range(chunks'[s][e.id]) : ~InRange(p, from, to)
    BY <1>1, <1>2, <1>3
  <1>5. \A p \in query'.due : p \in acked'[s] /\ InRange(p, from, to)
    BY <1>1, <1>2
  <1> QED BY <1>1, <1>4, <1>5 DEF CoverageInv, MissesAccounted, InRange

\* Reading a chunk adds all its points; skipping it takes it out of what was seen.
LEMMA FileCovers ==
  ASSUME OnceBase, ReaderInv, FilesInv, CoverageInv, ReadChunk \/ SkipChunk
  PROVE  CoverageInv'
  <1> DEFINE h == Head(query.files)
             s == query.series
             chunk == chunks[s][h.id]
  <1>1. /\ query.step = "chunks" /\ query'.step = "chunks"
        /\ query.files # <<>> /\ query'.files = Tail(query.files)
        /\ query'.series = s /\ query'.from = query.from
        /\ query'.to = query.to /\ query'.due = query.due
        /\ \/ query'.seen = query.seen /\ query'.got = query.got \o chunk
           \/ query'.seen = query.seen \ {h} /\ query'.got = query.got
    BY FileStep
  <1>2. UNCHANGED <<acked, chunks>>
    BY FileStep DEF vars, diskVars, histVars
  <1>3. Range(query.files) = {h} \cup Range(query'.files)
    <2> DEFINE files == query.files
    <2>1. files \in Seq(Entry) /\ files # <<>>
      BY <1>1, ReaderFields
    <2>2. h = Head(files) /\ query'.files = Tail(files)
      BY <1>1
    <2> HIDE DEF files, h
    <2>3. Range(files) = {h} \cup Range(query'.files)
      BY <2>1, <2>2, HeadAndTail
    <2> QED BY <2>3 DEF files
  <1>4. query.got \in Seq(Record) /\ chunk \in Seq(Record)
    <2>1. s \in Series /\ query.files \in Seq(Entry) /\ query.got \in Seq(Record)
      BY <1>1, ReaderFields
    <2>2. h \in Entry
      <3> DEFINE files == query.files
      <3> HIDE DEF files
      <3>1. files \in Seq(Entry) /\ files # <<>>
        BY <1>1, <2>1 DEF files
      <3>2. Head(files) \in Entry
        BY <3>1, HeadAndTail
      <3> QED BY <3>2 DEF files
    <2>3. h.id \in ChunkIDs
      BY <2>2 DEF Entry
    <2> QED BY <2>1, <2>3, SMTT(30) DEF OnceBase, ConsistencyInv, TypeInv, TypeOK
  <1>5. Range(query.got \o chunk) = Range(query.got) \cup Range(chunk)
    <2> HIDE DEF chunk
    <2> QED BY <1>4, ConcatPoints
  <1>6. ASSUME NEW e \in query'.seen \ Range(query'.files), NEW p \in Range(chunks[s][e.id]),
               InRange(p, query.from, query.to)
        PROVE  p \in Range(query'.got)
    <2>1. CASE e \in query.seen \ Range(query.files)
      <3>1. p \in Range(query.got)
        BY <1>1, <1>6, <2>1 DEF CoverageInv
      <3> QED BY <1>1, <1>5, <3>1
    <2>2. CASE e = h
      <3>1. query'.got = query.got \o chunk
        BY <1>1, <2>2
      <3> QED BY <1>5, <1>6, <2>2, <3>1
    <2> QED BY <1>1, <1>3, <2>1, <2>2
  <1>7. \A p \in query'.due : p \in acked[s] /\ InRange(p, query.from, query.to)
    BY <1>1 DEF CoverageInv
  <1> HIDE DEF s, h, chunk
  <1> QED BY <1>1, <1>2, <1>6, <1>7 DEF CoverageInv, MissesAccounted, InRange, s

\* An acknowledged point is in the buffer, in a chunk the query saw, or in one it
\* did not see.
LEMMA BufferCovers ==
  ASSUME OnceBase, DurableInv, ReaderInv, FilesInv, CoverageInv, GetBufferedPoints
  PROVE  CoverageInv'
  <1> DEFINE s == query.series
             both == query.got \o buffer[s]
  <1>1. /\ query.step = "chunks" /\ query'.step = "done" /\ query.files = <<>>
        /\ query'.series = s /\ query'.due = query.due /\ query'.seen = query.seen
        /\ query'.got = Filtered(both, query.from, query.to)
    BY BufferStep
  <1>2. UNCHANGED <<index, chunks>>
    BY BufferStep DEF vars, diskVars, memVars
  <1>3. s \in Series /\ query.got \in Seq(Record) /\ buffer[s] \in Seq(Record) /\ Running
    BY <1>1, ReaderFields DEF OnceBase, ConsistencyInv, TypeInv, TypeOK
  <1>4. both \in Seq(Record) /\ Range(both) = Range(query.got) \cup Range(buffer[s])
    BY <1>3, ConcatPoints
  <1>5. Range(query'.got) = {p \in Range(both) : InRange(p, query.from, query.to)}
    <2> HIDE DEF both
    <2> QED BY <1>1, <1>4, FilteredPoints
  <1>6. Range(query.files) = {}
    BY <1>1 DEF Range
  <1>7. ASSUME NEW p \in query.due
        PROVE  p \in Range(query'.got) \cup PointsOf(s, Range(index[s]) \ query.seen)
    <2>1. p \in acked[s] /\ InRange(p, query.from, query.to)
      BY <1>1 DEF CoverageInv
    <2>2. p \in Stored(s)
      BY <1>3, <2>1 DEF DurableInv, Running
    <2>3. CASE p \in Range(buffer[s])
      BY <1>4, <1>5, <2>1, <2>3
    <2>4. ASSUME NEW e \in Range(index[s]), p \in Range(chunks[s][e.id])
          PROVE  p \in Range(query'.got) \cup PointsOf(s, Range(index[s]) \ query.seen)
      <3>1. CASE e \in query.seen
        <4>1. p \in Range(query.got)
          BY <1>1, <1>6, <2>1, <2>4, <3>1 DEF CoverageInv
        <4> QED BY <1>4, <1>5, <2>1, <4>1
      <3>2. CASE e \notin query.seen
        <4>1. p \in PointsOf(s, Range(index[s]) \ query.seen)
          BY <2>4, <3>2 DEF PointsOf
        <4> QED BY <4>1
      <3> QED BY <3>1, <3>2
    <2> QED BY <2>2, <2>3, <2>4 DEF Stored, PointsOf
  <1>8. PointsOf(s, Range(index[s]) \ query.seen)' = PointsOf(s, Range(index[s]) \ query.seen)
    BY <1>1, <1>2 DEF PointsOf
  <1> HIDE DEF both
  <1> QED BY <1>1, <1>7, <1>8 DEF CoverageInv, MissesAccounted

\* Writers add to what the query may have missed and change no chunk it reads.
LEMMA WritersCover ==
  ASSUME OnceBase, ReaderInv, FilesInv, CoverageInv,
         Next, query' = query, Running, opened' # {}
  PROVE  CoverageInv'
  <1> DEFINE s == query.series
  <1>1. CASE query.step \in {"chunks", "done"}
    <2>1. s \in Series
      BY <1>1, ReaderFields
    <2>2. /\ acked[s] \subseteq acked'[s] /\ Range(index[s]) \subseteq Range(index'[s])
          /\ \A e \in Range(index[s]) : chunks'[s][e.id] = chunks[s][e.id]
      BY <2>1, IndexGrows DEF OnceBase
    <2>3. CASE query.step = "chunks"
      <3>1. \A e \in query.seen : chunks'[s][e.id] = chunks[s][e.id]
        BY <2>2, <2>3 DEF FilesInv
      <3> QED BY <2>2, <2>3, <3>1 DEF CoverageInv, MissesAccounted, InRange
    <2>4. CASE query.step = "done"
      <3>1. ASSUME NEW p \in PointsOf(s, Range(index[s]) \ query.seen)
            PROVE  \E e \in Range(index'[s]) \ query.seen : p \in Range(chunks'[s][e.id])
        <4>1. PICK e \in Range(index[s]) \ query.seen : p \in Range(chunks[s][e.id])
          BY <3>1 DEF PointsOf
        <4> QED BY <2>2, <4>1
      <3>2. PointsOf(s, Range(index[s]) \ query.seen)
              \subseteq UNION {Range(chunks'[s][e.id]) : e \in Range(index'[s]) \ query.seen}
        BY <3>1
      <3>3. PointsOf(s, Range(index[s]) \ query.seen)'
              = UNION {Range(chunks'[s][e.id]) : e \in Range(index'[s]) \ query.seen}
        BY DEF PointsOf
      <3> QED BY <2>4, <3>2, <3>3 DEF CoverageInv, MissesAccounted
    <2> QED BY <1>1, <2>3, <2>4
  <1>2. CASE query.step \notin {"chunks", "done"}
    BY <1>2 DEF CoverageInv, MissesAccounted
  <1> QED BY <1>1, <1>2

\* Every step keeps CoverageInv.
LEMMA NextCoverageInv ==
  ASSUME OnceBase, OrderInv, DurableInv, ReaderInv, FilesInv, CoverageInv, [QueryNext]_qvars
  PROVE  CoverageInv'
  <1>1. CASE UNCHANGED vars /\ UNCHANGED query
    <2>1. UNCHANGED <<acked, chunks, index, query>>
      BY <1>1 DEF vars, diskVars, memVars, histVars
    <2> QED BY <2>1 DEF CoverageInv, MissesAccounted, PointsOf, InRange
  <1>2. CASE query'.step \notin {"chunks", "done"}
    BY <1>2 DEF CoverageInv, MissesAccounted
  <1>3. CASE \E s \in Series, from, to \in Timestamps : FindChunks(s, from, to)
    BY <1>3, FindCovers
  <1>4. CASE ReadChunk \/ SkipChunk
    BY <1>4, FileCovers
  <1>5. CASE GetBufferedPoints
    BY <1>5, BufferCovers
  <1>6. CASE Next /\ query' = query /\ query # Idle /\ Running /\ opened' # {}
    BY <1>6, WritersCover
  <1> QED BY <1>1, <1>2, <1>3, <1>4, <1>5, <1>6, QueryCases

\* What a query misses of the points acknowledged before it began is in a chunk
\* published after its snapshot of the index, or in one it warned it could not
\* read; provided that clients write in time order, no append tears, no log is
\* unreadable and chunk ids stay within four digits.
THEOREM QueriesComplete ==
  ASSUME InOrder, Faults \cap {"wal1", "walRead"} = {}, MaxChunks <= MaxNamedID
  PROVE  QuerySpec => []MissesAccounted
  <1> DEFINE I == /\ OnceBase /\ OrderInv /\ DurableInv
                  /\ ReaderInv /\ FilesInv /\ CoverageInv
  <1>1. QueryInit => I
    BY InitConsistencyInv, InitOriginInv, InitOnceInv, InitOrderInv, InitDurableInv
       DEF QueryInit, OnceBase, ReaderInv, FilesInv, CoverageInv, MissesAccounted, Idle
  <1>2. I /\ [QueryNext]_qvars => I'
    <2> SUFFICES ASSUME I, [QueryNext]_qvars PROVE I'
      OBVIOUS
    <2>1. [Next]_vars /\ "wal1" \notin Faults
      BY QueryStoreStep
    <2>2. OnceBase'
      BY <2>1, NextConsistencyInv, NextOriginInv, NextOnceInv DEF OnceBase, ConsistencyInv
    <2>3. OrderInv' /\ DurableInv'
      BY <2>1, NextOrderInv, NextDurableInv DEF OnceBase, ConsistencyInv
    <2>4. ReaderInv' /\ FilesInv' /\ CoverageInv'
      BY NextReaderInv, NextFilesInv, NextCoverageInv DEF OnceBase, ConsistencyInv
    <2> QED BY <2>2, <2>3, <2>4
  <1>3. I => MissesAccounted
    BY DEF CoverageInv
  <1> HIDE DEF I
  <1> QED BY <1>1, <1>2, <1>3, PTL DEF QuerySpec

-----------------------------------------------------------------------------
(* No point returned twice *)

\* Two entries of an index whose chunks share a fresh point are the same.
LEMMA OneChunk ==
  ASSUME OnceBase, NEW s \in Series, NEW e \in Range(index[s]), NEW f \in Range(index[s]),
         NEW p \in Range(chunks[s][e.id]) \cap Range(chunks[s][f.id]), Fresh(p)
  PROVE  e = f
  <1>1. SeriesOnce(s)
    BY OnceBySeries DEF OnceBase
  <1>2. PICK i \in DOMAIN chunks[s][e.id] : chunks[s][e.id][i] = p
    BY DEF Range
  <1>3. PICK j \in DOMAIN chunks[s][f.id] : chunks[s][f.id][j] = p
    BY DEF Range
  <1>4. e.id = f.id
    BY <1>1, <1>2, <1>3 DEF SeriesOnce, ChunksOnce
  <1>5. PICK a \in DOMAIN index[s], b \in DOMAIN index[s] : index[s][a] = e /\ index[s][b] = f
    BY DEF Range
  <1> QED BY <1>1, <1>4, <1>5 DEF SeriesOnce, DistinctIDs

\* Reading a chunk adds fresh points that no chunk read before has.
LEMMA FileReturns ==
  ASSUME OnceBase, ReaderInv, FilesInv, ReturnsInv, ReadChunk \/ SkipChunk
  PROVE  ReturnsInv'
  <1> DEFINE files == query.files
             h == Head(files)
             s == query.series
             chunk == chunks[s][h.id]
  <1>1. /\ query.step = "chunks" /\ query'.step = "chunks"
        /\ files # <<>> /\ query'.files = Tail(files) /\ query'.series = s
        /\ query'.got = query.got \o chunk \/ query'.got = query.got
    BY FileStep
  <1>2. UNCHANGED <<index, chunks, bootSerial>>
    BY FileStep DEF vars, diskVars, memVars, histVars
  <1>3. s \in Series /\ files \in Seq(Entry) /\ query.got \in Seq(Record)
    BY <1>1, ReaderFields
  <1>4. /\ Range(files) = {h} \cup Range(query'.files) /\ h \notin Range(query'.files)
        /\ Range(files) \subseteq Range(index[s])
    <2>1. /\ \A i, j \in DOMAIN files : files[i] = files[j] => i = j
          /\ Range(files) \subseteq Range(index[s])
      BY <1>1 DEF FilesInv
    <2> HIDE DEF files
    <2> QED BY <1>1, <1>3, <2>1, HeadAndTail
  <1>5. chunk \in Seq(Record)
    <2>1. h \in Entry
      <3> HIDE DEF files
      <3> QED BY <1>1, <1>3, HeadAndTail
    <2>2. h.id \in ChunkIDs
      BY <2>1 DEF Entry
    <2> QED BY <1>3, <2>2, SMTT(30) DEF OnceBase, ConsistencyInv, TypeInv, TypeOK
  <1>6. FreshOnce(query.got)
        /\ \A p \in Range(query.got) : Fresh(p) =>
             \E e \in Range(index[s]) \ Range(files) : p \in Range(chunks[s][e.id])
    BY <1>1 DEF ReturnsInv
  <1>7. h \in Range(index[s])
    BY <1>4
  <1>8. FreshOnce(chunk)
    <2>1. SeriesOnce(s)
      BY <1>3, OnceBySeries DEF OnceBase
    <2>2. ChunksOnce(s)
      BY <2>1 DEF SeriesOnce
    <2> HIDE DEF files
    <2> QED BY <1>7, <2>2 DEF ChunksOnce, FreshOnce
  <1>9. \A p \in Range(query.got) : Fresh(p) => p \notin Range(chunk)
    <2> SUFFICES ASSUME NEW p \in Range(query.got), Fresh(p), p \in Range(chunk) PROVE FALSE
      OBVIOUS
    <2>1. PICK e \in Range(index[s]) \ Range(files) : p \in Range(chunks[s][e.id])
      BY <1>6
    <2>2. e = h
      BY <1>3, <1>7, <2>1, OneChunk
    <2> QED BY <1>4, <2>1, <2>2
  <1>10. /\ FreshOnce(query.got \o chunk)
         /\ Range(query.got \o chunk) = Range(query.got) \cup Range(chunk)
    <2> HIDE DEF chunk
    <2> QED BY <1>3, <1>5, <1>6, <1>8, <1>9, ConcatPoints
  <1>11. ASSUME NEW p \in Range(query'.got), Fresh(p)
         PROVE  \E e \in Range(index[s]) \ Range(query'.files) : p \in Range(chunks[s][e.id])
    <2>1. CASE p \in Range(query.got)
      BY <1>4, <1>6, <1>11, <2>1
    <2>2. CASE p \in Range(chunk)
      BY <1>4, <1>7, <2>2
    <2> QED BY <1>1, <1>10, <1>11, <2>1, <2>2
  <1>12. FreshOnce(query'.got)
    BY <1>1, <1>6, <1>10
  <1> HIDE DEF files, h, chunk, s
  <1>13. FreshOnce(query.got)'
    BY <1>2, <1>12 DEF FreshOnce, Fresh
  <1>14. \A p \in Range(query'.got) : p.val > bootSerial' =>
           \E e \in Range(index'[s]) \ Range(query'.files) : p \in Range(chunks'[s][e.id])
    BY <1>2, <1>11 DEF Fresh
  <1> QED BY <1>1, <1>13, <1>14 DEF ReturnsInv, Fresh

\* The buffer, at the end, has none of the fresh points of the chunks.
LEMMA BufferReturns ==
  ASSUME OnceBase, ReaderInv, ReturnsInv, GetBufferedPoints
  PROVE  ReturnsInv'
  <1> DEFINE s == query.series
             got == query.got
             buf == buffer[s]
             both == got \o buf
             T == {p \in Range(both) : InRange(p, query.from, query.to)}
  <1>1. /\ query.step = "chunks" /\ query'.step = "done" /\ phase[s] = "free"
        /\ query'.got = Filtered(both, query.from, query.to)
    BY BufferStep
  <1>2. bootSerial' = bootSerial
    BY BufferStep DEF vars, histVars
  <1>3. s \in Series /\ got \in Seq(Record) /\ buf \in Seq(Record)
    BY <1>1, ReaderFields DEF OnceBase, ConsistencyInv, TypeInv, TypeOK
  <1>4. SeriesOnce(s)
    BY <1>3, OnceBySeries DEF OnceBase
  <1>5. FreshOnce(got) /\ FreshOnce(buf)
    BY <1>1, <1>4 DEF ReturnsInv, SeriesOnce
  <1>6. \A p \in Range(got) : Fresh(p) => p \notin Range(buf)
    <2> SUFFICES ASSUME NEW p \in Range(got), Fresh(p) PROVE p \notin Range(buf)
      OBVIOUS
    <2>1. p \in PointsOf(s, Range(index[s]))
      BY <1>1 DEF ReturnsInv, PointsOf
    <2> QED BY <1>1, <1>4, <2>1 DEF SeriesOnce, PlacesApart
  <1>7. both \in Seq(Record) /\ FreshOnce(both)
    <2> HIDE DEF got, buf
    <2> QED BY <1>3, <1>5, <1>6, ConcatPoints
  <1>8. query'.got = Select(both, T)
    BY <1>1 DEF Filtered
  <1> HIDE DEF both, T
  <1>9. FreshOnce(Select(both, T))
    <2> DEFINE N == {p \in Record : Fresh(p)}
               kept == Select(both, T)
    <2>1. DOMAIN both = 1..Len(both)
      BY <1>7
    <2>2. \A i, j \in 1..Len(both) : both[i] = both[j] /\ both[i] \in N => i = j
      BY <1>7, <2>1 DEF FreshOnce
    <2> HIDE DEF N
    <2>3. \A i, j \in 1..Len(kept) : kept[i] = kept[j] /\ kept[i] \in N => i = j
      BY <1>7, <2>2, SelectDistinct
    <2>4. kept \in Seq(Record)
      BY <1>7, SelectType
    <2> HIDE DEF kept
    <2>5. DOMAIN kept = 1..Len(kept) /\ \A i \in 1..Len(kept) : kept[i] \in Record
      BY <2>4
    <2>6. FreshOnce(kept)
      BY <2>3, <2>5 DEF FreshOnce, N
    <2> QED BY <2>6 DEF kept
  <1>10. FreshOnce(query.got)'
    BY <1>2, <1>8, <1>9 DEF FreshOnce, Fresh
  <1> QED BY <1>1, <1>10 DEF ReturnsInv

\* Every step keeps ReturnsInv.
LEMMA NextReturnsInv ==
  ASSUME OnceBase, ReaderInv, FilesInv, ReturnsInv, [QueryNext]_qvars
  PROVE  ReturnsInv'
  <1>1. CASE UNCHANGED vars /\ UNCHANGED query
    <2>1. UNCHANGED <<bootSerial, chunks, index, query>>
      BY <1>1 DEF vars, diskVars, memVars, histVars
    <2> QED BY <2>1 DEF ReturnsInv, FreshOnce, Fresh
  <1>2. CASE query'.step \notin {"chunks", "done"}
    BY <1>2 DEF ReturnsInv
  <1>3. ASSUME NEW s \in Series, NEW from \in Timestamps, NEW to \in Timestamps,
               FindChunks(s, from, to)
        PROVE  ReturnsInv'
    <2>1. query'.got = <<>>
      BY <1>3, FindStep
    <2>2. DOMAIN query'.got = {} /\ Range(query'.got) = {}
      BY <2>1 DEF Range
    <2> QED BY <2>2 DEF ReturnsInv, FreshOnce
  <1>4. CASE ReadChunk \/ SkipChunk
    BY <1>4, FileReturns
  <1>5. CASE GetBufferedPoints
    BY <1>5, BufferReturns
  <1>6. CASE Next /\ query' = query /\ query # Idle /\ Running /\ opened' # {}
    <2> DEFINE s == query.series
    <2>1. CASE query.step \in {"chunks", "done"}
      <3>1. s \in Series
        BY <2>1, ReaderFields
      <3>2. /\ bootSerial' = bootSerial /\ Range(index[s]) \subseteq Range(index'[s])
            /\ \A e \in Range(index[s]) : chunks'[s][e.id] = chunks[s][e.id]
        BY <1>6, <3>1, IndexGrows DEF OnceBase
      <3>3. FreshOnce(query.got)'
        BY <1>6, <2>1, <3>2 DEF ReturnsInv, FreshOnce, Fresh
      <3>4. ASSUME query.step = "chunks", NEW p \in Range(query.got), p.val > bootSerial'
            PROVE  \E e \in Range(index'[s]) \ Range(query.files) : p \in Range(chunks'[s][e.id])
        <4>1. PICK e \in Range(index[s]) \ Range(query.files) : p \in Range(chunks[s][e.id])
          BY <3>2, <3>4 DEF ReturnsInv, Fresh
        <4> QED BY <3>2, <4>1
      <3> QED BY <1>6, <3>3, <3>4 DEF ReturnsInv, Fresh
    <2>2. CASE query.step \notin {"chunks", "done"}
      BY <1>6, <2>2 DEF ReturnsInv
    <2> QED BY <2>1, <2>2
  <1> QED BY <1>1, <1>2, <1>3, <1>4, <1>5, <1>6, QueryCases

\* A query beside rotations returns a point written since the process started
\* once: never both from its chunk and from the buffer, provided that no append
\* tears and chunk ids stay within four digits.
THEOREM QueriesReturnOnce ==
  ASSUME "wal1" \notin Faults, MaxChunks <= MaxNamedID
  PROVE  QuerySpec => []QueryReturnsOnce
  <1> DEFINE I == OnceBase /\ ReaderInv /\ FilesInv /\ ReturnsInv
  <1>1. QueryInit => I
    BY InitConsistencyInv, InitOriginInv, InitOnceInv
       DEF QueryInit, OnceBase, ReaderInv, FilesInv, ReturnsInv, Idle
  <1>2. I /\ [QueryNext]_qvars => I'
    <2> SUFFICES ASSUME I, [QueryNext]_qvars PROVE I'
      OBVIOUS
    <2>1. [Next]_vars
      BY QueryStoreStep
    <2>2. OnceBase'
      BY <2>1, NextConsistencyInv, NextOriginInv, NextOnceInv DEF OnceBase, ConsistencyInv
    <2>3. ReaderInv' /\ FilesInv' /\ ReturnsInv'
      BY NextReaderInv, NextFilesInv, NextReturnsInv DEF OnceBase, ConsistencyInv
    <2> QED BY <2>2, <2>3
  <1>3. I => QueryReturnsOnce
    <2> SUFFICES ASSUME I, query.step = "done", NEW p \in Range(query.got),
                        p.val > bootSerial
                 PROVE  Times(query.got, p) = 1
      BY DEF QueryReturnsOnce
    <2>1. PICK i \in DOMAIN query.got : query.got[i] = p
      BY DEF Range
    <2>2. \A j \in DOMAIN query.got : query.got[j] = p => j = i
      BY <2>1 DEF ReturnsInv, FreshOnce, Fresh
    <2>3. {j \in DOMAIN query.got : query.got[j] = p} = {i}
      BY <2>1, <2>2
    <2> QED BY <2>3, FS_Singleton DEF Times
  <1> HIDE DEF I
  <1> QED BY <1>1, <1>2, <1>3, PTL DEF QuerySpec
=============================================================================
