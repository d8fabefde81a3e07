---------------------------- MODULE StoreProofs ----------------------------
(***************************************************************************)
(* Type correctness of Store, the consistency of its index, and that       *)
(* nothing acknowledged is lost and nothing is invented, so that Store     *)
(* implements DurableSeries; for any number of series, points and chunks.  *)
(***************************************************************************)
EXTENDS StoreInv, StoreRefinement, SelectionProofs, FiniteSetTheorems

\* The steps of Next that belong to series s, by name.
LEMMA NextCases ==
  ASSUME Next
  PROVE  \/ \E s \in Series :
              \/ \E p \in Point : AppendWAL(s, p)
              \/ \E p \in Point, n \in 0..2 : WalFault(n) \in Faults /\ AppendWALFails(s, p, n)
              \/ BufferPoint(s) \/ FlushSeries(s) \/ FlushEmpty(s)
              \/ WriteChunk(s) \/ LockIndex(s) \/ WriteIndexFile(s)
              \/ SwapIndex(s) \/ ClearBuffer(s) \/ TruncateWAL(s)
              \/ WriteChunkFails(s) \/ WriteIndexFileFails(s)
              \/ RecoverSeries(s) \/ SkipSeries(s)
              \/ "indexLost" \in Faults /\ LoseIndex(s)
         \/ Crash
  BY DEF Next, Rotation

\* A non-empty buffer has a well-typed index entry.
LEMMA EntryOfType ==
  ASSUME NEW id \in ChunkIDs, NEW pts \in Seq(Record), pts # <<>>
  PROVE  EntryOf(id, pts) \in Entry
  <1>1. Len(pts) \in Nat /\ Len(pts) > 0
    OBVIOUS
  <1>2. pts[1] \in Record /\ pts[Len(pts)] \in Record
    BY <1>1
  <1> QED BY <1>1, <1>2 DEF EntryOf, Entry, Record

\* A point is a record of two words.
LEMMA PointType ==
  ASSUME NEW p \in Point
  PROVE  p.ts \in Nat /\ p.val \in Nat /\ p \in Record
  <1>1. p.ts \in Timestamps /\ p.val \in 1..MaxWrites /\ p = [ts |-> p.ts, val |-> p.val]
    BY DEF Point
  <1>2. p.ts \in Nat /\ p.val \in Nat
    BY <1>1, StoreAssumption
  <1>3. [ts |-> p.ts, val |-> p.val] \in Record
    BY <1>2 DEF Record
  <1> QED BY <1>1, <1>2, <1>3

\* Appending a record, or a part of one, keeps a log a sequence of words.
LEMMA WordsType ==
  ASSUME NEW w \in Seq(Nat), NEW p \in Point, NEW n \in 0..2
  PROVE  /\ w \o <<p.ts, p.val>> \in Seq(Nat)
         /\ w \o SubSeq(<<p.ts, p.val>>, 1, n) \in Seq(Nat)
  <1>1. <<p.ts, p.val>> \in Seq(Nat)
    BY PointType
  <1>2. SubSeq(<<p.ts, p.val>>, 1, n) \in Seq(Nat)
    BY PointType
  <1> QED BY <1>1, <1>2

\* Append keeps the type and leaves no empty sequence.
LEMMA AppendType ==
  ASSUME NEW S, NEW seq \in Seq(S), NEW x \in S
  PROVE  Append(seq, x) \in Seq(S) /\ Append(seq, x) # <<>>
  <1>1. Append(seq, x) \in Seq(S)
    OBVIOUS
  <1>2. Len(Append(seq, x)) = Len(seq) + 1 /\ Len(seq) \in Nat
    OBVIOUS
  <1>3. Len(<<>>) = 0
    OBVIOUS
  <1> QED BY <1>1, <1>2, <1>3

\* RecoverWAL yields records whatever words the file holds.
LEMMA RecoverWALType ==
  ASSUME NEW words \in Seq(Nat)
  PROVE  RecoverWAL(words) \in Seq(Record)
  <1> DEFINE n == Len(words) \div 2
  <1>1. n \in Nat /\ 2*n <= Len(words)
    OBVIOUS
  <1>2. \A i \in 1..n : words[2*i - 1] \in Nat /\ words[2*i] \in Nat
    <2> TAKE i \in 1..n
    <2>1. 2*i - 1 \in 1..Len(words) /\ 2*i \in 1..Len(words)
      BY <1>1
    <2> QED BY <2>1
  <1>3. RecoverWAL(words) = [i \in 1..n |-> [ts |-> words[2*i - 1], val |-> words[2*i]]]
    BY DEF RecoverWAL
  <1> HIDE DEF n
  <1> QED BY <1>1, <1>2, <1>3 DEF Record

\* Header entries are well typed.
LEMMA HeadersType ==
  ASSUME NEW s \in Series, chunks \in [Series -> [ChunkIDs -> Seq(Record)]]
  PROVE  Headers(s) \subseteq Entry
  <1> SUFFICES ASSUME NEW id \in ChunkIDs, chunks[s][id] # <<>>
               PROVE  EntryOf(id, chunks[s][id]) \in Entry
    BY DEF Headers
  <1> QED BY EntryOfType

\* There are finitely many headers.
LEMMA HeadersFinite ==
  ASSUME NEW s \in Series
  PROVE  Cardinality(Headers(s)) \in Nat
  <1> DEFINE I == {i \in ChunkIDs : i <= MaxNamedID /\ chunks[s][i] # <<>>}
  <1>1. IsFiniteSet(I)
    <2>1. IsFiniteSet(ChunkIDs)
      BY FS_Interval, StoreAssumption DEF ChunkIDs
    <2> QED BY <2>1, FS_Subset
  <1> DEFINE f == [id \in I |-> EntryOf(id, chunks[s][id])]
  <1>2. f \in Surjection(I, Headers(s))
    BY DEF Surjection, Headers
  <1> QED BY <1>1, <1>2, FS_Surjection, FS_CardinalityType

\* What Open loads into the index is a sequence of entries.
LEMMA LoadedType ==
  ASSUME NEW s \in Series, TypeOK, NEW loaded, LoadEntries(s, loaded)
  PROVE  /\ loaded \in Seq(Entry)
         /\ indexFile' \in [Series -> Seq(Entry)]
         /\ hasIndex' \subseteq Series
  <1>1. CASE s \in hasIndex /\ loaded = indexFile[s] /\ UNCHANGED <<hasIndex, indexFile>>
    BY <1>1 DEF TypeOK
  <1>2. CASE loaded \in SortedByStart(Headers(s))
    <2> DEFINE n == Cardinality(Headers(s))
    <2>1. loaded \in [1..n -> Entry]
      BY <1>2, HeadersType DEF SortedByStart, TypeOK
    <2>2. n \in Nat
      BY HeadersFinite
    <2>3. loaded \in Seq(Entry)
      <3> HIDE DEF n
      <3> QED BY <2>1, <2>2
    <2> QED BY <1>2, <2>3 DEF LoadEntries, TypeOK
  <1> QED BY <1>1, <1>2 DEF LoadEntries
-----------------------------------------------------------------------------
(* Type correctness *)

\* A store that was never opened has its types.
LEMMA InitTypeInv == Init => TypeInv
  BY StoreAssumption
     DEF Init, TypeInv, TypeOK, BoundsInv, EmptyIndex, Phase, Running

\* AppendWAL, failed or not, keeps the types and bounds.
LEMMA AppendWALTypeInv ==
  ASSUME TypeInv, NEW s \in Series, NEW p \in Point,
         AppendWAL(s, p) \/ \E n \in 0..2 : AppendWALFails(s, p, n)
  PROVE  TypeInv'
  <1>1. /\ dirs' = dirs \cup {s}
        /\ serial' \in 0..MaxWrites
        /\ submitted' \in [Series -> SUBSET Point]
        /\ UNCHANGED <<chunks, hasIndex, indexFile, opened, buffer, nextID, index,
                       newIdx, indexMu, acked, bootSerial>>
    <2>1. Submit(s, p)
      BY DEF AppendWAL, AppendWALFails
    <2>2. submitted[s] \cup {p} \in SUBSET Point
      BY DEF TypeInv, TypeOK
    <2> QED BY <2>1, <2>2, StoreAssumption
            DEF Submit, AppendWAL, AppendWALFails, memVars, TypeInv, TypeOK
  <1>2. wal' \in [Series -> Seq(Nat)]
    <2>1. PICK words \in Seq(Nat) : wal' = [wal EXCEPT ![s] = words]
      <3>1. CASE AppendWAL(s, p)
        <4>1. wal[s] \o <<p.ts, p.val>> \in Seq(Nat)
          BY WordsType, 0 \in 0..2 DEF TypeInv, TypeOK
        <4>2. wal' = [wal EXCEPT ![s] = wal[s] \o <<p.ts, p.val>>]
          BY <3>1 DEF AppendWAL
        <4> QED BY <4>1, <4>2
      <3>2. ASSUME NEW n \in 0..2, AppendWALFails(s, p, n)
            PROVE  \E words \in Seq(Nat) : wal' = [wal EXCEPT ![s] = words]
        BY <3>2, WordsType DEF AppendWALFails, TypeInv, TypeOK
      <3> QED BY <3>1, <3>2
    <2> QED BY <2>1 DEF TypeInv, TypeOK
  <1>3. phase' \in [Series -> Phase] /\ inflight' \in [Series -> SUBSET Point]
    <2>1. \/ UNCHANGED <<phase, inflight>>
          \/ /\ phase' = [phase EXCEPT ![s] = "logged"]
             /\ inflight' = [inflight EXCEPT ![s] = {p}]
      BY DEF AppendWAL, AppendWALFails, memVars
    <2>2. "logged" \in Phase /\ {p} \in SUBSET Point
      BY DEF Phase
    <2>3. phase \in [Series -> Phase] /\ inflight \in [Series -> SUBSET Point]
      BY DEF TypeInv, TypeOK
    <2> QED BY <2>1, <2>2, <2>3
  <1>4. TypeOK'
    BY <1>1, <1>2, <1>3 DEF TypeInv, TypeOK
  <1>5. BoundsInv'
    BY DEF AppendWAL, AppendWALFails, Submit, CanStart, memVars, TypeInv, TypeOK,
           BoundsInv, Running
  <1> QED BY <1>4, <1>5 DEF TypeInv

\* BufferPoint keeps the types and bounds.
LEMMA BufferPointTypeInv ==
  ASSUME TypeInv, NEW s \in Series, BufferPoint(s)
  PROVE  TypeInv'
  <1>1. PICK p \in inflight[s] :
          /\ buffer' = [buffer EXCEPT ![s] = Append(buffer[s], p)]
          /\ \/ phase' = [phase EXCEPT ![s] = "rotate"] /\ UNCHANGED <<inflight, acked>>
             \/ acked' = [acked EXCEPT ![s] = @ \cup {p}] /\ Return(s)
    BY DEF BufferPoint
  <1>2. /\ phase[s] = "logged"
        /\ UNCHANGED <<diskVars, opened, nextID, index, newIdx, indexMu, serial,
                       submitted, bootSerial>>
    BY DEF BufferPoint
  <1>3. p \in Point
    BY DEF TypeInv, TypeOK
  <1>4. Append(buffer[s], p) \in Seq(Record) /\ Append(buffer[s], p) # <<>>
    BY <1>3, PointType, AppendType DEF TypeInv, TypeOK
  <1>5. TypeOK'
    <2>1. buffer' \in [Series -> Seq(Record)]
      BY <1>1, <1>4 DEF TypeInv, TypeOK
    <2>2. /\ phase' \in [Series -> Phase]
          /\ inflight' \in [Series -> SUBSET Point]
          /\ acked' \in [Series -> SUBSET Point]
    <3>1. CASE phase' = [phase EXCEPT ![s] = "rotate"] /\ UNCHANGED <<inflight, acked>>
        BY <3>1 DEF Phase, TypeInv, TypeOK
      <3>2. CASE acked' = [acked EXCEPT ![s] = @ \cup {p}] /\ Return(s)
        <4>1. acked[s] \cup {p} \in SUBSET Point
          BY <1>3 DEF TypeInv, TypeOK
        <4> QED BY <3>2, <4>1 DEF Return, Phase, TypeInv, TypeOK
      <3> QED BY <1>1, <3>1, <3>2
    <2> QED BY <1>2, <2>1, <2>2 DEF diskVars, TypeInv, TypeOK
  <1>6. BoundsInv'
    BY <1>1, <1>2, <1>4 DEF Return, TypeInv, TypeOK, BoundsInv, Running
  <1> QED BY <1>5, <1>6 DEF TypeInv

\* LockIndex keeps the types and bounds.
LEMMA LockIndexTypeInv ==
  ASSUME TypeInv, NEW s \in Series, LockIndex(s)
  PROVE  TypeInv'
  <1>1. EntryOf(nextID[s], buffer[s]) \in Entry
    BY EntryOfType DEF LockIndex, TypeInv, TypeOK, BoundsInv
  <1>2. WithEntry(s) \in [Series -> Seq(Entry)]
    BY <1>1 DEF WithEntry, TypeInv, TypeOK
  <1>3. newIdx' \in [Series -> [Series -> Seq(Entry)]]
    BY <1>2 DEF LockIndex, TypeInv, TypeOK
  <1>4. TypeOK'
    BY <1>3 DEF LockIndex, diskVars, histVars, Phase, TypeInv, TypeOK
  <1>5. BoundsInv'
    BY DEF LockIndex, TypeInv, TypeOK, BoundsInv, Running
  <1> QED BY <1>4, <1>5 DEF TypeInv

\* TruncateWAL keeps the types and bounds.
LEMMA TruncateWALTypeInv ==
  ASSUME TypeInv, NEW s \in Series, TruncateWAL(s)
  PROVE  TypeInv'
  <1>1. wal' = wal \/ wal' = [wal EXCEPT ![s] = <<>>]
    BY DEF TruncateWAL
  <1>2. wal' \in [Series -> Seq(Nat)]
    <2>1. <<>> \in Seq(Nat)
      OBVIOUS
    <2> QED BY <1>1, <2>1 DEF TypeInv, TypeOK
  <1>3. TypeOK'
    BY <1>2 DEF TruncateWAL, Return, Phase, TypeInv, TypeOK
  <1>4. BoundsInv'
    BY DEF TruncateWAL, Return, TypeInv, TypeOK, BoundsInv, Running
  <1> QED BY <1>3, <1>4 DEF TypeInv

\* What one iteration of rebuildIndex does to the series it loads.
LEMMA RecoverSeriesStep ==
  ASSUME NEW s \in Series, RecoverSeries(s)
  PROVE  /\ s \notin opened /\ opened' = opened \cup {s}
         /\ \E loaded, n : /\ LoadEntries(s, loaded)
                          /\ n \in 0..MaxChunks /\ IsRecoveredID(n, loaded)
                          /\ index' = [index EXCEPT ![s] = loaded]
                          /\ nextID' = [nextID EXCEPT ![s] = n]
         /\ \/ buffer' = [buffer EXCEPT ![s] = RecoverWAL(wal[s])]
            \/ "walRead" \in Faults /\ UNCHANGED buffer
         /\ UNCHANGED <<dirs, wal, chunks, newIdx, indexMu, phase, inflight, histVars>>
  BY Zenon DEF RecoverSeries

\* RecoverSeries keeps the types and bounds.
LEMMA RecoverSeriesTypeInv ==
  ASSUME TypeInv, NEW s \in Series, RecoverSeries(s)
  PROVE  TypeInv'
  <1>1. PICK loaded, n : /\ LoadEntries(s, loaded)
                         /\ n \in 0..MaxChunks /\ IsRecoveredID(n, loaded)
                         /\ index' = [index EXCEPT ![s] = loaded]
                         /\ nextID' = [nextID EXCEPT ![s] = n]
    BY RecoverSeriesStep
  <1>2. /\ loaded \in Seq(Entry)
        /\ indexFile' \in [Series -> Seq(Entry)]
        /\ hasIndex' \subseteq Series
    BY <1>1, LoadedType DEF TypeInv
  <1>3. RecoverWAL(wal[s]) \in Seq(Record)
    BY RecoverWALType DEF TypeInv, TypeOK
  <1>4. buffer' \in [Series -> Seq(Record)]
    <2>1. buffer' = [buffer EXCEPT ![s] = RecoverWAL(wal[s])] \/ buffer' = buffer
      BY RecoverSeriesStep
    <2> QED BY <1>3, <2>1 DEF TypeInv, TypeOK
  <1>5. TypeOK'
    BY <1>1, <1>2, <1>4, RecoverSeriesStep DEF histVars, TypeInv, TypeOK
  <1>6. BoundsInv'
    BY RecoverSeriesStep DEF TypeInv, TypeOK, BoundsInv, Running
  <1> QED BY <1>5, <1>6 DEF TypeInv

\* An id below the bound has a successor within it.
LEMMA NextIDFits ==
  ASSUME NEW n \in 0..MaxChunks, n < MaxChunks
  PROVE  n + 1 \in ChunkIDs
  BY StoreAssumption DEF ChunkIDs

\* Every step keeps the types and bounds.
LEMMA NextTypeInv ==
  ASSUME TypeInv, [Next]_vars
  PROVE  TypeInv'
  <1> USE StoreAssumption DEF TypeInv, TypeOK
  <1>1. CASE UNCHANGED vars
    BY <1>1 DEF vars, diskVars, memVars, histVars, BoundsInv, Running
  <1>2. CASE Crash
    BY <1>2 DEF Crash, diskVars, BoundsInv, EmptyIndex, Phase
  <1>3. ASSUME NEW s \in Series, NEW p \in Point, AppendWAL(s, p)
        PROVE  TypeInv'
    BY <1>3, AppendWALTypeInv
  <1>4. ASSUME NEW s \in Series, NEW p \in Point, NEW n \in 0..2, AppendWALFails(s, p, n)
        PROVE  TypeInv'
    BY <1>4, AppendWALTypeInv
  <1>5. ASSUME NEW s \in Series, BufferPoint(s)
        PROVE  TypeInv'
    BY <1>5, BufferPointTypeInv
  <1>6. ASSUME NEW s \in Series, FlushSeries(s)
        PROVE  TypeInv'
    BY <1>6 DEF FlushSeries, CanStart, diskVars, histVars, BoundsInv, Running, Phase
  <1>7. ASSUME NEW s \in Series, FlushEmpty(s)
        PROVE  TypeInv'
    BY <1>7, <1>1 DEF FlushEmpty
  <1>8. ASSUME NEW s \in Series, WriteChunk(s)
        PROVE  TypeInv'
    <2>1. nextID[s] + 1 \in ChunkIDs /\ buffer[s] # <<>>
      <3>1. nextID[s] < MaxChunks /\ buffer[s] # <<>>
        BY <1>8 DEF WriteChunk, BoundsInv
      <3>2. nextID[s] \in 0..MaxChunks
        OBVIOUS
      <3> QED BY <3>1, <3>2, NextIDFits
    <2>2. nextID' \in [Series -> 0..MaxChunks]
      BY <1>8, <2>1 DEF WriteChunk, ChunkIDs
    <2>3. chunks' \in [Series -> [ChunkIDs -> Seq(Record)]]
      BY <1>8, <2>1 DEF WriteChunk
    <2>4. phase' \in [Series -> Phase]
      BY <1>8 DEF WriteChunk, Phase
    <2>5. TypeOK'
      BY <1>8, <2>2, <2>3, <2>4 DEF WriteChunk, histVars
    <2>6. BoundsInv'
      BY <1>8, <2>1 DEF WriteChunk, BoundsInv, Running, ChunkIDs
    <2> QED BY <2>5, <2>6
  <1>9. ASSUME NEW s \in Series, WriteChunkFails(s)
        PROVE  TypeInv'
    <2>1. nextID' \in [Series -> 0..MaxChunks]
      <3>1. nextID[s] < MaxChunks /\ nextID' = [nextID EXCEPT ![s] = nextID[s] + 1]
        BY <1>9 DEF WriteChunkFails, BoundsInv
      <3>2. nextID[s] \in 0..MaxChunks
        OBVIOUS
      <3>3. nextID[s] + 1 \in 0..MaxChunks
        BY <3>1, <3>2, NextIDFits DEF ChunkIDs
      <3> QED BY <3>1, <3>3
    <2>2. TypeOK'
      BY <1>9, <2>1 DEF WriteChunkFails, Return, diskVars, histVars, Phase
    <2>3. BoundsInv'
      BY <1>9 DEF WriteChunkFails, Return, diskVars, BoundsInv, Running
    <2> QED BY <2>2, <2>3
  <1>10. ASSUME NEW s \in Series, LockIndex(s)
        PROVE  TypeInv'
    BY <1>10, LockIndexTypeInv
  <1>11. ASSUME NEW s \in Series, WriteIndexFile(s)
        PROVE  TypeInv'
    <2>1. TypeOK'
      <3>1. indexFile' \in [Series -> Seq(Entry)] /\ hasIndex' \subseteq Series
        BY <1>11 DEF WriteIndexFile
      <3>2. phase' \in [Series -> Phase]
        BY <1>11 DEF WriteIndexFile, Phase
      <3>3. UNCHANGED <<dirs, wal, chunks, opened, buffer, nextID, index, newIdx,
                        indexMu, inflight, histVars>>
        BY <1>11 DEF WriteIndexFile
      <3> QED BY <3>1, <3>2, <3>3 DEF histVars
    <2>2. BoundsInv'
      BY <1>11 DEF WriteIndexFile, BoundsInv, Running
    <2> QED BY <2>1, <2>2
  <1>12. ASSUME NEW s \in Series, WriteIndexFileFails(s)
        PROVE  TypeInv'
    <2>1. TypeOK'
      <3>1. newIdx' \in [Series -> [Series -> Seq(Entry)]]
        BY <1>12 DEF WriteIndexFileFails, EmptyIndex
      <3>2. phase' \in [Series -> Phase] /\ inflight' \in [Series -> SUBSET Point]
        BY <1>12 DEF WriteIndexFileFails, Return, Phase
      <3>3. indexMu' = {} /\ UNCHANGED <<diskVars, opened, buffer, nextID, index, histVars>>
        BY <1>12 DEF WriteIndexFileFails
      <3> QED BY <3>1, <3>2, <3>3 DEF diskVars, histVars
    <2>2. BoundsInv'
      BY <1>12 DEF WriteIndexFileFails, Return, diskVars, BoundsInv, Running
    <2> QED BY <2>1, <2>2
  <1>13. ASSUME NEW s \in Series, SwapIndex(s)
        PROVE  TypeInv'
    <2>1. TypeOK'
      <3>1. /\ index' \in [Series -> Seq(Entry)]
            /\ newIdx' \in [Series -> [Series -> Seq(Entry)]]
        BY <1>13 DEF SwapIndex, EmptyIndex
      <3>2. phase' \in [Series -> Phase]
        BY <1>13 DEF SwapIndex, Phase
      <3>3. indexMu' = {} /\ UNCHANGED <<diskVars, opened, buffer, nextID, inflight, histVars>>
        BY <1>13 DEF SwapIndex
      <3> QED BY <3>1, <3>2, <3>3 DEF diskVars, histVars
    <2>2. BoundsInv'
      BY <1>13 DEF SwapIndex, diskVars, BoundsInv, Running
    <2> QED BY <2>1, <2>2
  <1>14. ASSUME NEW s \in Series, ClearBuffer(s)
        PROVE  TypeInv'
    <2>1. TypeOK'
      <3>1. buffer' \in [Series -> Seq(Record)] /\ phase' \in [Series -> Phase]
        BY <1>14, SMTT(30) DEF ClearBuffer, Phase
      <3>2. UNCHANGED <<diskVars, opened, nextID, index, newIdx, indexMu, inflight, histVars>>
        BY <1>14 DEF ClearBuffer
      <3> QED BY <3>1, <3>2 DEF diskVars, histVars
    <2>2. BoundsInv'
      BY <1>14 DEF ClearBuffer, diskVars, BoundsInv, Running
    <2> QED BY <2>1, <2>2
  <1>15. ASSUME NEW s \in Series, TruncateWAL(s)
        PROVE  TypeInv'
    BY <1>15, TruncateWALTypeInv
  <1>16. ASSUME NEW s \in Series, RecoverSeries(s)
        PROVE  TypeInv'
    BY <1>16, RecoverSeriesTypeInv
  <1>17. ASSUME NEW s \in Series, SkipSeries(s)
        PROVE  TypeInv'
    BY <1>17 DEF SkipSeries, diskVars, histVars, BoundsInv, Running
  <1>18. ASSUME NEW s \in Series, LoseIndex(s)
        PROVE  TypeInv'
    <2>1. /\ hasIndex' = hasIndex \ {s} /\ indexFile' = [indexFile EXCEPT ![s] = <<>>]
          /\ UNCHANGED <<dirs, wal, chunks, memVars, histVars>>
      BY <1>18 DEF LoseIndex
    <2>2. hasIndex' \subseteq Series /\ indexFile' \in [Series -> Seq(Entry)]
      BY <2>1
    <2>3. TypeOK'
      BY <2>1, <2>2 DEF memVars, histVars
    <2>4. BoundsInv'
      BY <2>1 DEF memVars, BoundsInv, Running
    <2> QED BY <2>3, <2>4
  <1> QED
    BY <1>1, <1>2, <1>3, <1>4, <1>5, <1>6, <1>7, <1>8, <1>9, <1>10, <1>11,
       <1>12, <1>13, <1>14, <1>15, <1>16, <1>17, <1>18, NextCases

\* store.go: files and memory keep their types, and indexMu has at most one holder.
THEOREM TypeCorrect == Spec => []TypeOK
  <1>1. Spec => []TypeInv
    BY InitTypeInv, NextTypeInv, PTL DEF Spec
  <1> QED BY <1>1, PTL DEF TypeInv

\* RecoverSeries touches no other series.
LEMMA RecoverSeriesFrame ==
  ASSUME TypeOK, NEW s \in Series, RecoverSeries(s), NEW t \in Series, t # s
  PROVE  /\ index'[t] = index[t] /\ nextID'[t] = nextID[t]
         /\ buffer'[t] = buffer[t] /\ indexFile'[t] = indexFile[t]
         /\ (t \in hasIndex') <=> (t \in hasIndex)
  <1>1. PICK loaded, n : /\ LoadEntries(s, loaded)
                         /\ index' = [index EXCEPT ![s] = loaded]
                         /\ nextID' = [nextID EXCEPT ![s] = n]
    BY RecoverSeriesStep
  <1>2. /\ \/ UNCHANGED indexFile
           \/ indexFile' = [indexFile EXCEPT ![s] = loaded]
        /\ hasIndex' = hasIndex \/ hasIndex' = hasIndex \cup {s}
    BY <1>1 DEF LoadEntries
  <1>3. index'[t] = index[t] /\ nextID'[t] = nextID[t]
    BY <1>1 DEF TypeOK
  <1>4. indexFile'[t] = indexFile[t] /\ ((t \in hasIndex') <=> (t \in hasIndex))
    BY <1>2 DEF TypeOK
  <1>5. buffer'[t] = buffer[t]
    <2>1. buffer' = [buffer EXCEPT ![s] = RecoverWAL(wal[s])] \/ buffer' = buffer
      BY RecoverSeriesStep
    <2> QED BY <2>1 DEF TypeOK
  <1> QED BY <1>3, <1>4, <1>5

-----------------------------------------------------------------------------
(* The index *)

\* An empty store has no index entry to be wrong.
LEMMA InitConsistencyInv == Init => ConsistencyInv
  BY InitTypeInv DEF Init, ConsistencyInv, LockInv, ClosedInv, RotationInv, IndexInv, EmptyIndex,
     Range,      DiskEntries

\* indexMu is a lock.
LEMMA NextLockInv ==
  ASSUME TypeInv, LockInv, [Next]_vars
  PROVE  LockInv'
  <1>1. CASE UNCHANGED vars
    BY <1>1 DEF vars, diskVars, memVars, histVars, LockInv, TypeInv, TypeOK, BoundsInv, Running
  <1>2. CASE Crash
    BY <1>2 DEF Crash, diskVars, LockInv, TypeInv, TypeOK, BoundsInv, Running
  <1>3. ASSUME NEW s \in Series, NEW p \in Point, AppendWAL(s, p)
        PROVE  LockInv'
    BY <1>3 DEF AppendWAL, Submit, CanStart, LockInv, TypeInv, TypeOK, BoundsInv, Running
  <1>4. ASSUME NEW s \in Series, NEW p \in Point, NEW n \in 0..2, AppendWALFails(s, p, n)
        PROVE  LockInv'
    BY <1>4 DEF AppendWALFails, Submit, memVars, LockInv, TypeInv, TypeOK, BoundsInv, Running
  <1>5. ASSUME NEW s \in Series, BufferPoint(s)
        PROVE  LockInv'
    <2>1. /\ phase[s] = "logged" /\ UNCHANGED indexMu
          /\ \/ phase' = [phase EXCEPT ![s] = "rotate"]
             \/ phase' = [phase EXCEPT ![s] = "free"]
      BY <1>5 DEF BufferPoint, Return
    <2> QED BY <2>1 DEF LockInv, TypeInv, TypeOK
  <1>6. ASSUME NEW s \in Series, FlushSeries(s)
        PROVE  LockInv'
    BY <1>6 DEF FlushSeries, CanStart, diskVars, histVars, LockInv, TypeInv, TypeOK, BoundsInv, Running
  <1>7. ASSUME NEW s \in Series, FlushEmpty(s)
        PROVE  LockInv'
    BY <1>7, <1>1 DEF FlushEmpty
  <1>8. ASSUME NEW s \in Series, WriteChunk(s)
        PROVE  LockInv'
    BY <1>8 DEF WriteChunk, histVars, LockInv, TypeInv, TypeOK, BoundsInv, Running
  <1>9. ASSUME NEW s \in Series, WriteChunkFails(s)
        PROVE  LockInv'
    BY <1>9 DEF WriteChunkFails, Return, diskVars, histVars, LockInv, TypeInv, TypeOK, BoundsInv, Running
  <1>10. ASSUME NEW s \in Series, LockIndex(s)
        PROVE  LockInv'
    BY <1>10 DEF LockIndex, diskVars, histVars, LockInv, TypeInv, TypeOK, BoundsInv, Running
  <1>11. ASSUME NEW s \in Series, WriteIndexFile(s)
        PROVE  LockInv'
    BY <1>11 DEF WriteIndexFile, histVars, LockInv, TypeInv, TypeOK, BoundsInv, Running
  <1>12. ASSUME NEW s \in Series, WriteIndexFileFails(s)
        PROVE  LockInv'
    BY <1>12 DEF WriteIndexFileFails, Return, diskVars, histVars, LockInv, TypeInv, TypeOK, BoundsInv, Running
  <1>13. ASSUME NEW s \in Series, SwapIndex(s)
        PROVE  LockInv'
    BY <1>13 DEF SwapIndex, diskVars, histVars, LockInv, TypeInv, TypeOK, BoundsInv, Running
  <1>14. ASSUME NEW s \in Series, ClearBuffer(s)
        PROVE  LockInv'
    BY <1>14 DEF ClearBuffer, diskVars, histVars, LockInv, TypeInv, TypeOK, BoundsInv, Running
  <1>15. ASSUME NEW s \in Series, TruncateWAL(s)
        PROVE  LockInv'
    BY <1>15 DEF TruncateWAL, Return, LockInv, TypeInv, TypeOK, BoundsInv, Running
  <1>16. ASSUME NEW s \in Series, RecoverSeries(s)
        PROVE  LockInv'
    BY <1>16, RecoverSeriesStep DEF histVars, LockInv, TypeInv, TypeOK, BoundsInv, Running
  <1>17. ASSUME NEW s \in Series, SkipSeries(s)
        PROVE  LockInv'
    BY <1>17 DEF SkipSeries, diskVars, histVars, LockInv, TypeInv, TypeOK, BoundsInv, Running
  <1>18. ASSUME NEW s \in Series, LoseIndex(s)
        PROVE  LockInv'
    BY <1>18 DEF LoseIndex, memVars, histVars, LockInv, TypeInv, TypeOK, BoundsInv, Running
  <1> QED
    BY <1>1, <1>2, <1>3, <1>4, <1>5, <1>6, <1>7, <1>8, <1>9,
       <1>10, <1>11, <1>12, <1>13, <1>14, <1>15, <1>16, <1>17, <1>18, NextCases

\* No step of another series disturbs a rotation.
LEMMA NextRotationInv ==
  ASSUME TypeInv, LockInv, RotationInv, [Next]_vars
  PROVE  RotationInv'
  <1>1. CASE UNCHANGED vars
    BY <1>1 DEF vars, diskVars, memVars, histVars, WithEntry, RotationInv, LockInv, TypeInv, TypeOK, BoundsInv, Running
  <1>2. CASE Crash
    BY <1>2 DEF Crash, diskVars, WithEntry, RotationInv, LockInv, TypeInv, TypeOK, BoundsInv, Running
  <1>3. ASSUME NEW s \in Series, NEW p \in Point, AppendWAL(s, p)
        PROVE  RotationInv'
    BY <1>3 DEF AppendWAL, Submit, CanStart, WithEntry, RotationInv, LockInv, TypeInv, TypeOK, BoundsInv, Running
  <1>4. ASSUME NEW s \in Series, NEW p \in Point, NEW n \in 0..2, AppendWALFails(s, p, n)
        PROVE  RotationInv'
    BY <1>4 DEF AppendWALFails, Submit, memVars, WithEntry, RotationInv, LockInv, TypeInv, TypeOK, BoundsInv, Running
  <1>5. ASSUME NEW s \in Series, BufferPoint(s)
        PROVE  RotationInv'
    <2>1. /\ phase[s] = "logged" /\ phase' = [phase EXCEPT ![s] = phase'[s]]
          /\ phase'[s] \in {"free", "rotate"}
          /\ \A t \in Series : t # s => buffer'[t] = buffer[t]
          /\ UNCHANGED <<chunks, nextID, newIdx, index, hasIndex, indexFile>>
      BY <1>5 DEF BufferPoint, Return, diskVars, TypeInv, TypeOK
    <2>2. \A t \in Series : t # s => WithEntry(t)' = WithEntry(t)
      BY <2>1 DEF WithEntry
    <2> QED BY <2>1, <2>2 DEF RotationInv, TypeInv, TypeOK
  <1>6. ASSUME NEW s \in Series, FlushSeries(s)
        PROVE  RotationInv'
    BY <1>6, SMTT(30) DEF FlushSeries, CanStart, diskVars, histVars, WithEntry,
           RotationInv, LockInv, TypeInv, TypeOK, BoundsInv, Running
  <1>7. ASSUME NEW s \in Series, FlushEmpty(s)
        PROVE  RotationInv'
    BY <1>7, <1>1 DEF FlushEmpty
  <1>8. ASSUME NEW s \in Series, WriteChunk(s)
        PROVE  RotationInv'
    <2> SUFFICES ASSUME NEW t \in Series
                 PROVE  /\ phase'[t] \in {"renamed", "indexing", "swap"} =>
                             chunks'[t][nextID'[t]] = buffer'[t]
                        /\ phase'[t] \in {"indexing", "swap"} => newIdx'[t] = WithEntry(t)'
                        /\ phase'[t] = "swap" =>
                             t \in hasIndex' /\ indexFile'[t] = newIdx'[t][t]
      BY DEF RotationInv
    <2>1. CASE t = s
      <3>1. nextID[s] + 1 \in ChunkIDs
        <4>1. nextID[s] \in 0..MaxChunks /\ nextID[s] < MaxChunks
          BY <1>8 DEF WriteChunk, TypeInv, TypeOK, BoundsInv
        <4> QED BY <4>1, StoreAssumption DEF ChunkIDs
      <3>2. phase'[s] = "renamed" /\ nextID'[s] = nextID[s] + 1 /\ buffer' = buffer
        BY <1>8 DEF WriteChunk, TypeInv, TypeOK
      <3>3. chunks'[s][nextID[s] + 1] = buffer[s]
        BY <1>8, <3>1 DEF WriteChunk, TypeInv, TypeOK
      <3> QED BY <2>1, <3>2, <3>3
    <2>2. CASE t # s
      <3>1. /\ chunks'[t] = chunks[t] /\ nextID'[t] = nextID[t] /\ phase'[t] = phase[t]
            /\ UNCHANGED <<hasIndex, indexFile, buffer, index, newIdx>>
        BY <1>8, <2>2 DEF WriteChunk, TypeInv, TypeOK
      <3> QED BY <3>1 DEF WithEntry, RotationInv
    <2> QED BY <2>1, <2>2
  <1>9. ASSUME NEW s \in Series, WriteChunkFails(s)
        PROVE  RotationInv'
    BY <1>9 DEF WriteChunkFails, Return, diskVars, histVars, WithEntry, RotationInv, LockInv, TypeInv, TypeOK, BoundsInv, Running
  <1>10. ASSUME NEW s \in Series, LockIndex(s)
        PROVE  RotationInv'
    BY <1>10, ZenonT(40) DEF LockIndex, diskVars, histVars, WithEntry,
           RotationInv, LockInv, TypeInv, TypeOK, BoundsInv, Running
  <1>11. ASSUME NEW s \in Series, WriteIndexFile(s)
        PROVE  RotationInv'
    BY <1>11 DEF WriteIndexFile, histVars, WithEntry, RotationInv, LockInv, TypeInv, TypeOK, BoundsInv, Running
  <1>12. ASSUME NEW s \in Series, WriteIndexFileFails(s)
        PROVE  RotationInv'
    BY <1>12 DEF WriteIndexFileFails, Return, diskVars, histVars, WithEntry, RotationInv, LockInv, TypeInv, TypeOK, BoundsInv, Running
  <1>13. ASSUME NEW s \in Series, SwapIndex(s)
        PROVE  RotationInv'
    BY <1>13 DEF SwapIndex, diskVars, histVars, WithEntry, RotationInv, LockInv, TypeInv, TypeOK, BoundsInv, Running
  <1>14. ASSUME NEW s \in Series, ClearBuffer(s)
        PROVE  RotationInv'
    BY <1>14 DEF ClearBuffer, diskVars, histVars, WithEntry, RotationInv, LockInv, TypeInv, TypeOK, BoundsInv, Running
  <1>15. ASSUME NEW s \in Series, TruncateWAL(s)
        PROVE  RotationInv'
    BY <1>15 DEF TruncateWAL, Return, WithEntry, RotationInv, LockInv, TypeInv, TypeOK, BoundsInv, Running
  <1>16. ASSUME NEW s \in Series, RecoverSeries(s)
        PROVE  RotationInv'
    BY <1>16, RecoverSeriesStep DEF histVars, WithEntry, RotationInv, LockInv, TypeInv, TypeOK, BoundsInv, Running
  <1>17. ASSUME NEW s \in Series, SkipSeries(s)
        PROVE  RotationInv'
    BY <1>17 DEF SkipSeries, diskVars, histVars, WithEntry, RotationInv, LockInv, TypeInv, TypeOK, BoundsInv, Running
  <1>18. ASSUME NEW s \in Series, LoseIndex(s)
        PROVE  RotationInv'
    BY <1>18 DEF LoseIndex, memVars, histVars, WithEntry, RotationInv, LockInv, TypeInv, TypeOK, BoundsInv, Running
  <1> QED
    BY <1>1, <1>2, <1>3, <1>4, <1>5, <1>6, <1>7, <1>8, <1>9,
       <1>10, <1>11, <1>12, <1>13, <1>14, <1>15, <1>16, <1>17, <1>18, NextCases

\* Nothing is left of a process, and nothing appears without a directory.
LEMMA NextClosedInv ==
  ASSUME TypeInv, LockInv, RotationInv, ClosedInv, [Next]_vars
  PROVE  ClosedInv'
  <1>1. CASE UNCHANGED vars
    BY <1>1 DEF vars, diskVars, memVars, histVars, EmptyIndex, ClosedInv, TypeInv, TypeOK, BoundsInv, Running
  <1>2. CASE Crash
    BY <1>2 DEF Crash, diskVars, EmptyIndex, ClosedInv, TypeInv, TypeOK, BoundsInv, Running
  <1>3. ASSUME NEW s \in Series, NEW p \in Point, AppendWAL(s, p)
        PROVE  ClosedInv'
    BY <1>3 DEF AppendWAL, Submit, CanStart, EmptyIndex, ClosedInv, TypeInv, TypeOK, BoundsInv, Running
  <1>4. ASSUME NEW s \in Series, NEW p \in Point, NEW n \in 0..2, AppendWALFails(s, p, n)
        PROVE  ClosedInv'
    BY <1>4 DEF AppendWALFails, Submit, memVars, EmptyIndex, ClosedInv, TypeInv, TypeOK, BoundsInv, Running
  <1>5. ASSUME NEW s \in Series, BufferPoint(s)
        PROVE  ClosedInv'
    <2>1. s \in dirs /\ s \in opened
      BY <1>5 DEF BufferPoint, ClosedInv, TypeInv, BoundsInv, Running
    <2>2. /\ UNCHANGED <<dirs, wal, hasIndex, indexFile, opened, index>>
          /\ \A t \in Series : t # s =>
               UNCHANGED <<buffer[t], phase[t], acked[t]>>
      BY <1>5 DEF BufferPoint, Return, diskVars, TypeInv, TypeOK
    <2> QED BY <2>1, <2>2 DEF ClosedInv
  <1>6. ASSUME NEW s \in Series, FlushSeries(s)
        PROVE  ClosedInv'
    BY <1>6 DEF FlushSeries, CanStart, diskVars, histVars, EmptyIndex, ClosedInv, TypeInv, TypeOK, BoundsInv, Running
  <1>7. ASSUME NEW s \in Series, FlushEmpty(s)
        PROVE  ClosedInv'
    BY <1>7, <1>1 DEF FlushEmpty
  <1>8. ASSUME NEW s \in Series, WriteChunk(s)
        PROVE  ClosedInv'
    BY <1>8 DEF WriteChunk, histVars, EmptyIndex, ClosedInv, TypeInv, TypeOK, BoundsInv, Running
  <1>9. ASSUME NEW s \in Series, WriteChunkFails(s)
        PROVE  ClosedInv'
    BY <1>9 DEF WriteChunkFails, Return, diskVars, histVars, EmptyIndex, ClosedInv, TypeInv, TypeOK, BoundsInv, Running
  <1>10. ASSUME NEW s \in Series, LockIndex(s)
        PROVE  ClosedInv'
    BY <1>10 DEF LockIndex, diskVars, histVars, EmptyIndex, ClosedInv, TypeInv, TypeOK, BoundsInv, Running
  <1>11. ASSUME NEW s \in Series, WriteIndexFile(s)
        PROVE  ClosedInv'
    BY <1>11 DEF WriteIndexFile, histVars, EmptyIndex, ClosedInv, TypeInv, TypeOK, BoundsInv, Running
  <1>12. ASSUME NEW s \in Series, WriteIndexFileFails(s)
        PROVE  ClosedInv'
    BY <1>12 DEF WriteIndexFileFails, Return, diskVars, histVars, EmptyIndex, ClosedInv, TypeInv, TypeOK, BoundsInv, Running
  <1>13. ASSUME NEW s \in Series, SwapIndex(s)
        PROVE  ClosedInv'
    <2>1. index' = WithEntry(s) /\ s \in opened /\ s \in dirs
      BY <1>13 DEF SwapIndex, RotationInv, ClosedInv, BoundsInv, Running, TypeInv, TypeOK
    <2>2. \A t \in Series : t # s => index'[t] = index[t]
      BY <2>1 DEF WithEntry, TypeInv, TypeOK
    <2> QED BY <1>13, <2>1, <2>2 DEF SwapIndex, diskVars, histVars, ClosedInv, TypeInv, TypeOK
  <1>14. ASSUME NEW s \in Series, ClearBuffer(s)
        PROVE  ClosedInv'
    BY <1>14 DEF ClearBuffer, diskVars, histVars, EmptyIndex, ClosedInv, TypeInv, TypeOK, BoundsInv, Running
  <1>15. ASSUME NEW s \in Series, TruncateWAL(s)
        PROVE  ClosedInv'
    BY <1>15 DEF TruncateWAL, Return, EmptyIndex, ClosedInv, TypeInv, TypeOK, BoundsInv, Running
  <1>16. ASSUME NEW s \in Series, RecoverSeries(s)
        PROVE  ClosedInv'
    <2>1. s \in dirs
      BY <1>16 DEF RecoverSeries
    <2>2. s \notin hasIndex' => UNCHANGED <<hasIndex, indexFile>>
      BY <1>16, RecoverSeriesStep DEF LoadEntries
    <2>3. s \notin hasIndex' => indexFile'[s] = <<>>
      BY <2>2 DEF ClosedInv
    <2> QED BY <1>16, <2>1, <2>3, RecoverSeriesStep, RecoverSeriesFrame
            DEF histVars, ClosedInv, TypeInv
  <1>17. ASSUME NEW s \in Series, SkipSeries(s)
        PROVE  ClosedInv'
    BY <1>17 DEF SkipSeries, diskVars, histVars, EmptyIndex, ClosedInv, TypeInv, TypeOK, BoundsInv, Running
  <1>18. ASSUME NEW s \in Series, LoseIndex(s)
        PROVE  ClosedInv'
    BY <1>18 DEF LoseIndex, memVars, histVars, EmptyIndex, ClosedInv, TypeInv, TypeOK, BoundsInv, Running
  <1> QED
    BY <1>1, <1>2, <1>3, <1>4, <1>5, <1>6, <1>7, <1>8, <1>9,
       <1>10, <1>11, <1>12, <1>13, <1>14, <1>15, <1>16, <1>17, <1>18, NextCases

\* Steps that touch neither an index nor a chunk keep IndexInv.
LEMMA IndexInvFrame ==
  ASSUME IndexInv, UNCHANGED <<opened, index, indexFile, hasIndex, chunks>>,
         nextID \in [Series -> Nat], nextID' \in [Series -> Nat],
         \A t \in Series : /\ nextID[t] <= nextID'[t]
                           /\ phase'[t] # "swap" => phase[t] # "swap",
         TypeOK
  PROVE  IndexInv'
  <1> SUFFICES ASSUME NEW t \in Series
               PROVE  /\ \A e \in Range(index[t]) \cup Range(indexFile[t]) :
                           /\ chunks[t][e.id] # <<>> /\ e = EntryOf(e.id, chunks[t][e.id])
                           /\ t \in opened => e.id <= nextID'[t]
                      /\ t \in opened \cap hasIndex /\ phase'[t] # "swap" =>
                           index[t] = indexFile[t]
                      /\ t \in opened => Range(index[t]) \subseteq DiskEntries(t)
    <2>1. \A u \in Series : DiskEntries(u)' = DiskEntries(u)
      BY DEF DiskEntries, Headers
    <2> QED BY <2>1 DEF IndexInv
  <1>1. Range(index[t]) \cup Range(indexFile[t]) \subseteq Entry
    BY DEF TypeOK, Range
  <1>2. \A e \in Entry : e.id <= nextID[t] => e.id <= nextID'[t]
    BY DEF Entry, ChunkIDs
  <1> QED BY <1>1, <1>2 DEF IndexInv

\* What IndexInv says of one series.
SeriesIndexed(s) ==
  /\ \A e \in Range(index[s]) \cup Range(indexFile[s]) :
       /\ chunks[s][e.id] # <<>> /\ e = EntryOf(e.id, chunks[s][e.id])
       /\ s \in opened => e.id <= nextID[s]
  /\ s \in opened \cap hasIndex /\ phase[s] # "swap" => index[s] = indexFile[s]
  /\ s \in opened => Range(index[s]) \subseteq DiskEntries(s)

\* An entry's id, and where the header of an entry comes from.
LEMMA EntryIds ==
  ASSUME NEW s \in Series
  PROVE  /\ \A id, pts : EntryOf(id, pts).id = id
         /\ \A e \in Headers(s) : /\ e.id \in ChunkIDs /\ e.id <= MaxNamedID
                                  /\ chunks[s][e.id] # <<>>
                                  /\ e = EntryOf(e.id, chunks[s][e.id])
         /\ \A id \in ChunkIDs : id <= MaxNamedID /\ chunks[s][id] # <<>> =>
              EntryOf(id, chunks[s][id]) \in Headers(s)
  BY DEF EntryOf, Headers

\* What a series' index says is not affected by what changes nothing of it.
LEMMA SeriesIndexedFrame ==
  ASSUME NEW t \in Series, SeriesIndexed(t),
         index'[t] = index[t], indexFile'[t] = indexFile[t], nextID'[t] = nextID[t],
         chunks'[t] = chunks[t], phase'[t] = phase[t],
         (t \in opened') <=> (t \in opened), (t \in hasIndex') <=> (t \in hasIndex)
  PROVE  SeriesIndexed(t)'
  <1>1. DiskEntries(t)' = DiskEntries(t)
    BY DEF DiskEntries, Headers
  <1> QED BY <1>1 DEF SeriesIndexed

\* A chunk is written under an id that no entry has.
LEMMA WriteChunkIndexed ==
  ASSUME ConsistencyInv, NEW s \in Series, WriteChunk(s)
  PROVE  SeriesIndexed(s)'
  <1> DEFINE n == nextID[s] + 1
  <1>1. /\ s \in opened /\ nextID[s] \in Nat /\ n \in Nat
        /\ nextID'[s] = n /\ phase[s] = "rotate" /\ phase'[s] = "renamed"
        /\ UNCHANGED <<opened, hasIndex, indexFile, index>>
    <2>1. phase[s] = "rotate" /\ s \in opened /\ nextID[s] \in 0..MaxChunks
      BY DEF WriteChunk, ConsistencyInv, TypeInv, TypeOK, BoundsInv, Running
    <2>2. n \in Nat /\ nextID[s] \in Nat
      BY <2>1
    <2>3. nextID'[s] = n /\ phase'[s] = "renamed"
      BY DEF WriteChunk, ConsistencyInv, TypeInv, TypeOK
    <2> QED BY <2>1, <2>2, <2>3 DEF WriteChunk
  <1>2. \A id \in ChunkIDs : id # n => chunks'[s][id] = chunks[s][id]
    BY DEF WriteChunk, ConsistencyInv, TypeInv, TypeOK
  <1>3. SeriesIndexed(s)
    BY DEF ConsistencyInv, IndexInv, SeriesIndexed
  <1>4. \A e \in Range(index[s]) \cup Range(indexFile[s]) :
          e.id \in ChunkIDs /\ e.id \in Nat /\ e.id <= nextID[s]
    <2>1. Range(index[s]) \cup Range(indexFile[s]) \subseteq Entry
      BY DEF ConsistencyInv, TypeInv, TypeOK, Range
    <2> QED BY <1>1, <1>3, <2>1 DEF SeriesIndexed, Entry, ChunkIDs
  <1>5. \A e \in Range(index[s]) \cup Range(indexFile[s]) :
          /\ chunks'[s][e.id] = chunks[s][e.id]
          /\ e.id <= n
    BY <1>1, <1>2, <1>4
  <1>6. Range(index[s]) \subseteq DiskEntries(s)'
    <2>1. CASE s \in hasIndex
      BY <1>1, <1>3, <2>1 DEF SeriesIndexed, DiskEntries
    <2>2. CASE s \notin hasIndex
      <3> SUFFICES ASSUME NEW e \in Range(index[s])
                   PROVE  e \in Headers(s)'
        BY <1>1, <2>2 DEF DiskEntries
      <3>1. e \in Headers(s)
        BY <1>1, <1>3, <2>2 DEF SeriesIndexed, DiskEntries
      <3>2. /\ e.id \in ChunkIDs /\ e.id <= MaxNamedID
            /\ chunks'[s][e.id] # <<>> /\ e = EntryOf(e.id, chunks'[s][e.id])
        BY <1>5, <3>1, EntryIds
      <3> QED BY <3>2 DEF Headers
    <2> QED BY <2>1, <2>2
  <1> HIDE DEF n
  <1> QED BY <1>1, <1>3, <1>5, <1>6 DEF SeriesIndexed

\* index.dat gains the entry of the chunk just written.
LEMMA WriteIndexFileIndexed ==
  ASSUME ConsistencyInv, NEW s \in Series, WriteIndexFile(s)
  PROVE  SeriesIndexed(s)'
  <1> DEFINE new == EntryOf(nextID[s], buffer[s])
  <1>1. /\ s \in opened /\ s \in hasIndex' /\ phase'[s] = "swap"
        /\ phase[s] = "indexing"
        /\ UNCHANGED <<opened, chunks, nextID, index>>
        /\ indexFile'[s] = newIdx[s][s]
    BY DEF WriteIndexFile, ConsistencyInv, TypeInv, TypeOK, BoundsInv, Running
  <1>2. /\ nextID[s] \in ChunkIDs /\ buffer[s] # <<>>
        /\ chunks[s][nextID[s]] = buffer[s]
        /\ newIdx[s] = WithEntry(s)
    BY <1>1 DEF ConsistencyInv, RotationInv, TypeInv, BoundsInv
  <1>3. new \in Entry
    BY <1>2, EntryOfType DEF ConsistencyInv, TypeInv, TypeOK
  <1>4. indexFile'[s] = Append(index[s], new)
    BY <1>1, <1>2 DEF WithEntry, ConsistencyInv, TypeInv, TypeOK
  <1>5. Range(indexFile'[s]) = Range(index[s]) \cup {new}
    <2>1. index[s] \in Seq(Entry)
      BY DEF ConsistencyInv, TypeInv, TypeOK
    <2> HIDE DEF new
    <2> QED BY <1>3, <1>4, <2>1, RangeAppend
  <1>6. new.id = nextID[s] /\ new = EntryOf(new.id, chunks[s][new.id])
    BY <1>2, EntryIds
  <1>7. SeriesIndexed(s)
    BY DEF ConsistencyInv, IndexInv, SeriesIndexed
  <1>8. nextID[s] <= nextID[s]
    BY DEF ConsistencyInv, TypeInv, TypeOK
  <1> HIDE DEF new
  <1> QED BY <1>1, <1>2, <1>5, <1>6, <1>7, <1>8 DEF SeriesIndexed, DiskEntries

\* The swap publishes what index.dat already holds.
LEMMA SwapIndexIndexed ==
  ASSUME ConsistencyInv, NEW s \in Series, SwapIndex(s)
  PROVE  SeriesIndexed(s)'
  <1>1. /\ s \in hasIndex /\ phase[s] = "swap" /\ s \in opened
        /\ index'[s] = indexFile[s]
        /\ UNCHANGED <<opened, hasIndex, indexFile, chunks, nextID>>
    BY DEF SwapIndex, ConsistencyInv, RotationInv, TypeInv, TypeOK, BoundsInv, Running, diskVars
  <1>2. SeriesIndexed(s)
    BY DEF ConsistencyInv, IndexInv, SeriesIndexed
  <1> QED BY <1>1, <1>2 DEF SeriesIndexed, DiskEntries

\* Open loads an index whose chunks no later id can hit, as long as every chunk
\* id is one that chunkFileRe matches.
LEMMA RecoverSeriesIndexed ==
  ASSUME MaxChunks <= MaxNamedID, ConsistencyInv, NEW s \in Series, RecoverSeries(s)
  PROVE  SeriesIndexed(s)'
  <1>1. PICK loaded, n : /\ LoadEntries(s, loaded)
                         /\ n \in 0..MaxChunks /\ IsRecoveredID(n, loaded)
                         /\ index' = [index EXCEPT ![s] = loaded]
                         /\ nextID' = [nextID EXCEPT ![s] = n]
    BY RecoverSeriesStep
  <1>2. index'[s] = loaded /\ nextID'[s] = n /\ s \in opened' /\ chunks' = chunks
    BY <1>1, RecoverSeriesStep DEF ConsistencyInv, TypeInv, TypeOK
  <1>3. \A e \in Range(loaded) : e \in Entry /\ e.id <= n
    <2>1. loaded \in Seq(Entry)
      BY <1>1, LoadedType DEF ConsistencyInv, TypeInv
    <2>2. \A e \in Range(loaded) : e \in Entry
      BY <2>1 DEF Range
    <2>3. \A e \in Range(loaded) : e.id <= MaxNamedID
      BY <2>2, StoreAssumption DEF Entry, ChunkIDs
    <2> QED BY <1>1, <2>2, <2>3 DEF IsRecoveredID, NamedIDs
  <1>4. SeriesIndexed(s)
    BY DEF ConsistencyInv, IndexInv, SeriesIndexed
  <1>5. CASE s \in hasIndex /\ loaded = indexFile[s] /\ UNCHANGED <<hasIndex, indexFile>>
    BY <1>2, <1>3, <1>4, <1>5 DEF SeriesIndexed, DiskEntries
  <1>6. CASE s \notin hasIndex /\ Range(loaded) = Headers(s)
    <2>1. \A e \in Range(loaded) : chunks[s][e.id] # <<>> /\ e = EntryOf(e.id, chunks[s][e.id])
      BY <1>6, EntryIds
    <2>2. Headers(s)' = Headers(s)
      BY <1>2 DEF Headers
    <2>3. \/ /\ s \in hasIndex' /\ indexFile'[s] = loaded
          \/ UNCHANGED <<hasIndex, indexFile>>
      BY <1>1, <1>6 DEF LoadEntries, ConsistencyInv, TypeInv, TypeOK
    <2>4. \A e \in Range(indexFile'[s]) : /\ chunks[s][e.id] # <<>>
                                          /\ e = EntryOf(e.id, chunks[s][e.id])
                                          /\ e.id <= n
      <3>1. CASE indexFile'[s] = loaded
        BY <1>3, <2>1, <3>1
      <3>2. CASE UNCHANGED indexFile
        BY <1>6, <3>2 DEF ConsistencyInv, ClosedInv, Range
      <3> QED BY <2>3, <3>1, <3>2
    <2> QED BY <1>2, <1>3, <1>6, <2>1, <2>2, <2>3, <2>4 DEF SeriesIndexed, DiskEntries
  <1> QED BY <1>1, <1>5, <1>6 DEF LoadEntries, SortedByStart

\* Every step keeps IndexInv, and with it all of ConsistencyInv.
LEMMA NextConsistencyInv ==
  ASSUME MaxChunks <= MaxNamedID, ConsistencyInv, [Next]_vars
  PROVE  ConsistencyInv'
  <1> USE DEF ConsistencyInv
  <1>a. TypeInv' /\ LockInv' /\ ClosedInv' /\ RotationInv'
    BY NextTypeInv, NextLockInv, NextClosedInv, NextRotationInv
  <1>b. \A t \in Series : SeriesIndexed(t)
    BY DEF IndexInv, SeriesIndexed
  <1>c. SUFFICES \A t \in Series : SeriesIndexed(t)'
    BY <1>a DEF IndexInv, SeriesIndexed
  <1>d. /\ nextID \in [Series -> Nat] /\ nextID' \in [Series -> Nat]
        /\ \A t \in Series : nextID[t] <= nextID[t] /\ nextID[t] <= nextID[t] + 1
    <2>1. nextID \in [Series -> 0..MaxChunks] /\ nextID' \in [Series -> 0..MaxChunks]
      BY <1>a DEF TypeInv, TypeOK
    <2>2. 0..MaxChunks \subseteq Nat
      OBVIOUS
    <2>3. nextID \in [Series -> Nat] /\ nextID' \in [Series -> Nat]
      BY <2>1, <2>2
    <2> QED BY <2>3
  <1>e. IndexInv' => \A t \in Series : SeriesIndexed(t)'
    BY DEF IndexInv, SeriesIndexed
  <1>1. CASE UNCHANGED vars
    BY <1>1, <1>b, SeriesIndexedFrame DEF vars, diskVars, memVars, histVars
  <1>2. CASE Crash
    <2> SUFFICES ASSUME NEW t \in Series PROVE SeriesIndexed(t)'
      OBVIOUS
    <2>1. index'[t] = <<>> /\ opened' = {} /\ UNCHANGED <<chunks, indexFile>>
      BY <1>2 DEF Crash, EmptyIndex, diskVars
    <2> QED BY <1>b, <2>1 DEF SeriesIndexed, Range
  <1>3. ASSUME NEW s \in Series, NEW p \in Point, AppendWAL(s, p)
        PROVE  \A t \in Series : SeriesIndexed(t)'
    BY <1>3, <1>d, <1>e, IndexInvFrame DEF AppendWAL, Submit, CanStart, TypeInv, TypeOK
  <1>4. ASSUME NEW s \in Series, NEW p \in Point, NEW n \in 0..2, AppendWALFails(s, p, n)
        PROVE  \A t \in Series : SeriesIndexed(t)'
    BY <1>4, <1>d, <1>e, IndexInvFrame DEF AppendWALFails, memVars, TypeInv, TypeOK
  <1>5. ASSUME NEW s \in Series, BufferPoint(s)
        PROVE  \A t \in Series : SeriesIndexed(t)'
    BY <1>5, <1>d, <1>e, IndexInvFrame DEF BufferPoint, Return, diskVars, TypeInv, TypeOK
  <1>6. ASSUME NEW s \in Series, FlushSeries(s)
        PROVE  \A t \in Series : SeriesIndexed(t)'
    BY <1>6, <1>d, <1>e, IndexInvFrame DEF FlushSeries, CanStart, diskVars, TypeInv, TypeOK
  <1>7. ASSUME NEW s \in Series, FlushEmpty(s)
        PROVE  \A t \in Series : SeriesIndexed(t)'
    BY <1>7, <1>1 DEF FlushEmpty
  <1>8. ASSUME NEW s \in Series, WriteChunk(s)
        PROVE  \A t \in Series : SeriesIndexed(t)'
    <2> SUFFICES ASSUME NEW t \in Series, t # s PROVE SeriesIndexed(t)'
      BY <1>8, WriteChunkIndexed
    <2> QED BY <1>8, <1>b, SeriesIndexedFrame DEF WriteChunk, TypeInv, TypeOK
  <1>9. ASSUME NEW s \in Series, WriteChunkFails(s)
        PROVE  \A t \in Series : SeriesIndexed(t)'
    BY <1>9, <1>d, <1>e, IndexInvFrame DEF WriteChunkFails, Return, diskVars, TypeInv, TypeOK
  <1>10. ASSUME NEW s \in Series, LockIndex(s)
         PROVE  \A t \in Series : SeriesIndexed(t)'
    BY <1>10, <1>d, <1>e, IndexInvFrame DEF LockIndex, diskVars, TypeInv, TypeOK
  <1>11. ASSUME NEW s \in Series, WriteIndexFile(s)
         PROVE  \A t \in Series : SeriesIndexed(t)'
    <2> SUFFICES ASSUME NEW t \in Series, t # s PROVE SeriesIndexed(t)'
      BY <1>11, WriteIndexFileIndexed
    <2> QED BY <1>11, <1>b, SeriesIndexedFrame DEF WriteIndexFile, TypeInv, TypeOK
  <1>12. ASSUME NEW s \in Series, WriteIndexFileFails(s)
         PROVE  \A t \in Series : SeriesIndexed(t)'
    BY <1>12, <1>d, <1>e, IndexInvFrame
       DEF WriteIndexFileFails, Return, diskVars, TypeInv, TypeOK
  <1>13. ASSUME NEW s \in Series, SwapIndex(s)
         PROVE  \A t \in Series : SeriesIndexed(t)'
    <2> SUFFICES ASSUME NEW t \in Series, t # s PROVE SeriesIndexed(t)'
      BY <1>13, SwapIndexIndexed
    <2>1. index'[t] = index[t]
      BY <1>13 DEF SwapIndex, RotationInv, WithEntry, TypeInv, TypeOK
    <2> QED BY <1>13, <1>b, <2>1, SeriesIndexedFrame DEF SwapIndex, diskVars, TypeInv, TypeOK
  <1>14. ASSUME NEW s \in Series, ClearBuffer(s)
         PROVE  \A t \in Series : SeriesIndexed(t)'
    BY <1>14, <1>d, <1>e, IndexInvFrame DEF ClearBuffer, diskVars, TypeInv, TypeOK
  <1>15. ASSUME NEW s \in Series, TruncateWAL(s)
         PROVE  \A t \in Series : SeriesIndexed(t)'
    BY <1>15, <1>d, <1>e, IndexInvFrame DEF TruncateWAL, Return, TypeInv, TypeOK
  <1>16. ASSUME NEW s \in Series, RecoverSeries(s)
         PROVE  \A t \in Series : SeriesIndexed(t)'
    <2> SUFFICES ASSUME NEW t \in Series, t # s PROVE SeriesIndexed(t)'
      BY <1>16, RecoverSeriesIndexed
    <2> QED BY <1>16, <1>b, SeriesIndexedFrame, RecoverSeriesFrame, RecoverSeriesStep
            DEF TypeInv
  <1>17. ASSUME NEW s \in Series, SkipSeries(s)
         PROVE  \A t \in Series : SeriesIndexed(t)'
    <2>1. index[s] = <<>> /\ indexFile[s] = <<>>
      BY <1>17 DEF SkipSeries, ClosedInv
    <2>2. SeriesIndexed(s)'
      BY <1>17, <2>1 DEF SkipSeries, diskVars, SeriesIndexed, Range
    <2>3. ASSUME NEW t \in Series, t # s PROVE SeriesIndexed(t)'
      BY <1>17, <1>b, <2>3, SeriesIndexedFrame DEF SkipSeries, diskVars
    <2> QED BY <2>2, <2>3
  <1>18. ASSUME NEW s \in Series, LoseIndex(s)
         PROVE  \A t \in Series : SeriesIndexed(t)'
    <2>1. /\ opened = {} /\ UNCHANGED <<opened, index, chunks>>
          /\ indexFile' = [indexFile EXCEPT ![s] = <<>>]
      BY <1>18 DEF LoseIndex, memVars
    <2>2. ASSUME NEW t \in Series PROVE Range(indexFile'[t]) \subseteq Range(indexFile[t])
      BY <2>1 DEF Range, TypeInv, TypeOK
    <2> QED BY <1>b, <2>1, <2>2 DEF SeriesIndexed
  <1> QED
    BY <1>1, <1>2, <1>3, <1>4, <1>5, <1>6, <1>7, <1>8, <1>9, <1>10, <1>11,
       <1>12, <1>13, <1>14, <1>15, <1>16, <1>17, <1>18, NextCases

\* In memory and on disk the index describes the chunk files, and concurrent
\* rotations never undo each other's entries, as long as ids stay below the
\* limit of chunkFileRe.
THEOREM IndexConsistency ==
  ASSUME MaxChunks <= MaxNamedID
  PROVE  Spec => []IndexConsistent
  <1>1. Spec => []ConsistencyInv
    BY InitConsistencyInv, NextConsistencyInv, PTL DEF Spec
  <1>2. ConsistencyInv => IndexConsistent
    BY DEF ConsistencyInv, IndexInv, IndexConsistent
  <1> QED BY <1>1, <1>2, PTL

\* No step writes a chunk file that an index names.
LEMMA IndexedChunksKept ==
  ASSUME ConsistencyInv, Next,
         NEW t \in Series, NEW e \in Range(index[t]) \cup Range(indexFile[t])
  PROVE  chunks'[t][e.id] = chunks[t][e.id]
  <1>1. CASE \E s \in Series : WriteChunk(s)
    <2> PICK s \in Series : WriteChunk(s)
      BY <1>1
    <2>1. /\ s \in opened /\ nextID[s] \in Nat
          /\ \A r \in Series : r # s => chunks'[r] = chunks[r]
          /\ \A id \in ChunkIDs : id # nextID[s] + 1 => chunks'[s][id] = chunks[s][id]
      <3>1. s \in opened /\ nextID[s] \in 0..MaxChunks
        BY DEF WriteChunk, ConsistencyInv, TypeInv, TypeOK, BoundsInv, Running
      <3>2. chunks' = [chunks EXCEPT ![s] = [@ EXCEPT ![nextID[s] + 1] = buffer[s]]]
        BY DEF WriteChunk
      <3> QED BY <3>1, <3>2 DEF ConsistencyInv, TypeInv, TypeOK
    <2>2. \A x \in Range(index[s]) \cup Range(indexFile[s]) :
            x.id \in ChunkIDs /\ x.id # nextID[s] + 1
      <3>1. Range(index[s]) \cup Range(indexFile[s]) \subseteq Entry
        <4>1. index[s] \in Seq(Entry) /\ indexFile[s] \in Seq(Entry)
          BY DEF ConsistencyInv, TypeInv, TypeOK
        <4> QED BY <4>1 DEF Range
      <3>2. \A x \in Range(index[s]) \cup Range(indexFile[s]) : x.id <= nextID[s]
        BY <2>1 DEF ConsistencyInv, IndexInv
      <3> QED BY <2>1, <3>1, <3>2 DEF Entry, ChunkIDs
    <2> QED BY <2>1, <2>2
  <1>2. CASE chunks' = chunks
    BY <1>2
  <1>3. (\E s \in Series : WriteChunk(s)) \/ chunks' = chunks
    <2>1. ASSUME NEW s \in Series, RecoverSeries(s) PROVE chunks' = chunks
      BY <2>1, RecoverSeriesStep
    <2> QED
      BY <2>1, NextCases
         DEF vars, AppendWAL, AppendWALFails, BufferPoint, FlushSeries, FlushEmpty,
             WriteChunkFails, LockIndex, WriteIndexFile, WriteIndexFileFails, SwapIndex,
             ClearBuffer, TruncateWAL, SkipSeries, LoseIndex, Crash, diskVars
  <1> QED BY <1>1, <1>2, <1>3

\* A chunk file that an index names is never written again, under the same limit.
THEOREM ChunkImmutability ==
  ASSUME MaxChunks <= MaxNamedID
  PROVE  Spec => ChunksImmutable
  <1>1. Spec => []ConsistencyInv
    BY InitConsistencyInv, NextConsistencyInv, PTL DEF Spec
  <1>2. ASSUME ConsistencyInv, [Next]_vars
        PROVE  [\A s \in Series : \A e \in Range(index[s]) \cup Range(indexFile[s]) :
                  chunks'[s][e.id] = chunks[s][e.id]]_vars
    BY <1>2, IndexedChunksKept
  <1> QED BY <1>1, <1>2, PTL DEF Spec, ChunksImmutable
-----------------------------------------------------------------------------
(* Durability *)

\* A whole record appended to whole records is one record more.
LEMMA WalAppend ==
  ASSUME NEW words \in Seq(Nat), Len(words) % 2 = 0, NEW p \in Point
  PROVE  /\ Len(words \o <<p.ts, p.val>>) % 2 = 0
         /\ RecoverWAL(words \o <<p.ts, p.val>>) = Append(RecoverWAL(words), p)
         /\ Range(RecoverWAL(words \o <<p.ts, p.val>>)) = Range(RecoverWAL(words)) \cup {p}
  <1> DEFINE k == Len(words) \div 2
             longer == words \o <<p.ts, p.val>>
  <1>1. k \in Nat /\ Len(words) = 2*k
    OBVIOUS
  <1>2. /\ Len(longer) = 2*(k + 1)
        /\ longer[2*k + 1] = p.ts /\ longer[2*k + 2] = p.val
        /\ \A i \in 1..2*k : longer[i] = words[i]
    <2> DEFINE rec == <<p.ts, p.val>>
    <2>1. rec \in Seq(Nat) /\ Len(rec) = 2 /\ rec[1] = p.ts /\ rec[2] = p.val
      BY PointType
    <2> HIDE DEF rec
    <2>2. Len(words \o rec) = Len(words) + 2
      <3>1. Len(words \o rec) = Len(words) + Len(rec)
        BY <2>1, ConcatProperties, Zenon
      <3> QED BY <2>1, <3>1
    <2>3. \A i \in 1..(Len(words) + 2) :
            (words \o rec)[i] = IF i <= Len(words) THEN words[i] ELSE rec[i - Len(words)]
      <3>1. \A i \in 1..(Len(words) + Len(rec)) :
              (words \o rec)[i] = IF i <= Len(words) THEN words[i] ELSE rec[i - Len(words)]
        BY <2>1, ConcatProperties, Zenon
      <3> QED BY <2>1, <3>1, Zenon
    <2>4. /\ 2*k + 1 \in 1..(2*k + 2) /\ ~(2*k + 1 <= 2*k) /\ (2*k + 1) - 2*k = 1
          /\ 2*k + 2 \in 1..(2*k + 2) /\ ~(2*k + 2 <= 2*k) /\ (2*k + 2) - 2*k = 2
          /\ 2*(k + 1) = 2*k + 2
          /\ \A i \in 1..2*k : i \in 1..(2*k + 2) /\ i <= 2*k
      BY <1>1
    <2>5. longer = words \o rec
      BY DEF rec
    <2> HIDE DEF k, longer
    <2> QED BY <1>1, <2>1, <2>2, <2>3, <2>4, <2>5
  <1>3. RecoverWAL(words) = [i \in 1..k |-> [ts |-> words[2*i - 1], val |-> words[2*i]]]
    BY DEF RecoverWAL
  <1>4. RecoverWAL(longer) = [i \in 1..(k + 1) |-> [ts |-> longer[2*i - 1], val |-> longer[2*i]]]
    <2>1. Len(longer) \div 2 = k + 1
      BY <1>1, <1>2
    <2> QED BY <2>1 DEF RecoverWAL
  <1>5. p = [ts |-> p.ts, val |-> p.val]
    BY DEF Point
  <1> HIDE DEF k, longer
  <1>6. \A i \in 1..k : RecoverWAL(longer)[i] = RecoverWAL(words)[i]
    <2> SUFFICES ASSUME NEW i \in 1..k
                 PROVE  RecoverWAL(longer)[i] = RecoverWAL(words)[i]
      OBVIOUS
    <2>1. i \in 1..(k + 1) /\ 2*i - 1 \in 1..2*k /\ 2*i \in 1..2*k
      BY <1>1
    <2> QED BY <1>2, <1>3, <1>4, <2>1
  <1>7. RecoverWAL(longer)[k + 1] = p
    <2>1. k + 1 \in 1..(k + 1) /\ 2*(k + 1) - 1 = 2*k + 1 /\ 2*(k + 1) = 2*k + 2
      BY <1>1
    <2> QED BY <1>2, <1>4, <1>5, <2>1
  <1>8. Range(RecoverWAL(longer)) = Range(RecoverWAL(words)) \cup {p}
    <2>1. DOMAIN RecoverWAL(longer) = 1..(k + 1) /\ DOMAIN RecoverWAL(words) = 1..k
      BY <1>3, <1>4
    <2>2. 1..(k + 1) = 1..k \cup {k + 1}
      BY <1>1
    <2> QED BY <1>6, <1>7, <2>1, <2>2, SMTT(30) DEF Range
  <1>9. Len(longer) % 2 = 0
    BY <1>1, <1>2
  <1>10. RecoverWAL(longer) = Append(RecoverWAL(words), p)
    <2> DEFINE recs == RecoverWAL(words)
    <2>1. recs \in Seq(Record) /\ p \in Record /\ Len(recs) = k /\ DOMAIN recs = 1..k
      <3>1. DOMAIN recs = 1..k
        BY <1>3
      <3>2. recs \in Seq(Record)
        BY RecoverWALType
      <3> QED BY <1>1, <3>1, <3>2, PointType
    <2>2. RecoverWAL(longer) = [i \in 1..(k + 1) |-> RecoverWAL(longer)[i]]
      BY <1>4
    <2>3. Append(recs, p) = [i \in 1..(k + 1) |-> IF i = k + 1 THEN p ELSE recs[i]]
      <3>1. /\ Append(recs, p) \in [1..(k + 1) -> Record]
            /\ \A i \in 1..k : Append(recs, p)[i] = recs[i]
            /\ Append(recs, p)[k + 1] = p
        <4> HIDE DEF recs
        <4>1. /\ Append(recs, p) \in Seq(Record) /\ Len(Append(recs, p)) = k + 1
              /\ \A i \in 1..k : Append(recs, p)[i] = recs[i]
              /\ Append(recs, p)[k + 1] = p
          BY <2>1, AppendProperties
        <4>2. Append(recs, p) \in [1..(k + 1) -> Record]
          BY <4>1, LenProperties
        <4> QED BY <4>1, <4>2
      <3>2. \A i \in 1..(k + 1) : i = k + 1 \/ i \in 1..k
        BY <1>1
      <3> HIDE DEF recs
      <3> QED BY <3>1, <3>2
    <2>4. \A i \in 1..(k + 1) : RecoverWAL(longer)[i] = IF i = k + 1 THEN p ELSE recs[i]
      <3>1. \A i \in 1..(k + 1) : i = k + 1 \/ i \in 1..k
        BY <1>1
      <3> QED BY <3>1, <1>6, <1>7
    <2> HIDE DEF recs
    <2>5. RecoverWAL(longer) = Append(recs, p)
      BY <2>2, <2>3, <2>4
    <2> QED BY <2>5 DEF recs
  <1> QED BY <1>8, <1>9, <1>10 DEF longer

\* What DurableInv says of one series.
SeriesDurable(s) ==
  /\ Len(wal[s]) % 2 = 0
  /\ s \in opened => /\ Range(buffer[s]) \subseteq WalPoints(s)
                     /\ acked[s] \subseteq Stored(s)
  /\ s \notin opened => acked[s] \subseteq OnDisk(s)
  /\ \A p, q \in inflight[s] : p = q
  /\ phase[s] = "free" => inflight[s] = {}
  /\ phase[s] = "logged" => inflight[s] \subseteq WalPoints(s)
  /\ phase[s] \in {"rotate", "renamed", "indexing", "swap"} =>
       inflight[s] \subseteq Range(buffer[s])
  /\ phase[s] = "clear" =>
       inflight[s] \cup Range(buffer[s]) \subseteq PointsOf(s, Range(index[s]))
  /\ phase[s] = "truncate" =>
       buffer[s] = <<>> /\ inflight[s] \subseteq PointsOf(s, Range(index[s]))

\* DurableInv speaks of one series at a time.
LEMMA DurableBySeries == DurableInv <=> \A s \in Series : SeriesDurable(s)
  BY DEF DurableInv, SeriesDurable

\* What a running process serves of a series, a restart would find on disk.
LEMMA StoredOnDisk ==
  ASSUME ConsistencyInv, NEW s \in Series, s \in opened, SeriesDurable(s)
  PROVE  Stored(s) \subseteq OnDisk(s)
  <1>1. Range(index[s]) \subseteq DiskEntries(s)
    BY DEF ConsistencyInv, IndexInv
  <1>2. Range(buffer[s]) \subseteq WalPoints(s)
    BY DEF SeriesDurable
  <1> QED BY <1>1, <1>2 DEF Stored, OnDisk, PointsOf, WalPoints

\* A step that changes nothing of a series keeps what is durable of it.
LEMMA SeriesDurableFrame ==
  ASSUME NEW t \in Series, SeriesDurable(t),
         index'[t] = index[t], indexFile'[t] = indexFile[t], chunks'[t] = chunks[t],
         wal'[t] = wal[t], buffer'[t] = buffer[t], acked'[t] = acked[t],
         phase'[t] = phase[t], inflight'[t] = inflight[t],
         (t \in opened') <=> (t \in opened), (t \in hasIndex') <=> (t \in hasIndex)
  PROVE  SeriesDurable(t)'
  <1>1. DiskEntries(t)' = DiskEntries(t)
    BY DEF DiskEntries, Headers
  <1>2. \A E : PointsOf(t, E)' = PointsOf(t, E)
    BY DEF PointsOf
  <1>3. Stored(t)' = Stored(t) /\ OnDisk(t)' = OnDisk(t) /\ WalPoints(t)' = WalPoints(t)
    BY <1>1 DEF Stored, OnDisk, WalPoints, PointsOf
  <1>4. PointsOf(t, Range(index[t]))' = PointsOf(t, Range(index[t]))
    BY DEF PointsOf
  <1> QED BY <1>3, <1>4 DEF SeriesDurable

\* An append, failed or not, leaves whole records: the old ones and perhaps the new.
LEMMA AppendedWords ==
  ASSUME "wal1" \notin Faults, TypeOK, NEW s \in Series, Len(wal[s]) % 2 = 0,
         NEW p \in Point,
         \/ AppendWAL(s, p)
         \/ \E n \in 0..2 : WalFault(n) \in Faults /\ AppendWALFails(s, p, n)
  PROVE  /\ Len(wal'[s]) % 2 = 0
         /\ WalPoints(s)' \in {WalPoints(s), WalPoints(s) \cup {p}}
         /\ RecoverWAL(wal'[s]) \in {RecoverWAL(wal[s]), Append(RecoverWAL(wal[s]), p)}
         /\ AppendWAL(s, p) => p \in WalPoints(s)'
  <1> DEFINE grown == wal[s] \o <<p.ts, p.val>>
  <1>1. /\ Len(grown) % 2 = 0 /\ Range(RecoverWAL(grown)) = WalPoints(s) \cup {p}
        /\ RecoverWAL(grown) = Append(RecoverWAL(wal[s]), p)
    BY WalAppend DEF WalPoints, TypeOK
  <1>2. AppendWAL(s, p) => wal'[s] = grown
    BY DEF AppendWAL, TypeOK
  <1>3. ASSUME NEW n \in 0..2, WalFault(n) \in Faults, AppendWALFails(s, p, n)
        PROVE  wal'[s] = wal[s] \/ wal'[s] = grown
    <2>1. wal'[s] = wal[s] \o SubSeq(<<p.ts, p.val>>, 1, n)
      BY <1>3 DEF AppendWALFails, TypeOK
    <2>2. n = 0 \/ n = 2
      BY <1>3 DEF WalFault
    <2>3. SubSeq(<<p.ts, p.val>>, 1, 0) = <<>> /\ wal[s] \o <<>> = wal[s]
      BY ConcatEmptySeq DEF TypeOK
    <2>4. SubSeq(<<p.ts, p.val>>, 1, 2) = <<p.ts, p.val>>
      <3>1. <<p.ts, p.val>> \in Seq(Nat) /\ Len(<<p.ts, p.val>>) = 2
        BY PointType
      <3>2. SubSeq(<<p.ts, p.val>>, 1, Len(<<p.ts, p.val>>)) = <<p.ts, p.val>>
        BY <3>1, SubSeqFull, Zenon
      <3> QED BY <3>1, <3>2, Zenon
    <2> QED BY <2>1, <2>2, <2>3, <2>4
  <1>4. wal'[s] = wal[s] \/ wal'[s] = grown
    BY <1>2, <1>3
  <1> HIDE DEF grown
  <1> QED BY <1>1, <1>2, <1>4 DEF WalPoints

\* An append to the log: the point is in the log, nothing else moves.
LEMMA AppendWALDurable ==
  ASSUME "wal1" \notin Faults, ConsistencyInv, NEW s \in Series, SeriesDurable(s),
         NEW p \in Point,
         \/ AppendWAL(s, p)
         \/ \E n \in 0..2 : WalFault(n) \in Faults /\ AppendWALFails(s, p, n)
  PROVE  SeriesDurable(s)'
  <1>1. s \in opened /\ phase[s] = "free" /\ inflight[s] = {}
    BY DEF AppendWAL, AppendWALFails, Submit, CanStart, Running, SeriesDurable
  <1>2. UNCHANGED <<opened, buffer, chunks, index, acked>>
    BY DEF AppendWAL, AppendWALFails, Submit, memVars
  <1>3. /\ Len(wal'[s]) % 2 = 0
        /\ WalPoints(s) \subseteq WalPoints(s)'
        /\ AppendWAL(s, p) => p \in WalPoints(s)'
    BY AppendedWords DEF SeriesDurable, ConsistencyInv, TypeInv
  <1>4. Stored(s)' = Stored(s)
    BY <1>2 DEF Stored, PointsOf
  <1>5. \/ phase'[s] = "free" /\ inflight'[s] = {}
        \/ phase'[s] = "logged" /\ inflight'[s] = {p} /\ AppendWAL(s, p)
    BY <1>1 DEF AppendWAL, AppendWALFails, memVars, ConsistencyInv, TypeInv, TypeOK
  <1> QED BY <1>1, <1>2, <1>3, <1>4, <1>5 DEF SeriesDurable

\* The point moves from the log to the buffer, and may be acknowledged.
LEMMA BufferPointDurable ==
  ASSUME ConsistencyInv, NEW s \in Series, SeriesDurable(s), BufferPoint(s)
  PROVE  SeriesDurable(s)'
  <1>1. PICK p \in inflight[s] :
          /\ buffer' = [buffer EXCEPT ![s] = Append(buffer[s], p)]
          /\ \/ phase' = [phase EXCEPT ![s] = "rotate"] /\ UNCHANGED <<inflight, acked>>
             \/ acked' = [acked EXCEPT ![s] = @ \cup {p}] /\ Return(s)
    BY DEF BufferPoint
  <1>2. /\ phase[s] = "logged" /\ s \in opened
        /\ UNCHANGED <<opened, wal, chunks, index>>
    BY DEF BufferPoint, diskVars, ConsistencyInv, TypeInv, BoundsInv, Running
  <1>3. Range(buffer'[s]) = Range(buffer[s]) \cup {p}
    <2>1. p \in Record /\ buffer[s] \in Seq(Record)
      BY PointType DEF ConsistencyInv, TypeInv, TypeOK
    <2>2. buffer'[s] = Append(buffer[s], p)
      BY <1>1 DEF ConsistencyInv, TypeInv, TypeOK
    <2> QED BY <2>1, <2>2, RangeAppend
  <1>4. PointsOf(s, Range(index[s]))' = PointsOf(s, Range(index[s]))
    BY <1>2 DEF PointsOf
  <1>5. WalPoints(s)' = WalPoints(s)
    BY <1>2 DEF WalPoints
  <1>6. CASE phase' = [phase EXCEPT ![s] = "rotate"] /\ UNCHANGED <<inflight, acked>>
    <2>1. inflight'[s] \subseteq Range(buffer'[s])
      BY <1>2, <1>3, <1>6 DEF SeriesDurable
    <2> QED BY <1>2, <1>3, <1>4, <1>5, <1>6
            DEF SeriesDurable, Stored, ConsistencyInv, TypeInv, TypeOK
  <1>7. CASE acked' = [acked EXCEPT ![s] = @ \cup {p}] /\ Return(s)
    BY <1>2, <1>3, <1>4, <1>5, <1>7
       DEF Return, SeriesDurable, Stored, ConsistencyInv, TypeInv, TypeOK
  <1> QED BY <1>1, <1>6, <1>7

\* The rename of a chunk leaves every indexed chunk alone.
LEMMA WriteChunkDurable ==
  ASSUME ConsistencyInv, NEW s \in Series, SeriesDurable(s), WriteChunk(s)
  PROVE  SeriesDurable(s)'
  <1>1. /\ phase[s] = "rotate" /\ phase'[s] = "renamed" /\ s \in opened
        /\ UNCHANGED <<opened, wal, buffer, index, acked, inflight>>
    BY DEF WriteChunk, histVars, ConsistencyInv, TypeInv, TypeOK, BoundsInv, Running
  <1>2. PointsOf(s, Range(index[s]))' = PointsOf(s, Range(index[s]))
    <2>1. \A e \in Range(index[s]) : chunks'[s][e.id] = chunks[s][e.id]
      BY IndexedChunksKept DEF Next, Rotation
    <2> QED BY <1>1, <2>1 DEF PointsOf
  <1> QED BY <1>1, <1>2 DEF SeriesDurable, Stored, WalPoints

\* Publishing the entry makes the buffer's points part of the index.
LEMMA SwapIndexDurable ==
  ASSUME ConsistencyInv, NEW s \in Series, SeriesDurable(s), SwapIndex(s)
  PROVE  SeriesDurable(s)'
  <1> DEFINE new == EntryOf(nextID[s], buffer[s])
  <1>1. /\ phase[s] = "swap" /\ phase'[s] = "clear" /\ s \in opened
        /\ UNCHANGED <<opened, wal, chunks, buffer, acked, inflight>>
    BY DEF SwapIndex, diskVars, histVars, ConsistencyInv, TypeInv, TypeOK, BoundsInv, Running
  <1>2. /\ nextID[s] \in ChunkIDs /\ buffer[s] # <<>>
        /\ chunks[s][nextID[s]] = buffer[s]
        /\ newIdx[s] = WithEntry(s)
    BY <1>1 DEF ConsistencyInv, RotationInv, TypeInv, BoundsInv
  <1>3. new \in Entry /\ new.id = nextID[s]
    BY <1>2, EntryOfType, EntryIds DEF ConsistencyInv, TypeInv, TypeOK
  <1>4. index'[s] = Append(index[s], new) /\ index[s] \in Seq(Entry)
    BY <1>2 DEF SwapIndex, WithEntry, ConsistencyInv, TypeInv, TypeOK
  <1> HIDE DEF new
  <1>5. Range(index'[s]) = Range(index[s]) \cup {new}
    BY <1>3, <1>4, RangeAppend
  <1>6. PointsOf(s, Range(index[s]))' = PointsOf(s, Range(index[s])) \cup Range(buffer[s])
    BY <1>1, <1>2, <1>3, <1>5 DEF PointsOf
  <1> QED BY <1>1, <1>6 DEF SeriesDurable, Stored, WalPoints

\* Steps of a rotation that touch neither files nor the published index.
LEMMA RotationStepDurable ==
  ASSUME ConsistencyInv, NEW s \in Series, SeriesDurable(s),
         \/ FlushSeries(s) \/ WriteChunkFails(s) \/ LockIndex(s)
         \/ WriteIndexFile(s) \/ WriteIndexFileFails(s)
  PROVE  SeriesDurable(s)'
  <1>1. s \in opened
    BY DEF FlushSeries, CanStart, WriteChunkFails, LockIndex, WriteIndexFile,
           WriteIndexFileFails, ConsistencyInv, TypeInv, BoundsInv, Running
  <1>2. UNCHANGED <<opened, wal, chunks, buffer, index, acked>>
    BY DEF FlushSeries, WriteChunkFails, LockIndex, WriteIndexFile,
           WriteIndexFileFails, diskVars, histVars
  <1>3. /\ Stored(s)' = Stored(s) /\ WalPoints(s)' = WalPoints(s)
        /\ PointsOf(s, Range(index[s]))' = PointsOf(s, Range(index[s]))
    BY <1>2 DEF Stored, WalPoints, PointsOf
  <1>4. \/ phase'[s] = "free" /\ inflight'[s] = {}
        \/ /\ phase'[s] \in {"rotate", "renamed", "indexing", "swap"}
           /\ inflight'[s] = inflight[s] /\ inflight[s] \subseteq Range(buffer[s])
    BY DEF FlushSeries, CanStart, WriteChunkFails, LockIndex, WriteIndexFile,
           WriteIndexFileFails, Return, SeriesDurable, ConsistencyInv, TypeInv, TypeOK
  <1> QED BY <1>1, <1>2, <1>3, <1>4 DEF SeriesDurable

\* The buffer is dropped once its points are indexed.
LEMMA ClearBufferDurable ==
  ASSUME ConsistencyInv, NEW s \in Series, SeriesDurable(s), ClearBuffer(s)
  PROVE  SeriesDurable(s)'
  <1>1. /\ phase[s] = "clear" /\ phase'[s] = "truncate" /\ buffer'[s] = <<>>
        /\ s \in opened /\ UNCHANGED <<opened, wal, chunks, index, acked, inflight>>
    BY DEF ClearBuffer, diskVars, histVars, ConsistencyInv, TypeInv, TypeOK, BoundsInv, Running
  <1>2. Range(buffer'[s]) = {}
    BY <1>1 DEF Range
  <1>3. PointsOf(s, Range(index[s]))' = PointsOf(s, Range(index[s]))
    BY <1>1 DEF PointsOf
  <1> QED BY <1>1, <1>2, <1>3 DEF SeriesDurable, Stored, WalPoints

\* The log is dropped once the buffer is empty; the write is acknowledged.
LEMMA TruncateWALDurable ==
  ASSUME ConsistencyInv, NEW s \in Series, SeriesDurable(s), TruncateWAL(s)
  PROVE  SeriesDurable(s)'
  <1>1. /\ phase[s] = "truncate" /\ phase'[s] = "free" /\ inflight'[s] = {}
        /\ s \in opened /\ UNCHANGED <<opened, chunks, index, buffer>>
        /\ acked'[s] = acked[s] \cup inflight[s]
    BY DEF TruncateWAL, Return, ConsistencyInv, TypeInv, TypeOK, BoundsInv, Running
  <1>2. Len(wal'[s]) % 2 = 0
    <2>1. wal'[s] = wal[s] \/ wal'[s] = <<>>
      BY DEF TruncateWAL, ConsistencyInv, TypeInv, TypeOK
    <2>2. Len(<<>>) = 0 /\ 0 % 2 = 0
      OBVIOUS
    <2> QED BY <2>1, <2>2 DEF SeriesDurable
  <1>3. Stored(s)' = Stored(s) /\ inflight[s] \subseteq Stored(s) /\ Range(buffer'[s]) = {}
    BY <1>1 DEF Stored, PointsOf, SeriesDurable, Range
  <1> QED BY <1>1, <1>2, <1>3 DEF SeriesDurable

\* An opened series serves exactly what was on disk.
LEMMA OpenedDurable ==
  ASSUME "walRead" \notin Faults, ConsistencyInv, NEW s \in Series, SeriesDurable(s),
         RecoverSeries(s) \/ SkipSeries(s)
  PROVE  SeriesDurable(s)'
  <1>1. /\ s \notin opened /\ s \in opened' /\ phase[s] = "free"
        /\ UNCHANGED <<wal, chunks, phase, inflight, acked>>
    BY RecoverSeriesStep DEF SkipSeries, diskVars, histVars, ConsistencyInv, TypeInv,
       BoundsInv, Running
  <1>2. WalPoints(s)' = WalPoints(s)
    BY <1>1 DEF WalPoints
  <1>3. CASE RecoverSeries(s)
    <2>1. PICK loaded : LoadEntries(s, loaded) /\ index' = [index EXCEPT ![s] = loaded]
      BY <1>3, RecoverSeriesStep
    <2>2. Range(loaded) = DiskEntries(s) /\ index'[s] = loaded
      BY <2>1 DEF LoadEntries, SortedByStart, DiskEntries, ConsistencyInv, TypeInv, TypeOK
    <2>3. Range(buffer'[s]) = WalPoints(s)
      <3>1. buffer' = [buffer EXCEPT ![s] = RecoverWAL(wal[s])]
        BY <1>3, RecoverSeriesStep
      <3> QED BY <3>1 DEF WalPoints, ConsistencyInv, TypeInv, TypeOK
    <2>4. Stored(s)' = OnDisk(s)
      BY <1>1, <2>2, <2>3 DEF Stored, OnDisk, PointsOf, WalPoints
    <2> QED BY <1>1, <1>2, <2>3, <2>4 DEF SeriesDurable
  <1>4. CASE SkipSeries(s)
    <2>1. buffer'[s] = <<>> /\ acked[s] = {}
      BY <1>4 DEF SkipSeries, ConsistencyInv, ClosedInv
    <2>2. Range(buffer'[s]) = {}
      BY <2>1 DEF Range
    <2> QED BY <1>1, <1>2, <2>1, <2>2 DEF SeriesDurable
  <1> QED BY <1>3, <1>4

\* Without index.dat the chunk headers say at least as much.
LEMMA LoseIndexDurable ==
  ASSUME MaxChunks <= MaxNamedID, ConsistencyInv, NEW s \in Series, SeriesDurable(s),
         LoseIndex(s)
  PROVE  SeriesDurable(s)'
  <1>1. /\ s \notin opened /\ s \in hasIndex /\ s \notin hasIndex'
        /\ UNCHANGED <<opened, wal, chunks, phase, inflight, acked>>
    BY DEF LoseIndex, memVars, histVars
  <1>2. phase[s] = "free"
    BY <1>1 DEF ConsistencyInv, TypeInv, BoundsInv, Running
  <1>3. Range(indexFile[s]) \subseteq Headers(s)
    <2> SUFFICES ASSUME NEW e \in Range(indexFile[s]) PROVE e \in Headers(s)
      OBVIOUS
    <2>1. e.id \in ChunkIDs /\ e.id <= MaxNamedID
      <3>1. e \in Entry
        BY DEF ConsistencyInv, TypeInv, TypeOK, Range
      <3> QED BY <3>1, StoreAssumption DEF Entry, ChunkIDs
    <2>2. chunks[s][e.id] # <<>> /\ e = EntryOf(e.id, chunks[s][e.id])
      BY DEF ConsistencyInv, IndexInv
    <2> QED BY <2>1, <2>2 DEF Headers
  <1>4. OnDisk(s) \subseteq OnDisk(s)'
    <2>1. DiskEntries(s) \subseteq DiskEntries(s)'
      <3>1. Headers(s)' = Headers(s)
        BY <1>1 DEF Headers
      <3> QED BY <1>1, <1>3, <3>1 DEF DiskEntries
    <2> QED BY <1>1, <2>1 DEF OnDisk, PointsOf
  <1> QED BY <1>1, <1>2, <1>4 DEF SeriesDurable

\* Every step keeps DurableInv.
LEMMA NextDurableInv ==
  ASSUME Faults \cap {"wal1", "walRead"} = {}, MaxChunks <= MaxNamedID,
         ConsistencyInv, DurableInv, [Next]_vars
  PROVE  DurableInv'
  <1>a. \A t \in Series : SeriesDurable(t)
    BY DurableBySeries
  <1>b. SUFFICES \A t \in Series : SeriesDurable(t)'
    BY DEF DurableInv, SeriesDurable
  <1>1. CASE UNCHANGED vars
    BY <1>1, <1>a, SeriesDurableFrame DEF vars, diskVars, memVars, histVars
  <1>2. CASE Crash
    <2> SUFFICES ASSUME NEW t \in Series PROVE SeriesDurable(t)'
      OBVIOUS
    <2>1. /\ opened' = {} /\ phase'[t] = "free" /\ inflight'[t] = {}
          /\ UNCHANGED <<dirs, wal, chunks, hasIndex, indexFile, acked>>
      BY <1>2 DEF Crash, diskVars
    <2>2. OnDisk(t)' = OnDisk(t)
      BY <2>1 DEF OnDisk, PointsOf, DiskEntries, Headers
    <2>3. acked[t] \subseteq OnDisk(t)
      BY <1>a, StoredOnDisk DEF SeriesDurable
    <2>4. /\ Len(wal'[t]) % 2 = 0 /\ t \notin opened'
          /\ acked'[t] \subseteq OnDisk(t)'
      <3>1. Len(wal[t]) % 2 = 0
        BY <1>a DEF SeriesDurable
      <3> QED BY <2>1, <2>2, <2>3, <3>1
    <2> QED BY <2>1, <2>4 DEF SeriesDurable
  <1>3. ASSUME NEW s \in Series, NEW p \in Point,
               \/ AppendWAL(s, p)
               \/ \E n \in 0..2 : WalFault(n) \in Faults /\ AppendWALFails(s, p, n)
        PROVE  \A t \in Series : SeriesDurable(t)'
    <2> SUFFICES ASSUME NEW t \in Series, t # s PROVE SeriesDurable(t)'
      BY <1>3, <1>a, AppendWALDurable
    <2>1. wal'[t] = wal[t] /\ phase'[t] = phase[t] /\ inflight'[t] = inflight[t]
      BY <1>3 DEF AppendWAL, AppendWALFails, memVars, ConsistencyInv, TypeInv, TypeOK
    <2>2. UNCHANGED <<opened, buffer, chunks, index, acked, hasIndex, indexFile>>
      BY <1>3 DEF AppendWAL, AppendWALFails, memVars
    <2> QED BY <1>a, <2>1, <2>2, SeriesDurableFrame
  <1>4. ASSUME NEW s \in Series, BufferPoint(s)
        PROVE  \A t \in Series : SeriesDurable(t)'
    <2> SUFFICES ASSUME NEW t \in Series, t # s PROVE SeriesDurable(t)'
      BY <1>4, <1>a, BufferPointDurable
    <2>1. /\ buffer'[t] = buffer[t] /\ phase'[t] = phase[t]
          /\ inflight'[t] = inflight[t] /\ acked'[t] = acked[t]
      BY <1>4 DEF BufferPoint, Return, ConsistencyInv, TypeInv, TypeOK
    <2> QED BY <1>4, <1>a, <2>1, SeriesDurableFrame DEF BufferPoint, diskVars
  <1>5. ASSUME NEW s \in Series,
               \/ FlushSeries(s) \/ WriteChunkFails(s) \/ LockIndex(s)
               \/ WriteIndexFile(s) \/ WriteIndexFileFails(s)
        PROVE  \A t \in Series : SeriesDurable(t)'
    <2> SUFFICES ASSUME NEW t \in Series, t # s PROVE SeriesDurable(t)'
      BY <1>5, <1>a, RotationStepDurable
    <2>1. /\ phase'[t] = phase[t] /\ inflight'[t] = inflight[t]
          /\ indexFile'[t] = indexFile[t] /\ ((t \in hasIndex') <=> (t \in hasIndex))
      BY <1>5 DEF FlushSeries, WriteChunkFails, LockIndex, WriteIndexFile, WriteIndexFileFails,
         Return, diskVars, ConsistencyInv, TypeInv, TypeOK
    <2>2. UNCHANGED <<opened, wal, chunks, buffer, index, acked>>
      BY <1>5 DEF FlushSeries, WriteChunkFails, LockIndex, WriteIndexFile,
         WriteIndexFileFails, diskVars, histVars
    <2> QED BY <1>a, <2>1, <2>2, SeriesDurableFrame
  <1>6. ASSUME NEW s \in Series, FlushEmpty(s)
        PROVE  \A t \in Series : SeriesDurable(t)'
    BY <1>6, <1>1 DEF FlushEmpty
  <1>7. ASSUME NEW s \in Series, WriteChunk(s)
        PROVE  \A t \in Series : SeriesDurable(t)'
    <2> SUFFICES ASSUME NEW t \in Series, t # s PROVE SeriesDurable(t)'
      BY <1>7, <1>a, WriteChunkDurable
    <2>1. chunks'[t] = chunks[t] /\ phase'[t] = phase[t]
      BY <1>7 DEF WriteChunk, ConsistencyInv, TypeInv, TypeOK
    <2> QED BY <1>7, <1>a, <2>1, SeriesDurableFrame DEF WriteChunk, histVars
  <1>8. ASSUME NEW s \in Series, SwapIndex(s)
        PROVE  \A t \in Series : SeriesDurable(t)'
    <2> SUFFICES ASSUME NEW t \in Series, t # s PROVE SeriesDurable(t)'
      BY <1>8, <1>a, SwapIndexDurable
    <2>1. index'[t] = index[t] /\ phase'[t] = phase[t]
      BY <1>8 DEF SwapIndex, RotationInv, WithEntry, ConsistencyInv, TypeInv, TypeOK
    <2> QED BY <1>8, <1>a, <2>1, SeriesDurableFrame DEF SwapIndex, diskVars, histVars
  <1>9. ASSUME NEW s \in Series, ClearBuffer(s)
        PROVE  \A t \in Series : SeriesDurable(t)'
    <2> SUFFICES ASSUME NEW t \in Series, t # s PROVE SeriesDurable(t)'
      BY <1>9, <1>a, ClearBufferDurable
    <2>1. buffer'[t] = buffer[t] /\ phase'[t] = phase[t]
      BY <1>9 DEF ClearBuffer, ConsistencyInv, TypeInv, TypeOK
    <2> QED BY <1>9, <1>a, <2>1, SeriesDurableFrame DEF ClearBuffer, diskVars, histVars
  <1>10. ASSUME NEW s \in Series, TruncateWAL(s)
         PROVE  \A t \in Series : SeriesDurable(t)'
    <2> SUFFICES ASSUME NEW t \in Series, t # s PROVE SeriesDurable(t)'
      BY <1>10, <1>a, TruncateWALDurable
    <2>1. wal'[t] = wal[t]
      <3>1. wal' = wal \/ wal' = [wal EXCEPT ![s] = <<>>]
        BY <1>10 DEF TruncateWAL
      <3> QED BY <3>1 DEF ConsistencyInv, TypeInv, TypeOK
    <2>2. /\ phase'[t] = phase[t]
          /\ inflight'[t] = inflight[t] /\ acked'[t] = acked[t]
      BY <1>10 DEF TruncateWAL, Return, ConsistencyInv, TypeInv, TypeOK
    <2> QED BY <1>10, <1>a, <2>1, <2>2, SeriesDurableFrame DEF TruncateWAL
  <1>11. ASSUME NEW s \in Series, RecoverSeries(s)
         PROVE  \A t \in Series : SeriesDurable(t)'
    <2> SUFFICES ASSUME NEW t \in Series, t # s PROVE SeriesDurable(t)'
      BY <1>11, <1>a, OpenedDurable
    <2> QED BY <1>11, <1>a, SeriesDurableFrame, RecoverSeriesFrame, RecoverSeriesStep
            DEF histVars, ConsistencyInv, TypeInv
  <1>12. ASSUME NEW s \in Series, SkipSeries(s)
         PROVE  \A t \in Series : SeriesDurable(t)'
    <2> SUFFICES ASSUME NEW t \in Series, t # s PROVE SeriesDurable(t)'
      BY <1>12, <1>a, OpenedDurable
    <2> QED BY <1>12, <1>a, SeriesDurableFrame DEF SkipSeries, diskVars, histVars
  <1>13. ASSUME NEW s \in Series, LoseIndex(s)
         PROVE  \A t \in Series : SeriesDurable(t)'
    <2> SUFFICES ASSUME NEW t \in Series, t # s PROVE SeriesDurable(t)'
      BY <1>13, <1>a, LoseIndexDurable
    <2>1. indexFile'[t] = indexFile[t] /\ ((t \in hasIndex') <=> (t \in hasIndex))
      BY <1>13 DEF LoseIndex, ConsistencyInv, TypeInv, TypeOK
    <2> QED BY <1>13, <1>a, <2>1, SeriesDurableFrame DEF LoseIndex, memVars, histVars
  <1> QED
    BY <1>1, <1>2, <1>3, <1>4, <1>5, <1>6, <1>7, <1>8, <1>9, <1>10, <1>11,
       <1>12, <1>13, NextCases

\* An empty store has nothing to keep.
LEMMA InitDurableInv == Init => DurableInv
  <1>1. Len(<<>>) = 0 /\ 0 % 2 = 0
    OBVIOUS
  <1> QED BY <1>1 DEF Init, DurableInv, Range

\* What Durability and Visibility rest on.
LEMMA DurableSpec ==
  ASSUME Faults \cap {"wal1", "walRead"} = {}, MaxChunks <= MaxNamedID
  PROVE  Spec => [](ConsistencyInv /\ DurableInv)
  <1>1. Init => ConsistencyInv /\ DurableInv
    BY InitConsistencyInv, InitDurableInv
  <1>2. ConsistencyInv /\ DurableInv /\ [Next]_vars => ConsistencyInv' /\ DurableInv'
    BY NextConsistencyInv, NextDurableInv
  <1> QED BY <1>1, <1>2, PTL DEF Spec

\* No crash, restart, failed call or concurrent rotation loses a point that
\* WritePoint acknowledged: the next Open finds it in every state; provided that
\* no append tears, that every log can be read and that ids stay below the limit
\* of chunkFileRe.
THEOREM Durability ==
  ASSUME Faults \cap {"wal1", "walRead"} = {}, MaxChunks <= MaxNamedID
  PROVE  Spec => []AckedDurable
  <1>1. ConsistencyInv /\ DurableInv => AckedDurable
    BY DurableBySeries, StoredOnDisk DEF SeriesDurable, AckedDurable
  <1> QED BY DurableSpec, <1>1, PTL

\* The same of a series that is open: every point that WritePoint acknowledged
\* is served, in every state of every rotation.
THEOREM Visibility ==
  ASSUME Faults \cap {"wal1", "walRead"} = {}, MaxChunks <= MaxNamedID
  PROVE  Spec => []AckedVisible
  <1>1. ConsistencyInv /\ DurableInv => AckedVisible
    BY DEF ConsistencyInv, TypeInv, TypeOK, DurableInv, AckedVisible
  <1> QED BY DurableSpec, <1>1, PTL
-----------------------------------------------------------------------------
(* Origin *)

\* What OriginInv says of one series.
SeriesOriginal(s) ==
  /\ Len(wal[s]) % 2 = 0
  /\ WalPoints(s) \subseteq submitted[s]
  /\ Range(buffer[s]) \subseteq submitted[s]
  /\ \A id \in ChunkIDs : Range(chunks[s][id]) \subseteq submitted[s]
  /\ inflight[s] \subseteq submitted[s]

\* Steps that only drop or keep what a series holds keep it original.
LEMMA SeriesOriginalFrame ==
  ASSUME NEW t \in Series, SeriesOriginal(t),
         wal'[t] = wal[t] \/ wal'[t] = <<>>, buffer'[t] = buffer[t] \/ buffer'[t] = <<>>,
         inflight'[t] = inflight[t] \/ inflight'[t] = {},
         chunks'[t] = chunks[t], submitted'[t] = submitted[t]
  PROVE  SeriesOriginal(t)'
  <1>1. Len(<<>>) = 0 /\ 0 % 2 = 0 /\ 0 \div 2 = 0
    OBVIOUS
  <1>2. Range(RecoverWAL(<<>>)) = {}
    BY <1>1 DEF RecoverWAL, Range
  <1>3. Len(wal'[t]) % 2 = 0 /\ WalPoints(t)' \subseteq submitted[t]
    BY <1>1, <1>2 DEF SeriesOriginal, WalPoints
  <1>4. Range(buffer'[t]) \subseteq submitted[t]
    BY DEF SeriesOriginal, Range
  <1> QED BY <1>3, <1>4 DEF SeriesOriginal

\* Every step keeps OriginInv.
LEMMA NextOriginInv ==
  ASSUME "wal1" \notin Faults, TypeInv, OriginInv, [Next]_vars
  PROVE  OriginInv'
  <1> USE DEF TypeInv, TypeOK
  <1>a. \A t \in Series : SeriesOriginal(t)
    BY DEF OriginInv, SeriesOriginal
  <1>b. SUFFICES \A t \in Series : SeriesOriginal(t)'
    BY DEF OriginInv, SeriesOriginal
  <1>1. CASE UNCHANGED vars
    BY <1>1, <1>a, SeriesOriginalFrame DEF vars, diskVars, memVars, histVars
  <1>2. CASE Crash
    BY <1>2, <1>a, SeriesOriginalFrame DEF Crash, diskVars
  <1>3. ASSUME NEW s \in Series, NEW p \in Point,
               \/ AppendWAL(s, p)
               \/ \E n \in 0..2 : WalFault(n) \in Faults /\ AppendWALFails(s, p, n)
        PROVE  \A t \in Series : SeriesOriginal(t)'
    <2>1. UNCHANGED <<buffer, chunks>> /\ submitted' = [submitted EXCEPT ![s] = @ \cup {p}]
      BY <1>3 DEF AppendWAL, AppendWALFails, Submit, memVars
    <2>2. SeriesOriginal(s)'
      <3>1. Len(wal'[s]) % 2 = 0 /\ WalPoints(s)' \subseteq WalPoints(s) \cup {p}
        BY <1>3, <1>a, AppendedWords DEF SeriesOriginal
      <3>2. inflight'[s] \subseteq inflight[s] \cup {p}
        BY <1>3 DEF AppendWAL, AppendWALFails, memVars
      <3>3. submitted'[s] = submitted[s] \cup {p}
        BY <2>1
      <3> QED BY <1>a, <2>1, <3>1, <3>2, <3>3 DEF SeriesOriginal
    <2>3. ASSUME NEW t \in Series, t # s PROVE SeriesOriginal(t)'
      <3>1. /\ wal'[t] = wal[t] /\ inflight'[t] = inflight[t]
            /\ submitted'[t] = submitted[t]
        BY <1>3, <2>3 DEF AppendWAL, AppendWALFails, Submit, memVars
      <3> QED BY <1>a, <2>1, <3>1, SeriesOriginalFrame
    <2> QED BY <2>2, <2>3
  <1>4. ASSUME NEW s \in Series, BufferPoint(s)
        PROVE  \A t \in Series : SeriesOriginal(t)'
    <2>1. PICK p \in inflight[s] : buffer' = [buffer EXCEPT ![s] = Append(buffer[s], p)]
      BY <1>4 DEF BufferPoint
    <2>2. UNCHANGED <<wal, chunks, submitted>>
      BY <1>4 DEF BufferPoint, diskVars
    <2>3. \A t \in Series : inflight'[t] = inflight[t] \/ inflight'[t] = {}
      BY <1>4 DEF BufferPoint, Return
    <2>4. SeriesOriginal(s)'
      <3>1. p \in Record /\ buffer'[s] = Append(buffer[s], p)
        BY <2>1, PointType
      <3>2. Range(buffer'[s]) = Range(buffer[s]) \cup {p}
        BY <3>1, RangeAppend
      <3>3. WalPoints(s)' = WalPoints(s)
        BY <2>2 DEF WalPoints
      <3> QED BY <1>a, <2>2, <2>3, <3>2, <3>3 DEF SeriesOriginal
    <2>5. ASSUME NEW t \in Series, t # s PROVE SeriesOriginal(t)'
      BY <1>a, <2>1, <2>2, <2>3, <2>5, SeriesOriginalFrame
    <2> QED BY <2>4, <2>5
  <1>5. ASSUME NEW s \in Series,
               \/ FlushSeries(s) \/ FlushEmpty(s) \/ WriteChunkFails(s) \/ LockIndex(s)
               \/ WriteIndexFile(s) \/ WriteIndexFileFails(s) \/ SwapIndex(s)
               \/ ClearBuffer(s) \/ SkipSeries(s) \/ LoseIndex(s)
        PROVE  \A t \in Series : SeriesOriginal(t)'
    <2> SUFFICES ASSUME NEW t \in Series PROVE SeriesOriginal(t)'
      OBVIOUS
    <2>1. /\ buffer'[t] = buffer[t] \/ buffer'[t] = <<>>
          /\ inflight'[t] = inflight[t] \/ inflight'[t] = {}
      BY <1>5 DEF FlushSeries, FlushEmpty, WriteChunkFails, LockIndex, WriteIndexFile,
         WriteIndexFileFails, SwapIndex, ClearBuffer, SkipSeries, LoseIndex, Return,
         vars, memVars
    <2>2. UNCHANGED <<wal, chunks, submitted>>
      BY <1>5 DEF FlushSeries, FlushEmpty, WriteChunkFails, LockIndex, WriteIndexFile,
         WriteIndexFileFails, SwapIndex, ClearBuffer, SkipSeries, LoseIndex,
         vars, diskVars, histVars
    <2> QED BY <1>a, <2>1, <2>2, SeriesOriginalFrame
  <1>6. ASSUME NEW s \in Series, WriteChunk(s)
        PROVE  \A t \in Series : SeriesOriginal(t)'
    <2> SUFFICES ASSUME NEW t \in Series PROVE SeriesOriginal(t)'
      OBVIOUS
    <2>1. UNCHANGED <<wal, buffer, inflight, submitted>>
      BY <1>6 DEF WriteChunk, histVars
    <2>2. \A id \in ChunkIDs : chunks'[t][id] \in {chunks[t][id], buffer[t]}
      BY <1>6 DEF WriteChunk
    <2>3. WalPoints(t)' = WalPoints(t)
      BY <2>1 DEF WalPoints
    <2> QED BY <1>a, <2>1, <2>2, <2>3 DEF SeriesOriginal
  <1>7. ASSUME NEW s \in Series, TruncateWAL(s)
        PROVE  \A t \in Series : SeriesOriginal(t)'
    <2> SUFFICES ASSUME NEW t \in Series PROVE SeriesOriginal(t)'
      OBVIOUS
    <2>1. wal'[t] = wal[t] \/ wal'[t] = <<>>
      <3>1. wal' = wal \/ wal' = [wal EXCEPT ![s] = <<>>]
        BY <1>7 DEF TruncateWAL
      <3> QED BY <3>1
    <2> QED BY <1>7, <1>a, <2>1, SeriesOriginalFrame DEF TruncateWAL, Return
  <1>8. ASSUME NEW s \in Series, RecoverSeries(s)
        PROVE  \A t \in Series : SeriesOriginal(t)'
    <2> SUFFICES ASSUME NEW t \in Series PROVE SeriesOriginal(t)'
      OBVIOUS
    <2>1. UNCHANGED <<wal, chunks, inflight, submitted>>
      BY <1>8, RecoverSeriesStep DEF histVars
    <2>2. buffer'[t] = buffer[t] \/ buffer'[t] = RecoverWAL(wal[t])
      <3>1. buffer' = [buffer EXCEPT ![s] = RecoverWAL(wal[s])] \/ buffer' = buffer
        BY <1>8, RecoverSeriesStep
      <3> QED BY <3>1
    <2>3. WalPoints(t)' = WalPoints(t)
      BY <2>1 DEF WalPoints
    <2> QED BY <1>a, <2>1, <2>2, <2>3 DEF SeriesOriginal, WalPoints
  <1> QED
    BY <1>1, <1>2, <1>3, <1>4, <1>5, <1>6, <1>7, <1>8, NextCases

\* An empty store has nothing that nobody wrote.
LEMMA InitOriginInv == Init => OriginInv
  <1>1. Len(<<>>) = 0 /\ 0 % 2 = 0 /\ 0 \div 2 = 0
    OBVIOUS
  <1>2. Range(RecoverWAL(<<>>)) = {}
    BY <1>1 DEF RecoverWAL, Range
  <1> QED BY <1>1, <1>2 DEF Init, OriginInv, WalPoints, Range

\* Nothing is served or recovered that no client wrote, provided that no append
\* to a log tears.
THEOREM Origin ==
  ASSUME "wal1" \notin Faults
  PROVE  Spec => []NoPhantoms
  <1>1. Init => TypeInv /\ OriginInv
    BY InitTypeInv, InitOriginInv
  <1>2. TypeInv /\ OriginInv /\ [Next]_vars => TypeInv' /\ OriginInv'
    BY NextTypeInv, NextOriginInv
  <1>3. TypeInv /\ OriginInv => NoPhantoms
    <2> SUFFICES ASSUME TypeInv, OriginInv, NEW s \in Series
                 PROVE  OnDisk(s) \cup Stored(s) \subseteq submitted[s]
      BY DEF NoPhantoms
    <2>1. \A e \in Range(index[s]) \cup DiskEntries(s) : e.id \in ChunkIDs
      <3>1. Range(index[s]) \cup Range(indexFile[s]) \subseteq Entry
        BY DEF TypeInv, TypeOK, Range
      <3> QED BY <3>1, EntryIds DEF DiskEntries, Entry
    <2> QED BY <2>1 DEF OnDisk, Stored, PointsOf, OriginInv, WalPoints
  <1> QED BY <1>1, <1>2, <1>3, PTL DEF Spec
-----------------------------------------------------------------------------
(* Refinement *)

RefinementInv == ConsistencyInv /\ DurableInv /\ OriginInv

AbstractVars == <<Running, submitted, acked, VisiblePoints>>

\* What is served of series t depends on its index, chunks and buffer only.
LEMMA StoredFrame ==
  ASSUME NEW t \in Series, index'[t] = index[t], chunks'[t] = chunks[t], buffer'[t] = buffer[t]
  PROVE  Stored(t)' = Stored(t)
  BY DEF Stored, PointsOf

\* Rotations serve the same points before and after each of their steps.
LEMMA RotationInvisible ==
  ASSUME RefinementInv, NEW s \in Series, NEW t \in Series,
         \/ FlushSeries(s) \/ WriteChunk(s) \/ WriteChunkFails(s) \/ LockIndex(s)
         \/ WriteIndexFile(s) \/ WriteIndexFileFails(s) \/ SwapIndex(s)
         \/ ClearBuffer(s) \/ TruncateWAL(s)
  PROVE  Stored(t)' = Stored(t)
  <1> USE DEF RefinementInv, ConsistencyInv, TypeInv, TypeOK
  <1>1. CASE \/ FlushSeries(s) \/ WriteChunkFails(s) \/ LockIndex(s)
             \/ WriteIndexFile(s) \/ WriteIndexFileFails(s) \/ TruncateWAL(s)
    BY <1>1, StoredFrame DEF FlushSeries, WriteChunkFails, LockIndex, WriteIndexFile,
       WriteIndexFileFails, TruncateWAL, diskVars
  <1>2. CASE WriteChunk(s)
    <2>1. UNCHANGED <<index, buffer>>
      BY <1>2 DEF WriteChunk
    <2>2. \A e \in Range(index[t]) : chunks'[t][e.id] = chunks[t][e.id]
      BY <1>2, IndexedChunksKept DEF Next, Rotation
    <2> QED BY <2>1, <2>2 DEF Stored, PointsOf
  <1>3. CASE SwapIndex(s)
    <2>1. UNCHANGED <<chunks, buffer>> /\ index' = newIdx[s] /\ phase[s] = "swap"
      BY <1>3 DEF SwapIndex, diskVars
    <2>2. /\ nextID[s] \in ChunkIDs /\ buffer[s] # <<>>
          /\ chunks[s][nextID[s]] = buffer[s]
          /\ newIdx[s] = WithEntry(s)
      BY <2>1 DEF RotationInv, BoundsInv
    <2>3. CASE t # s
      BY <2>1, <2>2, <2>3, StoredFrame DEF WithEntry
    <2>4. CASE t = s
      <3> DEFINE new == EntryOf(nextID[s], buffer[s])
      <3>1. new \in Entry /\ new.id = nextID[s]
        BY <2>2, EntryOfType, EntryIds
      <3>2. index'[s] = Append(index[s], new) /\ index[s] \in Seq(Entry)
        BY <2>1, <2>2 DEF WithEntry
      <3> HIDE DEF new
      <3>3. Range(index'[s]) = Range(index[s]) \cup {new}
        <4>1. new \in Entry /\ index[s] \in Seq(Entry)
          BY <3>1, <3>2
        <4>2. Range(Append(index[s], new)) = Range(index[s]) \cup {new}
          BY <4>1, RangeAppend, SMTT(20)
        <4> QED BY <3>2, <4>2
      <3> QED BY <2>1, <2>2, <2>4, <3>1, <3>3 DEF Stored, PointsOf
    <2> QED BY <2>3, <2>4
  <1>4. CASE ClearBuffer(s)
    <2>1. UNCHANGED <<chunks, index>> /\ phase[s] = "clear"
          /\ buffer' = [buffer EXCEPT ![s] = <<>>]
      BY <1>4 DEF ClearBuffer, diskVars
    <2>2. CASE t # s
      BY <2>1, <2>2, StoredFrame
    <2>3. CASE t = s
      <3>1. Range(buffer'[s]) = {}
        BY <2>1 DEF Range
      <3>2. Range(buffer[s]) \subseteq PointsOf(s, Range(index[s]))
        BY <2>1 DEF DurableInv
      <3> QED BY <2>1, <2>3, <3>1, <3>2 DEF Stored, PointsOf
    <2> QED BY <2>2, <2>3
  <1> QED BY <1>1, <1>2, <1>3, <1>4

\* Nothing changes abstractly when up stays and every series serves the same.
LEMMA Stutter ==
  ASSUME UNCHANGED <<opened, submitted, acked>>, \A t \in Series : Stored(t)' = Stored(t)
  PROVE  UNCHANGED AbstractVars
  BY DEF AbstractVars, VisiblePoints, Running

\* An empty store is an empty set of points per series.
LEMMA InitRefines == Init => Durable!Init
  <1> SUFFICES ASSUME Init PROVE Durable!Init
    OBVIOUS
  <1>1. \A s \in Series : Stored(s) = {}
    BY DEF Init, Stored, PointsOf, EmptyIndex, Range
  <1> QED BY <1>1 DEF Init, Durable!Init, VisiblePoints, Running

\* A call to the log is an abstract Submit.
LEMMA AppendWALRefines ==
  ASSUME RefinementInv, NEW s \in Series, NEW p \in Point,
         AppendWAL(s, p) \/ \E n \in 0..2 : AppendWALFails(s, p, n)
  PROVE  Durable!Submit(s, p)
  <1>1. /\ UNCHANGED <<opened, chunks, index, buffer, acked>> /\ Running
        /\ submitted' = [submitted EXCEPT ![s] = @ \cup {p}]
    BY DEF AppendWAL, AppendWALFails, Submit, CanStart, memVars
  <1>2. \A t \in Series : Stored(t)' = Stored(t)
    BY <1>1, StoredFrame
  <1>3. VisiblePoints' = VisiblePoints /\ Running'
    BY <1>1, <1>2 DEF VisiblePoints, Running
  <1> QED BY <1>1, <1>3 DEF Durable!Submit

\* BufferPoint is an abstract Keep.
LEMMA BufferPointRefines ==
  ASSUME RefinementInv, NEW s \in Series, BufferPoint(s)
  PROVE  \E p \in Point : Durable!Keep(s, p)
  <1> USE DEF RefinementInv, ConsistencyInv, TypeInv, TypeOK
  <1>1. PICK p \in inflight[s] :
          /\ buffer' = [buffer EXCEPT ![s] = Append(buffer[s], p)]
          /\ acked' \in {acked, [acked EXCEPT ![s] = @ \cup {p}]}
    BY DEF BufferPoint
  <1>2. Running /\ UNCHANGED <<opened, chunks, index, submitted>>
    BY DEF BufferPoint, diskVars, BoundsInv
  <1>3. p \in Point /\ p \in submitted[s]
    BY DEF OriginInv
  <1>4. Stored(s)' = Stored(s) \cup {p}
    <2>1. p \in Record /\ buffer'[s] = Append(buffer[s], p)
      BY <1>1, <1>3, PointType
    <2>2. Range(buffer'[s]) = Range(buffer[s]) \cup {p}
      BY <2>1, RangeAppend
    <2> QED BY <1>2, <2>2 DEF Stored, PointsOf
  <1>5. \A t \in Series : t # s => Stored(t)' = Stored(t)
    BY <1>1, <1>2, StoredFrame
  <1>6. VisiblePoints' = [VisiblePoints EXCEPT ![s] = @ \cup {p}] /\ Running'
    BY <1>2, <1>4, <1>5 DEF VisiblePoints, Running
  <1> QED BY <1>1, <1>2, <1>3, <1>6 DEF Durable!Keep

\* The end of a rotation acknowledges the point that caused it, if any.
LEMMA TruncateWALRefines ==
  ASSUME RefinementInv, NEW s \in Series, TruncateWAL(s)
  PROVE  (\E p \in Point : Durable!Acknowledge(s, p)) \/ UNCHANGED AbstractVars
  <1>1. /\ phase[s] = "truncate" /\ Running /\ UNCHANGED <<opened, submitted>>
        /\ acked' = [acked EXCEPT ![s] = @ \cup inflight[s]]
        /\ acked \in [Series -> SUBSET Point] /\ inflight[s] \subseteq Point
    BY DEF TruncateWAL, BoundsInv, RefinementInv, ConsistencyInv, TypeInv, TypeOK
  <1>2. \A t \in Series : Stored(t)' = Stored(t)
    BY RotationInvisible
  <1>3. VisiblePoints' = VisiblePoints /\ Running'
    BY <1>1, <1>2 DEF VisiblePoints, Running
  <1>4. CASE inflight[s] = {}
    <2>1. acked' = acked
      BY <1>1, <1>4
    <2> QED BY <1>1, <1>2, <2>1, Stutter
  <1>5. CASE inflight[s] # {}
    <2>1. \A p, q \in inflight[s] : p = q
      BY DEF RefinementInv, DurableInv
    <2>2. PICK p \in inflight[s] : TRUE
      BY <1>5
    <2>3. inflight[s] = {p}
      BY <2>1, <2>2
    <2>4. p \in Point /\ p \in VisiblePoints[s]
      BY <1>1, <2>2 DEF RefinementInv, DurableInv, VisiblePoints, Stored
    <2> QED BY <1>1, <1>3, <2>3, <2>4 DEF Durable!Acknowledge
  <1> QED BY <1>4, <1>5

\* Loading the last series is an abstract Restart, loading another one is invisible.
LEMMA OpenRefines ==
  ASSUME RefinementInv, RefinementInv', NEW s \in Series, RecoverSeries(s) \/ SkipSeries(s)
  PROVE  Durable!Restart \/ UNCHANGED AbstractVars
  <1>1. ~Running /\ UNCHANGED <<submitted, acked>>
    BY RecoverSeriesStep DEF SkipSeries, histVars, Running
  <1>2. CASE Running'
    <2>1. \A t \in Series : /\ acked'[t] \subseteq Stored(t)'
                            /\ Stored(t)' \subseteq submitted'[t]
                            /\ submitted'[t] \subseteq Point
      <3> SUFFICES ASSUME NEW t \in Series
                   PROVE  /\ acked'[t] \subseteq Stored(t)'
                          /\ Stored(t)' \subseteq submitted'[t]
                          /\ submitted'[t] \subseteq Point
        OBVIOUS
      <3>1. acked'[t] \subseteq Stored(t)' /\ submitted'[t] \subseteq Point
        BY <1>2 DEF RefinementInv, ConsistencyInv, TypeInv, TypeOK, DurableInv, Running
      <3>2. \A e \in Range(index'[t]) : e.id \in ChunkIDs
        <4>1. index'[t] \in Seq(Entry)
          BY DEF RefinementInv, ConsistencyInv, TypeInv, TypeOK
        <4>2. Range(index'[t]) \subseteq Entry
          BY <4>1 DEF Range
        <4> QED BY <4>2 DEF Entry
      <3>3. Stored(t)' \subseteq submitted'[t]
        BY <3>2 DEF RefinementInv, OriginInv, Stored, PointsOf
      <3> QED BY <3>1, <3>3
    <2>2. VisiblePoints' = [t \in Series |-> Stored(t)']
      BY <1>2 DEF VisiblePoints
    <2> QED BY <1>1, <1>2, <2>1, <2>2 DEF Durable!Restart
  <1>3. CASE ~Running'
    <2>1. Running' = Running
      BY <1>1, <1>3 DEF Running
    <2>2. VisiblePoints' = VisiblePoints
      BY <1>1, <1>3 DEF VisiblePoints
    <2> QED BY <1>1, <2>1, <2>2 DEF AbstractVars
  <1> QED BY <1>2, <1>3

\* Every step of the store is a step of the abstract store, or changes nothing of it.
LEMMA NextRefines ==
  ASSUME RefinementInv, RefinementInv', [Next]_vars
  PROVE  Durable!Next \/ UNCHANGED AbstractVars
  <1>1. CASE UNCHANGED vars
    BY <1>1, StoredFrame, Stutter DEF vars, diskVars, memVars, histVars
  <1>2. CASE Crash
    <2>1. ~Running' /\ UNCHANGED <<submitted, acked>>
      BY <1>2 DEF Crash, Running, RefinementInv, ConsistencyInv, TypeInv, TypeOK
    <2>2. VisiblePoints' = [t \in Series |-> {}]
      BY <2>1 DEF VisiblePoints
    <2> QED BY <2>1, <2>2 DEF Durable!Next, Durable!Crash
  <1>3. ASSUME NEW s \in Series, NEW p \in Point,
               AppendWAL(s, p) \/ \E n \in 0..2 : AppendWALFails(s, p, n)
        PROVE  Durable!Next
    BY <1>3, AppendWALRefines DEF Durable!Next
  <1>4. ASSUME NEW s \in Series, BufferPoint(s)
        PROVE  Durable!Next
    BY <1>4, BufferPointRefines DEF Durable!Next
  <1>5. ASSUME NEW s \in Series, TruncateWAL(s)
        PROVE  Durable!Next \/ UNCHANGED AbstractVars
    BY <1>5, TruncateWALRefines DEF Durable!Next
  <1>6. ASSUME NEW s \in Series,
               \/ FlushSeries(s) \/ WriteChunk(s) \/ WriteChunkFails(s) \/ LockIndex(s)
               \/ WriteIndexFile(s) \/ WriteIndexFileFails(s) \/ SwapIndex(s)
               \/ ClearBuffer(s)
        PROVE  UNCHANGED AbstractVars
    <2>1. \A t \in Series : Stored(t)' = Stored(t)
      BY <1>6, RotationInvisible
    <2>2. UNCHANGED <<opened, submitted, acked>>
      BY <1>6 DEF FlushSeries, WriteChunk, WriteChunkFails, LockIndex, WriteIndexFile,
         WriteIndexFileFails, SwapIndex, ClearBuffer, histVars
    <2> QED BY <2>1, <2>2, Stutter
  <1>7. ASSUME NEW s \in Series, FlushEmpty(s)
        PROVE  UNCHANGED AbstractVars
    BY <1>7, <1>1, StoredFrame, Stutter DEF FlushEmpty, vars, diskVars, memVars, histVars
  <1>8. ASSUME NEW s \in Series, LoseIndex(s)
        PROVE  UNCHANGED AbstractVars
    <2>1. UNCHANGED <<opened, submitted, acked, chunks, index, buffer>>
      BY <1>8 DEF LoseIndex, memVars, histVars
    <2> QED BY <2>1, StoredFrame, Stutter
  <1>9. ASSUME NEW s \in Series, RecoverSeries(s) \/ SkipSeries(s)
        PROVE  Durable!Next \/ UNCHANGED AbstractVars
    BY <1>9, OpenRefines DEF Durable!Next
  <1> QED
    BY <1>1, <1>2, <1>3, <1>4, <1>5, <1>6, <1>7, <1>8, <1>9, NextCases

\* The store, with its files, logs, locks, failures and crashes, is a set of
\* points per series that only grows while it is open and that no restart makes
\* smaller than what was acknowledged; under the provisos of Durability.
THEOREM Refinement ==
  ASSUME Faults \cap {"wal1", "walRead"} = {}, MaxChunks <= MaxNamedID
  PROVE  Spec => ImplementsDurableSeries
  <1>1. Init => RefinementInv
    BY InitConsistencyInv, InitDurableInv, InitOriginInv DEF RefinementInv
  <1>2. RefinementInv /\ [Next]_vars => RefinementInv'
    BY NextConsistencyInv, NextDurableInv, NextOriginInv DEF RefinementInv, ConsistencyInv
  <1>3. RefinementInv /\ RefinementInv' /\ [Next]_vars =>
          [Durable!Next]_<<Running, submitted, acked, VisiblePoints>>
    BY NextRefines DEF AbstractVars
  <1>4. Init => Durable!Init
    BY InitRefines
  <1> QED
    BY <1>1, <1>2, <1>3, <1>4, PTL DEF Spec, ImplementsDurableSeries, Durable!Spec, Durable!vars
=============================================================================
