------------------------------- MODULE Store -------------------------------
(***************************************************************************)
(* The persistence layer of Chronos (backend/persistence/store.go, wal.go):*)
(* WritePoint, rotateLocked and FlushSeries, one action per step that      *)
(* touches a file or shared memory, a process crash between any two of     *)
(* them, and Open's rebuildIndex, series by series.                        *)
(*                                                                         *)
(* A point is a record [ts, val].  The value is abstracted to the serial   *)
(* number of the write, so that every write is recognisable wherever its   *)
(* point turns up.  The WAL is a sequence of 8-byte words, two to a record *)
(* (wal.go's 16-byte record), which is the granularity at which a torn     *)
(* append is modelled.  A chunk file is the sequence of points ReadChunk   *)
(* decodes from it; the .tmp files are not state, since no reader and no   *)
(* recovery ever looks at them.                                            *)
(*                                                                         *)
(* st.mu is held by the operation that series s is in the middle of:       *)
(* it is free exactly when phase[s] = "free".                              *)
(***************************************************************************)
EXTENDS Integers, Sequences, FiniteSets, Functions

CONSTANTS
  Series,             \* series names
  Timestamps,         \* timestamps a client may write
  MaxPointsPerChunk,  \* config.MaxPointsPerChunk
  MaxChunkDuration,   \* config.MaxChunkDurationSecs
  MaxNamedID,         \* largest id that chunkFileRe's \d{4} matches
  InOrder,            \* TRUE: the clients write each series in time order
  Faults,             \* the error returns that may be taken, see FaultKinds
  MaxWrites,          \* bound: WritePoint calls
  MaxChunks           \* bound: chunk ids of a series

\* wal0, wal1, wal2: AppendWAL fails after writing 0, 1 or 2 words;
\* walRead: RecoverWAL fails; chunk: a step up to the rename fails;
\* index: writeIndexFile fails; truncate: TruncateWAL fails;
\* indexLost: index.dat is found missing or unparsable at startup;
\* chunkRead: ReadChunk fails, in StoreQuery.
FaultKinds == {"wal0", "wal1", "wal2", "walRead", "chunk", "index",
               "truncate", "indexLost", "chunkRead"}

ChunkIDs == 1..MaxChunks

Point == [ts : Timestamps, val : 1..MaxWrites]

ASSUME StoreAssumption ==
  /\ Timestamps \subseteq Nat
  /\ MaxPointsPerChunk \in Nat \ {0}
  /\ MaxChunkDuration \in Nat
  /\ MaxNamedID \in Nat
  /\ InOrder \in BOOLEAN
  /\ Faults \subseteq FaultKinds
  /\ MaxWrites \in Nat
  /\ MaxChunks \in Nat

VARIABLES
  \* the data directory: what a crash leaves
  dirs,       \* series whose directory exists
  wal,        \* [Series -> Seq(words)]: wal.log
  chunks,     \* [Series -> [ChunkIDs -> Seq(points)]]: chunk files, <<>> if absent
  hasIndex,   \* series whose index.dat exists and parses
  indexFile,  \* [Series -> Seq(entries)]: index.dat
  \* the process
  opened,     \* series that rebuildIndex has loaded; all of them once Open returned
  buffer,     \* [Series -> Seq(points)]: seriesState.buffer
  nextID,     \* [Series -> Nat]: seriesState.nextID
  index,      \* [Series -> Seq(entries)]: the map behind indexPtr
  newIdx,     \* [Series -> index map]: rotateLocked's local copy of the index
  indexMu,    \* series whose rotation holds indexMu: {} or a singleton
  phase,      \* [Series -> Phase]: where the operation holding st.mu is
  inflight,   \* [Series -> SUBSET Point]: the point it will acknowledge, if any
  \* history
  serial,     \* number of WritePoint calls
  submitted,  \* [Series -> SUBSET Point]: points WritePoint was called with
  acked,      \* [Series -> SUBSET Point]: points it returned nil for
  bootSerial  \* serial at the last crash

diskVars == <<dirs, wal, chunks, hasIndex, indexFile>>
memVars  == <<opened, buffer, nextID, index, newIdx, indexMu, phase, inflight>>
histVars == <<serial, submitted, acked, bootSerial>>
vars     == <<diskVars, memVars, histVars>>

\* What the operation holding st.mu has just done or will do next.
Phase == {"free", "logged", "rotate", "renamed", "indexing", "swap", "clear",
          "truncate"}

\* What the files can hold: any words, when a torn append shifted them.
Record == [ts : Nat, val : Nat]
Entry  == [id : ChunkIDs, start : Nat, end : Nat, count : Nat]

EmptyIndex == [s \in Series |-> <<>>]
-----------------------------------------------------------------------------
(* The files *)

\* Mutant: the end time is taken from the first point.
EntryOf_StartTwice(id, pts) ==
  [id |-> id, start |-> pts[1].ts, end |-> pts[1].ts, count |-> Len(pts)]

\* The index entry of a chunk: its header, or the entry rotateLocked builds.
EntryOf(id, pts) ==
  [id |-> id, start |-> pts[1].ts, end |-> pts[Len(pts)].ts, count |-> Len(pts)]

\* Mutant: the halves of a record are read in the wrong order.
RecoverWAL_Swapped(words) ==
  [i \in 1..(Len(words) \div 2) |->
     [ts |-> words[2*i], val |-> words[2*i - 1]]]

\* The records of a WAL file: whole 16-byte records only, whatever they hold.
RecoverWAL(words) ==
  [i \in 1..(Len(words) \div 2) |->
     [ts |-> words[2*i - 1], val |-> words[2*i]]]

\* What scanChunkHeaders collects: every chunk file whose name chunkFileRe matches.
Headers(s) ==
  {EntryOf(id, chunks[s][id]) :
     id \in {i \in ChunkIDs : i <= MaxNamedID /\ chunks[s][i] # <<>>}}

\* sort.Slice by StartTime leaves entries with equal starts in any order.
SortedByStart(S) ==
  {e \in [1..Cardinality(S) -> S] :
     /\ Range(e) = S
     /\ \A i, j \in DOMAIN e : i < j => e[i].start <= e[j].start}

\* Only the ids that chunkFileRe matches count towards nextID.
NamedIDs(entries) == {e.id : e \in {x \in Range(entries) : x.id <= MaxNamedID}}

\* Mutant: the counter is not recovered.
IsRecoveredID_Reset(n, entries) == n = 0

IsRecoveredID(n, entries) ==
  /\ n = 0 \/ n \in NamedIDs(entries)
  /\ \A id \in NamedIDs(entries) : id <= n

shouldRotate(buf) ==
  \/ Len(buf) >= MaxPointsPerChunk
  \/ Len(buf) >= 2 /\ buf[Len(buf)].ts - buf[1].ts >= MaxChunkDuration
-----------------------------------------------------------------------------
Init ==
  /\ dirs = {} /\ hasIndex = {}
  /\ wal = [s \in Series |-> <<>>]
  /\ chunks = [s \in Series |-> [i \in ChunkIDs |-> <<>>]]
  /\ indexFile = [s \in Series |-> <<>>]
  /\ opened = Series
  /\ buffer = [s \in Series |-> <<>>]
  /\ nextID = [s \in Series |-> 0]
  /\ index = EmptyIndex
  /\ newIdx = [s \in Series |-> EmptyIndex]
  /\ indexMu = {}
  /\ phase = [s \in Series |-> "free"]
  /\ inflight = [s \in Series |-> {}]
  /\ serial = 0 /\ bootSerial = 0
  /\ submitted = [s \in Series |-> {}]
  /\ acked = [s \in Series |-> {}]

Running == opened = Series

\* An operation on s can start: Open has returned and st.mu is free.
CanStart(s) == Running /\ phase[s] = "free"

\* The operation on s returns and releases st.mu.
Return(s) ==
  /\ phase' = [phase EXCEPT ![s] = "free"]
  /\ inflight' = [inflight EXCEPT ![s] = {}]
-----------------------------------------------------------------------------
(* WritePoint *)

\* A call of WritePoint on s with a point not written before.
Submit(s, p) ==
  /\ CanStart(s)
  /\ serial < MaxWrites /\ nextID[s] < MaxChunks
  /\ InOrder => \A q \in submitted[s] : q.ts <= p.ts
  /\ p.val = serial + 1
  /\ serial' = serial + 1
  /\ submitted' = [submitted EXCEPT ![s] = @ \cup {p}]
  /\ dirs' = dirs \cup {s}

\* The record is appended and synced; st.mu stays held.
AppendWAL(s, p) ==
  /\ Submit(s, p)
  /\ wal' = [wal EXCEPT ![s] = @ \o <<p.ts, p.val>>]
  /\ phase' = [phase EXCEPT ![s] = "logged"]
  /\ inflight' = [inflight EXCEPT ![s] = {p}]
  /\ UNCHANGED <<chunks, hasIndex, indexFile, opened, buffer, nextID, index,
                 newIdx, indexMu, acked, bootSerial>>

\* AppendWAL returns an error with n of the record's two words in the file:
\* the point is neither buffered nor acknowledged, and nothing is undone.
AppendWALFails(s, p, n) ==
  /\ Submit(s, p)
  /\ wal' = [wal EXCEPT ![s] = @ \o SubSeq(<<p.ts, p.val>>, 1, n)]
  /\ UNCHANGED <<chunks, hasIndex, indexFile, memVars, acked, bootSerial>>

\* The point enters the buffer; the call returns nil or goes on to rotateLocked.
BufferPoint(s) ==
  /\ phase[s] = "logged"
  /\ \E p \in inflight[s] :
       LET buf == Append(buffer[s], p)
       IN /\ buffer' = [buffer EXCEPT ![s] = buf]
          /\ \/ /\ shouldRotate(buf)
                /\ phase' = [phase EXCEPT ![s] = "rotate"]
                /\ UNCHANGED <<inflight, acked>>
             \/ /\ ~shouldRotate(buf)
                /\ acked' = [acked EXCEPT ![s] = @ \cup {p}]
                /\ Return(s)
  /\ UNCHANGED <<diskVars, opened, nextID, index, newIdx, indexMu, serial,
                 submitted, bootSerial>>
-----------------------------------------------------------------------------
(* FlushSeries and rotateLocked *)

FlushSeries(s) ==
  /\ CanStart(s)
  /\ buffer[s] # <<>>
  /\ nextID[s] < MaxChunks
  /\ phase' = [phase EXCEPT ![s] = "rotate"]
  /\ UNCHANGED <<diskVars, opened, buffer, nextID, index, newIdx, indexMu,
                 inflight, histVars>>

\* rotateLocked returns at once on an empty buffer.
FlushEmpty(s) ==
  /\ CanStart(s)
  /\ buffer[s] = <<>>
  /\ UNCHANGED vars

\* Mutant: the log is truncated as soon as the chunk is in place.
WriteChunk_Truncates(s) ==
  /\ phase[s] = "rotate"
  /\ nextID' = [nextID EXCEPT ![s] = @ + 1]
  /\ chunks' = [chunks EXCEPT ![s][nextID[s] + 1] = buffer[s]]
  /\ wal' = [wal EXCEPT ![s] = <<>>]
  /\ phase' = [phase EXCEPT ![s] = "renamed"]
  /\ UNCHANGED <<dirs, hasIndex, indexFile, opened, buffer, index, newIdx,
                 indexMu, inflight, histVars>>

\* The chunk is written to a .tmp file, synced and renamed over its final name.
WriteChunk(s) ==
  /\ phase[s] = "rotate"
  /\ nextID' = [nextID EXCEPT ![s] = @ + 1]
  /\ chunks' = [chunks EXCEPT ![s][nextID[s] + 1] = buffer[s]]
  /\ phase' = [phase EXCEPT ![s] = "renamed"]
  /\ UNCHANGED <<dirs, wal, hasIndex, indexFile, opened, buffer, index, newIdx,
                 indexMu, inflight, histVars>>

\* An error up to the rename: the id is used up, the buffer kept, the call fails.
WriteChunkFails(s) ==
  /\ phase[s] = "rotate"
  /\ nextID' = [nextID EXCEPT ![s] = @ + 1]
  /\ Return(s)
  /\ UNCHANGED <<diskVars, opened, buffer, index, newIdx, indexMu, histVars>>

\* The copy of the published index with the new entry.
WithEntry(s) == [index EXCEPT ![s] = Append(@, EntryOf(nextID[s], buffer[s]))]

\* Mutant: the copy is made without indexMu.
LockIndex_Unlocked(s) ==
  /\ phase[s] = "renamed"
  /\ indexMu' = indexMu \cup {s}
  /\ newIdx' = [newIdx EXCEPT ![s] = WithEntry(s)]
  /\ phase' = [phase EXCEPT ![s] = "indexing"]
  /\ UNCHANGED <<diskVars, opened, buffer, nextID, index, inflight, histVars>>

\* Mutant: the copy holds the new series only.
LockIndex_DropsOthers(s) ==
  /\ phase[s] = "renamed"
  /\ indexMu = {} /\ indexMu' = {s}
  /\ newIdx' = [newIdx EXCEPT ![s] = [EmptyIndex EXCEPT ![s] = WithEntry(s)[s]]]
  /\ phase' = [phase EXCEPT ![s] = "indexing"]
  /\ UNCHANGED <<diskVars, opened, buffer, nextID, index, inflight, histVars>>

\* indexMu.Lock, then a copy of the published index with the new entry.
LockIndex(s) ==
  /\ phase[s] = "renamed"
  /\ indexMu = {}
  /\ indexMu' = {s}
  /\ newIdx' = [newIdx EXCEPT ![s] = WithEntry(s)]
  /\ phase' = [phase EXCEPT ![s] = "indexing"]
  /\ UNCHANGED <<diskVars, opened, buffer, nextID, index, inflight, histVars>>

\* writeIndexFile replaces index.dat by a rename.
WriteIndexFile(s) ==
  /\ phase[s] = "indexing"
  /\ indexFile' = [indexFile EXCEPT ![s] = newIdx[s][s]]
  /\ hasIndex' = hasIndex \cup {s}
  /\ phase' = [phase EXCEPT ![s] = "swap"]
  /\ UNCHANGED <<dirs, wal, chunks, opened, buffer, nextID, index, newIdx,
                 indexMu, inflight, histVars>>

\* Mutant: the buffer is cleared although the chunk has no entry.
WriteIndexFileFails_Clears(s) ==
  /\ phase[s] = "indexing"
  /\ indexMu' = {}
  /\ newIdx' = [newIdx EXCEPT ![s] = EmptyIndex]
  /\ buffer' = [buffer EXCEPT ![s] = <<>>]
  /\ Return(s)
  /\ UNCHANGED <<diskVars, opened, nextID, index, histVars>>

\* Mutant: the error return forgets indexMu.Unlock.
WriteIndexFileFails_KeepsLock(s) ==
  /\ phase[s] = "indexing"
  /\ newIdx' = [newIdx EXCEPT ![s] = EmptyIndex]
  /\ Return(s)
  /\ UNCHANGED <<diskVars, opened, buffer, nextID, index, indexMu, histVars>>

\* writeIndexFile fails: indexMu is released, the chunk stays without an entry.
WriteIndexFileFails(s) ==
  /\ phase[s] = "indexing"
  /\ indexMu' = {}
  /\ newIdx' = [newIdx EXCEPT ![s] = EmptyIndex]
  /\ Return(s)
  /\ UNCHANGED <<diskVars, opened, buffer, nextID, index, histVars>>

\* swapIndex publishes the copy; indexMu.Unlock.
SwapIndex(s) ==
  /\ phase[s] = "swap"
  /\ index' = newIdx[s]
  /\ newIdx' = [newIdx EXCEPT ![s] = EmptyIndex]
  /\ indexMu' = {}
  /\ phase' = [phase EXCEPT ![s] = "clear"]
  /\ UNCHANGED <<diskVars, opened, buffer, nextID, inflight, histVars>>

\* Mutant: the buffer keeps its points.
ClearBuffer_Keeps(s) ==
  /\ phase[s] = "clear"
  /\ phase' = [phase EXCEPT ![s] = "truncate"]
  /\ UNCHANGED <<diskVars, opened, buffer, nextID, index, newIdx, indexMu,
                 inflight, histVars>>

ClearBuffer(s) ==
  /\ phase[s] = "clear"
  /\ buffer' = [buffer EXCEPT ![s] = <<>>]
  /\ phase' = [phase EXCEPT ![s] = "truncate"]
  /\ UNCHANGED <<diskVars, opened, nextID, index, newIdx, indexMu, inflight,
                 histVars>>

\* rotateLocked ignores TruncateWAL's error: the call succeeds either way.
TruncateWAL(s) ==
  /\ phase[s] = "truncate"
  /\ \/ wal' = [wal EXCEPT ![s] = <<>>]
     \/ "truncate" \in Faults /\ UNCHANGED wal
  /\ acked' = [acked EXCEPT ![s] = @ \cup inflight[s]]
  /\ Return(s)
  /\ UNCHANGED <<dirs, chunks, hasIndex, indexFile, opened, buffer, nextID,
                 index, newIdx, indexMu, serial, submitted, bootSerial>>
-----------------------------------------------------------------------------
(* Crash and Open *)

\* The process dies: only the files survive.  Also os.Exit with operations
\* still running, and a crash while Open is rebuilding the index.
Crash ==
  /\ opened # {}
  /\ opened' = {}
  /\ buffer' = [s \in Series |-> <<>>]
  /\ nextID' = [s \in Series |-> 0]
  /\ index' = EmptyIndex
  /\ newIdx' = [s \in Series |-> EmptyIndex]
  /\ indexMu' = {}
  /\ phase' = [s \in Series |-> "free"]
  /\ inflight' = [s \in Series |-> {}]
  /\ bootSerial' = serial
  /\ UNCHANGED <<diskVars, serial, submitted, acked>>

\* index.dat is found missing or corrupt.
LoseIndex(s) ==
  /\ opened = {}
  /\ s \in hasIndex
  /\ hasIndex' = hasIndex \ {s}
  /\ indexFile' = [indexFile EXCEPT ![s] = <<>>]
  /\ UNCHANGED <<dirs, wal, chunks, memVars, histVars>>

\* loadIndexFile, or else scanChunkHeaders, which also rewrites index.dat and
\* ignores the error of doing so.
LoadEntries(s, loaded) ==
  \/ /\ s \in hasIndex
     /\ loaded = indexFile[s]
     /\ UNCHANGED <<hasIndex, indexFile>>
  \/ /\ s \notin hasIndex
     /\ loaded \in SortedByStart(Headers(s))
     /\ \/ /\ hasIndex' = hasIndex \cup {s}
           /\ indexFile' = [indexFile EXCEPT ![s] = loaded]
        \/ "index" \in Faults /\ UNCHANGED <<hasIndex, indexFile>>

\* One iteration of rebuildIndex.  An error from RecoverWAL is dropped: the
\* series then starts with an empty buffer.
RecoverSeries(s) ==
  /\ s \notin opened
  /\ s \in dirs
  /\ opened' = opened \cup {s}
  /\ \E loaded \in {indexFile[s]} \cup SortedByStart(Headers(s)) :
     \E n \in 0..MaxChunks :
       /\ LoadEntries(s, loaded)
       /\ IsRecoveredID(n, loaded)
       /\ index' = [index EXCEPT ![s] = loaded]
       /\ nextID' = [nextID EXCEPT ![s] = n]
  /\ \/ buffer' = [buffer EXCEPT ![s] = RecoverWAL(wal[s])]
     \/ "walRead" \in Faults /\ UNCHANGED buffer
  /\ UNCHANGED <<dirs, wal, chunks, newIdx, indexMu, phase, inflight, histVars>>

\* Open never sees a series that has no directory.
SkipSeries(s) ==
  /\ s \notin opened
  /\ s \notin dirs
  /\ opened' = opened \cup {s}
  /\ UNCHANGED <<diskVars, buffer, nextID, index, newIdx, indexMu, phase,
                 inflight, histVars>>
-----------------------------------------------------------------------------
WalFault(n) == CASE n = 0 -> "wal0" [] n = 1 -> "wal1" [] n = 2 -> "wal2"

\* The steps rotateLocked takes once it holds st.mu.
Rotation(s) ==
  \/ WriteChunk(s) \/ LockIndex(s) \/ WriteIndexFile(s)
  \/ SwapIndex(s) \/ ClearBuffer(s) \/ TruncateWAL(s)
  \/ "chunk" \in Faults /\ WriteChunkFails(s)
  \/ "index" \in Faults /\ WriteIndexFileFails(s)

Next ==
  \/ \E s \in Series :
       \/ \E p \in Point : AppendWAL(s, p)
       \/ \E p \in Point, n \in 0..2 : WalFault(n) \in Faults /\ AppendWALFails(s, p, n)
       \/ BufferPoint(s)
       \/ FlushSeries(s) \/ FlushEmpty(s)
       \/ Rotation(s)
       \/ RecoverSeries(s) \/ SkipSeries(s)
       \/ "indexLost" \in Faults /\ LoseIndex(s)
  \/ Crash

Spec == Init /\ [][Next]_vars

\* A goroutine that holds st.mu keeps running, and sync.Mutex is starvation-free:
\* who waits for indexMu while it is released again and again gets it.
LiveSpec ==
  /\ Spec
  /\ \A s \in Series :
       /\ WF_vars(BufferPoint(s) \/ Rotation(s))
       /\ SF_vars(LockIndex(s))
-----------------------------------------------------------------------------
(* Properties *)

TypeOK ==
  /\ dirs \subseteq Series /\ hasIndex \subseteq Series /\ opened \subseteq Series
  /\ wal \in [Series -> Seq(Nat)]
  /\ chunks \in [Series -> [ChunkIDs -> Seq(Record)]]
  /\ indexFile \in [Series -> Seq(Entry)]
  /\ buffer \in [Series -> Seq(Record)]
  /\ nextID \in [Series -> 0..MaxChunks]
  /\ index \in [Series -> Seq(Entry)]
  /\ newIdx \in [Series -> [Series -> Seq(Entry)]]
  /\ indexMu = {} \/ \E s \in Series : indexMu = {s}
  /\ phase \in [Series -> Phase]
  /\ inflight \in [Series -> SUBSET Point]
  /\ serial \in 0..MaxWrites /\ bootSerial \in 0..MaxWrites
  /\ submitted \in [Series -> SUBSET Point]
  /\ acked \in [Series -> SUBSET Point]

\* The points of the chunks a set of index entries names.
PointsOf(s, entries) == UNION {Range(chunks[s][e.id]) : e \in entries}

\* What the running process serves of series s.
Stored(s) == PointsOf(s, Range(index[s])) \cup Range(buffer[s])

\* What the next Open would find of it.
DiskEntries(s) == IF s \in hasIndex THEN Range(indexFile[s]) ELSE Headers(s)
OnDisk(s) == PointsOf(s, DiskEntries(s)) \cup Range(RecoverWAL(wal[s]))

\* wal.go: a point WritePoint returned nil for is recovered by the next Open,
\* whenever the process dies: between the rename of a chunk, of index.dat and
\* the truncation of the log too.
AckedDurable == \A s \in Series : acked[s] \subseteq OnDisk(s)

\* A series that is open serves every point it acknowledged, in this process or
\* in one before it; no step of a rotation hides a point for a moment.
AckedVisible == \A s \in opened : acked[s] \subseteq Stored(s)

\* Nothing is served or recovered that no client wrote.
NoPhantoms ==
  \A s \in Series : OnDisk(s) \cup Stored(s) \subseteq submitted[s]

\* Every index entry, in memory and in index.dat, describes its chunk file as it
\* is, and rotations of different series never undo each other's entries: the
\* index in memory is the one in the files except where a rotation is between
\* the rename of index.dat and the swap.
IndexConsistent ==
  \A s \in Series :
    /\ \A e \in Range(index[s]) \cup Range(indexFile[s]) :
         chunks[s][e.id] # <<>> /\ e = EntryOf(e.id, chunks[s][e.id])
    /\ s \in opened \cap hasIndex /\ phase[s] # "swap" => index[s] = indexFile[s]

\* A chunk file that an index names is never written again.
ChunksImmutable ==
  [][\A s \in Series : \A e \in Range(index[s]) \cup Range(indexFile[s]) :
       chunks'[s][e.id] = chunks[s][e.id]]_vars

\* How often a point is in what series s serves.
Copies(s, p) ==
    Cardinality({c \in (DOMAIN index[s]) \X (1..MaxWrites) :
                   LET pts == chunks[s][index[s][c[1]].id]
                   IN c[2] \in DOMAIN pts /\ pts[c[2]] = p})
  + Cardinality({i \in DOMAIN buffer[s] : buffer[s][i] = p})

\* Between two operations a point written since the process started is stored
\* at most once, whatever failed: only a restart can duplicate points.
StoredOnce ==
  \A s \in opened : phase[s] = "free" =>
    \A p \in submitted[s] : p.val > bootSerial => Copies(s, p) <= 1

\* The time range of an index entry, by which FindChunks selects chunks, covers
\* every point of its chunk; of clients that write in time order.
RangesCover ==
  \A s \in Series : \A e \in Range(index[s]) : \A p \in Range(chunks[s][e.id]) :
    e.start <= p.ts /\ p.ts <= e.end

\* Every operation returns, or the process dies: no error path keeps indexMu.
OperationsFinish == \A s \in Series : phase[s] # "free" ~> phase[s] = "free"
=============================================================================
