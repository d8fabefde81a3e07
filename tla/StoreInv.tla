------------------------------ MODULE StoreInv ------------------------------
(***************************************************************************)
(* The inductive invariants from which StoreProofs derives the safety      *)
(* properties of Store.  Each is a state predicate of its own, so that TLC *)
(* can check it before it is proved.                                       *)
(***************************************************************************)
EXTENDS Store

\* A rotation's buffer and chunk id are usable, and operations run only once
\* Open has returned.
BoundsInv ==
  \A s \in Series :
    /\ phase[s] # "free" => Running
    /\ phase[s] \in {"logged", "rotate"} => nextID[s] < MaxChunks
    /\ phase[s] \in {"renamed", "indexing", "swap"} => nextID[s] \in ChunkIDs
    /\ phase[s] \in {"rotate", "renamed", "indexing", "swap"} => buffer[s] # <<>>

TypeInv == TypeOK /\ BoundsInv

\* indexMu is held by exactly the one rotation between Lock and Unlock.
LockInv ==
  /\ \A s \in Series : s \in indexMu <=> phase[s] \in {"indexing", "swap"}
  /\ \A s, t \in indexMu : s = t

\* What a rotation has done so far.
RotationInv ==
  \A s \in Series :
    /\ phase[s] \in {"renamed", "indexing", "swap"} =>
         chunks[s][nextID[s]] = buffer[s]
    /\ phase[s] \in {"indexing", "swap"} => newIdx[s] = WithEntry(s)
    /\ phase[s] = "swap" => s \in hasIndex /\ indexFile[s] = newIdx[s][s]

\* A series that is not open has no memory; one without a directory has no past;
\* the content of a missing index.dat is none.
ClosedInv ==
  \A s \in Series :
    /\ s \notin opened => index[s] = <<>> /\ buffer[s] = <<>>
    /\ s \notin hasIndex => indexFile[s] = <<>>
    /\ s \notin dirs =>
         /\ wal[s] = <<>> /\ s \notin hasIndex /\ indexFile[s] = <<>>
         /\ buffer[s] = <<>> /\ phase[s] = "free"
         /\ index[s] = <<>> /\ acked[s] = {}

\* Both indexes describe the chunks they name, none of which a rotation can
\* write again, and a restart would load at least what memory has.
IndexInv ==
  \A s \in Series :
    /\ \A e \in Range(index[s]) \cup Range(indexFile[s]) :
         /\ chunks[s][e.id] # <<>> /\ e = EntryOf(e.id, chunks[s][e.id])
         /\ s \in opened => e.id <= nextID[s]
    /\ s \in opened \cap hasIndex /\ phase[s] # "swap" => index[s] = indexFile[s]
    /\ s \in opened => Range(index[s]) \subseteq DiskEntries(s)

ConsistencyInv == TypeInv /\ LockInv /\ ClosedInv /\ RotationInv /\ IndexInv

WalPoints(s) == Range(RecoverWAL(wal[s]))

\* Every acknowledged point, and every point about to be acknowledged, is where
\* the steps still to come leave a copy of it.
DurableInv ==
  \A s \in Series :
    /\ Len(wal[s]) % 2 = 0
    /\ s \in opened => /\ Range(buffer[s]) \subseteq WalPoints(s)
                       /\ acked[s] \subseteq Stored(s)
    /\ s \notin opened => acked[s] \subseteq OnDisk(s)
    /\ \A p, q \in inflight[s] : p = q
    /\ phase[s] = "free" => inflight[s] = {}
    /\ phase[s] = "logged" => inflight[s] \subseteq WalPoints(s)
    /\ phase[s] \in {"rotate", "renamed", "indexing", "swap"} =>
         inflight[s] \subseteq Range(buffer[s])
    /\ phase[s] = "clear" =>
         inflight[s] \cup Range(buffer[s]) \subseteq PointsOf(s, Range(index[s]))
    /\ phase[s] = "truncate" =>
         buffer[s] = <<>> /\ inflight[s] \subseteq PointsOf(s, Range(index[s]))

\* Files and memory hold nothing but points that a client wrote.
OriginInv ==
  \A s \in Series :
    /\ Len(wal[s]) % 2 = 0
    /\ WalPoints(s) \subseteq submitted[s]
    /\ Range(buffer[s]) \subseteq submitted[s]
    /\ \A id \in ChunkIDs : Range(chunks[s][id]) \subseteq submitted[s]
    /\ inflight[s] \subseteq submitted[s]

\* The times of pts never decrease.
InTimeOrder(pts) == \A i, j \in DOMAIN pts : i <= j => pts[i].ts <= pts[j].ts

\* Of clients that write in time order: log, buffer and chunks are in time order
\* too, because a point on its way to the buffer is not before any other.
OrderInv ==
  \A s \in Series :
    /\ InTimeOrder(RecoverWAL(wal[s])) /\ InTimeOrder(buffer[s])
    /\ \A id \in ChunkIDs : InTimeOrder(chunks[s][id])
    /\ phase[s] = "free" => inflight[s] = {}
    /\ \A p \in inflight[s], q \in submitted[s] : q.ts <= p.ts

\* A point written since the process started.
Fresh(p) == p.val > bootSerial

\* No id twice.
DistinctIDs(entries) == \A i, j \in DOMAIN entries : entries[i].id = entries[j].id => i = j

\* A fresh point has one position in pts.
FreshOnce(pts) == \A i, j \in DOMAIN pts : pts[i] = pts[j] /\ Fresh(pts[i]) => i = j

\* It has one position in one of the indexed chunks.
ChunksOnce(s) ==
  \A e, f \in Range(index[s]) :
    \A i \in DOMAIN chunks[s][e.id], j \in DOMAIN chunks[s][f.id] :
      chunks[s][e.id][i] = chunks[s][f.id][j] /\ Fresh(chunks[s][e.id][i])
        => e.id = f.id /\ i = j

\* It is not both there and in the buffer.
PlacesApart(s) ==
  \A p \in PointsOf(s, Range(index[s])) : Fresh(p) => p \notin Range(buffer[s])

\* The entry a rotation is about to add is the only one with its id; a fresh
\* point has one position in the buffer, or one in one indexed chunk, or none as
\* long as it is only in the log; between the swap and the clearing of the buffer
\* it has both.
OnceInv ==
  /\ ~Running => bootSerial = serial
  /\ \A s \in Series :
       /\ \A p \in submitted[s] : p.val <= serial
       /\ DistinctIDs(index[s]) /\ DistinctIDs(indexFile[s])
       /\ phase[s] \in {"renamed", "indexing", "swap"} =>
            \A e \in Range(index[s]) : e.id # nextID[s]
       /\ FreshOnce(buffer[s]) /\ ChunksOnce(s)
       /\ phase[s] # "clear" => PlacesApart(s)
       /\ phase[s] = "logged" =>
            \A p \in inflight[s] : p \notin Stored(s)
=============================================================================
