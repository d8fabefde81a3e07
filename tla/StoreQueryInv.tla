--------------------------- MODULE StoreQueryInv ---------------------------
(***************************************************************************)
(* The inductive invariants from which StoreQueryProofs derives what a     *)
(* reader of StoreQuery gets.  Each is a state predicate of its own, so    *)
(* that TLC can check it before it is proved.                              *)
(***************************************************************************)
EXTENDS StoreQuery, StoreInv

\* The states a reader goes through; it has asked a store that is up.
ReaderInv ==
  /\ \/ query = Idle
     \/ query \in [step : {"chunks", "done"}, series : Series,
                   from : Timestamps, to : Timestamps, files : Seq(Entry),
                   got : Seq(Record), due : SUBSET Point, seen : SUBSET Entry]
     \/ query \in [step : {"meta", "metaDone"}, series : Series, count : Nat]
  /\ query # Idle => Running

\* The entries that FindChunks returned stay in the index, none comes twice.
FilesInv ==
  query.step = "chunks" =>
    /\ Range(query.files) \cup query.seen \subseteq Range(index[query.series])
    /\ \A i, j \in DOMAIN query.files : query.files[i] = query.files[j] => i = j

\* Of the chunks that the query saw and is not yet to read, it has every point of
\* its range.
CoverageInv ==
  /\ query.step = "chunks" =>
       /\ \A p \in query.due : p \in acked[query.series] /\ InRange(p, query.from, query.to)
       /\ \A e \in query.seen \ Range(query.files) :
            \A p \in Range(chunks[query.series][e.id]) :
              InRange(p, query.from, query.to) => p \in Range(query.got)
  /\ MissesAccounted

\* What is fresh of its points came once, from an indexed chunk that is not among
\* those still to be read.
ReturnsInv ==
  /\ query.step \in {"chunks", "done"} => FreshOnce(query.got)
  /\ query.step = "chunks" =>
       \A p \in Range(query.got) : Fresh(p) =>
         \E e \in Range(index[query.series]) \ Range(query.files) :
           p \in Range(chunks[query.series][e.id])

\* A rotation puts the buffer's points into the index before it clears the buffer:
\* until then they would count twice, and are left out here.
CountInv ==
  /\ query.step = "meta" => query.count <= Counted(index[query.series])
  /\ query.step = "metaDone" =>
       query.count <= Counted(index[query.series])
         + IF phase[query.series] = "clear" THEN 0 ELSE Len(buffer[query.series])
=============================================================================
