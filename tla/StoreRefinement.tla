-------------------------- MODULE StoreRefinement --------------------------
(***************************************************************************)
(* Store implements DurableSeries: its chunks, index, buffer and log are   *)
(* one set of visible points per series.                                   *)
(***************************************************************************)
EXTENDS Store, TLC

\* Series are interchangeable in every definition.
SeriesSymmetry == Permutations(Series)

\* Abstractly, a store that is still rebuilding its index is down.
VisiblePoints == [s \in Series |-> IF Running THEN Stored(s) ELSE {}]

Durable == INSTANCE DurableSeries
             WITH up <- Running, visible <- VisiblePoints

\* Every step of the store is a step of the abstract store or changes nothing
\* of it: rotations, failed calls and the rebuilding of the index are invisible,
\* and what a restart brings back lies between acknowledged and submitted.
ImplementsDurableSeries == Durable!Spec
=============================================================================
