-------------------------- MODULE RollupRefinement --------------------------
(***************************************************************************)
(* Rollup implements HourLedger: its calls, accumulators and hourly files  *)
(* book every point once and with points of its own hour.                  *)
(***************************************************************************)
EXTENDS Rollup

Ledger == INSTANCE HourLedger WITH
  Hour    <- [p \in Point |-> HourOf(p.ts)],
  waiting <- [s \in Series |-> Carried(s)],
  open    <- [s \in Series |-> Open(s)],
  booked  <- [s \in Series |-> {hourly[s][i].pts : i \in DOMAIN hourly[s]}],
  dropped <- [s \in Series |-> lost[s] \cup refused[s]]

\* Each step of the engine is a step of the ledger or invisible to it: an hour
\* is booked by the append, not by the reset of the bucket; daily records, the
\* lock and the signal handler's progress do not show.
ImplementsHourLedger == Ledger!Spec
=============================================================================
