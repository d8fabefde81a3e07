--------------------------- MODULE DurableSeries ---------------------------
(***************************************************************************)
(* What the persistence layer promises its callers, with no file, log,     *)
(* chunk or lock in it: a set of points per series that only grows while   *)
(* the process runs, and that no restart makes smaller than what was       *)
(* acknowledged or larger than what was written.                           *)
(***************************************************************************)
CONSTANTS Series, Point

VARIABLES
  up,         \* the store is open
  submitted,  \* [Series -> SUBSET Point]: points a client tried to write
  acked,      \* [Series -> SUBSET Point]: points it was told are stored
  visible     \* [Series -> SUBSET Point]: points the store serves

vars == <<up, submitted, acked, visible>>

TypeOK ==
  /\ up \in BOOLEAN
  /\ submitted \in [Series -> SUBSET Point]
  /\ acked \in [Series -> SUBSET Point]
  /\ visible \in [Series -> SUBSET Point]

Init ==
  /\ up = TRUE
  /\ submitted = [s \in Series |-> {}]
  /\ acked = [s \in Series |-> {}]
  /\ visible = [s \in Series |-> {}]

Submit(s, p) ==
  /\ up = TRUE
  /\ submitted' = [submitted EXCEPT ![s] = @ \cup {p}]
  /\ UNCHANGED <<up, acked, visible>>

\* The point becomes visible; a write that needs no rotation is acknowledged.
Keep(s, p) ==
  /\ up /\ p \in submitted[s]
  /\ visible' = [visible EXCEPT ![s] = @ \cup {p}]
  /\ acked' \in {acked, [acked EXCEPT ![s] = @ \cup {p}]}
  /\ UNCHANGED <<up, submitted>>

Acknowledge(s, p) ==
  /\ up /\ p \in visible[s]
  /\ acked' = [acked EXCEPT ![s] = @ \cup {p}]
  /\ UNCHANGED <<up, submitted, visible>>

Crash ==
  /\ up' = FALSE
  /\ visible' = [s \in Series |-> {}]
  /\ UNCHANGED <<submitted, acked>>

\* Everything acknowledged is back, nothing is that was never written; of the
\* rest, a restart may bring back any part.
Restart ==
  /\ up = FALSE /\ up' = TRUE
  /\ visible' \in [Series -> SUBSET Point]
  /\ \A s \in Series : /\ acked[s] \subseteq visible'[s]
                       /\ visible'[s] \subseteq submitted[s]
  /\ UNCHANGED <<submitted, acked>>

Next ==
  \/ \E s \in Series, p \in Point : Submit(s, p) \/ Keep(s, p) \/ Acknowledge(s, p)
  \/ Crash
  \/ Restart

Spec == Init /\ [][Next]_vars
=============================================================================
