----------------------------- MODULE HourLedger -----------------------------
(***************************************************************************)
(* What hourly aggregation promises, with no file, lock or process in it:  *)
(* a point is booked once, together with other points of its hour only,    *)
(* and what is booked stays booked; a point that has not been booked may   *)
(* be dropped, and a dropped point is never booked later.                  *)
(***************************************************************************)
CONSTANTS Series, Point,
          Hour   \* [Point -> hour]: the hour a point belongs to

VARIABLES
  waiting,  \* [Series -> SUBSET Point]: accepted points, not yet in a bucket
  open,     \* [Series -> SUBSET Point]: the open bucket
  booked,   \* [Series -> SUBSET (SUBSET Point)]: the aggregates written
  dropped   \* [Series -> SUBSET Point]: points that no aggregate will have

vars == <<waiting, open, booked, dropped>>

Init ==
  /\ waiting = [s \in Series |-> {}]
  /\ open = [s \in Series |-> {}]
  /\ booked = [s \in Series |-> {}]
  /\ dropped = [s \in Series |-> {}]

Known(s) == waiting[s] \cup open[s] \cup (UNION booked[s]) \cup dropped[s]

\* The point is none that is Known.
Accept(s, p) ==
  /\ waiting' = [waiting EXCEPT ![s] = @ \cup {p}]
  /\ UNCHANGED <<open, booked, dropped>>

Refuse(s, p) ==
  /\ dropped' = [dropped EXCEPT ![s] = @ \cup {p}]
  /\ UNCHANGED <<waiting, open, booked>>

Add(s, p) ==
  /\ \A q \in open[s] : Hour[q] = Hour[p]
  /\ waiting' = [waiting EXCEPT ![s] = @ \ {p}]
  /\ open' = [open EXCEPT ![s] = @ \cup {p}]
  /\ UNCHANGED <<booked, dropped>>

Book(s) ==
  /\ open[s] # {}
  /\ booked' = [booked EXCEPT ![s] = @ \cup {open[s]}]
  /\ open' = [open EXCEPT ![s] = {}]
  /\ UNCHANGED <<waiting, dropped>>

Drop(s) ==
  /\ dropped' = [dropped EXCEPT ![s] = @ \cup open[s]]
  /\ open' = [open EXCEPT ![s] = {}]
  /\ UNCHANGED <<waiting, booked>>

\* The process ends: what is not booked by now never will be.
Restart ==
  /\ dropped' = [s \in Series |-> dropped[s] \cup waiting[s] \cup open[s]]
  /\ waiting' = [s \in Series |-> {}]
  /\ open' = [s \in Series |-> {}]
  /\ UNCHANGED booked

Next ==
  \/ \E s \in Series :
       \/ \E p \in Point \ Known(s) : Accept(s, p) \/ Refuse(s, p)
       \/ \E p \in waiting[s] : Add(s, p)
       \/ Book(s)
       \/ Drop(s)
  \/ Restart

Spec == Init /\ [][Next]_vars
=============================================================================
