----------------------------- MODULE BrokerInv -----------------------------
(***************************************************************************)
(* The inductive invariants from which BrokerProofs derives the safety     *)
(* properties of Broker.  Each is a state predicate of its own, so that    *)
(* TLC can check it before it is proved.                                   *)
(***************************************************************************)
EXTENDS Broker

Busy == {"put", "out", "done"}

\* The goroutines in the middle of a line to c.
Users(c) == {t \in Threads : at[t] \in {"out", "done"} /\ Target(t) = c}

\* A goroutine holds b.mu from its Lock to its Unlock, and sends what is its to send.
StepOf(t) ==
  /\ t \in mu <=> at[t] \in Busy /\ ~Replies(t)
  /\ t \in mu /\ at[t] # "put" => todo # <<>>
  /\ t \in Alerts =>
       /\ at[t] \in {"idle", "gone", "lock"} \cup Busy
       /\ at[t] \in {"lock"} \cup Busy => job[t] = AlertOf(t)
  /\ t \in Callers =>
       /\ at[t] \in {"idle", "lock"} \cup Busy
       /\ at[t] \in {"lock"} \cup Busy => job[t] \in Points
  /\ t \in Clients =>
       /\ at[t] = "lock" => job[t] \in Points
       /\ at[t] \in Busy => job[t] \in Points \cup Answers
       /\ at[t] \in {"gone", "accept"} => asked[t] = 0
       /\ at[t] \in {"lock"} \cup Busy => asked[t] > 0
       /\ at[t] \in Busy /\ Replies(t) => job[t].id = asked[t]

StepInv ==
  /\ mu = {} => todo = <<>> /\ alive = <<>>
  /\ \A t \in Threads : StepOf(t)

\* What the holder of b.mu goes through.
Source(t) == IF t \in Alerts THEN all ELSE subs[job[t].series]

\* Whom the holder of b.mu has kept or is still to reach.
Kept == ToSet(alive) \cup ToSet(todo)

\* Who is in which list: a tail in its own, and, while its link is up, still in
\* what is to become the list again.
ListInv ==
  /\ IsInjective(all) /\ \A s \in Series : IsInjective(subs[s])
  /\ IsInjective(alive) /\ IsInjective(todo) /\ ToSet(alive) \cap ToSet(todo) = {}
  /\ \A c \in ToSet(all) : at[c] \notin {"gone", "accept"}
  /\ \A s \in Series : \A c \in ToSet(subs[s]) : at[c] \in {"tail", "unsub"} /\ series[c] = s
  /\ \A t \in mu : Kept \subseteq ToSet(Source(t))
  /\ \A c \in Clients : at[c] = "tail" /\ link[c] = "up" =>
       /\ c \in ToSet(subs[series[c]])
       /\ \A t \in mu \ Alerts : job[t].series = series[c] => c \in Kept

\* Two goroutines have not met on the writer of c, or have, and both have left it.
Clean(c) == c \notin raced \/ at[c] = "tail"

\* A writer that nobody is at is empty or broken; one goroutine at a time puts its
\* line and takes it out again, where two have not met.
WriterOf(c) ==
  /\ at[c] = "gone" => w[c] = newWriter /\ log[c] = <<>> /\ due[c] = <<>> /\ c \notin raced
  /\ Users(c) = {} => w[c].err \/ w[c].buf = <<>>
  /\ Clean(c) => \A t \in Users(c) :
       /\ Users(c) = {t}
       /\ w[c] = [buf |-> <<job[t]>>, err |-> FALSE]
       /\ at[t] = "done" => cut[t] = 1
  /\ c \notin raced /\ link[c] = "up" => ~w[c].err

WriterInv == \A c \in Clients : WriterOf(c)

\* The line of t has not reached c, which is to come or at hand.
Owes(t, c) == c \in ToSet(todo) /\ ~(at[t] = "done" /\ c = Head(todo))

\* A tail has seen all that is due, but what the holder of b.mu is about to send.
TailOf(c) ==
  /\ at[c] \notin {"tail", "unsub", "leave"} => due[c] = <<>> /\ Seen(c) = <<>>
  /\ at[c] = "tail" /\ link[c] = "up" =>
       /\ \A t \in mu \ Alerts : Owes(t, c) => due[c] = Append(Seen(c), job[t])
       /\ (\A t \in mu \ Alerts : ~Owes(t, c)) => due[c] = Seen(c)

TailInv == \A c \in Clients : TailOf(c)

\* The last command of c has not been answered.
Unanswered(c) == at[c] \in {"lock", "put", "out"} \/ (at[c] = "done" /\ ~Replies(c))

RepliesOf(c) ==
  c \notin raced /\ link[c] = "up" =>
    LET replies == Of(c, Answers) IN
    /\ \A i \in DOMAIN replies : replies[i].id = i
    /\ Len(replies) = asked[c] - IF Unanswered(c) THEN 1 ELSE 0

RepliesInv == \A c \in Clients : RepliesOf(c)

\* No connection has the line of an alert that does not hold b.mu yet, and once it
\* does, those have it that its loop is through with.
ReachOf(a, c) ==
  /\ at[c] = "gone" => c \notin reach[a]
  /\ at[a] \in {"idle", "lock"} => c \notin reach[a] /\ Of(c, {AlertOf(a)}) = <<>>
  /\ c \in reach[a] \ raced /\ link[c] = "up" =>
       Len(Of(c, {AlertOf(a)})) = IF a \in mu /\ Owes(a, c) THEN 0 ELSE 1

AlertInv == \A a \in Alerts, c \in Clients : ReachOf(a, c)
=============================================================================
