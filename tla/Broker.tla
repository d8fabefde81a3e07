------------------------------- MODULE Broker -------------------------------
(***************************************************************************)
(* The broker and the line-protocol server (backend/server/server.go):     *)
(* connections that come, send commands, tail a series and go; the lists   *)
(* of subscribers under b.mu; Notify and BroadcastAlert, which hold b.mu   *)
(* while they flush a line to one socket after the other; REST handlers    *)
(* and ingestion, which write and alert without a connection.              *)
(*                                                                         *)
(* A line is a value.  The engine's part of a command (Store, Rollup) and  *)
(* the rows of an answer (Gateway) are left out: here an answer is a line. *)
(*                                                                         *)
(* A bufio.Writer has no lock.  The goroutine of a connection and the      *)
(* holder of b.mu may be at work on the same one, so WriteString and the   *)
(* two halves of Flush, before and after the socket's Write, are steps.    *)
(***************************************************************************)
EXTENDS Integers, SequencesExt, Selection

CONSTANTS
  Clients,      \* connections, each with its goroutine in handleConn
  Callers,      \* goroutines of REST and ingestion that call WritePoint
  Alerts,       \* calls of BroadcastAlert: callbacks of triggers, alert tests
  Series,
  SocketLines,  \* lines a socket takes before Write blocks
  MaxWrites,    \* bound: points written
  MaxCommands   \* bound: answered commands of one connection

Threads == Clients \cup Callers \cup Alerts

ASSUME BrokerAssumption ==
  /\ Clients \cap Callers = {} /\ Clients \cap Alerts = {} /\ Callers \cap Alerts = {}
  /\ SocketLines \in Nat \ {0}
  /\ MaxWrites \in Nat /\ MaxCommands \in Nat

Points     == [kind : {"point"}, series : Series, id : 1..MaxWrites]
Answers    == [kind : {"reply", "refusal"}, id : 1..MaxCommands]
AlertOf(a) == [kind |-> "alert", id |-> a]

Line == Points \cup Answers \cup {AlertOf(a) : a \in Alerts}

NoLine == [kind |-> "none"]

VARIABLES
  mu,      \* the thread that holds b.mu, if any
  all,     \* Seq(Clients): b.all
  subs,    \* [Series -> Seq(Clients)]: b.subs
  at,      \* [Threads -> step]: where each goroutine is, see Steps
  job,     \* [Threads -> Line]: the line a goroutine is sending
  series,  \* [Clients -> Series]: what a connection tails
  todo, alive,  \* the loop of the holder of b.mu: subscribers to come, and kept
  w,       \* [Clients -> [buf : Seq(Line), err : BOOLEAN]]: the bufio.Writers
  cut,     \* [Threads -> Nat]: lines the Write of a Flush in progress took
  link,    \* [Clients -> "up", "hungup" by the client or "closed" by the server]
  unread,  \* [Clients -> Nat]: lines in the socket
  \* history
  log,     \* [Clients -> Seq(Line)]: what the socket of an open connection took;
           \* once it is raced, only what it took as a tail
  asked,   \* [Clients -> Nat]: answered commands of the connection
  serial,  \* points written
  due,     \* [Clients -> Seq(Line)]: points notified since the tail began
  reach,   \* [Alerts -> SUBSET Clients]: b.all when the alert took b.mu
  raced    \* connections whose writer two goroutines have used at once

lists  == <<all, subs>>
pipes  == <<w, cut, link, unread, log>>
hist   == <<asked, serial, due, reach, raced>>
vars   == <<mu, lists, at, job, series, todo, alive, pipes, hist>>

\* A connection: "gone", "accept", "idle" (Scan), "tailLock", "tail" (Scan),
\* "unsub", "leave".  Who sends: "lock" (of b.mu), "put" (WriteString), "out"
\* (Flush up to the end of Write), "done" (the rest of Flush).
Steps == {"gone", "accept", "idle", "tailLock", "tail", "unsub", "leave",
          "lock", "put", "out", "done"}

newWriter == [buf |-> <<>>, err |-> FALSE]

Init ==
  /\ mu = {} /\ all = <<>> /\ subs = [s \in Series |-> <<>>]
  /\ at = [t \in Threads |-> IF t \in Clients THEN "gone" ELSE "idle"]
  /\ job = [t \in Threads |-> NoLine]
  /\ series \in [Clients -> Series]
  /\ todo = <<>> /\ alive = <<>>
  /\ w = [c \in Clients |-> newWriter]
  /\ cut = [t \in Threads |-> 0]
  /\ link = [c \in Clients |-> "closed"]
  /\ unread = [c \in Clients |-> 0]
  /\ log = [c \in Clients |-> <<>>]
  /\ asked = [c \in Clients |-> 0]
  /\ serial = 0
  /\ due = [c \in Clients |-> <<>>]
  /\ reach = [a \in Alerts |-> {}]
  /\ raced = {}
-----------------------------------------------------------------------------
(* Connections *)

\* A client dials and handleConn starts.
Connect(c) ==
  /\ at[c] = "gone"
  /\ at' = [at EXCEPT ![c] = "accept"]
  /\ link' = [link EXCEPT ![c] = "up"]
  /\ UNCHANGED <<mu, lists, job, series, todo, alive, w, cut, unread, log, hist>>

registerClient(c) ==
  /\ at[c] = "accept" /\ mu = {}
  /\ all' = Append(all, c)
  /\ at' = [at EXCEPT ![c] = "idle"]
  /\ UNCHANGED <<mu, subs, job, series, todo, alive, pipes, hist>>

\* Goroutine t goes on to send line l from step st.
Send(t, l, st) == at' = [at EXCEPT ![t] = st] /\ job' = [job EXCEPT ![t] = l]

\* WritePoint: the engine has stored the point, and Notify will lock b.mu.
WritePoint(t, s) ==
  /\ at[t] = "idle" /\ serial < MaxWrites
  /\ serial' = serial + 1
  /\ Send(t, [kind |-> "point", series |-> s, id |-> serial + 1], "lock")
  /\ UNCHANGED <<mu, lists, series, todo, alive, pipes, due, reach, raced>>

\* The WRITE command of a connection.
handleWrite(c, s) ==
  /\ asked[c] < MaxCommands
  /\ asked' = [asked EXCEPT ![c] = @ + 1]
  /\ WritePoint(c, s)

\* POST /api/v1/write; a feed's write is no different.
handleRESTWrite(r, s) == WritePoint(r, s) /\ UNCHANGED asked

\* Every other command but TAIL, and every refused one, is answered.  A refused
\* TAIL ends the connection after that.
Answer(c) ==
  /\ at[c] = "idle" /\ asked[c] < MaxCommands
  /\ asked' = [asked EXCEPT ![c] = @ + 1]
  /\ \E k \in {"reply", "refusal"} : Send(c, [kind |-> k, id |-> asked[c] + 1], "put")
  /\ UNCHANGED <<mu, lists, series, todo, alive, pipes, serial, due, reach, raced>>

handleTail(c, s) ==
  /\ at[c] = "idle"
  /\ at' = [at EXCEPT ![c] = "tailLock"]
  /\ series' = [series EXCEPT ![c] = s]
  /\ UNCHANGED <<mu, lists, job, todo, alive, pipes, hist>>

\* Mutant: b.mu is not taken.
register_Unlocked(c) ==
  /\ at[c] = "tailLock"
  /\ subs' = [subs EXCEPT ![series[c]] = Append(@, c)]
  /\ at' = [at EXCEPT ![c] = "tail"]
  /\ UNCHANGED <<mu, all, job, series, todo, alive, pipes, hist>>

register(c) ==
  /\ at[c] = "tailLock" /\ mu = {}
  /\ subs' = [subs EXCEPT ![series[c]] = Append(@, c)]
  /\ at' = [at EXCEPT ![c] = "tail"]
  /\ UNCHANGED <<mu, all, job, series, todo, alive, pipes, hist>>

\* Mutant: handleTail has no deferred unregister.
ScanEnds_KeepsTail(c) ==
  /\ link[c] # "up" /\ at[c] \in {"idle", "tail"}
  /\ at' = [at EXCEPT ![c] = "leave"]
  /\ UNCHANGED <<mu, lists, job, series, todo, alive, pipes, hist>>

\* Scan returns false.  The lines a scanner still holds come first: a connection
\* that is down may go on with commands.
ScanEnds(c) ==
  /\ link[c] # "up" /\ at[c] \in {"idle", "tail"}
  /\ at' = [at EXCEPT ![c] = IF @ = "tail" THEN "unsub" ELSE "leave"]
  /\ UNCHANGED <<mu, lists, job, series, todo, alive, pipes, hist>>

Without(list, c) == Select(list, Clients \ {c})

unregister(c) ==
  /\ at[c] = "unsub" /\ mu = {}
  /\ subs' = [subs EXCEPT ![series[c]] = Without(@, c)]
  /\ at' = [at EXCEPT ![c] = "leave"]
  /\ UNCHANGED <<mu, all, job, series, todo, alive, pipes, hist>>

\* The deferred Close, after which nothing is left of the connection.
Close(c) ==
  /\ at' = [at EXCEPT ![c] = "gone"]
  /\ link' = [link EXCEPT ![c] = "closed"]
  /\ w' = [w EXCEPT ![c] = newWriter]
  /\ log' = [log EXCEPT ![c] = <<>>] /\ unread' = [unread EXCEPT ![c] = 0]
  /\ asked' = [asked EXCEPT ![c] = 0] /\ due' = [due EXCEPT ![c] = <<>>]
  /\ reach' = [a \in Alerts |-> reach[a] \ {c}]
  /\ raced' = raced \ {c}
  /\ UNCHANGED <<mu, subs, job, series, todo, alive, cut, serial>>

\* Mutant: the connection stays in b.all.
unregisterClient_Keeps(c) ==
  /\ at[c] = "leave" /\ mu = {}
  /\ Close(c) /\ UNCHANGED all

unregisterClient(c) ==
  /\ at[c] = "leave" /\ mu = {}
  /\ all' = Without(all, c)
  /\ Close(c)
-----------------------------------------------------------------------------
(* Notify and BroadcastAlert: who takes b.mu, and for which subscribers *)

LockNotify(t) ==
  /\ at[t] = "lock" /\ job[t].kind = "point" /\ mu = {}
  /\ mu' = {t}
  /\ todo' = subs[job[t].series] /\ alive' = <<>>
  /\ due' = [c \in Clients |-> IF at[c] = "tail" /\ series[c] = job[t].series
                               THEN Append(due[c], job[t]) ELSE due[c]]
  /\ at' = [at EXCEPT ![t] = "put"]
  /\ UNCHANGED <<lists, job, series, pipes, asked, serial, reach, raced>>

\* POST /api/v1/alerts/test, or Check has started the callback of a trigger.
handleAlertTest(a) ==
  /\ at[a] = "idle"
  /\ Send(a, AlertOf(a), "lock")
  /\ UNCHANGED <<mu, lists, series, todo, alive, pipes, hist>>

\* Mutant: BroadcastAlert does not take b.mu.
LockBroadcast_Unlocked(a) ==
  /\ at[a] = "lock"
  /\ mu' = mu \cup {a}
  /\ todo' = all /\ alive' = <<>>
  /\ reach' = [reach EXCEPT ![a] = ToSet(all)]
  /\ at' = [at EXCEPT ![a] = "put"]
  /\ UNCHANGED <<lists, job, series, pipes, asked, serial, due, raced>>

LockBroadcast(a) ==
  /\ at[a] = "lock" /\ mu = {}
  /\ mu' = {a}
  /\ todo' = all /\ alive' = <<>>
  /\ reach' = [reach EXCEPT ![a] = ToSet(all)]
  /\ at' = [at EXCEPT ![a] = "put"]
  /\ UNCHANGED <<lists, job, series, pipes, asked, serial, due, raced>>

\* The loop is done and b.mu released; the connection that wrote answers.
Unlock(t) ==
  /\ t \in mu /\ at[t] = "put" /\ todo = <<>>
  /\ mu' = {} /\ alive' = <<>>
  /\ IF t \in Alerts
     THEN all' = alive /\ UNCHANGED subs
     ELSE subs' = [subs EXCEPT ![job[t].series] = alive] /\ UNCHANGED all
  /\ IF t \in Clients THEN Send(t, [kind |-> "reply", id |-> asked[t]], "put")
                      ELSE Send(t, NoLine, IF t \in Alerts THEN "gone" ELSE "idle")
  /\ UNCHANGED <<series, todo, pipes, hist>>
-----------------------------------------------------------------------------
(* One line to one connection *)

Replies(t) == job[t].kind \in {"reply", "refusal"}

\* The connection whose writer goroutine t uses.
Target(t) == IF Replies(t) THEN t ELSE Head(todo)

\* Goroutines other than t in the middle of a line to c.
Others(t, c) ==
  {u \in Threads \ {t} : at[u] \in {"out", "done"} /\ Target(u) = c}

\* The line is out, or the loop keeps what its error means to itself.
Proceed(t) ==
  IF Replies(t)
  THEN /\ Send(t, NoLine, IF job[t].kind = "refusal" THEN "leave" ELSE "idle")
       /\ UNCHANGED todo
  ELSE /\ at' = [at EXCEPT ![t] = "put"] /\ UNCHANGED job
       /\ todo' = Tail(todo)

Sent(t) ==
  /\ Proceed(t)
  /\ alive' = IF Replies(t) THEN alive ELSE Append(alive, Target(t))
  /\ UNCHANGED link

\* Mutant: the loop ends at the first subscriber that it cannot reach.
Failed_Returns(t) ==
  /\ IF Replies(t) THEN Proceed(t)
     ELSE at' = [at EXCEPT ![t] = "put"] /\ todo' = <<>> /\ UNCHANGED job
  /\ link' = IF Replies(t) THEN link ELSE [link EXCEPT ![Target(t)] = "closed"]
  /\ UNCHANGED alive

\* Mutant: and tries it again.
Failed_Retries(t) ==
  /\ IF Replies(t) THEN Proceed(t)
     ELSE at' = [at EXCEPT ![t] = "put"] /\ UNCHANGED <<job, todo>>
  /\ link' = IF Replies(t) THEN link ELSE [link EXCEPT ![Target(t)] = "closed"]
  /\ UNCHANGED alive

\* A handler ignores the error; the loop closes the connection and drops it.
Failed(t) ==
  /\ Proceed(t)
  /\ link' = IF Replies(t) THEN link ELSE [link EXCEPT ![Target(t)] = "closed"]
  /\ UNCHANGED alive

Sending(t) == Replies(t) \/ (t \in mu /\ todo # <<>>)

\* Mutant: the handlers have no deferred Flush.
Put_NoFlush(t) ==
  LET c == Target(t) IN
  /\ at[t] = "put" /\ Sending(t)
  /\ IF w[c].err THEN Failed(t) /\ UNCHANGED w
     ELSE /\ w' = [w EXCEPT ![c].buf = Append(@, job[t])]
          /\ IF Replies(t) THEN Proceed(t)
             ELSE at' = [at EXCEPT ![t] = "out"] /\ UNCHANGED <<job, todo>>
          /\ UNCHANGED <<alive, link>>
  /\ UNCHANGED <<mu, lists, series, cut, unread, log, hist>>

\* WriteString.  A line that another goroutine is putting may be overwritten.
Put(t) ==
  LET c == Target(t) IN
  /\ at[t] = "put" /\ Sending(t)
  /\ IF w[c].err
     THEN Failed(t) /\ UNCHANGED <<w, raced, log>>
     ELSE /\ \/ w' = [w EXCEPT ![c].buf = Append(@, job[t])]
             \/ /\ Others(t, c) # {} /\ w[c].buf # <<>>
                /\ w' = [w EXCEPT ![c].buf = Append(Front(@), job[t])]
          /\ at' = [at EXCEPT ![t] = "out"]
          /\ IF Others(t, c) = {} THEN UNCHANGED <<raced, log>>
             ELSE raced' = raced \cup {c} /\ log' = [log EXCEPT ![c] = <<>>]
          /\ UNCHANGED <<job, todo, alive, link>>
  /\ UNCHANGED <<mu, lists, series, cut, unread, asked, serial, due, reach>>

\* Flush up to the return of Write, which takes what is buffered: it waits for
\* room in the socket while the client is there.
Flush(t) ==
  LET c == Target(t) IN
  /\ at[t] = "out" /\ ~w[c].err /\ w[c].buf # <<>>
  /\ \/ link[c] = "up" /\ unread[c] < SocketLines
     \/ link[c] = "hungup"
  /\ IF link[c] = "up"
     THEN /\ log' = IF c \in raced /\ at[c] # "tail" THEN log
                    ELSE [log EXCEPT ![c] = @ \o w[c].buf]
          /\ unread' = [unread EXCEPT ![c] = @ + Len(w[c].buf)]
     ELSE UNCHANGED <<log, unread>>
  /\ cut' = [cut EXCEPT ![t] = Len(w[c].buf)]
  /\ at' = [at EXCEPT ![t] = "done"]
  /\ UNCHANGED <<mu, lists, job, series, todo, alive, w, link, hist>>

\* The other goroutine has flushed the line, or its Flush has failed.
FlushNothing(t) ==
  LET c == Target(t) IN
  /\ at[t] = "out" /\ (w[c].err \/ w[c].buf = <<>>)
  /\ IF w[c].err THEN Failed(t) ELSE Sent(t)
  /\ UNCHANGED <<mu, lists, series, w, cut, unread, log, hist>>

\* Write returns an error, which the writer keeps.
FlushFails(t) ==
  LET c == Target(t) IN
  /\ at[t] = "out" /\ ~w[c].err /\ w[c].buf # <<>>
  /\ link[c] # "up"
  /\ w' = [w EXCEPT ![c].err = TRUE]
  /\ Failed(t)
  /\ UNCHANGED <<mu, lists, series, cut, unread, log, hist>>

\* The rest of Flush: lines put during the Write look like a short write, unless
\* they come after that test and before the buffer is emptied.
FlushDone(t) ==
  LET c == Target(t) IN
  /\ at[t] = "done"
  /\ \/ /\ w' = [w EXCEPT ![c].buf = <<>>]
        /\ Sent(t)
     \/ /\ cut[t] < Len(w[c].buf)
        /\ w' = [w EXCEPT ![c] = [buf |-> SubSeq(@.buf, cut[t] + 1, Len(@.buf)), err |-> TRUE]]
        /\ Failed(t)
  /\ cut' = [cut EXCEPT ![t] = 0]
  /\ UNCHANGED <<mu, lists, series, unread, log, hist>>
-----------------------------------------------------------------------------
(* Clients *)

Read(c) ==
  /\ link[c] = "up" /\ unread[c] > 0
  /\ unread' = [unread EXCEPT ![c] = @ - 1]
  /\ UNCHANGED <<mu, lists, at, job, series, todo, alive, w, cut, link, log, hist>>

HangUp(c) ==
  /\ link[c] = "up"
  /\ link' = [link EXCEPT ![c] = "hungup"]
  /\ log' = [log EXCEPT ![c] = <<>>] /\ unread' = [unread EXCEPT ![c] = 0]
  /\ UNCHANGED <<mu, lists, at, job, series, todo, alive, w, cut, hist>>

Lock(t) == LockNotify(t) \/ (t \in Alerts /\ LockBroadcast(t))
Step(t) == Put(t) \/ Flush(t) \/ FlushNothing(t) \/ FlushFails(t) \/ FlushDone(t) \/ Unlock(t)

Next ==
  \/ \E c \in Clients :
       \/ Connect(c) \/ registerClient(c) \/ Answer(c)
       \/ register(c) \/ ScanEnds(c) \/ unregister(c) \/ unregisterClient(c)
       \/ Read(c) \/ HangUp(c)
       \/ \E s \in Series : handleTail(c, s)
  \/ \E c \in Clients, s \in Series : handleWrite(c, s)
  \/ \E r \in Callers, s \in Series : handleRESTWrite(r, s)
  \/ \E a \in Alerts : handleAlertTest(a)
  \/ \E t \in Clients \cup Callers : LockNotify(t)
  \/ \E a \in Alerts : LockBroadcast(a)
  \/ \E t \in Threads : Step(t)

Spec == Init /\ [][Next]_vars

\* A goroutine that can move moves; b.mu, as a sync.Mutex, reaches every waiter
\* in the end; a client that keeps its connection reads what it is sent.
Fairness ==
  /\ \A t \in Threads : WF_vars(Step(t)) /\ SF_vars(Lock(t))
  /\ \A c \in Clients :
       /\ WF_vars(Read(c)) /\ WF_vars(ScanEnds(c))
       /\ SF_vars(registerClient(c) \/ register(c) \/ unregister(c) \/ unregisterClient(c))

LiveSpec == Spec /\ Fairness
-----------------------------------------------------------------------------
Listed == ToSet(all) \cup ToSet(todo) \cup ToSet(alive) \cup UNION {ToSet(subs[s]) : s \in Series}

TypeOK ==
  /\ mu = {} \/ \E t \in Threads : mu = {t}
  /\ all \in Seq(Clients) /\ subs \in [Series -> Seq(Clients)]
  /\ at \in [Threads -> Steps] /\ job \in [Threads -> Line \cup {NoLine}]
  /\ series \in [Clients -> Series]
  /\ todo \in Seq(Clients) /\ alive \in Seq(Clients)
  /\ w \in [Clients -> [buf : Seq(Line), err : BOOLEAN]]
  /\ cut \in [Threads -> Nat] /\ unread \in [Clients -> Nat]
  /\ link \in [Clients -> {"up", "hungup", "closed"}]
  /\ log \in [Clients -> Seq(Line)]
  /\ asked \in [Clients -> 0..MaxCommands]
  /\ serial \in 0..MaxWrites
  /\ due \in [Clients -> Seq(Line)]
  /\ reach \in [Alerts -> SUBSET Clients] /\ raced \subseteq Clients

\* What c has been sent of some lines, in that order.
Of(c, lines) == Select(log[c], lines)

Seen(c) == Of(c, Points)

\* implementation report, 7.6, items 3 to 5: from the moment it is registered a tail gets the
\* points of its series, each once and in the order of b.mu, which is the same
\* for all; whatever the connection did before, and whoever comes and goes.
TailExact ==
  \A c \in Clients : at[c] = "tail" /\ link[c] = "up" =>
    /\ IsPrefix(Seen(c), due[c])
    /\ mu = {} => c \in ToSet(subs[series[c]]) /\ Seen(c) = due[c]

\* Commands are answered in order and once each, except where a Flush by the
\* holder of b.mu met an answer on the same writer.
RepliesInOrder ==
  \A c \in Clients \ raced : link[c] = "up" =>
    LET replies == Of(c, Answers) IN
    /\ \A i \in DOMAIN replies : replies[i].id = i
    /\ at[c] \in {"idle", "tail"} => Len(replies) = asked[c]

\* server.go:96, "to all connected clients": when BroadcastAlert returns, every
\* connection of b.all that is still there has the line, once, though others in
\* the list are dead; except where its own goroutine answered on that writer.
AlertsReachAll ==
  \A a \in Alerts : at[a] = "gone" =>
    \A c \in reach[a] \ raced : link[c] = "up" =>
      Len(Of(c, {AlertOf(a)})) = 1

\* A connection that is gone is in no list, be it by its own deferred calls or
\* dropped by a loop, and no list has a connection twice.
NoGhosts ==
  /\ \A c \in Listed : at[c] \notin {"gone", "accept"}
  /\ IsInjective(all) /\ IsInjective(todo) /\ \A s \in Series : IsInjective(subs[s])

\* A write or an alert that waits for b.mu gets done, and its goroutine goes on,
\* as long as every client reads what it is sent or hangs up.
CallsReturn ==
  \A t \in Threads : at[t] = "lock" ~> at[t] \notin {"lock", "put", "out", "done"}

\* A connection whose client has hung up is forgotten in the end.
LeavesLists == \A c \in Clients : link[c] = "hungup" ~> c \notin ToSet(all)
=============================================================================
