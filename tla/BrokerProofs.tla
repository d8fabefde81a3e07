---------------------------- MODULE BrokerProofs ----------------------------
(***************************************************************************)
(* The broker, for any number of connections, writers, alerts and series:  *)
(* lists without ghosts, tails without gaps, one answer to each command    *)
(* and alerts that reach everyone.                                         *)
(***************************************************************************)
EXTENDS BrokerInv, SelectionProofs

-----------------------------------------------------------------------------
(* Lines *)

\* What the kind of a line says of it.
LEMMA LineKinds ==
  /\ \A l \in Points : l \in Line /\ l.kind = "point" /\ l.series \in Series
  /\ \A l \in Answers : l \in Line /\ l.kind \in {"reply", "refusal"} /\ l.id \in 1..MaxCommands
  /\ \A a \in Alerts : AlertOf(a) \in Line /\ AlertOf(a).kind = "alert"
  /\ NoLine.kind = "none"
  BY DEF Points, Answers, AlertOf, Line, NoLine

\* The answers that are sent, and the points.
LEMMA LineForms ==
  /\ \A k \in {"reply", "refusal"}, i \in 1..MaxCommands : [kind |-> k, id |-> i] \in Answers
  /\ \A s \in Series, i \in 1..MaxWrites : [kind |-> "point", series |-> s, id |-> i] \in Points
  BY DEF Points, Answers

\* The goroutine that uses a writer uses that of a connection, and it is the holder
\* of b.mu or the connection's own.
LEMMA TargetClient ==
  ASSUME TypeOK, StepInv, NEW t \in Threads,
         at[t] \in Busy, at[t] # "put" \/ Sending(t)
  PROVE  /\ Target(t) \in Clients
         /\ Replies(t) => t \in Clients /\ t \notin mu
         /\ ~Replies(t) => todo # <<>> /\ t \in mu
  <1>0. StepOf(t)
    BY DEF StepInv
  <1>1. CASE Replies(t)
    <2>1. t \in Clients /\ t \notin mu
      BY <1>0, <1>1, LineKinds DEF StepOf, Threads, Replies, Busy
    <2> QED BY <1>1, <2>1 DEF Target
  <1>2. CASE ~Replies(t)
    <2>1. todo # <<>> /\ t \in mu
      BY <1>0, <1>2 DEF StepOf, Sending
    <2>2. Head(todo) \in Clients
      BY <2>1 DEF TypeOK
    <2> QED BY <1>2, <2>1, <2>2 DEF Target
  <1> QED BY <1>1, <1>2
-----------------------------------------------------------------------------
(* Types and steps *)

\* Nothing has happened yet.
LEMMA InitStepInv == Init => TypeOK /\ StepInv
  <1> SUFFICES ASSUME Init
               PROVE  TypeOK /\ StepInv
    OBVIOUS
  <1> USE DEF Init
  <1>1. TypeOK
    <2>1. \A S : <<>> \in Seq(S)
      OBVIOUS
    <2>2. newWriter \in [buf : Seq(Line), err : BOOLEAN]
      BY <2>1 DEF newWriter
    <2>3. 0 \in 0..MaxCommands /\ 0 \in 0..MaxWrites
      BY BrokerAssumption
    <2> QED BY <2>1, <2>2, <2>3 DEF TypeOK, Steps
  <1>2. StepInv
    BY BrokerAssumption, LineKinds DEF StepInv, StepOf, Busy, Replies, Threads
  <1> QED BY <1>1, <1>2

\* A step of one goroutine that fits it fits the others.
LEMMA StepMove ==
  ASSUME StepInv, NEW t \in Threads,
         \A u \in Threads \ {t} : /\ at'[u] = at[u] /\ job'[u] = job[u]
                                  /\ u \in Clients => asked'[u] = asked[u]
                                  /\ u \in mu' => u \in mu /\ todo' = todo
                                  /\ u \in mu => u \in mu',
         mu' = {} => todo' = <<>> /\ alive' = <<>>,
         StepOf(t)'
  PROVE  StepInv'
  <1> SUFFICES ASSUME NEW u \in Threads \ {t}
               PROVE  StepOf(u)'
    BY DEF StepInv
  <1>1. StepOf(u)
    BY DEF StepInv
  <1>2. Replies(u)' <=> Replies(u)
    BY DEF Replies
  <1> QED BY <1>1, <1>2 DEF StepOf

\* A connection that moves on without a line to send.
LEMMA ClientMove ==
  ASSUME TypeOK, StepInv, NEW c \in Clients, NEW st \in Steps \ (Busy \cup {"lock"}),
         at[c] \notin Busy, at' = [at EXCEPT ![c] = st],
         UNCHANGED <<mu, todo, alive, job>>,
         \A d \in Clients \ {c} : asked'[d] = asked[d],
         st \in {"gone", "accept"} => asked'[c] = 0
  PROVE  StepInv' /\ at' \in [Threads -> Steps]
  <1>1. c \in Threads /\ c \notin Callers /\ c \notin Alerts /\ StepOf(c)
    BY BrokerAssumption DEF Threads, StepInv
  <1>2. /\ at'[c] = st /\ at' \in [Threads -> Steps]
        /\ \A u \in Threads \ {c} : at'[u] = at[u]
    BY <1>1 DEF TypeOK
  <1>3. StepOf(c)'
    BY <1>1, <1>2 DEF StepOf, Busy, Replies
  <1>4. mu' = {} => todo' = <<>> /\ alive' = <<>>
    BY DEF StepInv
  <1> QED BY <1>1, <1>2, <1>3, <1>4, StepMove

\* A goroutine goes on to send a line.
LEMMA SendMove ==
  ASSUME TypeOK, NEW t \in Threads, NEW l \in Line \cup {NoLine}, NEW st \in Steps, Send(t, l, st)
  PROVE  /\ at' \in [Threads -> Steps] /\ job' \in [Threads -> Line \cup {NoLine}]
         /\ at'[t] = st /\ job'[t] = l
         /\ \A u \in Threads \ {t} : at'[u] = at[u] /\ job'[u] = job[u]
  BY DEF Send, TypeOK

\* Steps of connections, of the writers and callbacks, and of the clients.
LEMMA ClientSteps ==
  ASSUME TypeOK, StepInv, NEW c \in Clients,
         \/ Connect(c) \/ registerClient(c) \/ Answer(c)
         \/ register(c) \/ ScanEnds(c) \/ unregister(c) \/ unregisterClient(c)
         \/ Read(c) \/ HangUp(c) \/ \E s \in Series : handleTail(c, s)
  PROVE  TypeOK' /\ StepInv'
  <1> DEFINE Goal == TypeOK' /\ StepInv'
  <1> USE DEF lists, pipes, hist
  <1>0. /\ c \in Threads /\ StepOf(c) /\ c \notin Callers /\ c \notin Alerts
        /\ {"accept", "idle", "tailLock", "tail", "unsub", "leave", "gone"} \subseteq Steps \ (Busy \cup {"lock"})
        /\ at[c] \in Busy => at[c] \in {"put", "out", "done"}
    BY BrokerAssumption DEF Threads, StepInv, Steps, Busy
  <1>1. ASSUME Connect(c)
        PROVE  Goal
    <2>1. StepInv' /\ at' \in [Threads -> Steps]
      BY <1>0, <1>1, ClientMove DEF Connect, StepOf
    <2> QED BY <1>1, <2>1 DEF Connect, TypeOK
  <1>2. ASSUME registerClient(c)
        PROVE  Goal
    <2>1. StepInv' /\ at' \in [Threads -> Steps]
      BY <1>0, <1>2, ClientMove DEF registerClient
    <2>2. all' \in Seq(Clients)
      BY <1>2 DEF registerClient, TypeOK
    <2> QED BY <1>2, <2>1, <2>2 DEF registerClient, TypeOK
  <1>3. ASSUME Answer(c)
        PROVE  Goal
    <2>1. asked[c] \in 0..MaxCommands /\ asked[c] + 1 \in 1..MaxCommands
      BY <1>3, BrokerAssumption DEF Answer, TypeOK
    <2>2. /\ asked' \in [Clients -> 0..MaxCommands] /\ asked'[c] = asked[c] + 1
          /\ \A d \in Clients \ {c} : asked'[d] = asked[d]
      BY <1>3, <2>1 DEF Answer, TypeOK
    <2>3. PICK l \in Answers : Send(c, l, "put") /\ l.id = asked[c] + 1
      <3>1. PICK k \in {"reply", "refusal"} : Send(c, [kind |-> k, id |-> asked[c] + 1], "put")
        BY <1>3 DEF Answer
      <3> QED BY <2>1, <3>1, LineForms
    <2>4. l \in Line /\ l.kind \in {"reply", "refusal"}
      BY LineKinds
    <2>5. /\ at' \in [Threads -> Steps] /\ job' \in [Threads -> Line \cup {NoLine}]
          /\ at'[c] = "put" /\ job'[c] = l
          /\ \A u \in Threads \ {c} : at'[u] = at[u] /\ job'[u] = job[u]
      BY <1>0, <2>3, <2>4, SendMove DEF Steps
    <2>6. c \notin mu /\ UNCHANGED <<mu, todo, alive>>
      BY <1>0, <1>3 DEF Answer, StepOf, Busy
    <2>7. StepOf(c)'
      BY <1>0, <2>1, <2>2, <2>3, <2>4, <2>5, <2>6 DEF StepOf, Busy, Replies
    <2>8. StepInv'
      BY <1>0, <2>2, <2>5, <2>6, <2>7, StepMove DEF StepInv
    <2> QED BY <1>3, <2>2, <2>5, <2>8 DEF Answer, TypeOK
  <1>4. ASSUME register(c)
        PROVE  Goal
    <2>1. StepInv' /\ at' \in [Threads -> Steps]
      BY <1>0, <1>4, ClientMove DEF register
    <2>2. subs' \in [Series -> Seq(Clients)]
      BY <1>4 DEF register, TypeOK
    <2> QED BY <1>4, <2>1, <2>2 DEF register, TypeOK
  <1>5. ASSUME ScanEnds(c)
        PROVE  Goal
    <2>0. c \in DOMAIN at
      BY <1>0 DEF TypeOK
    <2>1. PICK st \in {"unsub", "leave"} : at' = [at EXCEPT ![c] = st]
      BY <1>5, <2>0 DEF ScanEnds
    <2>2. StepInv' /\ at' \in [Threads -> Steps]
      <3>1. st \in Steps \ (Busy \cup {"lock"}) /\ st \notin {"gone", "accept"}
        BY <1>0
      <3>2. at[c] \notin Busy /\ UNCHANGED <<mu, todo, alive, job, asked>>
        BY <1>0, <1>5 DEF ScanEnds
      <3> QED BY <2>1, <3>1, <3>2, ClientMove
    <2> QED BY <1>5, <2>2 DEF ScanEnds, TypeOK
  <1>6. ASSUME unregister(c)
        PROVE  Goal
    <2>1. StepInv' /\ at' \in [Threads -> Steps]
      BY <1>0, <1>6, ClientMove DEF unregister
    <2>2. subs' \in [Series -> Seq(Clients)]
      <3>1. subs[series[c]] \in Seq(Clients)
        BY DEF TypeOK
      <3>2. Without(subs[series[c]], c) \in Seq(Clients)
        BY <3>1, SelectType DEF Without
      <3> QED BY <1>6, <3>2 DEF unregister, TypeOK
    <2> QED BY <1>6, <2>1, <2>2 DEF unregister, TypeOK
  <1>7. ASSUME unregisterClient(c)
        PROVE  Goal
    <2>1. all' \in Seq(Clients)
      BY <1>7, SelectType DEF unregisterClient, Without, TypeOK
    <2>2. newWriter \in [buf : Seq(Line), err : BOOLEAN] /\ <<>> \in Seq(Line)
      BY DEF newWriter
    <2>3. asked' \in [Clients -> 0..MaxCommands] /\ asked'[c] = 0
          /\ \A d \in Clients \ {c} : asked'[d] = asked[d]
      BY <1>7, BrokerAssumption DEF unregisterClient, Close, TypeOK
    <2>4. StepInv' /\ at' \in [Threads -> Steps]
      BY <1>0, <1>7, <2>3, ClientMove DEF unregisterClient, Close
    <2> QED BY <1>7, <2>1, <2>2, <2>3, <2>4 DEF unregisterClient, Close, TypeOK
  <1>8. ASSUME Read(c)
        PROVE  Goal
    <2>1. unread' \in [Clients -> Nat]
      <3>1. unread[c] \in Nat /\ unread[c] > 0
        BY <1>8 DEF Read, TypeOK
      <3>2. unread[c] - 1 \in Nat
        BY <3>1
      <3> QED BY <1>8, <3>2 DEF Read, TypeOK
    <2>2. StepInv'
      BY <1>8 DEF Read, StepInv, StepOf, Replies
    <2> QED BY <1>8, <2>1, <2>2 DEF Read, TypeOK
  <1>9. ASSUME HangUp(c)
        PROVE  Goal
    <2>1. TypeOK'
      BY <1>9 DEF HangUp, TypeOK
    <2>2. StepInv'
      BY <1>9 DEF HangUp, StepInv, StepOf, Replies
    <2> QED BY <2>1, <2>2
  <1>10. ASSUME NEW s \in Series, handleTail(c, s)
         PROVE  Goal
    <2>1. StepInv' /\ at' \in [Threads -> Steps]
      BY <1>0, <1>10, ClientMove DEF handleTail
    <2> QED BY <1>10, <2>1 DEF handleTail, TypeOK
  <1> QED BY <1>1, <1>2, <1>3, <1>4, <1>5, <1>6, <1>7, <1>8, <1>9, <1>10

\* Steps of those who notify and broadcast, but for the line itself.
LEMMA LockSteps ==
  ASSUME TypeOK, StepInv, NEW t \in Threads,
         \/ \E s \in Series : t \in Clients /\ handleWrite(t, s)
         \/ \E s \in Series : t \in Callers /\ handleRESTWrite(t, s)
         \/ t \in Alerts /\ (handleAlertTest(t) \/ LockBroadcast(t))
         \/ t \in Clients \cup Callers /\ LockNotify(t)
         \/ Unlock(t)
  PROVE  TypeOK' /\ StepInv'
  <1> DEFINE Goal == TypeOK' /\ StepInv'
  <1> USE DEF lists, pipes, hist
  <1>0. /\ StepOf(t) /\ {"idle", "gone", "lock", "put"} \subseteq Steps /\ NoLine \in Line \cup {NoLine}
        /\ t \in Clients => t \notin Callers /\ t \notin Alerts
        /\ t \in Callers => t \notin Clients /\ t \notin Alerts
        /\ t \in Alerts => t \notin Clients /\ t \notin Callers
    BY BrokerAssumption DEF StepInv, Steps, Threads
  <1>1. ASSUME NEW s \in Series, WritePoint(t, s), t \notin Alerts,
               asked' \in [Clients -> 0..MaxCommands],
               t \in Clients => asked'[t] > 0,
               \A d \in Clients \ {t} : asked'[d] = asked[d]
        PROVE  Goal
    <2>1. serial + 1 \in 1..MaxWrites
      BY <1>1, BrokerAssumption DEF WritePoint, TypeOK
    <2>2. PICK l \in Points : Send(t, l, "lock")
      BY <1>1, <2>1, LineForms DEF WritePoint
    <2>3. l \in Line /\ l.kind = "point"
      BY LineKinds
    <2>4. /\ at' \in [Threads -> Steps] /\ job' \in [Threads -> Line \cup {NoLine}]
          /\ at'[t] = "lock" /\ job'[t] = l
          /\ \A u \in Threads \ {t} : at'[u] = at[u] /\ job'[u] = job[u]
      BY <1>0, <2>2, <2>3, SendMove
    <2>5. t \notin mu /\ UNCHANGED <<mu, todo, alive>>
      BY <1>0, <1>1 DEF WritePoint, StepOf, Busy
    <2>6. StepOf(t)'
      BY <1>0, <1>1, <2>3, <2>4, <2>5 DEF StepOf, Busy, Replies
    <2>7. StepInv'
      BY <1>1, <2>4, <2>5, <2>6, StepMove DEF StepInv
    <2>8. serial' \in 0..MaxWrites
      BY <1>1, <2>1 DEF WritePoint
    <2> QED BY <1>1, <2>4, <2>7, <2>8 DEF WritePoint, TypeOK
  <1>2. ASSUME NEW s \in Series, t \in Clients, handleWrite(t, s)
        PROVE  Goal
    <2>1. asked[t] \in 0..MaxCommands /\ asked[t] + 1 \in 0..MaxCommands /\ asked[t] + 1 > 0
      BY <1>2, BrokerAssumption, SMTT(30) DEF handleWrite, TypeOK
    <2>2. /\ asked' \in [Clients -> 0..MaxCommands] /\ asked'[t] = asked[t] + 1
          /\ \A d \in Clients \ {t} : asked'[d] = asked[d]
      BY <1>2, <2>1 DEF handleWrite, TypeOK
    <2> QED BY <1>0, <1>1, <1>2, <2>1, <2>2 DEF handleWrite
  <1>3. ASSUME NEW s \in Series, t \in Callers, handleRESTWrite(t, s)
        PROVE  Goal
    BY <1>0, <1>1, <1>3 DEF handleRESTWrite, TypeOK
  <1>4. ASSUME t \in Alerts, handleAlertTest(t)
        PROVE  Goal
    <2>1. AlertOf(t) \in Line /\ AlertOf(t).kind = "alert"
      BY <1>4, LineKinds
    <2>2. /\ at' \in [Threads -> Steps] /\ job' \in [Threads -> Line \cup {NoLine}]
          /\ at'[t] = "lock" /\ job'[t] = AlertOf(t)
          /\ \A u \in Threads \ {t} : at'[u] = at[u] /\ job'[u] = job[u]
      BY <1>0, <1>4, <2>1, SendMove DEF handleAlertTest
    <2>3. t \notin mu /\ UNCHANGED <<mu, todo, alive, asked>>
      BY <1>0, <1>4 DEF handleAlertTest, StepOf, Busy
    <2>4. StepOf(t)'
      BY <1>0, <1>4, <2>1, <2>2, <2>3 DEF StepOf, Busy, Replies
    <2>5. StepInv'
      BY <1>4, <2>2, <2>3, <2>4, StepMove DEF StepInv
    <2> QED BY <1>4, <2>2, <2>5 DEF handleAlertTest, TypeOK
  <1>5. ASSUME t \in Alerts, LockBroadcast(t)
        PROVE  Goal
    <2>1. job[t] = AlertOf(t) /\ AlertOf(t).kind = "alert"
      BY <1>0, <1>5, LineKinds DEF LockBroadcast, StepOf
    <2>2. /\ at' \in [Threads -> Steps] /\ at'[t] = "put"
          /\ \A u \in Threads \ {t} : at'[u] = at[u]
      BY <1>0, <1>5 DEF LockBroadcast, TypeOK
    <2>3. StepOf(t)'
      BY <1>0, <1>5, <2>1, <2>2 DEF LockBroadcast, StepOf, Busy, Replies
    <2>4. StepInv'
      BY <1>5, <2>2, <2>3, StepMove DEF LockBroadcast
    <2>5. ToSet(all) \subseteq Clients
      BY DEF TypeOK, ToSet
    <2>6. reach' \in [Alerts -> SUBSET Clients]
      BY <1>5, <2>5 DEF LockBroadcast, TypeOK
    <2> QED BY <1>5, <2>2, <2>4, <2>6 DEF LockBroadcast, TypeOK
  <1>6. ASSUME t \in Clients \cup Callers, LockNotify(t)
        PROVE  Goal
    <2>1. job[t] \in Points
      BY <1>0, <1>6 DEF LockNotify, StepOf
    <2>2. job[t].series \in Series /\ job[t] \in Line /\ job[t].kind = "point"
      BY <2>1, LineKinds
    <2>3. /\ at' \in [Threads -> Steps] /\ at'[t] = "put"
          /\ \A u \in Threads \ {t} : at'[u] = at[u]
      BY <1>0, <1>6 DEF LockNotify, TypeOK
    <2>4. StepOf(t)'
      BY <1>0, <1>6, <2>1, <2>2, <2>3 DEF LockNotify, StepOf, Busy, Replies
    <2>5. StepInv'
      BY <1>6, <2>3, <2>4, StepMove DEF LockNotify
    <2>6. due' \in [Clients -> Seq(Line)]
      <3>1. \A c \in Clients : due[c] \in Seq(Line) /\ Append(due[c], job[t]) \in Seq(Line)
        BY <2>2 DEF TypeOK
      <3> QED BY <1>6, <3>1 DEF LockNotify
    <2>7. todo' \in Seq(Clients) /\ alive' \in Seq(Clients)
      BY <1>6, <2>2 DEF LockNotify, TypeOK
    <2> QED BY <1>0, <1>6, <2>3, <2>5, <2>6, <2>7 DEF LockNotify, TypeOK
  <1>7. ASSUME Unlock(t)
        PROVE  Goal
    <2>1. mu = {t} /\ at[t] \in Busy /\ ~Replies(t) /\ mu' = {} /\ todo' = <<>> /\ alive' = <<>>
      BY <1>0, <1>7 DEF Unlock, TypeOK, StepOf
    <2>2. t \notin Alerts => job[t] \in Points
      BY <1>0, <2>1, LineKinds DEF StepOf, Replies, Threads
    <2>3. all' \in Seq(Clients) /\ subs' \in [Series -> Seq(Clients)]
      <3>1. CASE t \in Alerts
        BY <1>7, <3>1 DEF Unlock, TypeOK
      <3>2. CASE t \notin Alerts
        <4>1. job[t].series \in Series
          BY <2>2, <3>2, LineKinds
        <4>2. subs' = [subs EXCEPT ![job[t].series] = alive] /\ all' = all
          BY <1>7, <3>2 DEF Unlock
        <4> QED BY <4>1, <4>2 DEF TypeOK
      <3> QED BY <3>1, <3>2
    <2>4. PICK l \in Line \cup {NoLine}, st \in Steps \ {"out", "done", "lock"} :
            /\ Send(t, l, st)
            /\ t \in Clients => st = "put" /\ l \in Answers /\ l.id = asked[t] /\ asked[t] > 0
            /\ t \in Callers => st = "idle"
            /\ t \in Alerts => st = "gone"
      <3>1. CASE t \in Clients
        <4>1. asked[t] \in 1..MaxCommands
          BY <1>0, <2>1, <3>1 DEF StepOf, TypeOK
        <4>2. [kind |-> "reply", id |-> asked[t]] \in Answers
          BY <4>1, LineForms
        <4>3. [kind |-> "reply", id |-> asked[t]] \in Line
          BY <4>2, LineKinds
        <4> QED BY <1>0, <1>7, <3>1, <4>1, <4>2, <4>3 DEF Unlock
      <3>2. CASE t \notin Clients
        BY <1>0, <1>7, <3>2 DEF Unlock
      <3> QED BY <3>1, <3>2
    <2>5. /\ at' \in [Threads -> Steps] /\ job' \in [Threads -> Line \cup {NoLine}]
          /\ at'[t] = st /\ job'[t] = l
          /\ \A u \in Threads \ {t} : at'[u] = at[u] /\ job'[u] = job[u]
      BY <2>4, SendMove
    <2>6. UNCHANGED asked
      BY <1>7 DEF Unlock
    <2>7. StepOf(t)'
      <3>1. CASE t \in Clients
        <4>1. l \in Answers /\ l.kind \in {"reply", "refusal"}
          BY <2>4, <3>1, LineKinds
        <4> QED BY <1>0, <2>1, <2>4, <2>5, <2>6, <3>1, <4>1 DEF StepOf, Busy, Replies
      <3>2. CASE t \notin Clients
        BY <1>0, <2>1, <2>4, <2>5, <3>2 DEF StepOf, Busy, Threads
      <3> QED BY <3>1, <3>2
    <2>8. StepInv'
      BY <2>1, <2>5, <2>6, <2>7, StepMove
    <2> QED BY <1>7, <2>1, <2>3, <2>5, <2>8 DEF Unlock, TypeOK
  <1> QED BY <1>2, <1>3, <1>4, <1>5, <1>6, <1>7

\* Nobody else holds b.mu, and who does not send an answer holds it.
LEMMA Holder ==
  ASSUME TypeOK, StepInv, NEW t \in mu
  PROVE  mu = {t} /\ t \in Threads /\ at[t] \in Busy /\ ~Replies(t)
  <1>1. mu = {t} /\ t \in Threads
    BY DEF TypeOK
  <1> QED BY <1>1 DEF StepInv, StepOf

\* After a line comes the next subscriber of the loop, or the next command.
LEMMA ProceedMove ==
  ASSUME TypeOK, StepInv, NEW t \in Threads,
         at[t] \in Busy, at[t] # "put" \/ Sending(t), Proceed(t),
         UNCHANGED <<mu, asked>>, Replies(t) => alive' = alive
  PROVE  /\ at' \in [Threads -> Steps] /\ job' \in [Threads -> Line \cup {NoLine}]
         /\ todo' \in Seq(Clients)
         /\ \A u \in Threads \ {t} : at'[u] = at[u] /\ job'[u] = job[u]
         /\ Replies(t) => /\ at'[t] = IF job[t].kind = "refusal" THEN "leave" ELSE "idle"
                          /\ todo' = todo
         /\ ~Replies(t) => at'[t] = "put" /\ job' = job /\ todo' = Tail(todo)
         /\ StepInv'
  <1>0. StepOf(t) /\ t \in DOMAIN at /\ {"leave", "idle", "put"} \subseteq Steps
    BY DEF StepInv, TypeOK, Steps
  <1>1. CASE Replies(t)
    <2>1. t \in Clients /\ t \notin mu /\ t \notin Callers /\ t \notin Alerts
      BY <1>1, TargetClient, BrokerAssumption
    <2>2. PICK st \in {"leave", "idle"} : /\ Send(t, NoLine, st)
                                          /\ st = IF job[t].kind = "refusal" THEN "leave" ELSE "idle"
      BY <1>1 DEF Proceed
    <2>3. todo' = todo
      BY <1>1 DEF Proceed
    <2>4. /\ at' \in [Threads -> Steps] /\ job' \in [Threads -> Line \cup {NoLine}]
          /\ at'[t] = st /\ job'[t] = NoLine
          /\ \A u \in Threads \ {t} : at'[u] = at[u] /\ job'[u] = job[u]
      BY <1>0, <2>2, SendMove
    <2>5. StepOf(t)'
      BY <1>0, <2>1, <2>4 DEF StepOf, Busy
    <2>6. StepInv'
      BY <1>1, <2>3, <2>4, <2>5, StepMove DEF StepInv
    <2> QED BY <1>1, <2>2, <2>3, <2>4, <2>6 DEF TypeOK
  <1>2. CASE ~Replies(t)
    <2>1. todo # <<>> /\ t \in mu
      BY <1>2, TargetClient
    <2>2. mu = {t}
      BY <2>1, Holder
    <2>3. at' = [at EXCEPT ![t] = "put"] /\ job' = job /\ todo' = Tail(todo)
      BY <1>2 DEF Proceed
    <2>4. /\ at' \in [Threads -> Steps] /\ at'[t] = "put"
          /\ \A u \in Threads \ {t} : at'[u] = at[u] /\ job'[u] = job[u]
      BY <1>0, <2>3 DEF TypeOK
    <2>5. StepOf(t)'
      BY <1>0, <1>2, <2>1, <2>3, <2>4 DEF StepOf, Busy, Replies
    <2>6. StepInv'
      BY <2>2, <2>4, <2>5, StepMove
    <2>7. todo' \in Seq(Clients)
      BY <2>1, <2>3 DEF TypeOK
    <2> QED BY <1>2, <2>3, <2>4, <2>6, <2>7 DEF TypeOK
  <1> QED BY <1>1, <1>2

\* So it does whether the line was taken or not.
LEMMA LineDone ==
  ASSUME TypeOK, StepInv, NEW t \in Threads,
         at[t] \in Busy, at[t] # "put" \/ Sending(t), Sent(t) \/ Failed(t),
         UNCHANGED <<mu, asked>>
  PROVE  /\ at' \in [Threads -> Steps] /\ job' \in [Threads -> Line \cup {NoLine}]
         /\ todo' \in Seq(Clients) /\ alive' \in Seq(Clients)
         /\ link' \in [Clients -> {"up", "hungup", "closed"}]
         /\ StepInv'
  <1>1. Proceed(t) /\ (Replies(t) => alive' = alive)
    BY DEF Sent, Failed
  <1>2. Target(t) \in Clients
    BY TargetClient
  <1>3. alive' \in Seq(Clients)
    <2>1. alive \in Seq(Clients) /\ Append(alive, Target(t)) \in Seq(Clients)
      BY <1>2 DEF TypeOK
    <2> QED BY <2>1 DEF Sent, Failed
  <1>4. link' \in [Clients -> {"up", "hungup", "closed"}]
    BY <1>2 DEF Sent, Failed, TypeOK
  <1> QED BY <1>1, <1>3, <1>4, ProceedMove

\* A goroutine goes on within a line.
LEMMA StageMove ==
  ASSUME TypeOK, StepInv, NEW t \in Threads, NEW st \in {"out", "done"},
         at[t] \in Busy, at[t] # "put" \/ Sending(t), at' = [at EXCEPT ![t] = st],
         UNCHANGED <<mu, asked, job, todo, alive>>
  PROVE  /\ at' \in [Threads -> Steps] /\ at'[t] = st
         /\ \A u \in Threads \ {t} : at'[u] = at[u]
         /\ StepInv'
  <1>0. StepOf(t) /\ t \in DOMAIN at /\ st \in Steps
    BY DEF StepInv, TypeOK, Steps
  <1>1. ~Replies(t) => todo # <<>>
    BY TargetClient
  <1>2. /\ at' \in [Threads -> Steps] /\ at'[t] = st
        /\ \A u \in Threads \ {t} : at'[u] = at[u]
    BY <1>0 DEF TypeOK
  <1>3. StepOf(t)'
    BY <1>0, <1>1, <1>2 DEF StepOf, Busy, Replies
  <1> QED BY <1>2, <1>3, StepMove DEF StepInv

\* Steps of a goroutine with a line.
LEMMA LineSteps ==
  ASSUME TypeOK, StepInv, NEW t \in Threads,
         Put(t) \/ Flush(t) \/ FlushNothing(t) \/ FlushFails(t) \/ FlushDone(t)
  PROVE  TypeOK' /\ StepInv'
  <1> DEFINE Goal == TypeOK' /\ StepInv'
             c == Target(t)
  <1> USE DEF lists, pipes, hist
  <1>0. at[t] \in Busy /\ (at[t] # "put" \/ Sending(t)) /\ UNCHANGED <<mu, asked>>
    BY DEF Put, Flush, FlushNothing, FlushFails, FlushDone, Busy
  <1>1. c \in Clients /\ job[t] \in Line
    <2>1. StepOf(t)
      BY DEF StepInv
    <2> QED BY <1>0, <2>1, TargetClient, LineKinds DEF StepOf, Threads
  <1>2. w[c] \in [buf : Seq(Line), err : BOOLEAN] /\ w[c].buf \in Seq(Line)
    BY <1>1 DEF TypeOK
  <1> HIDE DEF c
  <1>3. ASSUME Put(t)
        PROVE  Goal
    <2>1. CASE w[c].err
      <3>1. Failed(t) /\ UNCHANGED <<w, raced, log>>
        BY <1>3, <2>1 DEF Put, c
      <3> QED BY <1>0, <1>3, <3>1, LineDone DEF Put, TypeOK
    <2>2. CASE ~w[c].err
      <3>1. w' \in [Clients -> [buf : Seq(Line), err : BOOLEAN]]
        <4>1. CASE w' = [w EXCEPT ![c].buf = Append(@, job[t])]
          <5>1. Append(w[c].buf, job[t]) \in Seq(Line)
            BY <1>1, <1>2
          <5> QED BY <1>1, <4>1, <5>1 DEF TypeOK
        <4>2. CASE w[c].buf # <<>> /\ w' = [w EXCEPT ![c].buf = Append(Front(@), job[t])]
          <5>1. Front(w[c].buf) \in Seq(Line)
            BY <1>2, <4>2 DEF Front
          <5>2. Append(Front(w[c].buf), job[t]) \in Seq(Line)
            BY <1>1, <5>1
          <5> QED BY <1>1, <4>2, <5>2 DEF TypeOK
        <4> QED BY <1>3, <2>2, <4>1, <4>2 DEF Put, c
      <3>2. /\ log' = log \/ log' = [log EXCEPT ![c] = <<>>]
            /\ raced' = raced \/ raced' = raced \cup {c}
        BY <1>3, <2>2 DEF Put, c
      <3>3. log' \in [Clients -> Seq(Line)] /\ raced' \subseteq Clients
        <4>1. <<>> \in Seq(Line)
          OBVIOUS
        <4> QED BY <1>1, <3>2, <4>1 DEF TypeOK
      <3>4. StepInv' /\ at' \in [Threads -> Steps]
        <4>1. at' = [at EXCEPT ![t] = "out"] /\ UNCHANGED <<job, todo, alive>>
          BY <1>3, <2>2 DEF Put, c
        <4> QED BY <1>0, <4>1, StageMove
      <3>5. UNCHANGED <<job, todo, alive, link>>
        BY <1>3, <2>2 DEF Put, c
      <3> QED BY <1>3, <3>1, <3>3, <3>4, <3>5 DEF Put, TypeOK
    <2> QED BY <2>1, <2>2
  <1>4. ASSUME Flush(t)
        PROVE  Goal
    <2>1. StepInv' /\ at' \in [Threads -> Steps]
      BY <1>0, <1>4, StageMove DEF Flush
    <2>2. Len(w[c].buf) \in Nat
      BY <1>2
    <2>3. cut' \in [Threads -> Nat]
      BY <1>4, <2>2 DEF Flush, TypeOK, c
    <2>4. unread' \in [Clients -> Nat]
      <3>1. unread' = unread \/ unread' = [unread EXCEPT ![c] = @ + Len(w[c].buf)]
        BY <1>4 DEF Flush, c
      <3>2. unread[c] + Len(w[c].buf) \in Nat
        BY <1>1, <2>2 DEF TypeOK
      <3> QED BY <1>1, <3>1, <3>2 DEF TypeOK
    <2>5. log' \in [Clients -> Seq(Line)]
      <3>1. log' = log \/ log' = [log EXCEPT ![c] = @ \o w[c].buf]
        BY <1>4 DEF Flush, c
      <3>2. log[c] \o w[c].buf \in Seq(Line)
        BY <1>1, <1>2 DEF TypeOK
      <3> QED BY <1>1, <3>1, <3>2 DEF TypeOK
    <2> QED BY <1>4, <2>1, <2>3, <2>4, <2>5 DEF Flush, TypeOK
  <1>5. ASSUME FlushNothing(t)
        PROVE  Goal
    <2>1. Sent(t) \/ Failed(t)
      BY <1>5 DEF FlushNothing
    <2> QED BY <1>0, <1>5, <2>1, LineDone DEF FlushNothing, TypeOK
  <1>6. ASSUME FlushFails(t)
        PROVE  Goal
    <2>1. w' \in [Clients -> [buf : Seq(Line), err : BOOLEAN]]
      BY <1>1, <1>6 DEF FlushFails, TypeOK, c
    <2> QED BY <1>0, <1>6, <2>1, LineDone DEF FlushFails, TypeOK
  <1>7. ASSUME FlushDone(t)
        PROVE  Goal
    <2>1. (Sent(t) \/ Failed(t)) /\ cut' = [cut EXCEPT ![t] = 0]
      BY <1>7 DEF FlushDone
    <2>2. w' \in [Clients -> [buf : Seq(Line), err : BOOLEAN]]
      <3>1. CASE w' = [w EXCEPT ![c].buf = <<>>]
        <4>1. <<>> \in Seq(Line)
          OBVIOUS
        <4> QED BY <1>1, <3>1, <4>1 DEF TypeOK
      <3>2. CASE /\ cut[t] < Len(w[c].buf)
                 /\ w' = [w EXCEPT ![c] = [buf |-> SubSeq(@.buf, cut[t] + 1, Len(@.buf)), err |-> TRUE]]
        <4>1. cut[t] \in Nat
          BY DEF TypeOK
        <4>2. SubSeq(w[c].buf, cut[t] + 1, Len(w[c].buf)) \in Seq(Line)
          BY <1>2, <4>1
        <4> QED BY <1>1, <3>2, <4>2 DEF TypeOK
      <3> QED BY <1>7, <3>1, <3>2 DEF FlushDone, c
    <2>3. cut' \in [Threads -> Nat]
      BY <2>1 DEF TypeOK
    <2> QED BY <1>0, <1>7, <2>1, <2>2, <2>3, LineDone DEF FlushDone, TypeOK
  <1> QED BY <1>3, <1>4, <1>5, <1>6, <1>7

\* Every step keeps the types, and every goroutine its line.
LEMMA NextStepInv == TypeOK /\ StepInv /\ [Next]_vars => TypeOK' /\ StepInv'
  <1> SUFFICES ASSUME TypeOK, StepInv, [Next]_vars
               PROVE  TypeOK' /\ StepInv'
    OBVIOUS
  <1>1. CASE UNCHANGED vars
    <2>1. TypeOK'
      BY <1>1 DEF TypeOK, vars, lists, pipes, hist
    <2>2. StepInv'
      BY <1>1 DEF StepInv, StepOf, Replies, vars, lists, pipes, hist
    <2> QED BY <2>1, <2>2
  <1>2. CASE Next
    BY <1>2, ClientSteps, LockSteps, LineSteps DEF Next, Step, Threads
  <1> QED BY <1>1, <1>2

\* TypeOK holds of every state: in particular, one goroutine at a time holds b.mu.
THEOREM TypeCorrect == Spec => []TypeOK
  <1>1. TypeOK /\ StepInv /\ [Next]_vars => (TypeOK /\ StepInv)'
    BY NextStepInv
  <1> QED BY <1>1, InitStepInv, PTL DEF Spec
-----------------------------------------------------------------------------
(* Lists of connections *)

\* The elements of a list.
LEMMA ToSetRange ==
  ASSUME NEW list \in Seq(Clients)
  PROVE  /\ ToSet(list) = Range(list) /\ ToSet(list) \subseteq Clients
         /\ ToSet(list) = {list[i] : i \in 1..Len(list)} /\ DOMAIN list = 1..Len(list)
  <1>1. ToSet(list) = Range(list)
    BY DEF ToSet, Range
  <1>2. Range(list) = {list[i] : i \in 1..Len(list)} /\ Range(list) \in SUBSET Clients
    BY RangeEquality, RangeOfSeq
  <1> QED BY <1>1, <1>2

\* An empty list.
LEMMA EmptyList == ToSet(<<>>) = {} /\ IsInjective(<<>>)
  BY DEF ToSet, IsInjective

\* A connection is added to a list.
LEMMA ListAppend ==
  ASSUME NEW list \in Seq(Clients), NEW c \in Clients
  PROVE  /\ ToSet(Append(list, c)) = ToSet(list) \cup {c}
         /\ IsInjective(list) /\ c \notin ToSet(list) => IsInjective(Append(list, c))
  <1> DEFINE n == Len(list)
             longer == Append(list, c)
  <1>1. /\ n \in Nat /\ longer \in Seq(Clients) /\ DOMAIN list = 1..n /\ DOMAIN longer = 1..(n + 1)
        /\ longer[n + 1] = c /\ \A i \in 1..n : longer[i] = list[i]
    OBVIOUS
  <1>2. ToSet(longer) = Range(longer) /\ ToSet(list) = Range(list)
        /\ ToSet(list) = {list[i] : i \in 1..n}
    BY <1>1, ToSetRange
  <1>3. Range(longer) = Range(list) \cup {c}
    BY RangeAppend
  <1>4. ASSUME IsInjective(list), c \notin ToSet(list)
        PROVE  IsInjective(longer)
    <2> HIDE DEF longer
    <2> SUFFICES ASSUME NEW i \in 1..(n + 1), NEW j \in 1..(n + 1), longer[i] = longer[j]
                 PROVE  i = j
      BY <1>1 DEF IsInjective
    <2>1. (i \in 1..n \/ i = n + 1) /\ (j \in 1..n \/ j = n + 1)
      BY <1>1
    <2>2. \A k \in 1..n : longer[k] # c
      BY <1>1, <1>2, <1>4
    <2>3. CASE i \in 1..n /\ j \in 1..n
      BY <1>1, <1>4, <2>3 DEF IsInjective
    <2> QED BY <1>1, <2>1, <2>2, <2>3
  <1> QED BY <1>2, <1>3, <1>4

\* A connection is taken out of a list.
LEMMA ListWithout ==
  ASSUME NEW list \in Seq(Clients), NEW c \in Clients
  PROVE  /\ Without(list, c) \in Seq(Clients)
         /\ ToSet(Without(list, c)) = ToSet(list) \ {c}
         /\ IsInjective(list) => IsInjective(Without(list, c))
  <1> DEFINE rest == Select(list, Clients \ {c})
  <1>1. rest \in Seq(Clients)
    BY SelectType
  <1>2. ToSet(rest) = Range(rest) /\ ToSet(list) = Range(list) /\ ToSet(list) \subseteq Clients
    BY <1>1, ToSetRange
  <1>3. Range(rest) = Range(list) \cap (Clients \ {c})
    BY SelectRange
  <1>4. ASSUME IsInjective(list)
        PROVE  IsInjective(rest)
    <2>1. \A i, j \in 1..Len(list) : list[i] = list[j] /\ list[i] \in Clients => i = j
      <3>1. DOMAIN list = 1..Len(list)
        OBVIOUS
      <3> QED BY <1>4, <3>1 DEF IsInjective
    <2>2. \A i, j \in 1..Len(rest) : rest[i] = rest[j] /\ rest[i] \in Clients => i = j
      <3> HIDE DEF rest
      <3> QED BY <2>1, SelectDistinct DEF rest
    <2> HIDE DEF rest
    <2>3. DOMAIN rest = 1..Len(rest) /\ \A i \in 1..Len(rest) : rest[i] \in Clients
      BY <1>1
    <2> QED BY <2>2, <2>3 DEF IsInjective
  <1> QED BY <1>1, <1>2, <1>3, <1>4 DEF Without

\* The head of a list, and what is left without it.
LEMMA ListTail ==
  ASSUME NEW list \in Seq(Clients), list # <<>>
  PROVE  /\ Head(list) \in Clients /\ Tail(list) \in Seq(Clients)
         /\ ToSet(list) = ToSet(Tail(list)) \cup {Head(list)}
         /\ IsInjective(list) => IsInjective(Tail(list)) /\ Head(list) \notin ToSet(Tail(list))
  <1> DEFINE n == Len(list)
             rest == Tail(list)
  <1>1. /\ n \in Nat /\ n > 0 /\ rest \in Seq(Clients) /\ Len(rest) = n - 1
        /\ Head(list) = list[1] /\ Head(list) \in Clients
        /\ DOMAIN list = 1..n /\ DOMAIN rest = 1..(n - 1)
        /\ \A i \in 1..(n - 1) : rest[i] = list[i + 1]
    OBVIOUS
  <1>2. ToSet(list) = {list[i] : i \in 1..n} /\ ToSet(rest) = {rest[i] : i \in 1..(n - 1)}
    BY <1>1, ToSetRange
  <1> HIDE DEF rest
  <1>3. ToSet(list) = ToSet(rest) \cup {list[1]}
    <2>1. \A i \in 1..n : i = 1 \/ (i - 1 \in 1..(n - 1) /\ rest[i - 1] = list[i])
      BY <1>1
    <2>2. \A i \in 1..(n - 1) : i + 1 \in 1..n
      BY <1>1
    <2>3. 1 \in 1..n
      BY <1>1
    <2>4. ToSet(list) \subseteq ToSet(rest) \cup {list[1]}
      BY <1>2, <2>1
    <2>5. ToSet(rest) \cup {list[1]} \subseteq ToSet(list)
      BY <1>1, <1>2, <2>2, <2>3
    <2> QED BY <2>4, <2>5
  <1>4. ASSUME IsInjective(list)
        PROVE  IsInjective(rest) /\ list[1] \notin ToSet(rest)
    <2>1. \A i, j \in 1..n : list[i] = list[j] => i = j
      BY <1>1, <1>4 DEF IsInjective
    <2>2. ASSUME NEW i \in 1..(n - 1)
          PROVE  rest[i] # list[1]
      <3>1. i + 1 \in 1..n /\ 1 \in 1..n /\ i + 1 # 1
        BY <1>1
      <3> QED BY <1>1, <2>1, <3>1
    <2>3. ASSUME NEW i \in 1..(n - 1), NEW j \in 1..(n - 1), rest[i] = rest[j]
          PROVE  i = j
      <3>1. i + 1 \in 1..n /\ j + 1 \in 1..n
        BY <1>1
      <3>2. i + 1 = j + 1
        BY <1>1, <2>1, <2>3, <3>1
      <3> QED BY <3>2
    <2> QED BY <1>1, <1>2, <2>2, <2>3 DEF IsInjective
  <1> QED BY <1>1, <1>3, <1>4 DEF rest

\* The lists name connections, and the holder of b.mu goes through one of them.
LEMMA ListTypes ==
  ASSUME TypeOK, StepInv
  PROVE  /\ ToSet(all) \subseteq Clients /\ ToSet(todo) \subseteq Clients /\ ToSet(alive) \subseteq Clients
         /\ \A s \in Series : ToSet(subs[s]) \subseteq Clients
         /\ \A t \in mu \ Alerts : job[t] \in Points /\ job[t].series \in Series
  <1>1. ASSUME NEW t \in mu \ Alerts
        PROVE  job[t] \in Points
    <2>1. t \in Clients \cup Callers /\ at[t] \in Busy /\ ~Replies(t) /\ StepOf(t)
      BY Holder DEF Threads, StepInv
    <2> QED BY <2>1, LineKinds DEF StepOf, Replies
  <1>2. \A s \in Series : subs[s] \in Seq(Clients)
    BY DEF TypeOK
  <1> QED BY <1>1, <1>2, LineKinds, ToSetRange DEF TypeOK

\* No list at first.
LEMMA InitListInv == Init => ListInv
  <1> SUFFICES ASSUME Init
               PROVE  ListInv
    OBVIOUS
  <1> USE DEF Init
  <1>1. \A c \in Clients : at[c] = "gone"
    BY DEF Threads
  <1> QED BY <1>1, EmptyList DEF ListInv

\* A step that leaves the lists, and the connections that tail, as they are.
LEMMA ListFrame ==
  ASSUME TypeOK, StepInv, ListInv, UNCHANGED <<mu, all, subs, todo, alive>>,
         \A t \in mu : job'[t] = job[t],
         \A c \in Clients :
           /\ at'[c] \in {"gone", "accept"} => at[c] \in {"gone", "accept"}
           /\ at[c] \in {"tail", "unsub"} => at'[c] \in {"tail", "unsub"} /\ series'[c] = series[c]
           /\ at'[c] = "tail" /\ link'[c] = "up" => at[c] = "tail" /\ link[c] = "up"
  PROVE  ListInv'
  <1>1. \A t \in mu : Source(t)' = Source(t)
    BY DEF Source
  <1>2. Kept' = Kept
    BY DEF Kept
  <1>3. /\ IsInjective(all') /\ \A s \in Series : IsInjective(subs'[s])
        /\ IsInjective(alive') /\ IsInjective(todo') /\ ToSet(alive') \cap ToSet(todo') = {}
    BY DEF ListInv
  <1>4. \A c \in ToSet(all') : at'[c] \notin {"gone", "accept"}
    BY ListTypes DEF ListInv
  <1>5. \A s \in Series : \A c \in ToSet(subs'[s]) : at'[c] \in {"tail", "unsub"} /\ series'[c] = s
    BY ListTypes DEF ListInv
  <1>6. \A t \in mu' : Kept' \subseteq ToSet(Source(t)')
    BY <1>1, <1>2 DEF ListInv
  <1>7. \A c \in Clients : at'[c] = "tail" /\ link'[c] = "up" =>
          /\ c \in ToSet(subs'[series'[c]])
          /\ \A t \in mu' \ Alerts : job'[t].series = series'[c] => c \in Kept'
    BY <1>2 DEF ListInv
  <1> QED BY <1>3, <1>4, <1>5, <1>6, <1>7 DEF ListInv

\* While nobody holds b.mu, lists change in place.
LEMMA ListRest ==
  ASSUME TypeOK, StepInv, mu = {}, mu' = {}, UNCHANGED <<todo, alive>>,
         IsInjective(all'), \A s \in Series : IsInjective(subs'[s]),
         \A c \in ToSet(all') : at'[c] \notin {"gone", "accept"},
         \A s \in Series : \A c \in ToSet(subs'[s]) : at'[c] \in {"tail", "unsub"} /\ series'[c] = s,
         \A c \in Clients : at'[c] = "tail" /\ link'[c] = "up" => c \in ToSet(subs'[series'[c]])
  PROVE  ListInv'
  <1>1. todo' = <<>> /\ alive' = <<>>
    BY DEF StepInv
  <1> QED BY <1>1, EmptyList DEF ListInv

\* Connections come, register, leave the lists and go.
LEMMA ClientListInv ==
  ASSUME TypeOK, StepInv, ListInv, NEW c \in Clients,
         \/ Connect(c) \/ registerClient(c) \/ Answer(c)
         \/ register(c) \/ ScanEnds(c) \/ unregister(c) \/ unregisterClient(c)
         \/ Read(c) \/ HangUp(c) \/ \E s \in Series : handleTail(c, s)
  PROVE  ListInv'
  <1> USE DEF lists, pipes, hist
  <1>0. /\ c \in Threads /\ StepOf(c) /\ c \in DOMAIN at /\ c \in DOMAIN link
        /\ Clients \subseteq Threads /\ DOMAIN at = Threads
    BY DEF Threads, StepInv, TypeOK
  <1>1. CASE Connect(c) \/ ScanEnds(c) \/ Read(c) \/ HangUp(c) \/ \E s \in Series : handleTail(c, s)
    <2>1. UNCHANGED <<mu, all, subs, todo, alive, job>>
      BY <1>1 DEF Connect, ScanEnds, Read, HangUp, handleTail
    <2>2. ASSUME NEW d \in Clients
          PROVE  /\ at'[d] \in {"gone", "accept"} => at[d] \in {"gone", "accept"}
                 /\ at[d] \in {"tail", "unsub"} => at'[d] \in {"tail", "unsub"} /\ series'[d] = series[d]
                 /\ at'[d] = "tail" /\ link'[d] = "up" => at[d] = "tail" /\ link[d] = "up"
      <3>1. CASE Connect(c)
        BY <1>0, <3>1 DEF Connect, TypeOK
      <3>2. CASE ScanEnds(c)
        BY <1>0, <3>2 DEF ScanEnds, TypeOK
      <3>3. CASE Read(c)
        BY <3>3 DEF Read
      <3>4. CASE HangUp(c)
        BY <1>0, <3>4 DEF HangUp, TypeOK
      <3>5. ASSUME NEW s \in Series, handleTail(c, s)
            PROVE  /\ at'[d] \in {"gone", "accept"} => at[d] \in {"gone", "accept"}
                   /\ at[d] \in {"tail", "unsub"} => at'[d] \in {"tail", "unsub"} /\ series'[d] = series[d]
                   /\ at'[d] = "tail" /\ link'[d] = "up" => at[d] = "tail" /\ link[d] = "up"
        BY <1>0, <3>5 DEF handleTail, TypeOK
      <3> QED BY <1>1, <3>1, <3>2, <3>3, <3>4, <3>5
    <2> QED BY <2>1, <2>2, ListFrame
  <1>2. CASE Answer(c)
    <2>1. UNCHANGED <<mu, all, subs, todo, alive, series, link>> /\ c \notin mu
      BY <1>0, <1>2 DEF Answer, StepOf, Busy
    <2>2. /\ \A u \in Threads \ {c} : at'[u] = at[u] /\ job'[u] = job[u]
          /\ at'[c] = "put" /\ at[c] = "idle"
      BY <1>0, <1>2 DEF Answer, Send, TypeOK
    <2>3. \A t \in mu : job'[t] = job[t]
      BY <2>1, <2>2, Holder
    <2> QED BY <1>0, <2>1, <2>2, <2>3, ListFrame
  <1>3. CASE registerClient(c)
    <2>1. /\ mu = {} /\ UNCHANGED <<mu, todo, alive, subs, series, link>>
          /\ all' = Append(all, c) /\ all \in Seq(Clients)
          /\ at[c] = "accept" /\ at'[c] = "idle" /\ \A d \in Clients \ {c} : at'[d] = at[d]
      BY <1>0, <1>3 DEF registerClient, TypeOK
    <2>2. ToSet(all') = ToSet(all) \cup {c} /\ IsInjective(all')
      BY <2>1, ListAppend DEF ListInv
    <2>3. \A d \in ToSet(all') : at'[d] \notin {"gone", "accept"}
      BY <2>1, <2>2, ListTypes DEF ListInv
    <2>4. \A s \in Series : \A d \in ToSet(subs'[s]) : at'[d] \in {"tail", "unsub"} /\ series'[d] = s
      BY <2>1, ListTypes DEF ListInv
    <2>5. \A d \in Clients : at'[d] = "tail" /\ link'[d] = "up" => d \in ToSet(subs'[series'[d]])
      BY <2>1 DEF ListInv
    <2> QED BY <2>1, <2>2, <2>3, <2>4, <2>5, ListRest DEF ListInv
  <1>4. CASE register(c)
    <2>0. series[c] \in Series /\ subs[series[c]] \in Seq(Clients) /\ DOMAIN subs = Series
      BY DEF TypeOK
    <2>1. /\ mu = {} /\ UNCHANGED <<mu, todo, alive, all, series, link>>
          /\ subs'[series[c]] = Append(subs[series[c]], c)
          /\ \A s \in Series \ {series[c]} : subs'[s] = subs[s]
          /\ at[c] = "tailLock" /\ at'[c] = "tail" /\ \A d \in Clients \ {c} : at'[d] = at[d]
      BY <1>0, <1>4, <2>0 DEF register
    <2>2. c \notin ToSet(subs[series[c]])
      BY <2>0, <2>1 DEF ListInv
    <2>3. /\ ToSet(subs'[series[c]]) = ToSet(subs[series[c]]) \cup {c}
          /\ IsInjective(subs'[series[c]])
      BY <2>0, <2>1, <2>2, ListAppend DEF ListInv
    <2>4. \A s \in Series : IsInjective(subs'[s])
      BY <2>1, <2>3 DEF ListInv
    <2>5. \A d \in ToSet(all') : at'[d] \notin {"gone", "accept"}
      BY <2>1, ListTypes DEF ListInv
    <2>6. \A s \in Series : \A d \in ToSet(subs'[s]) : at'[d] \in {"tail", "unsub"} /\ series'[d] = s
      <3> SUFFICES ASSUME NEW s \in Series, NEW d \in ToSet(subs'[s])
                   PROVE  at'[d] \in {"tail", "unsub"} /\ series'[d] = s
        OBVIOUS
      <3>1. \A e \in ToSet(subs[s]) : e \in Clients \ {c} /\ at[e] \in {"tail", "unsub"} /\ series[e] = s
        BY <2>1, ListTypes DEF ListInv
      <3>2. d \in ToSet(subs[s]) \/ (d = c /\ s = series[c])
        <4>1. CASE s = series[c]
          BY <2>3, <4>1
        <4>2. CASE s # series[c]
          BY <2>1, <4>2
        <4> QED BY <4>1, <4>2
      <3> QED BY <2>1, <3>1, <3>2
    <2>7. \A d \in Clients : at'[d] = "tail" /\ link'[d] = "up" => d \in ToSet(subs'[series'[d]])
      <3>1. \A s \in Series : ToSet(subs[s]) \subseteq ToSet(subs'[s])
        BY <2>1, <2>3
      <3>2. \A d \in Clients : series[d] \in Series
        BY DEF TypeOK
      <3> QED BY <2>1, <2>3, <3>1, <3>2 DEF ListInv
    <2> QED BY <2>1, <2>4, <2>5, <2>6, <2>7, ListRest DEF ListInv
  <1>5. CASE unregister(c)
    <2>0. series[c] \in Series /\ subs[series[c]] \in Seq(Clients) /\ DOMAIN subs = Series
      BY DEF TypeOK
    <2>1. /\ mu = {} /\ UNCHANGED <<mu, todo, alive, all, series, link>>
          /\ subs'[series[c]] = Without(subs[series[c]], c)
          /\ \A s \in Series \ {series[c]} : subs'[s] = subs[s]
          /\ at[c] = "unsub" /\ at'[c] = "leave" /\ \A d \in Clients \ {c} : at'[d] = at[d]
      BY <1>0, <1>5, <2>0 DEF unregister
    <2>2. /\ ToSet(subs'[series[c]]) = ToSet(subs[series[c]]) \ {c}
          /\ IsInjective(subs'[series[c]])
      BY <2>0, <2>1, ListWithout DEF ListInv
    <2>3. \A s \in Series : IsInjective(subs'[s])
      BY <2>1, <2>2 DEF ListInv
    <2>4. \A d \in ToSet(all') : at'[d] \notin {"gone", "accept"}
      BY <2>1, ListTypes DEF ListInv
    <2>5. \A s \in Series : \A d \in ToSet(subs'[s]) :
            d # c /\ d \in Clients /\ at'[d] \in {"tail", "unsub"} /\ series'[d] = s
      BY <2>1, <2>2, ListTypes DEF ListInv
    <2>6. \A d \in Clients : at'[d] = "tail" /\ link'[d] = "up" => d \in ToSet(subs'[series'[d]])
      <3>1. \A s \in Series : ToSet(subs[s]) \subseteq ToSet(subs'[s]) \cup {c}
        BY <2>1, <2>2
      <3>2. \A d \in Clients : series[d] \in Series
        BY DEF TypeOK
      <3> QED BY <2>1, <2>2, <3>1, <3>2 DEF ListInv
    <2> QED BY <2>1, <2>3, <2>4, <2>5, <2>6, ListRest DEF ListInv
  <1>6. CASE unregisterClient(c)
    <2>1. /\ mu = {} /\ UNCHANGED <<mu, todo, alive, subs, series>>
          /\ all' = Without(all, c) /\ all \in Seq(Clients)
          /\ at[c] = "leave" /\ at'[c] = "gone" /\ \A d \in Clients \ {c} : at'[d] = at[d]
          /\ \A d \in Clients \ {c} : link'[d] = link[d]
      BY <1>0, <1>6 DEF unregisterClient, Close, TypeOK
    <2>2. ToSet(all') = ToSet(all) \ {c} /\ IsInjective(all')
      BY <2>1, ListWithout DEF ListInv
    <2>3. \A d \in ToSet(all') : at'[d] \notin {"gone", "accept"}
      BY <2>1, <2>2, ListTypes DEF ListInv
    <2>4. \A s \in Series : \A d \in ToSet(subs'[s]) : at'[d] \in {"tail", "unsub"} /\ series'[d] = s
      BY <2>1, ListTypes DEF ListInv
    <2>5. \A d \in Clients : at'[d] = "tail" /\ link'[d] = "up" => d \in ToSet(subs'[series'[d]])
      BY <2>1 DEF ListInv
    <2> QED BY <2>1, <2>2, <2>3, <2>4, <2>5, ListRest DEF ListInv
  <1> QED BY <1>1, <1>2, <1>3, <1>4, <1>5, <1>6

\* The holder of b.mu takes a list, goes through it, and puts it back.
LEMMA LockListInv ==
  ASSUME TypeOK, StepInv, ListInv, NEW t \in Threads,
         \/ \E s \in Series : WritePoint(t, s)
         \/ t \in Alerts /\ (handleAlertTest(t) \/ LockBroadcast(t))
         \/ t \in Clients \cup Callers /\ LockNotify(t)
         \/ Unlock(t)
  PROVE  ListInv'
  <1> USE DEF lists, pipes, hist
  <1>0. /\ StepOf(t) /\ DOMAIN at = Threads /\ Clients \subseteq Threads
        /\ t \in Alerts => t \notin Clients
    BY BrokerAssumption DEF StepInv, TypeOK, Threads
  <1>1. CASE (\E s \in Series : WritePoint(t, s)) \/ (t \in Alerts /\ handleAlertTest(t))
    <2>1. /\ UNCHANGED <<mu, all, subs, todo, alive, series, link>> /\ t \notin mu
          /\ at[t] = "idle" /\ \E l : Send(t, l, "lock")
      BY <1>0, <1>1 DEF WritePoint, handleAlertTest, StepOf, Busy
    <2>2. /\ \A u \in Threads \ {t} : at'[u] = at[u] /\ job'[u] = job[u]
          /\ at'[t] = "lock"
      BY <1>0, <2>1 DEF Send, TypeOK
    <2>3. \A u \in mu : job'[u] = job[u]
      BY <2>1, <2>2, Holder
    <2> QED BY <1>0, <2>1, <2>2, <2>3, ListFrame
  <1>2. CASE t \in Alerts /\ LockBroadcast(t)
    <2>1. /\ mu' = {t} /\ UNCHANGED <<all, subs, job, series, link>>
          /\ todo' = all /\ alive' = <<>>
          /\ at[t] = "lock" /\ at'[t] = "put" /\ \A u \in Threads \ {t} : at'[u] = at[u]
      BY <1>0, <1>2 DEF LockBroadcast
    <2>2. Kept' = ToSet(all) /\ Source(t)' = all /\ mu' \subseteq Alerts
      BY <1>2, <2>1, EmptyList DEF Kept, Source
    <2>3. \A d \in Clients : at'[d] = at[d]
      BY <1>0, <1>2, <2>1
    <2>4. \A s \in Series : \A d \in ToSet(subs'[s]) : at'[d] \in {"tail", "unsub"} /\ series'[d] = s
      BY <2>1, <2>3, ListTypes DEF ListInv
    <2>5. \A d \in ToSet(all') : at'[d] \notin {"gone", "accept"}
      BY <2>1, <2>3, ListTypes DEF ListInv
    <2>6. \A d \in Clients : at'[d] = "tail" /\ link'[d] = "up" => d \in ToSet(subs'[series'[d]])
      BY <2>1, <2>3 DEF ListInv
    <2>7. IsInjective(todo') /\ IsInjective(alive') /\ ToSet(alive') \cap ToSet(todo') = {}
      BY <2>1, EmptyList DEF ListInv
    <2> QED BY <2>1, <2>2, <2>4, <2>5, <2>6, <2>7 DEF ListInv
  <1>3. CASE t \in Clients \cup Callers /\ LockNotify(t)
    <2>0. t \notin Alerts /\ job[t] \in Points /\ job[t].series \in Series
      <3>1. t \notin Alerts
        BY <1>3, BrokerAssumption
      <3> QED BY <1>0, <1>3, <3>1, LineKinds DEF LockNotify, StepOf
    <2>1. /\ mu' = {t} /\ UNCHANGED <<all, subs, job, series, link>>
          /\ todo' = subs[job[t].series] /\ alive' = <<>>
          /\ at[t] = "lock" /\ at'[t] = "put" /\ \A u \in Threads \ {t} : at'[u] = at[u]
      BY <1>0, <1>3 DEF LockNotify
    <2>2. Kept' = ToSet(subs[job[t].series]) /\ Source(t)' = subs[job[t].series]
      BY <2>0, <2>1, EmptyList DEF Kept, Source
    <2>3. \A d \in Clients : at'[d] \in {"gone", "accept", "tail", "unsub"} \/
                             at[d] \in {"gone", "accept", "tail", "unsub"} => at'[d] = at[d]
      BY <1>0, <2>1
    <2>4. \A s \in Series : \A d \in ToSet(subs'[s]) : at'[d] \in {"tail", "unsub"} /\ series'[d] = s
      BY <2>1, <2>3, ListTypes DEF ListInv
    <2>5. \A d \in ToSet(all') : at'[d] \notin {"gone", "accept"}
      BY <2>1, <2>3, ListTypes DEF ListInv
    <2>6. \A d \in Clients : at'[d] = "tail" /\ link'[d] = "up" =>
            d \in ToSet(subs'[series'[d]]) /\ (job'[t].series = series'[d] => d \in Kept')
      BY <2>1, <2>2, <2>3 DEF ListInv
    <2>7. IsInjective(todo') /\ IsInjective(alive') /\ ToSet(alive') \cap ToSet(todo') = {}
      BY <2>0, <2>1, EmptyList DEF ListInv
    <2> QED BY <2>1, <2>2, <2>4, <2>5, <2>6, <2>7 DEF ListInv
  <1>4. CASE Unlock(t)
    <2>1. /\ mu = {t} /\ mu' = {} /\ todo' = <<>> /\ alive' = <<>> /\ UNCHANGED <<series, link>>
          /\ Kept = ToSet(alive) /\ at[t] = "put"
      BY <1>0, <1>4, EmptyList, Holder DEF Unlock, Kept
    <2>2. /\ \A u \in Threads \ {t} : at'[u] = at[u]
          /\ at'[t] \in {"put", "idle", "gone"} /\ (t \in Clients => at'[t] = "put")
      BY <1>0, <1>4 DEF Unlock, Send
    <2>3. \A d \in Clients : at'[d] \in {"gone", "accept", "tail", "unsub"} \/
                             at[d] \in {"gone", "accept", "tail", "unsub"} => at'[d] = at[d]
      BY <1>0, <2>1, <2>2
    <2>4. /\ IsInjective(todo') /\ IsInjective(alive') /\ ToSet(alive') \cap ToSet(todo') = {}
      BY <2>1, EmptyList
    <2>5. CASE t \in Alerts
      <3>1. all' = alive /\ subs' = subs /\ ToSet(alive) \subseteq ToSet(all)
        <4>1. all' = alive /\ subs' = subs
          BY <1>4, <2>5 DEF Unlock
        <4> QED BY <2>1, <2>5, <4>1 DEF ListInv, Source
      <3>2. \A s \in Series : \A d \in ToSet(subs'[s]) : at'[d] \in {"tail", "unsub"} /\ series'[d] = s
        BY <2>1, <2>3, <3>1, ListTypes DEF ListInv
      <3>3. \A d \in ToSet(all') : at'[d] \notin {"gone", "accept"}
        BY <2>3, <3>1, ListTypes DEF ListInv
      <3>4. \A d \in Clients : at'[d] = "tail" /\ link'[d] = "up" => d \in ToSet(subs'[series'[d]])
        BY <2>1, <2>3, <3>1 DEF ListInv
      <3> QED BY <2>1, <2>4, <3>1, <3>2, <3>3, <3>4 DEF ListInv
    <2>6. CASE t \notin Alerts
      <3>0. job[t].series \in Series /\ DOMAIN subs = Series
        BY <2>1, <2>6, ListTypes DEF TypeOK
      <3>1. /\ all' = all /\ subs'[job[t].series] = alive
            /\ \A s \in Series \ {job[t].series} : subs'[s] = subs[s]
        <4>1. subs' = [subs EXCEPT ![job[t].series] = alive] /\ all' = all
          BY <1>4, <2>6 DEF Unlock
        <4> QED BY <3>0, <4>1
      <3>2. ToSet(alive) \subseteq ToSet(subs[job[t].series])
        BY <2>1, <2>6 DEF ListInv, Source
      <3>3. \A s \in Series : IsInjective(subs'[s]) /\ ToSet(subs'[s]) \subseteq ToSet(subs[s])
        BY <3>1, <3>2 DEF ListInv
      <3>4. \A s \in Series : \A d \in ToSet(subs'[s]) : at'[d] \in {"tail", "unsub"} /\ series'[d] = s
        BY <2>1, <2>3, <3>3, ListTypes DEF ListInv
      <3>5. \A d \in ToSet(all') : at'[d] \notin {"gone", "accept"}
        BY <2>3, <3>1, ListTypes DEF ListInv
      <3>6. ASSUME NEW d \in Clients, at'[d] = "tail", link'[d] = "up"
            PROVE  d \in ToSet(subs'[series'[d]])
        <4>1. /\ at[d] = "tail" /\ link[d] = "up" /\ series'[d] = series[d] /\ series[d] \in Series
          BY <2>1, <2>3, <3>6 DEF TypeOK
        <4>2. d \in ToSet(subs[series[d]]) /\ (job[t].series = series[d] => d \in ToSet(alive))
          BY <2>1, <2>6, <4>1 DEF ListInv
        <4> QED BY <3>1, <4>1, <4>2
      <3> QED BY <2>1, <2>4, <3>1, <3>3, <3>4, <3>5, <3>6 DEF ListInv
    <2> QED BY <2>5, <2>6
  <1> QED BY <1>1, <1>2, <1>3, <1>4

\* A connection that is served stays in its list; one that cannot be is dropped
\* from it and closed.
LEMMA DoneListInv ==
  ASSUME TypeOK, StepInv, ListInv, NEW t \in Threads,
         at[t] \in Busy, at[t] # "put" \/ Sending(t), Sent(t) \/ Failed(t),
         UNCHANGED <<mu, asked, all, subs, series>>
  PROVE  ListInv'
  <1>0. /\ Proceed(t) /\ (Replies(t) => alive' = alive) /\ Target(t) \in Clients
        /\ StepOf(t) /\ Clients \subseteq Threads
    BY TargetClient DEF Sent, Failed, StepInv, Threads
  <1>1. /\ \A u \in Threads \ {t} : at'[u] = at[u] /\ job'[u] = job[u]
        /\ Replies(t) => at'[t] \in {"idle", "leave"} /\ todo' = todo
        /\ ~Replies(t) => at'[t] = "put" /\ job' = job /\ todo' = Tail(todo)
    BY <1>0, ProceedMove
  <1>2. \A d \in Clients : at'[d] \in {"gone", "accept", "tail", "unsub"} \/
                           at[d] \in {"gone", "accept", "tail", "unsub"} => at'[d] = at[d]
    BY <1>0, <1>1 DEF Busy
  <1>3. CASE Replies(t)
    <2>1. UNCHANGED <<mu, all, subs, todo, alive, series, link>> /\ t \notin mu
      BY <1>0, <1>1, <1>3, TargetClient DEF Sent, Failed
    <2>2. \A u \in mu : job'[u] = job[u]
      BY <1>1, <2>1, Holder
    <2> QED BY <1>2, <2>1, <2>2, ListFrame
  <1>4. CASE ~Replies(t)
    <2>0. todo # <<>> /\ mu = {t} /\ todo \in Seq(Clients) /\ alive \in Seq(Clients)
      BY <1>4, TargetClient, Holder DEF TypeOK
    <2> DEFINE c == Head(todo)
    <2>1. /\ c \in Clients /\ ToSet(todo) = ToSet(todo') \cup {c} /\ c \notin ToSet(todo')
          /\ IsInjective(todo') /\ c \notin ToSet(alive) /\ ToSet(todo') \subseteq ToSet(todo)
      <3>1. /\ c \in Clients /\ ToSet(todo) = ToSet(Tail(todo)) \cup {c}
            /\ c \notin ToSet(Tail(todo)) /\ IsInjective(Tail(todo))
        BY <2>0, ListTail DEF ListInv
      <3>2. ToSet(alive) \cap ToSet(todo) = {} /\ todo' = Tail(todo)
        BY <1>1, <1>4 DEF ListInv
      <3> HIDE DEF c
      <3> QED BY <3>1, <3>2
    <2>2. Target(t) = c
      BY <1>4 DEF Target
    <2> HIDE DEF c
    <2>3. \/ alive' = Append(alive, c) /\ link' = link
          \/ alive' = alive /\ link' = [link EXCEPT ![c] = "closed"]
      <3>1. Sent(t) => alive' = Append(alive, c) /\ link' = link
        BY <1>4, <2>2 DEF Sent
      <3>2. Failed(t) => alive' = alive /\ link' = [link EXCEPT ![c] = "closed"]
        BY <1>4, <2>2 DEF Failed
      <3> QED BY <3>1, <3>2
    <2>4. /\ IsInjective(alive') /\ ToSet(alive') \cap ToSet(todo') = {}
          /\ Kept' \subseteq Kept /\ \A d \in Kept : d \in Kept' \/ link'[d] = "closed"
      <3>1. CASE alive' = Append(alive, c) /\ link' = link
        <4>1. ToSet(alive') = ToSet(alive) \cup {c} /\ IsInjective(alive')
          BY <2>0, <2>1, <3>1, ListAppend DEF ListInv
        <4> QED BY <2>1, <4>1 DEF ListInv, Kept
      <3>2. CASE alive' = alive /\ link' = [link EXCEPT ![c] = "closed"]
        <4>1. link'[c] = "closed"
          BY <2>1, <3>2 DEF TypeOK
        <4> QED BY <2>1, <3>2, <4>1 DEF ListInv, Kept
      <3> QED BY <2>3, <3>1, <3>2
    <2>5. \A d \in Clients : link'[d] = "up" => link[d] = "up"
      BY <2>1, <2>3 DEF TypeOK
    <2>6. Source(t)' = Source(t) /\ job' = job
      BY <1>1, <1>4 DEF Source
    <2>7. /\ IsInjective(all') /\ \A s \in Series : IsInjective(subs'[s])
      BY DEF ListInv
    <2>8. \A d \in ToSet(all') : at'[d] \notin {"gone", "accept"}
      BY <1>2, ListTypes DEF ListInv
    <2>9. \A s \in Series : \A d \in ToSet(subs'[s]) : at'[d] \in {"tail", "unsub"} /\ series'[d] = s
      BY <1>2, ListTypes DEF ListInv
    <2>10. \A u \in mu' : Kept' \subseteq ToSet(Source(u)')
      BY <2>0, <2>4, <2>6 DEF ListInv
    <2>11. ASSUME NEW d \in Clients, at'[d] = "tail", link'[d] = "up"
           PROVE  /\ d \in ToSet(subs'[series'[d]])
                  /\ \A u \in mu' \ Alerts : job'[u].series = series'[d] => d \in Kept'
      <3>1. at[d] = "tail" /\ link[d] = "up"
        BY <1>2, <2>5, <2>11
      <3>2. \A u \in mu \ Alerts : job[u].series = series[d] => d \in Kept
        BY <3>1 DEF ListInv
      <3>3. d \in Kept => d \in Kept'
        BY <2>4, <2>11
      <3> QED BY <2>6, <3>1, <3>2, <3>3 DEF ListInv
    <2> QED BY <2>1, <2>4, <2>7, <2>8, <2>9, <2>10, <2>11 DEF ListInv
  <1> QED BY <1>3, <1>4

\* Steps of a goroutine with a line.
LEMMA LineListInv ==
  ASSUME TypeOK, StepInv, ListInv, NEW t \in Threads,
         Put(t) \/ Flush(t) \/ FlushNothing(t) \/ FlushFails(t) \/ FlushDone(t)
  PROVE  ListInv'
  <1> USE DEF lists, pipes, hist
  <1>1. /\ at[t] \in Busy /\ (at[t] # "put" \/ Sending(t))
        /\ UNCHANGED <<mu, asked, all, subs, series>>
    BY DEF Put, Flush, FlushNothing, FlushFails, FlushDone, Busy
  <1>2. \/ Sent(t) \/ Failed(t)
        \/ /\ at' = [at EXCEPT ![t] = "out"] \/ at' = [at EXCEPT ![t] = "done"]
           /\ UNCHANGED <<job, todo, alive, link>>
    BY DEF Put, Flush, FlushNothing, FlushFails, FlushDone
  <1>3. CASE Sent(t) \/ Failed(t)
    BY <1>1, <1>3, DoneListInv
  <1>4. CASE /\ at' = [at EXCEPT ![t] = "out"] \/ at' = [at EXCEPT ![t] = "done"]
             /\ UNCHANGED <<job, todo, alive, link>>
    <2>1. \A d \in Clients : at'[d] \in {"gone", "accept", "tail", "unsub"} \/
                             at[d] \in {"gone", "accept", "tail", "unsub"} => at'[d] = at[d]
      BY <1>1, <1>4 DEF TypeOK, Threads, Busy
    <2> QED BY <1>1, <1>4, <2>1, ListFrame
  <1> QED BY <1>2, <1>3, <1>4

\* Every step keeps who is in which list.
LEMMA NextListInv == TypeOK /\ StepInv /\ ListInv /\ [Next]_vars => ListInv'
  <1> SUFFICES ASSUME TypeOK, StepInv, ListInv, [Next]_vars
               PROVE  ListInv'
    OBVIOUS
  <1>1. CASE UNCHANGED vars
    BY <1>1 DEF ListInv, Kept, Source, vars, lists, pipes, hist
  <1>2. CASE Next
    <2>1. \A c \in Clients, s \in Series : handleWrite(c, s) => c \in Threads /\ WritePoint(c, s)
      BY DEF handleWrite, Threads
    <2>2. \A r \in Callers, s \in Series : handleRESTWrite(r, s) => r \in Threads /\ WritePoint(r, s)
      BY DEF handleRESTWrite, Threads
    <2>3. Clients \cup Callers \subseteq Threads /\ Alerts \subseteq Threads
      BY DEF Threads
    <2> QED BY <1>2, <2>1, <2>2, <2>3, ClientListInv, LockListInv, LineListInv DEF Next, Step
  <1> QED BY <1>1, <1>2

\* Whoever is in the loop is in the list it goes through.
LEMMA KeptHere ==
  ASSUME TypeOK, StepInv, ListInv, NEW c \in Kept
  PROVE  /\ at[c] \notin {"gone", "accept"}
         /\ \A t \in mu \ Alerts : at[c] \in {"tail", "unsub"} /\ series[c] = job[t].series
  <1>1. mu # {}
    BY EmptyList DEF StepInv, Kept
  <1>2. PICK t : mu = {t}
    BY <1>1 DEF TypeOK
  <1>3. c \in ToSet(Source(t)) /\ (t \notin Alerts => job[t].series \in Series)
    BY <1>2, ListTypes DEF ListInv
  <1>4. CASE t \in Alerts
    BY <1>2, <1>3, <1>4 DEF ListInv, Source
  <1>5. CASE t \notin Alerts
    <2>1. at[c] \in {"tail", "unsub"} /\ series[c] = job[t].series
      BY <1>3, <1>5 DEF ListInv, Source
    <2> QED BY <1>2, <2>1
  <1> QED BY <1>4, <1>5

\* NoGhosts holds of every state: a connection that is gone is in no list, and no
\* list has one twice.
THEOREM GhostsGone == Spec => []NoGhosts
  <1> DEFINE I == TypeOK /\ StepInv /\ ListInv
  <1>1. Init => I
    BY InitStepInv, InitListInv
  <1>2. I /\ [Next]_vars => I'
    BY NextStepInv, NextListInv
  <1>3. I => NoGhosts
    <2> SUFFICES ASSUME I
                 PROVE  NoGhosts
      OBVIOUS
    <2>1. ASSUME NEW c \in Listed
          PROVE  at[c] \notin {"gone", "accept"}
      <3>1. \A d \in ToSet(all) : at[d] \notin {"gone", "accept"}
        BY DEF ListInv
      <3>2. \A s \in Series : \A d \in ToSet(subs[s]) : at[d] \notin {"gone", "accept"}
        BY DEF ListInv
      <3>3. \A d \in Kept : at[d] \notin {"gone", "accept"}
        BY KeptHere
      <3> QED BY <3>1, <3>2, <3>3 DEF Listed, Kept
    <2> QED BY <2>1 DEF ListInv, NoGhosts
  <1> QED BY <1>1, <1>2, <1>3, PTL DEF Spec
-----------------------------------------------------------------------------
(* Writers *)

\* Who uses the writer of c: its own goroutine with an answer, or the holder of b.mu.
LEMMA UserForms ==
  ASSUME TypeOK, StepInv, NEW c \in Clients, NEW t \in Users(c)
  PROVE  /\ t \in Threads /\ at[t] \in {"out", "done"} /\ at[t] \in Busy /\ Target(t) = c
         /\ (t = c /\ Replies(t) /\ t \notin mu) \/ (mu = {t} /\ ~Replies(t) /\ todo # <<>> /\ c = Head(todo))
  <1>1. t \in Threads /\ at[t] \in {"out", "done"} /\ Target(t) = c
    BY DEF Users
  <1>2. at[t] \in Busy
    BY <1>1 DEF Busy
  <1>3. (Replies(t) => t \notin mu) /\ (~Replies(t) => todo # <<>> /\ t \in mu)
    BY <1>1, <1>2, TargetClient
  <1> QED BY <1>1, <1>2, <1>3, Holder DEF Target

\* A step that moves nobody into a line or out of one.
LEMMA UsersSame ==
  ASSUME TypeOK, StepInv, NEW c \in Clients,
         \A u \in Threads : at[u] \in {"out", "done"} \/ at'[u] \in {"out", "done"} =>
                              at'[u] = at[u] /\ job'[u] = job[u],
         mu = {} \/ todo' = todo
  PROVE  Users(c)' = Users(c)
  <1>1. ASSUME NEW u \in Threads, at[u] \in {"out", "done"}
        PROVE  Target(u)' = Target(u)
    <2>1. Replies(u)' <=> Replies(u)
      BY <1>1 DEF Replies
    <2>2. at[u] \in Busy
      BY <1>1 DEF Busy
    <2>3. ~Replies(u) => u \in mu
      BY <1>1, <2>2, TargetClient
    <2> QED BY <2>1, <2>3 DEF Target
  <1>2. \A u \in Threads : at'[u] \in {"out", "done"} <=> at[u] \in {"out", "done"}
    OBVIOUS
  <1> QED BY <1>1, <1>2 DEF Users

\* A goroutine comes to the writer of its target, or stays there.
LEMMA UsersMore ==
  ASSUME TypeOK, NEW t \in Threads, NEW c \in Clients,
         at'[t] \in {"out", "done"}, \A u \in Threads \ {t} : at'[u] = at[u],
         UNCHANGED <<job, todo>>
  PROVE  Users(c)' = IF c = Target(t) THEN Users(c) \cup {t} ELSE Users(c) \ {t}
  <1>1. \A u \in Threads : Target(u)' = Target(u)
    BY DEF Target, Replies
  <1> QED BY <1>1 DEF Users

\* A goroutine leaves the writer of its target.
LEMMA UsersLess ==
  ASSUME TypeOK, StepInv, NEW t \in Threads, NEW c \in Clients,
         at'[t] \notin {"out", "done"},
         \A u \in Threads \ {t} : at'[u] = at[u] /\ job'[u] = job[u],
         t \in mu \/ todo' = todo
  PROVE  Users(c)' = Users(c) \ {t}
  <1>1. ASSUME NEW u \in Threads \ {t}, at[u] \in {"out", "done"}
        PROVE  Target(u)' = Target(u)
    <2>1. Replies(u)' <=> Replies(u)
      BY DEF Replies
    <2>2. at[u] \in Busy
      BY <1>1 DEF Busy
    <2>3. ~Replies(u) => mu = {u}
      BY <1>1, <2>2, TargetClient, Holder
    <2> QED BY <2>1, <2>3 DEF Target
  <1> QED BY <1>1 DEF Users

\* A writer that a step leaves alone.
LEMMA WriterFrame ==
  ASSUME NEW c \in Clients, WriterOf(c), Users(c)' = Users(c), w'[c] = w[c],
         \A t \in Users(c) : at'[t] = at[t] /\ job'[t] = job[t] /\ cut'[t] = cut[t],
         at'[c] = "gone" => at[c] = "gone" /\ log'[c] \in {log[c], <<>>} /\ due'[c] = due[c],
         c \in raced' <=> c \in raced,
         at'[c] = "tail" => at[c] = "tail" \/ Users(c) = {},
         link'[c] = "up" => link[c] = "up" \/ at[c] = "gone"
  PROVE  WriterOf(c)'
  <1>1. (at'[c] = "gone" => w'[c] = newWriter /\ log'[c] = <<>> /\ due'[c] = <<>> /\ c \notin raced')
    BY DEF WriterOf
  <1>2. Users(c)' = {} => w'[c].err \/ w'[c].buf = <<>>
    BY DEF WriterOf
  <1>3. ASSUME Clean(c)', NEW t \in Users(c)
        PROVE  /\ Users(c)' = {t}
               /\ w'[c] = [buf |-> <<job'[t]>>, err |-> FALSE]
               /\ at'[t] = "done" => cut'[t] = 1
    <2>1. Clean(c)
      BY <1>3 DEF Clean
    <2> QED BY <1>3, <2>1 DEF WriterOf
  <1>4. c \notin raced' /\ link'[c] = "up" => ~w'[c].err
    BY DEF WriterOf, newWriter
  <1> QED BY <1>1, <1>2, <1>3, <1>4 DEF WriterOf

\* No writer is used at first.
LEMMA InitWriterInv == Init => WriterInv
  <1> SUFFICES ASSUME Init, NEW c \in Clients
               PROVE  WriterOf(c)
    BY DEF WriterInv
  <1>1. Users(c) = {}
    BY DEF Init, Users
  <1>2. w[c] = newWriter /\ ~w[c].err /\ w[c].buf = <<>>
    BY DEF Init, newWriter
  <1> QED BY <1>1, <1>2 DEF Init, WriterOf, Threads

\* Steps between lines.
LEMMA QuietWriterInv ==
  ASSUME TypeOK, StepInv, WriterInv,
         \A u \in Threads : at[u] \in {"out", "done"} \/ at'[u] \in {"out", "done"} =>
                              at'[u] = at[u] /\ job'[u] = job[u] /\ cut'[u] = cut[u],
         mu = {} \/ todo' = todo,
         \A c \in Clients : /\ w'[c] = w[c]
                            /\ at'[c] = "gone" => /\ at[c] = "gone" /\ due'[c] = due[c]
                                                  /\ log'[c] \in {log[c], <<>>}
                            /\ c \in raced' <=> c \in raced
                            /\ at'[c] = "tail" => at[c] = "tail" \/ (at[c] = "tailLock" /\ mu = {})
                            /\ link'[c] = "up" => link[c] = "up" \/ at[c] = "gone"
  PROVE  WriterInv'
  <1> SUFFICES ASSUME NEW c \in Clients
               PROVE  WriterOf(c)'
    BY DEF WriterInv
  <1>1. WriterOf(c)
    BY DEF WriterInv
  <1>2. Users(c)' = Users(c)
    BY UsersSame
  <1>3. \A t \in Users(c) : t \in Threads /\ at[t] \in {"out", "done"}
    BY DEF Users
  <1>4. at[c] = "tailLock" /\ mu = {} => Users(c) = {}
    BY UserForms
  <1> QED BY <1>1, <1>2, <1>3, <1>4, WriterFrame

\* Connections come, register, leave the lists and go.
LEMMA ClientWriterInv ==
  ASSUME TypeOK, StepInv, WriterInv, NEW c \in Clients,
         \/ Connect(c) \/ registerClient(c) \/ Answer(c)
         \/ register(c) \/ ScanEnds(c) \/ unregister(c) \/ unregisterClient(c)
         \/ Read(c) \/ HangUp(c) \/ \E s \in Series : handleTail(c, s)
  PROVE  WriterInv'
  <1> USE DEF lists, pipes, hist
  <1>0. /\ c \in Threads /\ c \in DOMAIN at /\ c \in DOMAIN link /\ c \in DOMAIN log
        /\ c \in DOMAIN job /\ Clients \subseteq Threads
    BY DEF Threads, TypeOK
  <1>1. CASE ~unregisterClient(c)
    <2>1. UNCHANGED <<w, cut, due, raced, todo>>
      BY <1>1 DEF Connect, registerClient, Answer, register, ScanEnds, unregister, Read, HangUp, handleTail
    <2>2. \/ at' = at /\ job' = job
          \/ /\ at'[c] \in {"accept", "idle", "put", "tailLock", "tail", "unsub", "leave"}
             /\ at[c] \notin {"out", "done"} /\ \A u \in Threads \ {c} : at'[u] = at[u]
             /\ at'[c] = "tail" => at[c] = "tailLock" /\ mu = {}
      BY <1>0, <1>1 DEF Connect, registerClient, Answer, register, ScanEnds, unregister, Read, HangUp, handleTail, Send, TypeOK
    <2>4. \A u \in Threads \ {c} : job'[u] = job[u]
      BY <1>0, <1>1 DEF Connect, registerClient, Answer, register, ScanEnds, unregister, Read, HangUp, handleTail, Send, TypeOK
    <2>5. \A d \in Clients : log'[d] \in {log[d], <<>>}
      BY <1>0, <1>1 DEF Connect, registerClient, Answer, register, ScanEnds, unregister, Read, HangUp, handleTail, TypeOK
    <2>6. \A d \in Clients : link'[d] = "up" => link[d] = "up" \/ at[d] = "gone"
      BY <1>0, <1>1 DEF Connect, registerClient, Answer, register, ScanEnds, unregister, Read, HangUp, handleTail, TypeOK
    <2>7. \A u \in Threads : at[u] \in {"out", "done"} \/ at'[u] \in {"out", "done"} =>
                               at'[u] = at[u] /\ job'[u] = job[u] /\ cut'[u] = cut[u]
      BY <2>1, <2>2, <2>4
    <2>8. \A d \in Clients : /\ at'[d] = "gone" => at[d] = "gone"
                             /\ at'[d] = "tail" => at[d] = "tail" \/ (at[d] = "tailLock" /\ mu = {})
      BY <1>0, <2>2
    <2> QED BY <2>1, <2>5, <2>6, <2>7, <2>8, QuietWriterInv
  <1>2. CASE unregisterClient(c)
    <2>1. /\ at[c] = "leave" /\ at'[c] = "gone" /\ mu = {} /\ UNCHANGED <<mu, job, todo, cut>>
          /\ w'[c] = newWriter /\ log'[c] = <<>> /\ due'[c] = <<>> /\ raced' = raced \ {c}
          /\ \A u \in Threads \ {c} : at'[u] = at[u]
          /\ \A d \in Clients \ {c} : /\ w'[d] = w[d] /\ log'[d] = log[d]
                                      /\ due'[d] = due[d] /\ link'[d] = link[d]
      BY <1>0, <1>2 DEF unregisterClient, Close, TypeOK
    <2>2. \A d \in Clients : Users(d)' = Users(d)
      BY <2>1, UsersSame
    <2>3. Users(c) = {}
      BY <2>1, UserForms
    <2>4. ASSUME NEW d \in Clients \ {c}
          PROVE  WriterOf(d)'
      <3>1. \A u \in Users(d) : u \in Threads \ {c}
        BY <2>1 DEF Users
      <3> QED BY <1>0, <2>1, <2>2, <3>1, WriterFrame DEF WriterInv
    <2>5. WriterOf(c)'
      BY <2>1, <2>2, <2>3 DEF WriterOf, newWriter
    <2> QED BY <2>4, <2>5 DEF WriterInv
  <1> QED BY <1>1, <1>2

\* The holder of b.mu takes a list and puts it back.
LEMMA LockWriterInv ==
  ASSUME TypeOK, StepInv, WriterInv, NEW t \in Threads,
         \/ \E s \in Series : WritePoint(t, s)
         \/ t \in Alerts /\ (handleAlertTest(t) \/ LockBroadcast(t))
         \/ t \in Clients \cup Callers /\ LockNotify(t)
         \/ Unlock(t)
  PROVE  WriterInv'
  <1> USE DEF lists, pipes, hist
  <1>0. /\ StepOf(t) /\ DOMAIN at = Threads /\ Clients \subseteq Threads
        /\ t \in Alerts => t \notin Clients
    BY BrokerAssumption DEF StepInv, TypeOK, Threads
  <1>1. UNCHANGED <<w, cut, log, link, raced>> /\ (mu = {} \/ todo' = todo)
    BY DEF WritePoint, handleAlertTest, LockBroadcast, LockNotify, Unlock
  <1>2. /\ at[t] \notin {"out", "done"} /\ at'[t] \notin {"out", "done", "tail"}
        /\ at'[t] = "gone" => t \notin Clients
        /\ \A u \in Threads \ {t} : at'[u] = at[u] /\ job'[u] = job[u]
    <2>1. CASE \E s \in Series : WritePoint(t, s)
      BY <1>0, <2>1 DEF WritePoint, Send, TypeOK
    <2>2. CASE t \in Alerts /\ (handleAlertTest(t) \/ LockBroadcast(t))
      BY <1>0, <2>2 DEF handleAlertTest, LockBroadcast, Send, TypeOK
    <2>3. CASE LockNotify(t)
      BY <1>0, <2>3 DEF LockNotify, TypeOK
    <2>4. CASE Unlock(t)
      BY <1>0, <2>4 DEF Unlock, Send, TypeOK
    <2> QED BY <2>1, <2>2, <2>3, <2>4
  <1>3. \A d \in Clients : at'[d] = "gone" => at[d] = "gone"
    BY <1>0, <1>2
  <1>4. \A d \in Clients : at'[d] = "gone" => due'[d] = due[d]
    <2>1. due' = due \/ \A d \in Clients : at[d] # "tail" => due'[d] = due[d]
      BY DEF WritePoint, handleAlertTest, LockBroadcast, LockNotify, Unlock
    <2> QED BY <1>3, <2>1
  <1> QED BY <1>0, <1>1, <1>2, <1>3, <1>4, QuietWriterInv

\* The step of a goroutine with a line, as the properties see it: it puts the line;
\* or flushes it, whole where two have not met; or is done with it, after the flush,
\* or without one if two have met or the connection is down.
Puts(t) ==
  /\ at[t] = "put" /\ at' = [at EXCEPT ![t] = "out"]
  /\ UNCHANGED <<job, todo, alive, link>>
  /\ \/ UNCHANGED <<raced, log>>
     \/ /\ Target(t) \in raced' /\ at[Target(t)] # "tail"
        /\ raced' = raced \cup {Target(t)} /\ log' = [log EXCEPT ![Target(t)] = <<>>]

Flushes(t) ==
  /\ at[t] = "out" /\ at' = [at EXCEPT ![t] = "done"]
  /\ UNCHANGED <<job, todo, alive, link, raced>>
  /\ IF Clean(Target(t)) /\ link[Target(t)] = "up"
     THEN log' = [log EXCEPT ![Target(t)] = Append(@, job[t])]
     ELSE log' = log

Ends(t) ==
  /\ Sent(t) \/ Failed(t)
  /\ at[t] = "done" \/ ~Clean(Target(t)) \/ link'[Target(t)] # "up"
  /\ UNCHANGED <<raced, log>>

\* It is one of the three, and keeps the writers.
LEMMA LineWriterInv ==
  ASSUME TypeOK, StepInv, ListInv, WriterInv, NEW t \in Threads,
         Put(t) \/ Flush(t) \/ FlushNothing(t) \/ FlushFails(t) \/ FlushDone(t)
  PROVE  /\ WriterInv'
         /\ Puts(t) \/ Flushes(t) \/ Ends(t)
         /\ at[t] \in Busy /\ (at[t] # "put" \/ Sending(t))
         /\ UNCHANGED <<mu, all, subs, series, asked, serial, due, reach>>
  <1> USE DEF lists, pipes, hist
  <1> DEFINE Goal == WriterInv' /\ (Puts(t) \/ Flushes(t) \/ Ends(t))
  <1>1. /\ at[t] \in Busy /\ (at[t] # "put" \/ Sending(t))
        /\ UNCHANGED <<mu, all, subs, series, asked, serial, due, reach>>
    BY DEF Put, Flush, FlushNothing, FlushFails, FlushDone, Busy
  <1>2. PICK c \in Clients :
          /\ c = Target(t) /\ job[t] \in Line
          /\ Replies(t) => t \in Clients /\ t \notin mu /\ c = t
          /\ ~Replies(t) => todo # <<>> /\ mu = {t} /\ c = Head(todo)
    <2>1. StepOf(t)
      BY DEF StepInv
    <2>2. job[t] \in Line
      BY <1>1, <2>1, LineKinds DEF StepOf, Threads
    <2> QED BY <1>1, <2>2, TargetClient, Holder DEF Target
  <1>3. at[c] # "gone"
    <2>1. CASE Replies(t)
      BY <1>1, <1>2, <2>1 DEF Busy
    <2>2. CASE ~Replies(t)
      <3>1. c \in Kept
        <4>1. todo \in Seq(Clients) /\ todo # <<>> /\ c = Head(todo)
          BY <1>2, <2>2 DEF TypeOK
        <4>2. Head(todo) \in ToSet(todo)
          BY <4>1, ListTail
        <4> QED BY <4>1, <4>2 DEF Kept
      <3> QED BY <3>1, KeptHere
    <2> QED BY <2>1, <2>2
  <1>4. /\ w[c] \in [buf : Seq(Line), err : BOOLEAN] /\ w[c].buf \in Seq(Line) /\ w[c].err \in BOOLEAN
        /\ DOMAIN w = Clients /\ DOMAIN at = Threads /\ DOMAIN log = Clients /\ DOMAIN cut = Threads
        /\ Clients \subseteq Threads
    BY <1>2 DEF TypeOK, Threads
  <1>5. WriterOf(c)
    BY <1>2 DEF WriterInv
  <1>6. t \in Users(c) <=> at[t] \in {"out", "done"}
    BY <1>2 DEF Users
  <1>7. Others(t, c) = Users(c) \ {t}
    BY DEF Others, Users
  \* A tail does not send: whoever uses its writer holds b.mu.
  <1>8. at[c] = "tail" => Users(c) \subseteq {t} /\ ~Replies(t)
    <2> SUFFICES ASSUME at[c] = "tail"
                 PROVE  Users(c) \subseteq {t} /\ ~Replies(t)
      OBVIOUS
    <2>1. ~Replies(t) /\ mu = {t}
      BY <1>1, <1>2 DEF Busy
    <2>2. \A u \in Users(c) : u = t
      <3> QED BY <1>2, <2>1, UserForms
    <2> QED BY <2>1, <2>2
  \* What a step at the writer of c leaves alone elsewhere.
  <1>9. ASSUME NEW d \in Clients \ {c}, Users(d)' = Users(d), w'[d] = w[d], log'[d] = log[d],
               d \in raced' <=> d \in raced, link'[d] = link[d],
               \A u \in Threads \ {t} : at'[u] = at[u] /\ job'[u] = job[u] /\ cut'[u] = cut[u],
               at'[t] \notin {"gone", "tail"}
        PROVE  WriterOf(d)'
    <2>1. t \notin Users(d)
      BY <1>2 DEF Users
    <2>2. \A u \in Users(d) : u \in Threads \ {t}
      BY <2>1 DEF Users
    <2>3. (at'[d] = "gone" => at[d] = "gone") /\ (at'[d] = "tail" => at[d] = "tail")
      BY <1>4, <1>9
    <2>4. WriterOf(d) /\ due' = due
      BY <1>1 DEF WriterInv
    <2> QED BY <1>9, <2>2, <2>3, <2>4, WriterFrame
  \* The end of a line, for the writers other than that of c.
  <1>10. ASSUME Sent(t) \/ Failed(t), \A d \in Clients \ {c} : w'[d] = w[d],
                UNCHANGED <<log, raced>>,
                \A u \in Threads \ {t} : cut'[u] = cut[u]
         PROVE  /\ \A d \in Clients \ {c} : WriterOf(d)'
                /\ \A d \in Clients : Users(d)' = Users(d) \ {t}
                /\ at'[t] \in {"idle", "leave", "put"}
                /\ at'[c] # "gone" /\ (at'[c] = "tail" => at[c] = "tail")
                /\ link' = link \/ link' = [link EXCEPT ![c] = "closed"]
    <2>1. Proceed(t) /\ (Replies(t) => alive' = alive)
      BY <1>10 DEF Sent, Failed
    <2>2. /\ \A u \in Threads \ {t} : at'[u] = at[u] /\ job'[u] = job[u]
          /\ at'[t] \in {"idle", "leave", "put"}
          /\ Replies(t) => todo' = todo
      BY <1>1, <2>1, ProceedMove
    <2>3. t \in mu \/ todo' = todo
      BY <1>2, <2>2
    <2>4. \A d \in Clients : Users(d)' = Users(d) \ {t}
      BY <2>2, <2>3, UsersLess
    <2>5. link' = link \/ link' = [link EXCEPT ![c] = "closed"]
      BY <1>2, <1>10 DEF Sent, Failed
    <2>6. \A d \in Clients \ {c} : link'[d] = link[d]
      BY <2>5 DEF TypeOK
    <2>7. \A d \in Clients \ {c} : t \notin Users(d)
      BY <1>2 DEF Users
    <2>8. \A d \in Clients \ {c} : WriterOf(d)'
      BY <1>9, <1>10, <2>2, <2>4, <2>6, <2>7, ZenonT(40)
    <2>9. at'[c] # "gone" /\ (at'[c] = "tail" => at[c] = "tail")
      BY <1>2, <1>3, <1>4, <2>2
    <2> QED BY <2>2, <2>4, <2>5, <2>8, <2>9
  <1>11. ASSUME Put(t)
         PROVE  Goal
    <2>0. at[t] = "put" /\ t \notin Users(c)
      BY <1>6, <1>11 DEF Put
    <2>1. CASE w[c].err
      <3>1. Failed(t) /\ UNCHANGED <<w, raced, log>> /\ cut' = cut
        BY <1>2, <1>11, <2>1 DEF Put
      <3>2. /\ \A d \in Clients \ {c} : WriterOf(d)'
            /\ \A d \in Clients : Users(d)' = Users(d) \ {t}
            /\ at'[t] \in {"idle", "leave", "put"}
            /\ at'[c] # "gone" /\ (at'[c] = "tail" => at[c] = "tail")
            /\ link' = link \/ link' = [link EXCEPT ![c] = "closed"]
        BY <1>10, <3>1
      <3>3. link'[c] = "up" => link[c] = "up"
        BY <1>2, <3>2 DEF TypeOK
      <3>4. Users(c)' = Users(c)
        <4>1. Users(c)' = Users(c) \ {t}
          BY <3>2
        <4> QED BY <2>0, <4>1
      <3>5. \A u \in Users(c) : at'[u] = at[u] /\ job'[u] = job[u]
        <4>1. Proceed(t) /\ (Replies(t) => alive' = alive)
          BY <3>1 DEF Failed
        <4>2. \A u \in Threads \ {t} : at'[u] = at[u] /\ job'[u] = job[u]
          BY <1>1, <4>1, ProceedMove
        <4> QED BY <2>0, <4>2 DEF Users
      <3>6. WriterOf(c)'
        BY <1>2, <1>5, <3>1, <3>2, <3>3, <3>4, <3>5, WriterFrame
      <3>7. ~Clean(c) \/ link'[c] # "up"
        <4>1. CASE Replies(t)
          <5>1. at[c] = "put"
            BY <1>2, <2>0, <4>1
          <5> QED BY <1>5, <2>1, <3>3, <5>1 DEF WriterOf, Clean
        <4>2. CASE ~Replies(t)
          <5>1. link' = [link EXCEPT ![c] = "closed"]
            BY <1>2, <3>1, <4>2 DEF Failed
          <5> QED BY <1>2, <5>1 DEF TypeOK
        <4> QED BY <4>1, <4>2
      <3>8. Ends(t)
        BY <1>2, <3>1, <3>7 DEF Ends
      <3> QED BY <3>2, <3>6, <3>8 DEF WriterInv
    <2>2. CASE ~w[c].err
      <3>1. /\ \/ w' = [w EXCEPT ![c].buf = Append(@, job[t])]
               \/ Users(c) # {} /\ \E b : w' = [w EXCEPT ![c].buf = b]
            /\ at' = [at EXCEPT ![t] = "out"]
            /\ IF Users(c) = {} THEN UNCHANGED <<raced, log>>
               ELSE raced' = raced \cup {c} /\ log' = [log EXCEPT ![c] = <<>>]
            /\ UNCHANGED <<job, todo, alive, link, cut>>
        <4>1. Others(t, c) = Users(c)
          BY <1>7, <2>0
        <4> QED BY <1>2, <1>11, <2>2, <4>1 DEF Put
      <3>2. /\ at'[t] = "out" /\ \A u \in Threads \ {t} : at'[u] = at[u]
            /\ \A d \in Clients \ {c} : w'[d] = w[d] /\ log'[d] = log[d]
            /\ \A d \in Clients : at'[d] \in {"gone", "tail"} => at'[d] = at[d]
        BY <1>4, <3>1
      <3>3. \A d \in Clients : Users(d)' = IF d = c THEN Users(d) \cup {t} ELSE Users(d) \ {t}
        BY <1>2, <3>1, <3>2, UsersMore
      <3>4. \A d \in Clients \ {c} : WriterOf(d)'
        <4>1. \A d \in Clients \ {c} : t \notin Users(d)
          BY <1>2 DEF Users
        <4>2. \A d \in Clients \ {c} : d \in raced' <=> d \in raced
          BY <3>1
        <4>3. \A d \in Clients \ {c} : Users(d)' = Users(d)
          <5> TAKE d \in Clients \ {c}
          <5>1. Users(d)' = Users(d) \ {t}
            BY <3>3
          <5> QED BY <4>1, <5>1
        <4>4. at'[t] \notin {"gone", "tail"} /\ UNCHANGED <<job, cut, link>>
          BY <3>1, <3>2
        <4> QED BY <1>9, <3>2, <4>2, <4>3, <4>4
      <3>5. CASE Users(c) = {}
        <4>1. w[c].buf = <<>>
          BY <1>5, <2>2, <3>5 DEF WriterOf
        <4>2. w'[c] = [buf |-> <<job[t]>>, err |-> FALSE]
          <5>1. w' = [w EXCEPT ![c].buf = Append(@, job[t])]
            BY <3>1, <3>5
          <5>2. w[c] = [buf |-> <<>>, err |-> FALSE]
            BY <1>4, <2>2, <4>1
          <5>3. w'[c] = [w[c] EXCEPT !.buf = Append(w[c].buf, job[t])]
            BY <1>4, <5>1
          <5>4. w'[c] = [buf |-> Append(<<>>, job[t]), err |-> FALSE]
            <6>1. w'[c] \in [buf : Seq(Line), err : BOOLEAN]
              BY <1>2, <1>11, LineSteps DEF TypeOK
            <6>2. w'[c].buf = Append(<<>>, job[t]) /\ w'[c].err = FALSE
              BY <4>1, <5>2, <5>3
            <6> QED BY <6>1, <6>2
          <5>5. Append(<<>>, job[t]) = <<job[t]>>
            OBVIOUS
          <5> QED BY <5>4, <5>5
        <4>3. Users(c)' = {t}
          BY <1>2, <3>3, <3>5
        <4>4. WriterOf(c)'
          <5>1. at'[c] # "gone"
            BY <1>2, <1>3, <3>2
          <5> QED BY <3>1, <3>2, <4>2, <4>3, <5>1 DEF WriterOf
        <4>5. Puts(t)
          BY <1>2, <2>0, <3>1, <3>5 DEF Puts
        <4> QED BY <3>4, <4>4, <4>5 DEF WriterInv
      <3>6. CASE Users(c) # {}
        <4>1. at[c] # "tail"
          BY <1>8, <2>0, <3>6
        <4>2. raced' = raced \cup {c} /\ log' = [log EXCEPT ![c] = <<>>]
          BY <3>1, <3>6
        <4>3. at'[c] # "gone" /\ at'[c] # "tail"
          BY <1>2, <1>3, <3>2, <4>1
        <4>4. Users(c)' # {}
          BY <1>2, <3>3
        <4>5. WriterOf(c)'
          BY <4>2, <4>3, <4>4 DEF WriterOf, Clean
        <4>6. Puts(t)
          BY <1>2, <2>0, <3>1, <4>1, <4>2 DEF Puts
        <4> QED BY <3>4, <4>5, <4>6 DEF WriterInv
      <3> QED BY <3>5, <3>6
    <2> QED BY <1>4, <2>1, <2>2
  <1>12. ASSUME Flush(t)
         PROVE  Goal
    <2>1. /\ at[t] = "out" /\ at' = [at EXCEPT ![t] = "done"] /\ ~w[c].err
          /\ cut' = [cut EXCEPT ![t] = Len(w[c].buf)]
          /\ UNCHANGED <<job, todo, alive, w, link, raced>>
          /\ IF link[c] = "up" /\ Clean(c) THEN log' = [log EXCEPT ![c] = @ \o w[c].buf] ELSE log' = log
      BY <1>2, <1>12 DEF Flush, Clean
    <2>2. /\ at'[t] = "done" /\ \A u \in Threads \ {t} : at'[u] = at[u] /\ cut'[u] = cut[u]
          /\ cut'[t] = Len(w[c].buf)
          /\ \A d \in Clients : at'[d] \in {"gone", "tail"} => at'[d] = at[d]
      BY <1>4, <2>1
    <2>3. \A d \in Clients : Users(d)' = Users(d)
      <3>1. \A d \in Clients : Users(d)' = IF d = c THEN Users(d) \cup {t} ELSE Users(d) \ {t}
        BY <1>2, <2>1, <2>2, UsersMore
      <3>2. t \in Users(c) /\ \A d \in Clients \ {c} : t \notin Users(d)
        BY <1>2, <1>6, <2>1 DEF Users
      <3> TAKE d \in Clients
      <3>3. CASE d = c
        <4>1. Users(d)' = Users(d) \cup {t}
          BY <3>1, <3>3
        <4> QED BY <3>2, <3>3, <4>1
      <3>4. CASE d # c
        <4>1. Users(d)' = Users(d) \ {t}
          BY <3>1, <3>4
        <4> QED BY <3>2, <3>4, <4>1
      <3> QED BY <3>3, <3>4
    <2>4. Clean(c) => w[c] = [buf |-> <<job[t]>>, err |-> FALSE] /\ Users(c) = {t}
      BY <1>5, <1>6, <2>1 DEF WriterOf
    <2>5. Flushes(t)
      <3>1. CASE link[c] = "up" /\ Clean(c)
        <4>1. w[c].buf = <<job[t]>>
          BY <2>4, <3>1
        <4>2. log[c] \o <<job[t]>> = Append(log[c], job[t])
          <5>1. log[c] \in Seq(Line)
            BY <1>2 DEF TypeOK
          <5> QED BY <1>2, <5>1
        <4>3. log' = [log EXCEPT ![c] = Append(@, job[t])]
          BY <1>2, <1>4, <2>1, <3>1, <4>1, <4>2
        <4> QED BY <1>2, <2>1, <3>1, <4>3 DEF Flushes
      <3>2. CASE ~(link[c] = "up" /\ Clean(c))
        BY <1>2, <2>1, <3>2 DEF Flushes
      <3> QED BY <3>1, <3>2
    <2>6. \A d \in Clients \ {c} : log'[d] = log[d]
      BY <1>4, <2>1
    <2>7. \A d \in Clients \ {c} : WriterOf(d)'
      BY <1>9, <2>1, <2>2, <2>3, <2>6
    <2>8. WriterOf(c)'
      <3>1. at'[c] # "gone" /\ (at'[c] = "tail" => at[c] = "tail")
        BY <1>2, <1>3, <2>2
      <3>2. Clean(c)' => Clean(c)
        BY <2>1, <3>1 DEF Clean
      <3>3. Clean(c)' => \A u \in Users(c)' :
              /\ Users(c)' = {u} /\ w'[c] = [buf |-> <<job'[u]>>, err |-> FALSE]
              /\ at'[u] = "done" => cut'[u] = 1
        <4> SUFFICES ASSUME Clean(c)', NEW u \in Users(c)'
                     PROVE  /\ Users(c)' = {u} /\ w'[c] = [buf |-> <<job'[u]>>, err |-> FALSE]
                            /\ cut'[u] = 1
          OBVIOUS
        <4>1. u = t /\ w[c] = [buf |-> <<job[t]>>, err |-> FALSE] /\ Users(c) = {t}
          BY <1>2, <2>3, <2>4, <3>2
        <4>2. Len(w[c].buf) = 1
          BY <4>1
        <4> QED BY <1>2, <2>1, <2>2, <2>3, <4>1, <4>2
      <3>4. Users(c)' # {}
        BY <1>2, <1>6, <2>1, <2>3
      <3> QED BY <1>5, <2>1, <3>1, <3>3, <3>4 DEF WriterOf
    <2> QED BY <2>5, <2>7, <2>8 DEF WriterInv
  <1>13. ASSUME FlushNothing(t)
         PROVE  Goal
    <2>1. /\ at[t] = "out" /\ (w[c].err \/ w[c].buf = <<>>) /\ (Sent(t) \/ Failed(t))
          /\ UNCHANGED <<w, cut, log, raced>>
      BY <1>2, <1>13 DEF FlushNothing
    <2>2. /\ \A d \in Clients \ {c} : WriterOf(d)'
          /\ \A d \in Clients : Users(d)' = Users(d) \ {t}
          /\ at'[c] # "gone" /\ (at'[c] = "tail" => at[c] = "tail")
          /\ link' = link \/ link' = [link EXCEPT ![c] = "closed"]
      BY <1>10, <2>1
    <2>3. ~Clean(c)
      <3> SUFFICES ASSUME Clean(c)
                   PROVE  FALSE
        OBVIOUS
      <3>1. w[c] = [buf |-> <<job[t]>>, err |-> FALSE]
        BY <1>5, <1>6, <2>1 DEF WriterOf
      <3>2. ~w[c].err /\ w[c].buf = <<job[t]>> /\ <<job[t]>> # <<>>
        BY <3>1
      <3> QED BY <2>1, <3>2
    <2>4. ~Clean(c)' /\ c \in raced'
      BY <2>1, <2>2, <2>3 DEF Clean
    <2>5. WriterOf(c)'
      BY <2>1, <2>2, <2>4 DEF WriterOf
    <2>6. Ends(t)
      BY <1>2, <2>1, <2>3 DEF Ends
    <2> QED BY <2>2, <2>5, <2>6 DEF WriterInv
  <1>14. ASSUME FlushFails(t)
         PROVE  Goal
    <2>1. /\ at[t] = "out" /\ Failed(t) /\ link[c] # "up"
          /\ w' = [w EXCEPT ![c].err = TRUE]
          /\ UNCHANGED <<cut, log, raced>>
      BY <1>2, <1>14 DEF FlushFails
    <2>2. w'[c].err /\ \A d \in Clients \ {c} : w'[d] = w[d]
      BY <1>4, <2>1
    <2>3. /\ \A d \in Clients \ {c} : WriterOf(d)'
          /\ \A d \in Clients : Users(d)' = Users(d) \ {t}
          /\ at'[c] # "gone" /\ (at'[c] = "tail" => at[c] = "tail")
          /\ link' = link \/ link' = [link EXCEPT ![c] = "closed"]
      BY <1>10, <2>1, <2>2
    <2>4. link'[c] # "up"
      BY <2>1, <2>3 DEF TypeOK
    <2>5. Clean(c)' => Users(c)' = {}
      <3>1. Clean(c)' => Clean(c)
        BY <2>1, <2>3 DEF Clean
      <3>2. Clean(c) => Users(c) = {t}
        BY <1>5, <1>6, <2>1 DEF WriterOf
      <3>3. Users(c)' = Users(c) \ {t}
        BY <2>3
      <3> QED BY <3>1, <3>2, <3>3
    <2>6. WriterOf(c)'
      BY <2>2, <2>3, <2>4, <2>5 DEF WriterOf
    <2>7. Ends(t)
      BY <1>2, <2>1, <2>4 DEF Ends
    <2> QED BY <2>3, <2>6, <2>7 DEF WriterInv
  <1>15. ASSUME FlushDone(t)
         PROVE  Goal
    <2>1. /\ at[t] = "done" /\ (Sent(t) \/ Failed(t)) /\ cut' = [cut EXCEPT ![t] = 0]
          /\ UNCHANGED <<log, raced>>
          /\ \/ w' = [w EXCEPT ![c].buf = <<>>]
             \/ cut[t] < Len(w[c].buf) /\ \E b : w' = [w EXCEPT ![c] = [buf |-> b, err |-> TRUE]]
      BY <1>2, <1>15 DEF FlushDone
    <2>2. /\ \A d \in Clients \ {c} : w'[d] = w[d]
          /\ \A u \in Threads \ {t} : cut'[u] = cut[u]
      BY <1>4, <2>1
    <2>3. /\ \A d \in Clients \ {c} : WriterOf(d)'
          /\ \A d \in Clients : Users(d)' = Users(d) \ {t}
          /\ at'[c] # "gone" /\ (at'[c] = "tail" => at[c] = "tail")
          /\ link' = link \/ link' = [link EXCEPT ![c] = "closed"]
      BY <1>10, <2>1, <2>2
    <2>4. Clean(c) => /\ w[c] = [buf |-> <<job[t]>>, err |-> FALSE]
                      /\ Users(c) = {t} /\ cut[t] = 1
      BY <1>5, <1>6, <2>1 DEF WriterOf
    <2>5. Clean(c)' => Clean(c)
      BY <2>1, <2>3 DEF Clean
    <2>6. Users(c)' = Users(c) \ {t} /\ (Clean(c) => Users(c)' = {})
      <3>1. Users(c)' = Users(c) \ {t}
        BY <2>3
      <3> QED BY <2>4, <3>1
    <2>7. w'[c].err \/ w'[c].buf = <<>>
      BY <1>4, <2>1
    <2>8. c \notin raced' /\ link'[c] = "up" => ~w'[c].err
      <3> SUFFICES ASSUME c \notin raced
                   PROVE  ~w'[c].err
        BY <2>1
      <3>1. Clean(c)
        BY DEF Clean
      <3>2. Len(w[c].buf) = 1 /\ ~w[c].err
        BY <2>4, <3>1
      <3>3. w' = [w EXCEPT ![c].buf = <<>>]
        BY <2>1, <2>4, <3>1, <3>2
      <3> QED BY <1>4, <3>2, <3>3
    <2>9. WriterOf(c)'
      BY <2>3, <2>5, <2>6, <2>7, <2>8 DEF WriterOf
    <2>10. Ends(t)
      BY <2>1 DEF Ends
    <2> QED BY <2>3, <2>9, <2>10 DEF WriterInv
  <1> QED BY <1>1, <1>11, <1>12, <1>13, <1>14, <1>15

\* The invariants that all others rest on.
Base == TypeOK /\ StepInv /\ ListInv /\ WriterInv

\* Every step keeps them.
LEMMA NextBase == Base /\ [Next]_vars => Base'
  <1> SUFFICES ASSUME Base, [Next]_vars
               PROVE  Base'
    OBVIOUS
  <1>1. TypeOK' /\ StepInv' /\ ListInv'
    BY NextStepInv, NextListInv DEF Base
  <1>2. WriterInv'
    <2>1. CASE UNCHANGED vars
      <3>1. WriterInv
        BY DEF Base
      <3> QED BY <2>1, <3>1 DEF WriterInv, WriterOf, Users, Target, Replies, Clean, vars, lists, pipes, hist
    <2>2. CASE Next
      <3>1. \A c \in Clients, s \in Series : handleWrite(c, s) => c \in Threads /\ WritePoint(c, s)
        BY DEF handleWrite, Threads
      <3>2. \A r \in Callers, s \in Series : handleRESTWrite(r, s) => r \in Threads /\ WritePoint(r, s)
        BY DEF handleRESTWrite, Threads
      <3>3. Clients \cup Callers \subseteq Threads /\ Alerts \subseteq Threads
        BY DEF Threads
      <3>4. TypeOK /\ StepInv /\ ListInv /\ WriterInv
        BY DEF Base
      <3>5. ASSUME NEW t \in Threads, Step(t)
            PROVE  WriterInv'
        BY <3>4, <3>5, LockWriterInv, LineWriterInv DEF Step
      <3> QED BY <2>2, <3>1, <3>2, <3>3, <3>4, <3>5, ClientWriterInv, LockWriterInv DEF Next
    <2> QED BY <2>1, <2>2
  <1> QED BY <1>1, <1>2 DEF Base
-----------------------------------------------------------------------------
(* What a connection has been sent *)

\* A selection of the log, as the log grows or is cleared.
LEMMA OfLog ==
  ASSUME TypeOK, NEW c \in Clients, NEW T
  PROVE  /\ Of(c, T) \in Seq(Line)
         /\ log'[c] = log[c] => Of(c, T)' = Of(c, T)
         /\ log'[c] = <<>> => Of(c, T)' = <<>>
         /\ \A l \in Line : log'[c] = Append(log[c], l) =>
              Of(c, T)' = IF l \in T THEN Append(Of(c, T), l) ELSE Of(c, T)
  <1>1. log[c] \in Seq(Line)
    BY DEF TypeOK
  <1>2. Of(c, T) \in Seq(Line)
    BY <1>1, SelectType DEF Of
  <1>3. log'[c] = <<>> => Of(c, T)' = <<>>
    BY SelectEmpty DEF Of
  <1>4. ASSUME NEW l \in Line, log'[c] = Append(log[c], l)
        PROVE  Of(c, T)' = IF l \in T THEN Append(Of(c, T), l) ELSE Of(c, T)
    <2> DEFINE q == log[c]
    <2>1. Select(Append(q, l), T) = IF l \in T THEN Append(Select(q, T), l) ELSE Select(q, T)
      <3>1. q \in Seq(Line)
        BY <1>1
      <3> HIDE DEF q
      <3> QED BY <3>1, SelectAppend
    <2> QED BY <1>4, <2>1 DEF Of
  <1> QED BY <1>2, <1>3, <1>4 DEF Of

\* A step of a goroutine with a line to c: what it changes, and what it leaves.
LEMMA LineFacts ==
  ASSUME Base, NEW t \in Threads,
         Put(t) \/ Flush(t) \/ FlushNothing(t) \/ FlushFails(t) \/ FlushDone(t)
  PROVE  \E c \in Clients :
           /\ c = Target(t) /\ UNCHANGED <<mu, asked, due, reach>>
           /\ Puts(t) \/ Flushes(t) \/ Ends(t)
           /\ \A u \in Threads \ {t} : at'[u] = at[u] /\ job'[u] = job[u]
           /\ at[t] \in Busy /\ job[t] \in Line
           /\ Replies(t) => /\ c = t /\ mu' = mu /\ t \notin mu /\ job[t] \in Answers
                            /\ Ends(t) => at'[t] \in {"idle", "leave"}
           /\ ~Replies(t) => /\ mu = {t} /\ c \in Kept /\ at'[t] \in Busy /\ job' = job
                             /\ job[t] \notin Answers
           /\ \A d \in Clients : link'[d] = "up" => link[d] = "up"
           /\ \A d \in Clients \ {c} : log'[d] = log[d]
           /\ raced \subseteq raced'
           /\ (Puts(t) /\ (c \notin raced' \/ at[c] = "tail")) \/ Ends(t) => log'[c] = log[c]
           /\ log'[c] \in {log[c], <<>>, Append(log[c], job[t])}
  <1>0. TypeOK /\ StepInv /\ ListInv /\ WriterInv
    BY DEF Base
  <1>1. /\ UNCHANGED <<mu, asked, due, reach>>
        /\ Puts(t) \/ Flushes(t) \/ Ends(t)
        /\ at[t] \in Busy /\ (at[t] # "put" \/ Sending(t))
    BY <1>0, LineWriterInv
  <1>2. PICK c \in Clients :
          /\ c = Target(t)
          /\ Replies(t) => t \in Clients /\ t \notin mu /\ c = t
          /\ ~Replies(t) => todo # <<>> /\ mu = {t} /\ c = Head(todo)
    BY <1>0, <1>1, TargetClient, Holder DEF Target
  <1>3. StepOf(t)
    BY <1>0 DEF StepInv
  <1>4. /\ job[t] \in Line
        /\ Replies(t) => job[t] \in Answers
        /\ ~Replies(t) => job[t] \notin Answers
    <2>1. job[t] \in Line
      BY <1>1, <1>3, LineKinds DEF StepOf, Threads
    <2>2. Replies(t) => job[t] \in Answers
      BY <1>1, <1>2, <1>3, LineKinds DEF StepOf, Replies
    <2>3. ~Replies(t) => job[t] \notin Answers
      BY LineKinds DEF Replies
    <2> QED BY <2>1, <2>2, <2>3
  <1>5. ~Replies(t) => c \in Kept
    <2> SUFFICES ASSUME ~Replies(t)
                 PROVE  c \in Kept
      OBVIOUS
    <2>1. todo \in Seq(Clients) /\ todo # <<>> /\ c = Head(todo)
      BY <1>0, <1>2 DEF TypeOK
    <2>2. Head(todo) \in ToSet(todo)
      BY <2>1, ListTail
    <2> QED BY <2>1, <2>2 DEF Kept
  <1>6. /\ DOMAIN at = Threads /\ DOMAIN link = Clients /\ DOMAIN log = Clients
    BY <1>0 DEF TypeOK
  <1> DEFINE Changes ==
        /\ \A u \in Threads \ {t} : at'[u] = at[u] /\ job'[u] = job[u]
        /\ Replies(t) /\ Ends(t) => at'[t] \in {"idle", "leave"}
        /\ ~Replies(t) => at'[t] \in Busy /\ job' = job
        /\ \A d \in Clients : link'[d] = "up" => link[d] = "up"
        /\ \A d \in Clients \ {c} : log'[d] = log[d]
        /\ raced \subseteq raced'
        /\ (Puts(t) /\ (c \notin raced' \/ at[c] = "tail")) \/ Ends(t) => log'[c] = log[c]
        /\ log'[c] \in {log[c], <<>>, Append(log[c], job[t])}
  <1> SUFFICES Changes
    <2> SUFFICES ASSUME Changes
                 PROVE  /\ c = Target(t) /\ UNCHANGED <<mu, asked, due, reach>>
                        /\ Puts(t) \/ Flushes(t) \/ Ends(t)
                        /\ \A u \in Threads \ {t} : at'[u] = at[u] /\ job'[u] = job[u]
                        /\ at[t] \in Busy /\ job[t] \in Line
                        /\ Replies(t) => /\ c = t /\ mu' = mu /\ t \notin mu /\ job[t] \in Answers
                                         /\ Ends(t) => at'[t] \in {"idle", "leave"}
                        /\ ~Replies(t) => /\ mu = {t} /\ c \in Kept /\ at'[t] \in Busy /\ job' = job
                                          /\ job[t] \notin Answers
                        /\ \A d \in Clients : link'[d] = "up" => link[d] = "up"
                        /\ \A d \in Clients \ {c} : log'[d] = log[d]
                        /\ raced \subseteq raced'
                        /\ (Puts(t) /\ (c \notin raced' \/ at[c] = "tail")) \/ Ends(t) => log'[c] = log[c]
                        /\ log'[c] \in {log[c], <<>>, Append(log[c], job[t])}
      BY <1>2
    <2>1. c = Target(t) /\ UNCHANGED <<mu, asked, due, reach>> /\ (Puts(t) \/ Flushes(t) \/ Ends(t))
      BY <1>1, <1>2
    <2>2. at[t] \in Busy /\ job[t] \in Line
      BY <1>1, <1>4
    <2>3. Replies(t) => /\ c = t /\ mu' = mu /\ t \notin mu /\ job[t] \in Answers
                        /\ Ends(t) => at'[t] \in {"idle", "leave"}
      BY <1>1, <1>2, <1>4
    <2>4. ~Replies(t) => /\ mu = {t} /\ c \in Kept /\ at'[t] \in Busy /\ job' = job
                         /\ job[t] \notin Answers
      BY <1>2, <1>4, <1>5
    <2> QED BY <2>1, <2>2, <2>3, <2>4
  <1>7. CASE Puts(t)
    <2>1. /\ at[t] = "put" /\ at'[t] = "out" /\ \A u \in Threads \ {t} : at'[u] = at[u]
          /\ job' = job /\ link' = link
          /\ \/ log' = log /\ raced' = raced
             \/ /\ c \in raced' /\ at[c] # "tail" /\ raced' = raced \cup {c}
                /\ log' = [log EXCEPT ![c] = <<>>]
      BY <1>2, <1>6, <1>7 DEF Puts
    <2>2. ~Ends(t)
      <3> SUFFICES ASSUME Ends(t)
                   PROVE  FALSE
        OBVIOUS
      <3>1. Proceed(t) /\ (Replies(t) => alive' = alive)
        BY DEF Ends, Sent, Failed
      <3>2. at'[t] # "out"
        BY <1>0, <1>1, <3>1, ProceedMove
      <3> QED BY <2>1, <3>2
    <2>3. log'[c] \in {log[c], <<>>} /\ \A d \in Clients \ {c} : log'[d] = log[d]
      BY <1>6, <2>1
    <2>4. Changes
      BY <2>1, <2>2, <2>3 DEF Busy
    <2> QED BY <2>4
  <1>8. CASE Flushes(t)
    <2>1. /\ at[t] = "out" /\ at'[t] = "done" /\ \A u \in Threads \ {t} : at'[u] = at[u]
          /\ job' = job /\ link' = link /\ raced' = raced
          /\ log' = log \/ log' = [log EXCEPT ![c] = Append(@, job[t])]
      BY <1>2, <1>6, <1>8 DEF Flushes
    <2>2. ~Ends(t)
      <3> SUFFICES ASSUME Ends(t)
                   PROVE  FALSE
        OBVIOUS
      <3>1. Proceed(t) /\ (Replies(t) => alive' = alive)
        BY DEF Ends, Sent, Failed
      <3>2. at'[t] # "done"
        BY <1>0, <1>1, <3>1, ProceedMove
      <3> QED BY <2>1, <3>2
    <2>3. ~Puts(t)
      BY <2>1 DEF Puts
    <2>4. log'[c] \in {log[c], Append(log[c], job[t])} /\ \A d \in Clients \ {c} : log'[d] = log[d]
      BY <1>6, <2>1
    <2>5. Changes
      BY <2>1, <2>2, <2>3, <2>4 DEF Busy
    <2> QED BY <2>5
  <1>9. CASE Ends(t)
    <2>1. /\ Proceed(t) /\ (Replies(t) => alive' = alive) /\ log' = log /\ raced' = raced
          /\ link' = link \/ link' = [link EXCEPT ![c] = "closed"]
      BY <1>2, <1>9 DEF Ends, Sent, Failed
    <2>2. /\ \A u \in Threads \ {t} : at'[u] = at[u] /\ job'[u] = job[u]
          /\ Replies(t) => at'[t] \in {"idle", "leave"}
          /\ ~Replies(t) => at'[t] = "put" /\ job' = job
      BY <1>0, <1>1, <2>1, ProceedMove
    <2>3. \A d \in Clients : link'[d] = "up" => link[d] = "up"
      BY <1>6, <2>1
    <2>4. Changes
      BY <2>1, <2>2, <2>3 DEF Busy
    <2> QED BY <2>4
  <1> QED BY <1>1, <1>7, <1>8, <1>9

\* What the loop still owes: nothing changes but for the connection at hand.
LEMMA LineOwes ==
  ASSUME Base, NEW t \in Threads, NEW u \in mu, NEW d \in Clients,
         Put(t) \/ Flush(t) \/ FlushNothing(t) \/ FlushFails(t) \/ FlushDone(t)
  PROVE  /\ Replies(t) \/ d # Target(t) => (Owes(u, d)' <=> Owes(u, d))
         /\ ~Replies(t) /\ d = Target(t) =>
              /\ Puts(t) => Owes(u, d) /\ Owes(u, d)'
              /\ Flushes(t) => Owes(u, d) /\ ~Owes(u, d)'
              /\ Ends(t) => ~Owes(u, d)' /\ (at[t] = "done" => ~Owes(u, d))
  <1>0. TypeOK /\ StepInv /\ ListInv /\ WriterInv
    BY DEF Base
  <1>1. PICK c \in Clients :
          /\ c = Target(t)
          /\ Puts(t) \/ Flushes(t) \/ Ends(t)
          /\ \A v \in Threads \ {t} : at'[v] = at[v]
          /\ at[t] \in Busy
          /\ Replies(t) => t \notin mu
          /\ ~Replies(t) => mu = {t}
    BY LineFacts
  <1>2. u \in Threads
    BY <1>0, Holder
  <1>3. at[t] # "put" \/ Sending(t)
    BY <1>0, LineWriterInv
  <1>4. CASE Replies(t)
    <2>1. at'[u] = at[u]
      BY <1>1, <1>2, <1>4
    <2>2. todo' = todo
      <3>1. Ends(t) => Proceed(t)
        BY DEF Ends, Sent, Failed
      <3> QED BY <1>1, <1>4, <3>1 DEF Puts, Flushes, Proceed
    <2> QED BY <1>4, <2>1, <2>2 DEF Owes
  <1>5. CASE ~Replies(t)
    <2>1. u = t
      BY <1>1, <1>5
    <2>2. todo # <<>> /\ c = Head(todo) /\ todo \in Seq(Clients) /\ DOMAIN at = Threads
      BY <1>0, <1>1, <1>3, <1>5, TargetClient DEF Target, TypeOK
    <2>3. /\ ToSet(todo) = ToSet(Tail(todo)) \cup {c} /\ c \notin ToSet(Tail(todo))
      BY <1>0, <2>2, ListTail DEF ListInv
    <2>4. CASE Puts(t)
      <3>1. at[t] = "put" /\ at'[t] = "out" /\ todo' = todo
        BY <2>2, <2>4 DEF Puts
      <3>2. ~Flushes(t)
        BY <3>1 DEF Flushes
      <3>3. ~Ends(t)
        <4>1. Ends(t) => Proceed(t)
          BY DEF Ends, Sent, Failed
        <4>2. Proceed(t) => at'[t] = "put"
          BY <1>5, <2>2 DEF Proceed
        <4> QED BY <3>1, <4>1, <4>2
      <3> QED BY <1>1, <1>5, <2>1, <2>3, <3>1, <3>2, <3>3 DEF Owes
    <2>5. CASE Flushes(t)
      <3>1. at[t] = "out" /\ at'[t] = "done" /\ todo' = todo
        BY <2>2, <2>5 DEF Flushes
      <3>2. ~Puts(t)
        BY <3>1 DEF Puts
      <3>3. ~Ends(t)
        <4>1. Ends(t) => Proceed(t)
          BY DEF Ends, Sent, Failed
        <4>2. Proceed(t) => at'[t] = "put"
          BY <1>5, <2>2 DEF Proceed
        <4> QED BY <3>1, <4>1, <4>2
      <3> QED BY <1>1, <1>5, <2>1, <2>2, <2>3, <3>1, <3>2, <3>3 DEF Owes
    <2>6. CASE Ends(t)
      <3>1. at'[t] = "put" /\ todo' = Tail(todo)
        <4>1. Proceed(t)
          BY <2>6 DEF Ends, Sent, Failed
        <4> QED BY <1>5, <2>2, <4>1 DEF Proceed
      <3>2. ~Puts(t) /\ ~Flushes(t)
        BY <2>2, <3>1 DEF Puts, Flushes
      <3> QED BY <1>1, <1>5, <2>1, <2>2, <2>3, <3>1, <3>2 DEF Owes
    <2> QED BY <1>1, <2>4, <2>5, <2>6
  <1> QED BY <1>4, <1>5
-----------------------------------------------------------------------------
(* Tails *)

\* Nobody tails at first.
LEMMA InitTailInv == Init => TailInv
  <1> SUFFICES ASSUME Init, NEW c \in Clients
               PROVE  TailOf(c)
    BY DEF TailInv
  <1>1. Seen(c) = <<>>
    BY SelectEmpty DEF Init, Seen, Of
  <1> QED BY <1>1 DEF Init, TailOf, Threads

\* A step that neither sends to c nor has anything for it.
LEMMA TailFrame ==
  ASSUME TypeOK, NEW c \in Clients, TailOf(c), log'[c] = log[c], due'[c] = due[c], mu' = mu,
         \A t \in mu : job'[t] = job[t] /\ (Owes(t, c)' <=> Owes(t, c)),
         at[c] \in {"tail", "unsub", "leave"} => at'[c] \in {"tail", "unsub", "leave"},
         at'[c] = "tail" /\ link'[c] = "up" => at[c] = "tail" /\ link[c] = "up"
  PROVE  TailOf(c)'
  <1>1. Seen(c)' = Seen(c)
    BY OfLog DEF Seen
  <1> QED BY <1>1 DEF TailOf

\* While the loop stands still, it owes what it did.
LEMMA OwesSame ==
  ASSUME NEW t, NEW c, todo' = todo, at'[t] = at[t]
  PROVE  Owes(t, c)' <=> Owes(t, c)
  BY DEF Owes

\* Connections come, register, leave the lists and go.
LEMMA ClientTailInv ==
  ASSUME Base, TailInv, NEW c \in Clients,
         \/ Connect(c) \/ registerClient(c) \/ Answer(c)
         \/ register(c) \/ ScanEnds(c) \/ unregister(c) \/ unregisterClient(c)
         \/ Read(c) \/ HangUp(c) \/ \E s \in Series : handleTail(c, s)
  PROVE  TailInv'
  <1> USE DEF lists, pipes, hist
  <1>0. /\ TypeOK /\ StepInv /\ c \in Threads /\ Clients \subseteq Threads /\ StepOf(c)
        /\ DOMAIN at = Threads /\ DOMAIN link = Clients /\ DOMAIN log = Clients
        /\ DOMAIN job = Threads /\ DOMAIN due = Clients
    BY DEF Base, Threads, TypeOK, StepInv
  <1>1. UNCHANGED <<mu, todo>>
    BY DEF Connect, registerClient, Answer, register, ScanEnds, unregister, unregisterClient, Close, Read, HangUp, handleTail
  <1>2. \/ at' = at /\ job' = job
        \/ /\ at[c] \notin Busy
           /\ \A u \in Threads \ {c} : at'[u] = at[u] /\ job'[u] = job[u]
    BY <1>0 DEF Connect, registerClient, Answer, register, ScanEnds, unregister, unregisterClient, Close, Read, HangUp, handleTail, Send, Busy
  <1>3. \A t \in mu, d \in Clients : job'[t] = job[t] /\ (Owes(t, d)' <=> Owes(t, d))
    <2>1. \A t \in mu : t \in Threads /\ at[t] \in Busy
      BY <1>0, Holder
    <2>2. \A t \in mu : at'[t] = at[t] /\ job'[t] = job[t]
      BY <1>2, <2>1
    <2> QED BY <1>1, <2>2, OwesSame
  <1>4. ASSUME NEW d \in Clients \ {c}
        PROVE  TailOf(d)'
    <2>1. at'[d] = at[d]
      BY <1>0, <1>2
    <2>2. log'[d] = log[d] /\ due'[d] = due[d] /\ link'[d] = link[d]
      BY <1>0 DEF Connect, registerClient, Answer, register, ScanEnds, unregister, unregisterClient, Close, Read, HangUp, handleTail
    <2>3. TailOf(d)
      BY DEF TailInv
    <2> QED BY <1>0, <1>1, <1>3, <2>1, <2>2, <2>3, TailFrame
  <1>5. TailOf(c)'
    <2>0. TailOf(c)
      BY DEF TailInv
    <2>1. CASE \/ Connect(c) \/ registerClient(c) \/ Answer(c)
               \/ ScanEnds(c) \/ unregister(c) \/ Read(c) \/ \E s \in Series : handleTail(c, s)
      <3>1. log' = log /\ due' = due
        BY <2>1 DEF Connect, registerClient, Answer, ScanEnds, unregister, Read, handleTail
      <3>2. /\ at[c] \in {"tail", "unsub", "leave"} => at'[c] \in {"tail", "unsub", "leave"}
            /\ at'[c] = "tail" /\ link'[c] = "up" => at[c] = "tail" /\ link[c] = "up"
        BY <1>0, <2>1 DEF Connect, registerClient, Answer, ScanEnds, unregister, Read, handleTail, Send
      <3> QED BY <1>0, <1>1, <1>3, <2>0, <3>1, <3>2, TailFrame
    <2>2. CASE register(c)
      <3>1. /\ mu = {} /\ at[c] = "tailLock" /\ at'[c] = "tail" /\ log' = log /\ due' = due
        BY <1>0, <2>2 DEF register
      <3>2. due[c] = <<>> /\ Seen(c) = <<>> /\ Seen(c)' = <<>>
        BY <1>0, <2>0, <3>1, OfLog DEF TailOf, Seen
      <3> QED BY <1>1, <3>1, <3>2 DEF TailOf
    <2>3. CASE unregisterClient(c)
      <3>1. at'[c] = "gone" /\ log'[c] = <<>> /\ due'[c] = <<>>
        BY <1>0, <2>3 DEF unregisterClient, Close
      <3>2. Seen(c)' = <<>>
        BY <1>0, <3>1, OfLog DEF Seen
      <3> QED BY <3>1, <3>2 DEF TailOf
    <2>4. CASE HangUp(c)
      <3>1. at' = at /\ log'[c] = <<>> /\ due' = due /\ link'[c] = "hungup"
        BY <1>0, <2>4 DEF HangUp
      <3>2. Seen(c)' = <<>>
        BY <1>0, <3>1, OfLog DEF Seen
      <3> QED BY <2>0, <3>1, <3>2 DEF TailOf
    <2> QED BY <2>1, <2>2, <2>3, <2>4
  <1> QED BY <1>4, <1>5 DEF TailInv

\* The holder of b.mu takes a list, with a line for every tail in it, and puts it back.
LEMMA LockTailInv ==
  ASSUME Base, TailInv, NEW t \in Threads,
         \/ \E s \in Series : WritePoint(t, s)
         \/ t \in Alerts /\ (handleAlertTest(t) \/ LockBroadcast(t))
         \/ t \in Clients \cup Callers /\ LockNotify(t)
         \/ Unlock(t)
  PROVE  TailInv'
  <1> USE DEF lists, pipes, hist
  <1> SUFFICES ASSUME NEW c \in Clients
               PROVE  TailOf(c)'
    BY DEF TailInv
  <1>0. /\ TypeOK /\ StepInv /\ ListInv /\ c \in Threads /\ StepOf(t) /\ TailOf(c)
        /\ DOMAIN at = Threads /\ DOMAIN job = Threads
        /\ t \in Alerts => t \notin Clients
    BY BrokerAssumption DEF Base, Threads, TypeOK, StepInv, TailInv
  <1>1. UNCHANGED <<log, link>>
    BY DEF WritePoint, handleAlertTest, LockBroadcast, LockNotify, Unlock
  <1>2. Seen(c)' = Seen(c)
    BY <1>0, <1>1, OfLog DEF Seen
  <1>3. /\ at[c] \in {"tail", "unsub", "leave"} => at'[c] = at[c]
        /\ at'[c] = "tail" => at[c] = "tail"
    <2>1. CASE \E s \in Series : WritePoint(t, s)
      BY <1>0, <2>1 DEF WritePoint, Send
    <2>2. CASE t \in Alerts /\ (handleAlertTest(t) \/ LockBroadcast(t))
      BY <1>0, <2>2 DEF handleAlertTest, LockBroadcast, Send
    <2>3. CASE LockNotify(t)
      BY <1>0, <2>3 DEF LockNotify
    <2>4. CASE Unlock(t)
      BY <1>0, <2>4 DEF Unlock, Send
    <2> QED BY <2>1, <2>2, <2>3, <2>4
  <1>4. CASE (\E s \in Series : WritePoint(t, s)) \/ (t \in Alerts /\ handleAlertTest(t))
    <2>1. /\ UNCHANGED <<mu, todo, due>> /\ t \notin mu
          /\ \E l : Send(t, l, "lock")
      BY <1>0, <1>4 DEF WritePoint, handleAlertTest, StepOf, Busy
    <2>2. \A u \in Threads \ {t} : at'[u] = at[u] /\ job'[u] = job[u]
      BY <1>0, <2>1 DEF Send
    <2>3. \A u \in mu : u \in Threads \ {t}
      BY <1>0, <2>1, Holder
    <2>4. \A u \in mu : job'[u] = job[u] /\ (Owes(u, c)' <=> Owes(u, c))
      BY <2>1, <2>2, <2>3, OwesSame
    <2> QED BY <1>0, <1>1, <1>3, <2>1, <2>4, TailFrame
  <1>5. CASE t \in Alerts /\ LockBroadcast(t)
    <2>1. mu = {} /\ mu' = {t} /\ due' = due
      BY <1>5 DEF LockBroadcast
    <2>2. mu' \ Alerts = {}
      BY <1>5, <2>1
    <2> QED BY <1>0, <1>1, <1>2, <1>3, <2>1, <2>2 DEF TailOf
  <1>6. CASE t \in Clients \cup Callers /\ LockNotify(t)
    <2>1. t \notin Alerts /\ job[t].series \in Series
      <3>1. t \notin Alerts
        BY <1>6, BrokerAssumption
      <3> QED BY <1>0, <1>6, <3>1, LineKinds DEF LockNotify, StepOf, Threads
    <2>2. /\ mu = {} /\ mu' = {t} /\ todo' = subs[job[t].series] /\ at'[t] = "put" /\ job' = job
          /\ due'[c] = IF at[c] = "tail" /\ series[c] = job[t].series THEN Append(due[c], job[t]) ELSE due[c]
      BY <1>0, <1>6 DEF LockNotify
    <2>3. Owes(t, c)' <=> c \in ToSet(subs[job[t].series])
      BY <2>2 DEF Owes
    <2>4. at'[c] \notin {"tail", "unsub", "leave"} => due'[c] = <<>> /\ Seen(c)' = <<>>
      BY <1>0, <1>2, <1>3, <2>2 DEF TailOf
    <2>5. ASSUME at'[c] = "tail", link'[c] = "up"
          PROVE  /\ Owes(t, c)' => due'[c] = Append(Seen(c)', job'[t])
                 /\ ~Owes(t, c)' => due'[c] = Seen(c)'
      <3>1. at[c] = "tail" /\ link[c] = "up" /\ due[c] = Seen(c)
        BY <1>0, <1>1, <1>3, <2>2, <2>5 DEF TailOf
      <3>2. c \in ToSet(subs[job[t].series]) <=> series[c] = job[t].series
        BY <1>0, <2>1, <3>1 DEF ListInv
      <3> QED BY <1>2, <2>2, <2>3, <3>1, <3>2
    <2> QED BY <2>1, <2>2, <2>4, <2>5 DEF TailOf
  <1>7. CASE Unlock(t)
    <2>1. mu' = {} /\ todo = <<>> /\ due' = due
      BY <1>7 DEF Unlock
    <2>2. \A u \in mu : ~Owes(u, c)
      BY <2>1, EmptyList DEF Owes
    <2> QED BY <1>0, <1>1, <1>2, <1>3, <2>1, <2>2 DEF TailOf
  <1> QED BY <1>4, <1>5, <1>6, <1>7

\* A line reaches a tail: what was due and not seen is seen, and nothing else is.
LEMMA LineTailInv ==
  ASSUME Base, TailInv, NEW t \in Threads,
         Put(t) \/ Flush(t) \/ FlushNothing(t) \/ FlushFails(t) \/ FlushDone(t)
  PROVE  TailInv'
  <1>0. TypeOK /\ StepInv /\ ListInv /\ StepOf(t)
    BY DEF Base, StepInv
  <1>1. PICK c \in Clients :
          /\ c = Target(t) /\ UNCHANGED <<mu, asked, due, reach>>
          /\ Puts(t) \/ Flushes(t) \/ Ends(t)
          /\ \A u \in Threads \ {t} : at'[u] = at[u] /\ job'[u] = job[u]
          /\ at[t] \in Busy /\ job[t] \in Line
          /\ Replies(t) => /\ c = t /\ mu' = mu /\ t \notin mu /\ job[t] \in Answers
                           /\ Ends(t) => at'[t] \in {"idle", "leave"}
          /\ ~Replies(t) => /\ mu = {t} /\ c \in Kept /\ at'[t] \in Busy /\ job' = job
                            /\ job[t] \notin Answers
          /\ \A d \in Clients : link'[d] = "up" => link[d] = "up"
          /\ \A d \in Clients \ {c} : log'[d] = log[d]
          /\ raced \subseteq raced'
          /\ (Puts(t) /\ (c \notin raced' \/ at[c] = "tail")) \/ Ends(t) => log'[c] = log[c]
          /\ log'[c] \in {log[c], <<>>, Append(log[c], job[t])}
    BY LineFacts
  <1>2. at[t] \notin {"tail", "unsub", "leave"} /\ at'[t] # "tail"
    <2>1. (Puts(t) \/ Flushes(t)) => at'[t] \in {"out", "done"}
      BY <1>0 DEF Puts, Flushes, TypeOK
    <2>2. Ends(t) => at'[t] \in {"idle", "leave"} \cup Busy
      BY <1>1
    <2> QED BY <1>1, <2>1, <2>2 DEF Busy
  <1>3. \A u \in mu : job'[u] = job[u]
    <2>1. \A u \in mu : u \in Threads
      BY <1>0, Holder
    <2> QED BY <1>1, <2>1
  <1>4. ASSUME NEW d \in Clients, log'[d] = log[d],
               \A u \in mu : Owes(u, d)' <=> Owes(u, d)
        PROVE  TailOf(d)'
    <2>1. /\ at[d] \in {"tail", "unsub", "leave"} => at'[d] \in {"tail", "unsub", "leave"}
          /\ at'[d] = "tail" => at[d] = "tail"
      BY <1>1, <1>2 DEF Threads
    <2>2. at'[d] = "tail" /\ link'[d] = "up" => at[d] = "tail" /\ link[d] = "up"
      BY <1>1, <2>1
    <2>3. TailOf(d)
      BY DEF TailInv
    <2> QED BY <1>0, <1>1, <1>3, <1>4, <2>1, <2>2, <2>3, TailFrame
  <1>5. \A d \in Clients \ {c} : TailOf(d)'
    <2> SUFFICES ASSUME NEW d \in Clients \ {c}
                 PROVE  TailOf(d)'
      OBVIOUS
    <2>1. \A u \in mu : Owes(u, d)' <=> Owes(u, d)
      BY <1>1, LineOwes
    <2> QED BY <1>1, <1>4, <2>1
  <1>6. TailOf(c)
    BY DEF TailInv
  <1>7. /\ Seen(c) \in Seq(Line)
        /\ log'[c] = log[c] => Seen(c)' = Seen(c)
        /\ log'[c] = <<>> => Seen(c)' = <<>>
        /\ log'[c] = Append(log[c], job[t]) =>
             Seen(c)' = IF job[t] \in Points THEN Append(Seen(c), job[t]) ELSE Seen(c)
    BY <1>0, <1>1, OfLog DEF Seen
  <1>8. ASSUME job[t] \notin Points, at[c] \notin {"tail", "unsub", "leave"}, at'[c] # "tail"
        PROVE  TailOf(c)'
    <2>1. due[c] = <<>> /\ Seen(c) = <<>>
      BY <1>6, <1>8 DEF TailOf
    <2>2. due'[c] = <<>> /\ Seen(c)' = <<>>
      BY <1>1, <1>7, <1>8, <2>1
    <2> QED BY <1>8, <2>2 DEF TailOf
  <1>9. CASE Replies(t)
    <2>1. job[t] \notin Points
      BY <1>9, LineKinds DEF Replies
    <2>2. TailOf(c)'
      BY <1>1, <1>2, <1>8, <1>9, <2>1
    <2> QED BY <1>5, <2>2 DEF TailInv
  <1>10. CASE ~Replies(t)
    <2>1. /\ at[c] \notin {"gone", "accept"}
          /\ t \notin Alerts => at[c] \in {"tail", "unsub"} /\ series[c] = job[t].series
      BY <1>0, <1>1, <1>10, KeptHere
    <2>2. c # t /\ at'[c] = at[c]
      <3>1. c # t
        BY <1>1, <2>1, BrokerAssumption DEF Busy
      <3> QED BY <1>1, <3>1 DEF Threads
    <2>3. CASE at[c] \notin {"tail", "unsub", "leave"}
      <3>1. t \in Alerts /\ job[t] = AlertOf(t)
        BY <1>0, <1>1, <2>1, <2>3 DEF StepOf
      <3>2. job[t] \notin Points
        BY <3>1, LineKinds
      <3> QED BY <1>5, <1>8, <2>2, <2>3, <3>2 DEF TailInv
    <2>4. CASE at[c] \in {"tail", "unsub", "leave"} /\ ~(at[c] = "tail" /\ link'[c] = "up")
      <3>1. TailOf(c)'
        BY <2>2, <2>4 DEF TailOf
      <3> QED BY <1>5, <3>1 DEF TailInv
    <2>5. CASE at[c] = "tail" /\ link'[c] = "up"
      <3>0. Clean(c) /\ link[c] = "up" /\ DOMAIN log = Clients
        BY <1>0, <1>1, <2>5 DEF Clean, TypeOK
      <3>1. /\ Puts(t) => Owes(t, c) /\ Owes(t, c)'
            /\ Flushes(t) => Owes(t, c) /\ ~Owes(t, c)'
            /\ Ends(t) => ~Owes(t, c)' /\ (at[t] = "done" => ~Owes(t, c))
        BY <1>1, <1>10, LineOwes
      <3>2. CASE Puts(t)
        <4>1. log'[c] = log[c]
          BY <1>1, <2>5, <3>2
        <4>2. \A u \in mu : Owes(u, c)' <=> Owes(u, c)
          BY <1>1, <1>10, <3>1, <3>2
        <4> QED BY <1>4, <1>5, <4>1, <4>2 DEF TailInv
      <3>3. CASE Flushes(t)
        <4>1. log'[c] = Append(log[c], job[t])
          BY <1>1, <3>0, <3>3 DEF Flushes
        <4>2. mu' = {t} /\ job'[t] = job[t] /\ due'[c] = due[c] /\ ~Owes(t, c)'
          BY <1>1, <1>10, <3>1, <3>3
        <4>3. due[c] = Seen(c)'
          <5>1. CASE t \in Alerts
            <6>1. job[t] \notin Points
              BY <1>0, <1>1, <5>1, LineKinds DEF StepOf
            <6>2. due[c] = Seen(c)
              BY <1>1, <1>6, <1>10, <2>5, <3>0, <5>1 DEF TailOf
            <6> QED BY <1>7, <4>1, <6>1, <6>2
          <5>2. CASE t \notin Alerts
            <6>1. job[t] \in Points
              BY <1>0, <1>1, <1>10, <5>2 DEF StepOf, Threads
            <6>2. due[c] = Append(Seen(c), job[t])
              BY <1>1, <1>6, <1>10, <2>5, <3>0, <3>1, <3>3, <5>2 DEF TailOf
            <6> QED BY <1>7, <4>1, <6>1, <6>2
          <5> QED BY <5>1, <5>2
        <4>4. TailOf(c)'
          BY <2>2, <2>5, <4>2, <4>3 DEF TailOf
        <4> QED BY <1>5, <4>4 DEF TailInv
      <3>4. CASE Ends(t)
        <4>1. at[t] = "done"
          BY <1>1, <2>5, <3>0, <3>4 DEF Ends
        <4>2. \A u \in mu : Owes(u, c)' <=> Owes(u, c)
          BY <1>1, <1>10, <3>1, <3>4, <4>1
        <4>3. log'[c] = log[c]
          BY <1>1, <3>4
        <4> QED BY <1>4, <1>5, <4>2, <4>3 DEF TailInv
      <3> QED BY <1>1, <3>2, <3>3, <3>4
    <2> QED BY <2>3, <2>4, <2>5
  <1> QED BY <1>9, <1>10

\* Every step keeps what tails are due.
LEMMA NextTailInv == Base /\ TailInv /\ [Next]_vars => TailInv'
  <1> SUFFICES ASSUME Base, TailInv, [Next]_vars
               PROVE  TailInv'
    OBVIOUS
  <1>1. CASE UNCHANGED vars
    BY <1>1 DEF TailInv, TailOf, Seen, Of, Owes, vars, lists, pipes, hist
  <1>2. CASE Next
    <2>1. \A c \in Clients, s \in Series : handleWrite(c, s) => c \in Threads /\ WritePoint(c, s)
      BY DEF handleWrite, Threads
    <2>2. \A r \in Callers, s \in Series : handleRESTWrite(r, s) => r \in Threads /\ WritePoint(r, s)
      BY DEF handleRESTWrite, Threads
    <2>3. Clients \cup Callers \subseteq Threads /\ Alerts \subseteq Threads
      BY DEF Threads
    <2>4. ASSUME NEW t \in Threads, Step(t)
          PROVE  TailInv'
      BY <2>4, LockTailInv, LineTailInv DEF Step
    <2> QED BY <1>2, <2>1, <2>2, <2>3, <2>4, ClientTailInv, LockTailInv DEF Next
  <1> QED BY <1>1, <1>2

\* A sequence is a prefix of itself, and of itself with one element more.
LEMMA PrefixAppend ==
  ASSUME NEW S, NEW seq \in Seq(S)
  PROVE  IsPrefix(seq, seq) /\ \A x \in S : IsPrefix(seq, Append(seq, x))
  <1>1. IsPrefix(seq, seq)
    <2>1. Len(seq) \in Nat
      OBVIOUS
    <2> QED BY <2>1 DEF IsPrefix
  <1>2. ASSUME NEW x \in S
        PROVE  IsPrefix(seq, Append(seq, x))
    <2>1. Len(seq) \in Nat /\ Len(Append(seq, x)) = Len(seq) + 1
      OBVIOUS
    <2>2. SubSeq(seq, 1, Len(seq)) = seq
      OBVIOUS
    <2>3. SubSeq(Append(seq, x), 1, Len(seq)) = seq
      OBVIOUS
    <2> QED BY <2>1, <2>2, <2>3 DEF IsPrefix
  <1> QED BY <1>1, <1>2

\* TailExact holds of every state: a tail has seen the points of its series notified
\* since it began, in their order and without a gap, but for the one under way.
THEOREM TailsExact == Spec => []TailExact
  <1> DEFINE I == Base /\ TailInv
  <1>1. Init => I
    BY InitStepInv, InitListInv, InitWriterInv, InitTailInv DEF Base
  <1>2. I /\ [Next]_vars => I'
    BY NextBase, NextTailInv
  <1>3. I => TailExact
    <2> SUFFICES ASSUME Base, TailInv, NEW c \in Clients, at[c] = "tail", link[c] = "up"
                 PROVE  /\ IsPrefix(Seen(c), due[c])
                        /\ mu = {} => c \in ToSet(subs[series[c]]) /\ Seen(c) = due[c]
      BY DEF TailExact
    <2>1. TypeOK /\ StepInv /\ ListInv /\ TailOf(c)
      BY DEF Base, TailInv
    <2>2. Seen(c) \in Seq(Line)
      BY <2>1, OfLog DEF Seen
    <2>3. mu = {} => c \in ToSet(subs[series[c]]) /\ Seen(c) = due[c]
      BY <2>1 DEF ListInv, TailOf
    <2>4. CASE \A t \in mu \ Alerts : ~Owes(t, c)
      <3>1. due[c] = Seen(c)
        BY <2>1, <2>4 DEF TailOf
      <3>2. IsPrefix(Seen(c), Seen(c))
        BY <2>2, PrefixAppend
      <3> QED BY <2>3, <3>1, <3>2
    <2>5. CASE \E t \in mu \ Alerts : Owes(t, c)
      <3>1. PICK t \in mu \ Alerts : Owes(t, c)
        BY <2>5
      <3>2. due[c] = Append(Seen(c), job[t])
        BY <2>1, <3>1 DEF TailOf
      <3>3. job[t] \in Line
        <4>1. t \in Threads /\ at[t] \in Busy /\ ~Replies(t) /\ StepOf(t)
          BY <2>1, <3>1, Holder DEF StepInv
        <4> QED BY <3>1, <4>1, LineKinds DEF StepOf, Threads
      <3> QED BY <2>2, <2>3, <3>2, <3>3, PrefixAppend
    <2> QED BY <2>4, <2>5
  <1> QED BY <1>1, <1>2, <1>3, PTL DEF Spec
-----------------------------------------------------------------------------
(* Answers *)

\* A step that neither answers c nor takes a command of it.
LEMMA RepliesFrame ==
  ASSUME NEW c \in Clients, RepliesOf(c), Of(c, Answers)' = Of(c, Answers), asked'[c] = asked[c],
         Unanswered(c)' <=> Unanswered(c),
         c \notin raced' /\ link'[c] = "up" => c \notin raced /\ link[c] = "up"
  PROVE  RepliesOf(c)'
  BY DEF RepliesOf

\* Where a connection is decides whether it has an answer to come.
LEMMA UnansweredSame ==
  ASSUME NEW c \in Clients,
         \/ at'[c] = at[c] /\ job'[c] = job[c]
         \/ at[c] \notin Busy \cup {"lock"} /\ at'[c] \notin Busy \cup {"lock"}
         \/ at[c] \in {"lock", "put", "out"} /\ at'[c] \in {"lock", "put", "out"}
         \/ at[c] \in Busy /\ at'[c] \in Busy /\ job'[c] = job[c] /\ ~Replies(c)
  PROVE  Unanswered(c)' <=> Unanswered(c)
  BY DEF Unanswered, Busy, Replies

\* Nothing has been asked at first.
LEMMA InitRepliesInv == Init => RepliesInv
  BY DEF Init, RepliesInv, RepliesOf

\* Connections come, register, leave the lists and go.
LEMMA ClientRepliesInv ==
  ASSUME Base, RepliesInv, NEW c \in Clients,
         \/ Connect(c) \/ registerClient(c) \/ Answer(c)
         \/ register(c) \/ ScanEnds(c) \/ unregister(c) \/ unregisterClient(c)
         \/ Read(c) \/ HangUp(c) \/ \E s \in Series : handleTail(c, s)
  PROVE  RepliesInv'
  <1> USE DEF lists, pipes, hist
  <1>0. /\ TypeOK /\ StepInv /\ WriterOf(c) /\ RepliesOf(c) /\ StepOf(c)
        /\ c \in Threads /\ Clients \subseteq Threads
        /\ DOMAIN at = Threads /\ DOMAIN link = Clients /\ DOMAIN log = Clients
        /\ DOMAIN job = Threads /\ DOMAIN asked = Clients
    BY DEF Base, Threads, TypeOK, StepInv, WriterInv, RepliesInv
  <1>1. ASSUME NEW d \in Clients \ {c}
        PROVE  RepliesOf(d)'
    <2>1. at'[d] = at[d] /\ job'[d] = job[d]
      BY <1>0 DEF Connect, registerClient, Answer, register, ScanEnds, unregister, unregisterClient, Close, Read, HangUp, handleTail, Send
    <2>2. /\ log'[d] = log[d] /\ asked'[d] = asked[d] /\ link'[d] = link[d]
          /\ d \in raced' <=> d \in raced
      BY <1>0 DEF Connect, registerClient, Answer, register, ScanEnds, unregister, unregisterClient, Close, Read, HangUp, handleTail
    <2>3. Of(d, Answers)' = Of(d, Answers)
      BY <1>0, <2>2, OfLog
    <2>4. Unanswered(d)' <=> Unanswered(d)
      BY <2>1, UnansweredSame
    <2>5. RepliesOf(d)
      BY DEF RepliesInv
    <2> QED BY <2>2, <2>3, <2>4, <2>5, RepliesFrame
  <1>2. RepliesOf(c)'
    <2>1. CASE Connect(c)
      <3>1. log'[c] = <<>> /\ asked'[c] = 0 /\ at'[c] = "accept"
        BY <1>0, <2>1 DEF Connect, StepOf, WriterOf
      <3>2. Of(c, Answers)' = <<>>
        BY <1>0, <3>1, OfLog
      <3>3. ~Unanswered(c)'
        BY <3>1 DEF Unanswered
      <3>4. PICK none \in Seq(Line) : none = <<>> /\ Of(c, Answers)' = none
        <4>1. <<>> \in Seq(Line)
          OBVIOUS
        <4> QED BY <3>2, <4>1
      <3>5. (\A i \in DOMAIN none : none[i].id = i) /\ Len(none) = asked'[c]
        BY <3>1, <3>4
      <3>6. asked'[c] = asked'[c] - 0
        BY <3>1
      <3> QED BY <3>3, <3>4, <3>5, <3>6 DEF RepliesOf
    <2>2. CASE \/ registerClient(c) \/ register(c) \/ ScanEnds(c) \/ unregister(c) \/ Read(c)
               \/ \E s \in Series : handleTail(c, s)
      <3>1. UNCHANGED <<log, asked, link, raced, job>>
        BY <2>2 DEF registerClient, register, ScanEnds, unregister, Read, handleTail
      <3>2. \/ at'[c] = at[c]
            \/ at[c] \notin Busy \cup {"lock"} /\ at'[c] \notin Busy \cup {"lock"}
        BY <1>0, <2>2 DEF registerClient, register, ScanEnds, unregister, Read, handleTail, Busy
      <3>3. Unanswered(c)' <=> Unanswered(c)
        BY <3>1, <3>2, UnansweredSame
      <3>4. Of(c, Answers)' = Of(c, Answers)
        BY <1>0, <3>1, OfLog
      <3> QED BY <1>0, <3>1, <3>3, <3>4, RepliesFrame
    <2>3. CASE Answer(c)
      <3>1. /\ UNCHANGED <<log, link, raced>> /\ asked'[c] = asked[c] + 1 /\ asked[c] \in Nat
            /\ at[c] = "idle" /\ at'[c] = "put"
        BY <1>0, <2>3, BrokerAssumption DEF Answer, Send, TypeOK
      <3>2. ~Unanswered(c) /\ Unanswered(c)'
        BY <3>1 DEF Unanswered
      <3>3. Of(c, Answers)' = Of(c, Answers) /\ Len(Of(c, Answers)) \in Nat
        BY <1>0, <3>1, OfLog
      <3> QED BY <1>0, <3>1, <3>2, <3>3 DEF RepliesOf
    <2>4. CASE unregisterClient(c) \/ HangUp(c)
      <3>1. link'[c] # "up"
        BY <1>0, <2>4 DEF unregisterClient, Close, HangUp
      <3> QED BY <3>1 DEF RepliesOf
    <2> QED BY <2>1, <2>2, <2>3, <2>4
  <1> QED BY <1>1, <1>2 DEF RepliesInv

\* A command to write is answered once b.mu is released.
LEMMA LockRepliesInv ==
  ASSUME Base, RepliesInv, NEW t \in Threads,
         \/ \E s \in Series : t \in Clients /\ handleWrite(t, s)
         \/ \E s \in Series : t \in Callers /\ handleRESTWrite(t, s)
         \/ t \in Alerts /\ (handleAlertTest(t) \/ LockBroadcast(t))
         \/ t \in Clients \cup Callers /\ LockNotify(t)
         \/ Unlock(t)
  PROVE  RepliesInv'
  <1> USE DEF lists, pipes, hist
  <1> SUFFICES ASSUME NEW c \in Clients
               PROVE  RepliesOf(c)'
    BY DEF RepliesInv
  <1>0. /\ TypeOK /\ StepInv /\ RepliesOf(c) /\ c \in Threads
        /\ DOMAIN at = Threads /\ DOMAIN job = Threads /\ DOMAIN asked = Clients
        /\ c \notin Callers /\ c \notin Alerts
    BY BrokerAssumption DEF Base, Threads, TypeOK, RepliesInv
  <1>1. UNCHANGED <<log, link, raced>>
    BY DEF handleWrite, handleRESTWrite, WritePoint, handleAlertTest, LockBroadcast, LockNotify, Unlock
  <1>2. Of(c, Answers)' = Of(c, Answers) /\ Len(Of(c, Answers)) \in Nat
    BY <1>0, <1>1, OfLog
  <1>3. CASE t = c /\ \E s \in Series : handleWrite(t, s)
    <2>1. asked'[c] = asked[c] + 1 /\ asked[c] \in Nat /\ at[c] = "idle" /\ at'[c] = "lock"
      BY <1>0, <1>3, BrokerAssumption DEF handleWrite, WritePoint, Send, TypeOK
    <2>2. ~Unanswered(c) /\ Unanswered(c)'
      BY <2>1 DEF Unanswered
    <2> QED BY <1>0, <1>1, <1>2, <2>1, <2>2 DEF RepliesOf
  <1>4. CASE ~(t = c /\ \E s \in Series : handleWrite(t, s))
    <2>1. asked'[c] = asked[c]
      BY <1>0, <1>4 DEF handleWrite, handleRESTWrite, handleAlertTest, LockBroadcast, LockNotify, Unlock
    <2>2. CASE t # c
      <3>1. at'[c] = at[c] /\ job'[c] = job[c]
        BY <1>0, <2>2 DEF handleWrite, handleRESTWrite, WritePoint, handleAlertTest, LockBroadcast, LockNotify, Unlock, Send
      <3>2. Unanswered(c)' <=> Unanswered(c)
        BY <3>1, UnansweredSame
      <3> QED BY <1>0, <1>1, <1>2, <2>1, <3>2, RepliesFrame
    <2>3. CASE t = c
      <3>1. LockNotify(c) \/ Unlock(c)
        BY <1>0, <1>4, <2>3
      <3>2. at[c] \in {"lock", "put"} /\ at'[c] = "put"
        BY <1>0, <3>1 DEF LockNotify, Unlock, Send
      <3>3. Unanswered(c)' <=> Unanswered(c)
        BY <3>2, UnansweredSame
      <3> QED BY <1>0, <1>1, <1>2, <2>1, <3>3, RepliesFrame
    <2> QED BY <2>2, <2>3
  <1> QED BY <1>3, <1>4

\* An answer reaches its connection, or a line of the loop does.
LEMMA LineRepliesInv ==
  ASSUME Base, RepliesInv, NEW t \in Threads,
         Put(t) \/ Flush(t) \/ FlushNothing(t) \/ FlushFails(t) \/ FlushDone(t)
  PROVE  RepliesInv'
  <1>0. TypeOK /\ StepInv /\ ListInv /\ StepOf(t)
    BY DEF Base, StepInv
  <1>1. PICK c \in Clients :
          /\ c = Target(t) /\ UNCHANGED <<mu, asked, due, reach>>
          /\ Puts(t) \/ Flushes(t) \/ Ends(t)
          /\ \A u \in Threads \ {t} : at'[u] = at[u] /\ job'[u] = job[u]
          /\ at[t] \in Busy /\ job[t] \in Line
          /\ Replies(t) => /\ c = t /\ mu' = mu /\ t \notin mu /\ job[t] \in Answers
                           /\ Ends(t) => at'[t] \in {"idle", "leave"}
          /\ ~Replies(t) => /\ mu = {t} /\ c \in Kept /\ at'[t] \in Busy /\ job' = job
                            /\ job[t] \notin Answers
          /\ \A d \in Clients : link'[d] = "up" => link[d] = "up"
          /\ \A d \in Clients \ {c} : log'[d] = log[d]
          /\ raced \subseteq raced'
          /\ (Puts(t) /\ (c \notin raced' \/ at[c] = "tail")) \/ Ends(t) => log'[c] = log[c]
          /\ log'[c] \in {log[c], <<>>, Append(log[c], job[t])}
    BY LineFacts
  <1>2. Clients \subseteq Threads /\ DOMAIN at = Threads /\ DOMAIN log = Clients
    BY <1>0 DEF Threads, TypeOK
  \* Where nothing is added to the answers.
  <1>3. ASSUME NEW d \in Clients, d # t \/ ~Replies(t),
               Of(d, Answers)' = Of(d, Answers)
        PROVE  RepliesOf(d)'
    <2>1. Unanswered(d)' <=> Unanswered(d)
      BY <1>1, <1>2, <1>3, UnansweredSame
    <2>2. RepliesOf(d) /\ asked'[d] = asked[d]
      BY <1>1 DEF RepliesInv
    <2>3. d \notin raced' /\ link'[d] = "up" => d \notin raced /\ link[d] = "up"
      BY <1>1
    <2> QED BY <1>3, <2>1, <2>2, <2>3, RepliesFrame
  <1>4. \A d \in Clients \ {c} : RepliesOf(d)'
    <2> SUFFICES ASSUME NEW d \in Clients \ {c}
                 PROVE  RepliesOf(d)'
      OBVIOUS
    <2>1. Of(d, Answers)' = Of(d, Answers)
      BY <1>0, <1>1, OfLog
    <2> QED BY <1>1, <1>3, <2>1
  <1> SUFFICES ASSUME c \notin raced', link'[c] = "up"
               PROVE  RepliesOf(c)'
    BY <1>4 DEF RepliesInv, RepliesOf
  <1>5. c \notin raced /\ link[c] = "up" /\ Clean(c) /\ RepliesOf(c) /\ asked'[c] = asked[c]
    BY <1>1 DEF Clean, RepliesInv
  <1>6. /\ Puts(t) \/ Ends(t) => log'[c] = log[c]
        /\ Flushes(t) => log'[c] = Append(log[c], job[t])
    BY <1>1, <1>2, <1>5 DEF Flushes
  <1>7. /\ Of(c, Answers) \in Seq(Line)
        /\ log'[c] = log[c] => Of(c, Answers)' = Of(c, Answers)
        /\ log'[c] = Append(log[c], job[t]) =>
             Of(c, Answers)' = IF job[t] \in Answers THEN Append(Of(c, Answers), job[t]) ELSE Of(c, Answers)
    BY <1>0, <1>1, OfLog
  <1>8. CASE ~Replies(t)
    BY <1>1, <1>3, <1>6, <1>7, <1>8
  <1>9. CASE Replies(t)
    <2>0. c = t /\ job[t] \in Answers /\ job[t].id = asked[t] /\ asked[c] \in Nat
      BY <1>0, <1>1, <1>9, BrokerAssumption DEF StepOf, TypeOK
    <2>1. CASE Puts(t)
      <3>1. at[c] = "put" /\ at'[c] = "out"
        BY <1>2, <2>0, <2>1 DEF Puts
      <3>2. Unanswered(c)' <=> Unanswered(c)
        BY <3>1, UnansweredSame
      <3> QED BY <1>5, <1>6, <1>7, <2>1, <3>2, RepliesFrame
    <2>2. CASE Flushes(t)
      <3>1. at[c] = "out" /\ at'[c] = "done" /\ job' = job
        BY <1>2, <2>0, <2>2 DEF Flushes
      <3>2. Unanswered(c) /\ ~Unanswered(c)'
        BY <1>9, <2>0, <3>1 DEF Unanswered, Replies
      <3> DEFINE replies == Of(c, Answers)
      <3>3. /\ replies \in Seq(Line) /\ Len(replies) = asked[c] - 1
            /\ \A i \in 1..Len(replies) : replies[i].id = i
        BY <1>5, <1>7, <3>2 DEF RepliesOf
      <3>4. PICK more \in Seq(Line) : more = Append(replies, job[t])
        <4>1. replies \in Seq(Line)
          BY <3>3
        <4> HIDE DEF replies
        <4>2. Append(replies, job[t]) \in Seq(Line)
          BY <1>1, <4>1
        <4> QED BY <4>2
      <3>5. /\ Len(more) = asked[c] /\ DOMAIN more = 1..asked[c]
            /\ \A i \in 1..(asked[c] - 1) : more[i] = replies[i]
            /\ more[asked[c]] = job[t]
        <4> HIDE DEF replies
        <4> QED BY <1>1, <2>0, <3>3, <3>4
      <3>6. \A i \in DOMAIN more : more[i].id = i
        <4> HIDE DEF replies
        <4> TAKE i \in DOMAIN more
        <4>1. CASE i = asked[c]
          BY <2>0, <3>5, <4>1
        <4>2. CASE i \in 1..(asked[c] - 1)
          BY <3>3, <3>5, <4>2
        <4> QED BY <2>0, <3>5, <4>1, <4>2
      <3>7. Of(c, Answers)' = more
        BY <1>6, <1>7, <2>0, <2>2, <3>4
      <3> QED BY <1>5, <2>0, <3>2, <3>5, <3>6, <3>7 DEF RepliesOf
    <2>3. CASE Ends(t)
      <3>1. at[c] = "done" /\ at'[c] \in {"idle", "leave"}
        BY <1>1, <1>5, <1>9, <2>0, <2>3 DEF Ends
      <3>2. ~Unanswered(c) /\ ~Unanswered(c)'
        BY <1>9, <2>0, <3>1 DEF Unanswered
      <3> QED BY <1>5, <1>6, <1>7, <2>3, <3>2, RepliesFrame
    <2> QED BY <1>1, <2>1, <2>2, <2>3
  <1> QED BY <1>8, <1>9

\* Every step keeps the count of answers.
LEMMA NextRepliesInv == Base /\ RepliesInv /\ [Next]_vars => RepliesInv'
  <1> SUFFICES ASSUME Base, RepliesInv, [Next]_vars
               PROVE  RepliesInv'
    OBVIOUS
  <1>1. CASE UNCHANGED vars
    BY <1>1 DEF RepliesInv, RepliesOf, Of, Unanswered, Replies, vars, lists, pipes, hist
  <1>2. CASE Next
    <2>1. Clients \subseteq Threads /\ Callers \subseteq Threads /\ Alerts \subseteq Threads
      BY DEF Threads
    <2>2. ASSUME NEW t \in Threads, Step(t)
          PROVE  RepliesInv'
      BY <2>2, LockRepliesInv, LineRepliesInv DEF Step
    <2> QED BY <1>2, <2>1, <2>2, ClientRepliesInv, LockRepliesInv DEF Next
  <1> QED BY <1>1, <1>2

\* RepliesInOrder holds of every state: each command has its answer, once and in the
\* order of the commands, unless a loop of b.mu has met an answer on the writer.
THEOREM RepliesOrdered == Spec => []RepliesInOrder
  <1> DEFINE I == Base /\ RepliesInv
  <1>1. Init => I
    BY InitStepInv, InitListInv, InitWriterInv, InitRepliesInv DEF Base
  <1>2. I /\ [Next]_vars => I'
    BY NextBase, NextRepliesInv
  <1>3. I => RepliesInOrder
    <2> SUFFICES ASSUME Base, RepliesInv, NEW c \in Clients \ raced, link[c] = "up"
                 PROVE  /\ \A i \in DOMAIN Of(c, Answers) : Of(c, Answers)[i].id = i
                        /\ at[c] \in {"idle", "tail"} => Len(Of(c, Answers)) = asked[c]
      BY DEF RepliesInOrder
    <2>1. RepliesOf(c) /\ asked[c] \in Nat
      BY BrokerAssumption DEF RepliesInv, Base, TypeOK
    <2>2. at[c] \in {"idle", "tail"} => ~Unanswered(c)
      BY DEF Unanswered
    <2> QED BY <2>1, <2>2 DEF RepliesOf
  <1> QED BY <1>1, <1>2, <1>3, PTL DEF Spec
-----------------------------------------------------------------------------
(* Alerts *)

\* A step that sends nothing of alert a to c.
LEMMA AlertFrame ==
  ASSUME NEW a \in Alerts, NEW c \in Clients, ReachOf(a, c),
         c \in reach'[a] => c \in reach[a],
         at'[c] = "gone" => at[c] = "gone" \/ c \notin reach'[a],
         at'[a] \in {"idle", "lock"} => at[a] \in {"idle", "lock"},
         \/ Of(c, {AlertOf(a)})' = Of(c, {AlertOf(a)})
         \/ Of(c, {AlertOf(a)})' = <<>> /\ (c \in raced' \/ link'[c] # "up"),
         c \in reach'[a] \ raced' /\ link'[c] = "up" => c \notin raced /\ link[c] = "up",
         (a \in mu' /\ Owes(a, c)') <=> (a \in mu /\ Owes(a, c))
  PROVE  ReachOf(a, c)'
  <1>1. AlertOf(a)' = AlertOf(a)
    BY DEF AlertOf
  <1>2. at'[c] = "gone" => c \notin reach'[a]
    BY DEF ReachOf
  <1>3. at'[a] \in {"idle", "lock"} => c \notin reach'[a] /\ Of(c, {AlertOf(a)})' = <<>>
    BY DEF ReachOf
  <1>4. ASSUME c \in reach'[a] \ raced', link'[c] = "up"
        PROVE  Len(Of(c, {AlertOf(a)})') = IF a \in mu' /\ Owes(a, c)' THEN 0 ELSE 1
    <2>1. Of(c, {AlertOf(a)})' = Of(c, {AlertOf(a)}) /\ c \in reach[a] \ raced /\ link[c] = "up"
      BY <1>4
    <2> QED BY <2>1 DEF ReachOf
  <1> QED BY <1>1, <1>2, <1>3, <1>4 DEF ReachOf

\* The alerts have reached nobody at first.
LEMMA InitAlertInv == Init => AlertInv
  <1> SUFFICES ASSUME Init, NEW a \in Alerts, NEW c \in Clients
               PROVE  ReachOf(a, c)
    BY DEF AlertInv
  <1>1. Of(c, {AlertOf(a)}) = <<>>
    BY SelectEmpty DEF Init, Of
  <1> QED BY <1>1 DEF Init, ReachOf

\* Connections come, register, leave the lists and go.
LEMMA ClientAlertInv ==
  ASSUME Base, AlertInv, NEW x \in Clients,
         \/ Connect(x) \/ registerClient(x) \/ Answer(x)
         \/ register(x) \/ ScanEnds(x) \/ unregister(x) \/ unregisterClient(x)
         \/ Read(x) \/ HangUp(x) \/ \E s \in Series : handleTail(x, s)
  PROVE  AlertInv'
  <1> USE DEF lists, pipes, hist
  <1> SUFFICES ASSUME NEW a \in Alerts, NEW c \in Clients
               PROVE  ReachOf(a, c)'
    BY DEF AlertInv
  <1>0. /\ TypeOK /\ StepInv /\ ReachOf(a, c) /\ x \in Threads /\ c \in Threads /\ a \in Threads \ {x}
        /\ DOMAIN at = Threads /\ DOMAIN link = Clients /\ DOMAIN log = Clients
    BY BrokerAssumption DEF Base, Threads, TypeOK, AlertInv
  <1>1. at'[a] = at[a] /\ UNCHANGED <<mu, todo>>
    BY <1>0 DEF Connect, registerClient, Answer, register, ScanEnds, unregister, unregisterClient, Close, Read, HangUp, handleTail, Send
  <1>2. (a \in mu' /\ Owes(a, c)') <=> (a \in mu /\ Owes(a, c))
    BY <1>1, OwesSame
  <1>3. CASE unregisterClient(x) /\ c = x
    <2>1. c \notin reach'[a] /\ log'[c] = <<>> /\ link'[c] # "up"
      BY <1>0, <1>3 DEF unregisterClient, Close
    <2>2. Of(c, {AlertOf(a)})' = <<>>
      BY <1>0, <2>1, OfLog
    <2> QED BY <1>0, <1>1, <1>2, <2>1, <2>2, AlertFrame
  <1>4. CASE ~(unregisterClient(x) /\ c = x)
    <2>1. /\ c \in reach'[a] => c \in reach[a]
          /\ c \in raced' <=> c \in raced
      BY <1>0, <1>4 DEF Connect, registerClient, Answer, register, ScanEnds, unregister, unregisterClient, Close, Read, HangUp, handleTail
    <2>2. at'[c] = "gone" => at[c] = "gone"
      BY <1>0, <1>4 DEF Connect, registerClient, Answer, register, ScanEnds, unregister, unregisterClient, Close, Read, HangUp, handleTail, Send
    <2>3. c \in reach'[a] /\ link'[c] = "up" => link[c] = "up"
      <3>1. link'[c] = "up" => link[c] = "up" \/ (at[c] = "gone" /\ reach' = reach)
        BY <1>0, <1>4 DEF Connect, registerClient, Answer, register, ScanEnds, unregister, unregisterClient, Close, Read, HangUp, handleTail
      <3>2. at[c] = "gone" => c \notin reach[a]
        BY <1>0 DEF ReachOf
      <3> QED BY <3>1, <3>2
    <2>4. log'[c] = log[c] \/ (log'[c] = <<>> /\ link'[c] # "up")
      BY <1>0, <1>4 DEF Connect, registerClient, Answer, register, ScanEnds, unregister, unregisterClient, Close, Read, HangUp, handleTail
    <2>5. \/ Of(c, {AlertOf(a)})' = Of(c, {AlertOf(a)})
          \/ Of(c, {AlertOf(a)})' = <<>> /\ link'[c] # "up"
      BY <1>0, <2>4, OfLog
    <2> QED BY <1>0, <1>1, <1>2, <2>1, <2>2, <2>3, <2>5, AlertFrame
  <1> QED BY <1>3, <1>4

\* An alert takes b.mu, with a line for every connection there is, and releases it
\* with none left.
LEMMA LockAlertInv ==
  ASSUME Base, AlertInv, NEW t \in Threads,
         \/ \E s \in Series : t \notin Alerts /\ WritePoint(t, s)
         \/ t \in Alerts /\ (handleAlertTest(t) \/ LockBroadcast(t))
         \/ t \in Clients \cup Callers /\ LockNotify(t)
         \/ Unlock(t)
  PROVE  AlertInv'
  <1> USE DEF lists, pipes, hist
  <1> SUFFICES ASSUME NEW a \in Alerts, NEW c \in Clients
               PROVE  ReachOf(a, c)'
    BY DEF AlertInv
  <1>0. /\ TypeOK /\ StepInv /\ ListInv /\ ReachOf(a, c) /\ c \in Threads /\ a \in Threads /\ a # c
        /\ StepOf(t) /\ DOMAIN at = Threads
        /\ t \in Alerts => t \notin Clients
    BY BrokerAssumption DEF Base, Threads, TypeOK, AlertInv, StepInv
  <1>1. UNCHANGED <<log, link, raced>>
    BY DEF WritePoint, handleAlertTest, LockBroadcast, LockNotify, Unlock
  <1>2. Of(c, {AlertOf(a)})' = Of(c, {AlertOf(a)})
    BY <1>0, <1>1, OfLog
  <1>3. at'[c] = "gone" => at[c] = "gone"
    <2>1. CASE \E s \in Series : WritePoint(t, s)
      BY <1>0, <2>1 DEF WritePoint, Send
    <2>2. CASE t \in Alerts /\ (handleAlertTest(t) \/ LockBroadcast(t))
      BY <1>0, <2>2 DEF handleAlertTest, LockBroadcast, Send
    <2>3. CASE LockNotify(t)
      BY <1>0, <2>3 DEF LockNotify
    <2>4. CASE Unlock(t)
      BY <1>0, <2>4 DEF Unlock, Send
    <2> QED BY <2>1, <2>2, <2>3, <2>4
  <1>4. CASE (\E s \in Series : t \notin Alerts /\ WritePoint(t, s)) \/ (t \in Alerts /\ handleAlertTest(t))
    <2>1. UNCHANGED <<mu, todo, reach>> /\ t \notin mu
      BY <1>0, <1>4 DEF WritePoint, handleAlertTest, StepOf, Busy
    <2>2. at'[a] = at[a] \/ (a = t /\ at[a] = "idle")
      BY <1>0, <1>4 DEF WritePoint, handleAlertTest, Send
    <2>3. (a \in mu' /\ Owes(a, c)') <=> (a \in mu /\ Owes(a, c))
      BY <2>1, <2>2, OwesSame
    <2>4. at'[a] \in {"idle", "lock"} => at[a] \in {"idle", "lock"}
      BY <2>2
    <2> QED BY <1>0, <1>1, <1>2, <1>3, <2>1, <2>3, <2>4, AlertFrame
  <1>5. CASE t \in Alerts /\ LockBroadcast(t)
    <2>1. /\ mu = {} /\ mu' = {t} /\ todo' = all /\ at[t] = "lock" /\ at'[t] = "put"
          /\ \A u \in Threads \ {t} : at'[u] = at[u]
          /\ reach'[t] = ToSet(all) /\ \A b \in Alerts \ {t} : reach'[b] = reach[b]
      BY <1>0, <1>5 DEF LockBroadcast, TypeOK
    <2>2. CASE a # t
      <3>1. a \notin mu /\ a \notin mu' /\ at'[a] = at[a] /\ reach'[a] = reach[a]
        BY <1>0, <2>1, <2>2
      <3> QED BY <1>0, <1>1, <1>2, <1>3, <3>1, AlertFrame
    <2>3. CASE a = t
      <3>1. at'[c] = "gone" => c \notin reach'[a]
        BY <1>0, <1>3, <2>1, <2>3 DEF ListInv
      <3>2. Of(c, {AlertOf(a)})' = <<>>
        BY <1>0, <1>2, <2>1, <2>3 DEF ReachOf
      <3>3. c \in reach'[a] => a \in mu' /\ Owes(a, c)'
        BY <2>1, <2>3 DEF Owes
      <3>4. Len(<<>>) = 0 /\ AlertOf(a)' = AlertOf(a)
        BY DEF AlertOf
      <3> QED BY <2>1, <2>3, <3>1, <3>2, <3>3, <3>4 DEF ReachOf
    <2> QED BY <2>2, <2>3
  <1>6. CASE t \in Clients \cup Callers /\ LockNotify(t)
    <2>1. a # t
      BY <1>6, BrokerAssumption
    <2>2. a \notin mu /\ a \notin mu' /\ at'[a] = at[a] /\ reach' = reach
      BY <1>0, <1>6, <2>1 DEF LockNotify
    <2> QED BY <1>0, <1>1, <1>2, <1>3, <2>2, AlertFrame
  <1>7. CASE Unlock(t)
    <2>1. /\ todo = <<>> /\ mu' = {} /\ reach' = reach
          /\ at'[a] = at[a] \/ at'[a] = "gone"
      BY <1>0, <1>7, BrokerAssumption DEF Unlock, Send
    <2>2. ~Owes(a, c)
      BY <2>1, EmptyList DEF Owes
    <2>3. at'[a] \in {"idle", "lock"} => at[a] \in {"idle", "lock"}
      BY <2>1
    <2> QED BY <1>0, <1>1, <1>2, <1>3, <2>1, <2>2, <2>3, AlertFrame
  <1> QED BY <1>4, <1>5, <1>6, <1>7

\* The line of the alert reaches a connection.
LEMMA LineAlertInv ==
  ASSUME Base, AlertInv, NEW t \in Threads,
         Put(t) \/ Flush(t) \/ FlushNothing(t) \/ FlushFails(t) \/ FlushDone(t)
  PROVE  AlertInv'
  <1>0. TypeOK /\ StepInv /\ ListInv /\ StepOf(t)
    BY DEF Base, StepInv
  <1>1. PICK c \in Clients :
          /\ c = Target(t) /\ UNCHANGED <<mu, asked, due, reach>>
          /\ Puts(t) \/ Flushes(t) \/ Ends(t)
          /\ \A u \in Threads \ {t} : at'[u] = at[u] /\ job'[u] = job[u]
          /\ at[t] \in Busy /\ job[t] \in Line
          /\ Replies(t) => /\ c = t /\ mu' = mu /\ t \notin mu /\ job[t] \in Answers
                           /\ Ends(t) => at'[t] \in {"idle", "leave"}
          /\ ~Replies(t) => /\ mu = {t} /\ c \in Kept /\ at'[t] \in Busy /\ job' = job
                            /\ job[t] \notin Answers
          /\ \A d \in Clients : link'[d] = "up" => link[d] = "up"
          /\ \A d \in Clients \ {c} : log'[d] = log[d]
          /\ raced \subseteq raced'
          /\ (Puts(t) /\ (c \notin raced' \/ at[c] = "tail")) \/ Ends(t) => log'[c] = log[c]
          /\ log'[c] \in {log[c], <<>>, Append(log[c], job[t])}
    BY LineFacts
  <1>2. Clients \subseteq Threads /\ Alerts \subseteq Threads /\ DOMAIN at = Threads /\ DOMAIN log = Clients
    BY <1>0 DEF Threads, TypeOK
  <1>3. t \in Alerts => ~Replies(t) /\ job[t] = AlertOf(t)
    BY <1>0, <1>1, LineKinds DEF StepOf, Replies
  <1>4. \A a \in Alerts : job[t] = AlertOf(a) => a = t
    <2> SUFFICES ASSUME NEW a \in Alerts, job[t] = AlertOf(a)
                 PROVE  a = t
      OBVIOUS
    <2>1. t \in Alerts
      BY <1>0, <1>1, LineKinds DEF StepOf, Threads
    <2> QED BY <1>3, <2>1 DEF AlertOf
  <1>5. /\ \A d \in Clients : at'[d] = "gone" => at[d] = "gone"
        /\ \A a \in Alerts : at'[a] \in {"idle", "lock"} => at[a] \in {"idle", "lock"}
    <2>1. Puts(t) \/ Flushes(t) => at'[t] \in Busy
      BY <1>2 DEF Puts, Flushes, Busy
    <2>2. Ends(t) => at'[t] \in {"idle", "leave"} \cup Busy
      BY <1>1
    <2>3. at'[t] # "gone" /\ (t \in Alerts => at'[t] \in Busy)
      BY <1>1, <1>3, <2>1, <2>2 DEF Busy
    <2> QED BY <1>1, <1>2, <2>3 DEF Busy
  <1>6. c \notin raced' /\ link'[c] = "up" =>
          /\ c \notin raced /\ link[c] = "up" /\ Clean(c)
          /\ Puts(t) \/ Ends(t) => log'[c] = log[c]
          /\ Flushes(t) => log'[c] = Append(log[c], job[t])
    BY <1>1, <1>2 DEF Clean, Flushes
  \* Where the line is of no concern to the alert.
  <1>7. ASSUME NEW a \in Alerts, NEW d \in Clients, d # c \/ a # t
        PROVE  ReachOf(a, d)'
    <2>1. (a \in mu' /\ Owes(a, d)') <=> (a \in mu /\ Owes(a, d))
      BY <1>1, <1>7, LineOwes
    <2>2. \/ Of(d, {AlertOf(a)})' = Of(d, {AlertOf(a)})
          \/ Of(d, {AlertOf(a)})' = <<>> /\ (d \in raced' \/ link'[d] # "up")
      <3>1. /\ Of(d, {AlertOf(a)}) \in Seq(Line)
            /\ log'[d] = log[d] => Of(d, {AlertOf(a)})' = Of(d, {AlertOf(a)})
            /\ log'[d] = <<>> => Of(d, {AlertOf(a)})' = <<>>
            /\ \A l \in Line : log'[d] = Append(log[d], l) =>
                 Of(d, {AlertOf(a)})' = IF l \in {AlertOf(a)} THEN Append(Of(d, {AlertOf(a)}), l) ELSE Of(d, {AlertOf(a)})
        BY <1>0, OfLog
      <3>2. CASE d # c
        BY <1>1, <3>1, <3>2
      <3>3. CASE d = c
        <4>1. job[t] \notin {AlertOf(a)}
          BY <1>4, <1>7, <3>3
        <4>2. CASE log'[d] = <<>> /\ ~(d \in raced' \/ link'[d] # "up")
          BY <1>1, <1>6, <3>1, <3>3, <4>1, <4>2
        <4>3. CASE ~(log'[d] = <<>> /\ ~(d \in raced' \/ link'[d] # "up"))
          BY <1>1, <3>1, <3>3, <4>1, <4>3
        <4> QED BY <4>2, <4>3
      <3> QED BY <3>2, <3>3
    <2>3. ReachOf(a, d) /\ reach' = reach
      BY <1>1 DEF AlertInv
    <2>4. d \notin raced' /\ link'[d] = "up" => d \notin raced /\ link[d] = "up"
      BY <1>1
    <2> QED BY <1>5, <2>1, <2>2, <2>3, <2>4, AlertFrame
  \* Where it is its own.
  <1>8. ASSUME t \in Alerts
        PROVE  ReachOf(t, c)'
    <2>0. /\ ~Replies(t) /\ job[t] = AlertOf(t) /\ mu = {t} /\ mu' = {t} /\ at'[t] \in Busy /\ reach' = reach
          /\ ReachOf(t, c) /\ AlertOf(t)' = AlertOf(t)
      BY <1>1, <1>3, <1>8 DEF AlertInv, AlertOf
    <2>1. at'[c] = "gone" => c \notin reach'[t]
      BY <1>5, <2>0 DEF ReachOf
    <2>2. at'[t] \notin {"idle", "lock"}
      BY <2>0 DEF Busy
    <2>3. ASSUME c \in reach'[t] \ raced', link'[c] = "up"
          PROVE  Len(Of(c, {AlertOf(t)})') = IF t \in mu' /\ Owes(t, c)' THEN 0 ELSE 1
      <3>1. /\ Len(Of(c, {AlertOf(t)})) = IF Owes(t, c) THEN 0 ELSE 1
            /\ c \notin raced /\ link[c] = "up" /\ Clean(c)
            /\ Puts(t) \/ Ends(t) => log'[c] = log[c]
            /\ Flushes(t) => log'[c] = Append(log[c], job[t])
        BY <1>6, <2>0, <2>3 DEF ReachOf
      <3>2. /\ Puts(t) => Owes(t, c) /\ Owes(t, c)'
            /\ Flushes(t) => Owes(t, c) /\ ~Owes(t, c)'
            /\ Ends(t) => ~Owes(t, c)' /\ (at[t] = "done" => ~Owes(t, c))
        BY <1>1, <2>0, LineOwes
      <3>3. /\ Of(c, {AlertOf(t)}) \in Seq(Line)
            /\ log'[c] = log[c] => Of(c, {AlertOf(t)})' = Of(c, {AlertOf(t)})
            /\ log'[c] = Append(log[c], job[t]) =>
                 Of(c, {AlertOf(t)})' = Append(Of(c, {AlertOf(t)}), job[t])
        <4>1. job[t] \in Line /\ job[t] \in {AlertOf(t)}
          BY <1>1, <2>0
        <4> QED BY <1>0, <4>1, OfLog
      <3>4. CASE Puts(t)
        BY <2>0, <3>1, <3>2, <3>3, <3>4
      <3>5. CASE Flushes(t)
        <4>1. PICK had \in Seq(Line) : had = Of(c, {AlertOf(t)})
          BY <3>3
        <4>2. Len(had) = 0 /\ Of(c, {AlertOf(t)})' = Append(had, job[t])
          BY <3>1, <3>2, <3>3, <3>5, <4>1
        <4>3. Len(Append(had, job[t])) = 1
          BY <1>1, <4>2
        <4>4. ~Owes(t, c)'
          BY <3>2, <3>5
        <4> QED BY <4>2, <4>3, <4>4
      <3>6. CASE Ends(t)
        <4>1. at[t] = "done"
          BY <1>1, <2>3, <3>1, <3>6 DEF Ends
        <4> QED BY <2>0, <3>1, <3>2, <3>3, <3>6, <4>1
      <3> QED BY <1>1, <3>4, <3>5, <3>6
    <2> QED BY <2>0, <2>1, <2>2, <2>3 DEF ReachOf
  <1> SUFFICES ASSUME NEW a \in Alerts, NEW d \in Clients
               PROVE  ReachOf(a, d)'
    BY DEF AlertInv
  <1> QED BY <1>7, <1>8

\* Every step keeps the count of the lines of an alert.
LEMMA NextAlertInv == Base /\ AlertInv /\ [Next]_vars => AlertInv'
  <1> SUFFICES ASSUME Base, AlertInv, [Next]_vars
               PROVE  AlertInv'
    OBVIOUS
  <1>1. CASE UNCHANGED vars
    BY <1>1 DEF AlertInv, ReachOf, Of, Owes, AlertOf, vars, lists, pipes, hist
  <1>2. CASE Next
    <2>1. \A c \in Clients, s \in Series : handleWrite(c, s) => c \in Threads /\ c \notin Alerts /\ WritePoint(c, s)
      BY BrokerAssumption DEF handleWrite, Threads
    <2>2. \A r \in Callers, s \in Series : handleRESTWrite(r, s) => r \in Threads /\ r \notin Alerts /\ WritePoint(r, s)
      BY BrokerAssumption DEF handleRESTWrite, Threads
    <2>3. Clients \cup Callers \subseteq Threads /\ Alerts \subseteq Threads
      BY DEF Threads
    <2>4. ASSUME NEW t \in Threads, Step(t)
          PROVE  AlertInv'
      BY <2>4, LockAlertInv, LineAlertInv DEF Step
    <2> QED BY <1>2, <2>1, <2>2, <2>3, <2>4, ClientAlertInv, LockAlertInv DEF Next
  <1> QED BY <1>1, <1>2

\* AlertsReachAll holds of every state: when BroadcastAlert is through, all that were
\* connected, and still are, have its line once.
THEOREM AlertsReached == Spec => []AlertsReachAll
  <1> DEFINE I == Base /\ AlertInv
  <1>1. Init => I
    BY InitStepInv, InitListInv, InitWriterInv, InitAlertInv DEF Base
  <1>2. I /\ [Next]_vars => I'
    BY NextBase, NextAlertInv
  <1>3. I => AlertsReachAll
    <2> SUFFICES ASSUME Base, AlertInv, NEW a \in Alerts, at[a] = "gone",
                        NEW c \in reach[a] \ raced, link[c] = "up"
                 PROVE  Len(Of(c, {AlertOf(a)})) = 1
      BY DEF AlertsReachAll
    <2>1. c \in Clients /\ ReachOf(a, c) /\ TypeOK /\ StepInv
      BY DEF Base, AlertInv, TypeOK
    <2>2. a \notin mu
      BY <2>1, Holder DEF Busy
    <2> QED BY <2>1, <2>2 DEF ReachOf
  <1> QED BY <1>1, <1>2, <1>3, PTL DEF Spec
=============================================================================
