------------------------------ MODULE Gateway ------------------------------
(***************************************************************************)
(* A dashboard on the WebSocket gateway: wsConn.Read and wsConn.Write      *)
(* (backend/server/websocket.go) around one connection of server.go, whose *)
(* answers leave through a bufio.Writer of BufSize bytes, and the main     *)
(* connection of the browser (ui/app.js): runQuery, handleWrite and        *)
(* handleServerMessage, which takes every frame for whole lines.           *)
(*                                                                         *)
(* A line is two units and a newline, so that it can be cut inside.  Two   *)
(* goroutines write frames: the connection's, with answers, pongs and the  *)
(* echo of a close, and one that broadcasts an alert.  Where they meet on  *)
(* the bufio.Writer is Broker's subject; here they meet on writeLock only. *)
(***************************************************************************)
EXTENDS Integers, SequencesExt

CONSTANTS
  BufSize,     \* 4096, in units
  ReadSize,    \* what the scanner asks Read for
  Small, Mid,  \* 125 and 65535: the longest payloads of a 7 and a 16 bit length
  RowCounts,   \* how many rows a query may be answered with
  MaxCommands, \* bound: commands the browser sends
  MaxAlerts,   \* bound: alerts broadcast
  MaxPings     \* bound: pings of the client

ASSUME GatewayAssumption ==
  /\ BufSize \in Nat \ {0} /\ ReadSize \in Nat \ {0}
  /\ Small \in Nat \ {0} /\ Mid \in Nat /\ Small < Mid
  /\ RowCounts \subseteq Nat
  /\ MaxCommands \in Nat /\ MaxAlerts \in Nat /\ MaxPings \in Nat

\* Lines: commands, and what the server sends.
Command == [kind : {"QUERY", "WRITE"}, id : 1..MaxCommands]
Row(q, i) == [kind |-> "row", id |-> q, num |-> i]
End(q)    == [kind |-> "END", id |-> q]
Err(q)    == [kind |-> "ERR", id |-> q]
Ok(c)     == [kind |-> "OK", id |-> c]
Alert(a)  == [kind |-> "ALERT", id |-> a]

newline == [line |-> [kind |-> "newline"], part |-> 0]
Body(l)  == <<[line |-> l, part |-> 1], [line |-> l, part |-> 2]>>
Bytes(l) == Append(Body(l), newline)
Text(lines) == FlattenSeq([i \in DOMAIN lines |-> Bytes(lines[i])])

VARIABLES
  up,       \* Seq(frames): from the browser, in order
  readBuf,  \* wsConn.readBuf
  scan,     \* what the scanner holds and has not taken for a line yet
  conn,     \* the connection: "open" or "closed" by the server
  reply,    \* what the command in progress has still to send
  out,      \* [Writers -> the frame in hand]: step "none", "lock" or "payload"
  writeLock,
  wire,     \* Seq(headers and units): bytes on their way to the browser
  pending,  \* state.pendingQuery
  rows,     \* state.queryBuffer, pieces of text
  query,    \* state.lastQueryRange, as the id of its command
  shown,    \* what processQueryLines has last got: [query, rows, crossed]
  \* history
  sent,     \* Seq(Command): what the browser has sent
  handled,  \* Seq(pieces): what the scanner has taken for commands
  answer,   \* [1..MaxCommands -> rows of the answer; -1: ERR, -2: none yet]
  crossed,  \* something else was under way while the query was pending
  alerts, pings,
  hungup    \* the browser has closed the connection

server  == <<readBuf, scan, conn, reply>>
browser == <<pending, rows, query, shown>>
hist    == <<sent, handled, answer, crossed, alerts, pings, hungup>>
vars    == <<up, server, out, writeLock, wire, browser, hist>>

Writers == {"conn", "alert"}
noFrame == [step |-> "none"]

Init ==
  /\ up = <<>> /\ readBuf = <<>> /\ scan = <<>> /\ conn = "open" /\ reply = <<>>
  /\ out = [t \in Writers |-> noFrame] /\ writeLock = {} /\ wire = <<>>
  /\ pending = FALSE /\ rows = <<>> /\ query = 0
  /\ shown = [query |-> 0, rows |-> <<>>, crossed |-> FALSE]
  /\ sent = <<>> /\ handled = <<>> /\ answer = [q \in 1..MaxCommands |-> -2]
  /\ crossed = FALSE /\ alerts = 0 /\ pings = 0 /\ hungup = FALSE
-----------------------------------------------------------------------------
(* wsConn.Write and the control frames: a header and a payload, under writeLock *)

\* The code is the length, or says how long the length after it is.
Header(op, n) ==
  IF n <= Small THEN [op |-> op, code |-> n, ext |-> 0]
  ELSE IF n <= Mid THEN [op |-> op, code |-> Small + 1, ext |-> n % (Mid + 1)]
  ELSE [op |-> op, code |-> Small + 2, ext |-> n]

\* How a browser reads it.
Length(h) == IF h.code <= Small THEN h.code ELSE h.ext

InHand(op, data) == [step |-> "lock", op |-> op, data |-> data]

\* Mutant: writeLock is not taken.
WriteHeader_Unlocked(t) ==
  /\ out[t].step = "lock" /\ conn = "open"
  /\ writeLock' = writeLock \cup {t}
  /\ wire' = Append(wire, Header(out[t].op, Len(out[t].data)))
  /\ out' = [out EXCEPT ![t].step = "payload"]
  /\ UNCHANGED <<up, server, browser, hist>>

WriteHeader(t) ==
  /\ out[t].step = "lock" /\ conn = "open" /\ writeLock = {}
  /\ writeLock' = {t}
  /\ wire' = Append(wire, Header(out[t].op, Len(out[t].data)))
  /\ out' = [out EXCEPT ![t].step = "payload"]
  /\ UNCHANGED <<up, server, browser, hist>>

\* Mutant: writeLock is not released.
WritePayload_KeepsLock(t) ==
  /\ out[t].step = "payload"
  /\ wire' = wire \o out[t].data
  /\ out' = [out EXCEPT ![t] = noFrame]
  /\ conn' = IF out[t].op = "close" THEN "closed" ELSE conn
  /\ UNCHANGED <<up, readBuf, scan, reply, writeLock, browser, hist>>

\* With the Flush.  After the echo of a close, Read returns EOF and the
\* connection is closed.
WritePayload(t) ==
  /\ out[t].step = "payload"
  /\ wire' = wire \o out[t].data
  /\ writeLock' = writeLock \ {t}
  /\ out' = [out EXCEPT ![t] = noFrame]
  /\ conn' = IF out[t].op = "close" THEN "closed" ELSE conn
  /\ UNCHANGED <<up, readBuf, scan, reply, browser, hist>>

\* The connection is closed: the flush returns an error.
WriteFails(t) ==
  /\ out[t].step = "lock" /\ conn = "closed"
  /\ out' = [out EXCEPT ![t] = noFrame]
  /\ UNCHANGED <<up, server, writeLock, wire, browser, hist>>

\* The connection's goroutine is between two commands and reads.
Reading == conn = "open" /\ reply = <<>> /\ out["conn"] = noFrame

\* BroadcastAlert; an alert and an answer do not overlap here.
BroadcastAlert ==
  /\ Reading /\ out["alert"] = noFrame /\ alerts < MaxAlerts
  /\ alerts' = alerts + 1
  /\ out' = [out EXCEPT !["alert"] = InHand("text", Bytes(Alert(alerts + 1)))]
  /\ crossed' = TRUE
  /\ UNCHANGED <<up, server, writeLock, wire, browser, sent, handled, answer, pings, hungup>>
-----------------------------------------------------------------------------
(* wsConn.Read, the scanner, and the commands *)

\* Mutant: no newline is appended.
Payload_AsSent(data) == data

\* The payload of a text frame, which ends a line.
Payload(data) == IF data # <<>> /\ Last(data) # newline THEN Append(data, newline) ELSE data

NeedsData == Reading /\ ~Contains(scan, newline)

\* The next frame: its payload, or a pong, or the echo of a close, or the end of
\* the connection if it is too long.
ReadFrame ==
  /\ NeedsData /\ readBuf = <<>> /\ up # <<>>
  /\ up' = Tail(up)
  /\ LET f == Head(up) IN
     \/ f.op = "text" /\ readBuf' = Payload(f.data) /\ UNCHANGED <<out, conn>>
     \/ /\ f.op = "ping"
        /\ out' = [out EXCEPT !["conn"] = InHand("pong", f.data)]
        /\ UNCHANGED <<readBuf, conn>>
     \/ /\ f.op = "close"
        /\ out' = [out EXCEPT !["conn"] = InHand("close", <<>>)]
        /\ UNCHANGED <<readBuf, conn>>
     \/ f.op = "oversized" /\ conn' = "closed" /\ UNCHANGED <<readBuf, out>>
  /\ UNCHANGED <<scan, reply, writeLock, wire, browser, hist>>

\* Read returns what the scanner has room for, and keeps the rest.
ReadRest ==
  /\ NeedsData /\ readBuf # <<>>
  /\ LET n == IF Len(readBuf) < ReadSize THEN Len(readBuf) ELSE ReadSize
     IN /\ scan' = scan \o SubSeq(readBuf, 1, n)
        /\ readBuf' = SubSeq(readBuf, n + 1, Len(readBuf))
  /\ UNCHANGED <<up, conn, reply, out, writeLock, wire, browser, hist>>

\* What a query is answered with: rows and END, or ERR.
Answer(q, n) ==
  IF n = -1 THEN Bytes(Err(q))
  ELSE Text([i \in 1..n |-> Row(q, i)] \o <<End(q)>>)

\* A line is taken for a command.  One that is none is answered with ERR.
ScanLine ==
  /\ Reading /\ Contains(scan, newline) /\ out["alert"] = noFrame
  /\ LET i    == CHOOSE k \in DOMAIN scan : scan[k] = newline /\ \A j \in 1..(k - 1) : scan[j] # newline
         line == SubSeq(scan, 1, i - 1)
         c    == scan[1].line
     IN /\ scan' = SubSeq(scan, i + 1, Len(scan))
        /\ handled' = Append(handled, line)
        /\ IF line = Body(c) /\ c.kind = "QUERY"
           THEN \E n \in RowCounts \cup {-1} :
                  /\ reply' = Answer(c.id, n)
                  /\ answer' = [answer EXCEPT ![c.id] = n]
           ELSE /\ reply' = Bytes(IF line = Body(c) THEN Ok(c.id) ELSE Err(0))
                /\ UNCHANGED answer
  /\ UNCHANGED <<up, readBuf, conn, out, writeLock, wire, browser, sent, crossed, alerts, pings,
                 hungup>>

\* A full bufio.Writer, or the Flush at the end of the command, is a frame.
FlushReply ==
  /\ reply # <<>> /\ out["conn"] = noFrame
  /\ LET n == IF Len(reply) < BufSize THEN Len(reply) ELSE BufSize
     IN /\ out' = [out EXCEPT !["conn"] = InHand("text", SubSeq(reply, 1, n))]
        /\ reply' = SubSeq(reply, n + 1, Len(reply))
  /\ UNCHANGED <<up, readBuf, scan, conn, writeLock, wire, browser, hist>>
-----------------------------------------------------------------------------
(* The browser *)

Quiet == up = <<>> /\ readBuf = <<>> /\ scan = <<>> /\ reply = <<>> /\ wire = <<>>
           /\ \A t \in Writers : out[t] = noFrame

\* The dashboard ends its commands with a newline, other clients need not.
SendCommand(c) ==
  /\ ~hungup /\ Len(sent) < MaxCommands
  /\ sent' = Append(sent, c)
  /\ \E data \in {Body(c), Bytes(c)} : up' = Append(up, [op |-> "text", data |-> data])
  /\ UNCHANGED <<server, out, writeLock, wire, shown, handled, answer, alerts, pings, hungup>>

\* runQuery
SendQuery ==
  LET q == Len(sent) + 1 IN
  /\ SendCommand([kind |-> "QUERY", id |-> q])
  /\ pending' = TRUE /\ rows' = <<>> /\ query' = q
  /\ crossed' = (pending \/ ~Quiet)

SendWrite ==
  /\ SendCommand([kind |-> "WRITE", id |-> Len(sent) + 1])
  /\ crossed' = TRUE
  /\ UNCHANGED <<pending, rows, query>>

\* A ping, or a frame above MaxIncomingPayloadSize.
SendOther(op) ==
  /\ ~hungup /\ pings < MaxPings
  /\ pings' = pings + 1
  /\ up' = Append(up, [op |-> op, data |-> <<>>])
  /\ UNCHANGED <<server, out, writeLock, wire, browser, sent, handled, answer, crossed, alerts,
                 hungup>>

disconnectServer ==
  /\ ~hungup /\ hungup' = TRUE
  /\ up' = Append(up, [op |-> "close", data |-> <<>>])
  /\ UNCHANGED <<server, out, writeLock, wire, browser, sent, handled, answer, crossed, alerts,
                 pings>>

\* The lines of a message: split at newlines, empty ones skipped.
Lines(data) ==
  LET full(p) == IF p.rest = <<>> THEN p.lines ELSE Append(p.lines, p.rest)
      split[n \in 0..Len(data)] ==
        IF n = 0 THEN [lines |-> <<>>, rest |-> <<>>]
        ELSE IF data[n] = newline THEN [lines |-> full(split[n - 1]), rest |-> <<>>]
        ELSE [lines |-> split[n - 1].lines, rest |-> Append(split[n - 1].rest, data[n])]
  IN full(split[Len(data)])

IsEnd(l) == l = Body(End(l[1].line.id))
IsErr(l) == l[1] = [line |-> Err(l[1].line.id), part |-> 1]

\* A line that ends the answer of a pending query.
EndsAnswer(l) == IsEnd(l) \/ IsErr(l)

\* Mutant: one row short.
Buffered_Short(lines, n) == rows \o SubSeq(lines, 1, n - 2)

\* The lines before the n-th are rows.
Buffered(lines, n) == rows \o SubSeq(lines, 1, n - 1)

\* While a query is pending, every line up to the one that ends it is a row of its
\* answer.  Any other line is a banner or a status, or nothing.
OnLines(lines) ==
  LET ends == {i \in DOMAIN lines : EndsAnswer(lines[i])}
      n    == IF ends = {} THEN Len(lines) + 1 ELSE CHOOSE i \in ends : \A j \in ends : i <= j
  IN \/ ~pending /\ UNCHANGED <<pending, rows, shown>>
     \/ pending /\ ends = {} /\ rows' = Buffered(lines, n) /\ UNCHANGED <<pending, shown>>
     \/ /\ pending /\ ends # {} /\ pending' = FALSE /\ rows' = <<>>
        /\ shown' = IF IsEnd(lines[n])
                    THEN [query |-> query, rows |-> Buffered(lines, n), crossed |-> crossed]
                    ELSE shown

\* For the next whole frame; a pong or a close is no message.
handleServerMessage ==
  /\ wire # <<>> /\ Len(wire) > Length(Head(wire))
  /\ LET n == Length(Head(wire)) IN
     /\ wire' = SubSeq(wire, n + 2, Len(wire))
     /\ \E lines \in {IF Head(wire).op = "text" THEN Lines(SubSeq(wire, 2, n + 1)) ELSE <<>>} :
          OnLines(lines)
  /\ UNCHANGED <<up, server, out, writeLock, query, hist>>
-----------------------------------------------------------------------------
Serve == ReadFrame \/ ReadRest \/ ScanLine \/ FlushReply
WriteFrame(t) == WriteHeader(t) \/ WritePayload(t) \/ WriteFails(t)

Next ==
  \/ SendQuery \/ SendWrite \/ SendOther("ping") \/ SendOther("oversized") \/ disconnectServer
  \/ handleServerMessage
  \/ BroadcastAlert
  \/ Serve
  \/ \E t \in Writers : WriteFrame(t)

Spec == Init /\ [][Next]_vars

\* Goroutines that can move move, writeLock is fair, and the browser reads.
Fairness ==
  /\ WF_vars(Serve) /\ WF_vars(handleServerMessage)
  /\ \A t \in Writers : SF_vars(WriteFrame(t))

LiveSpec == Spec /\ Fairness
-----------------------------------------------------------------------------
IsHeader(b) == "op" \in DOMAIN b

\* RFC 6455: what is on the wire are headers, each followed by as much payload as
\* it says, of whatever length, also when an alert meets a pong or a close; only
\* the last payload may still be owed.
WireFramed ==
  /\ wire # <<>> => IsHeader(wire[1])
  /\ \A i \in DOMAIN wire : IsHeader(wire[i]) =>
       LET end == i + Length(wire[i]) IN
       /\ end > Len(wire) => i = Len(wire) /\ writeLock # {}
       /\ \A j \in (i + 1)..end : j \in DOMAIN wire => ~IsHeader(wire[j])
       /\ end + 1 \in DOMAIN wire => IsHeader(wire[end + 1])

\* websocket.go:110, "each frame line by line": the commands are those that were
\* sent, each for itself and in order, with or without a newline, however Read is
\* asked for them and whatever pings come between.
CommandsIntact ==
  /\ Len(handled) <= Len(sent)
  /\ \A i \in DOMAIN handled : handled[i] = Body(sent[i])

\* The answer that is shown has the rows of its query, all and in order, if the
\* answer fits the buffer and nothing else was under way: no other command, and
\* no alert.
AnswerExact ==
  LET q == shown.query IN
  q # 0 /\ ~shown.crossed /\ Len(Answer(q, answer[q])) <= BufSize =>
    answer[q] >= 0 /\ shown.rows = [i \in 1..answer[q] |-> Body(Row(q, i))]

\* A cut between two frames goes through the END of the answer.
EndCut(n) == (Len(Answer(1, n)) - 2) % BufSize = 0

\* A query that was sent ends, by its END or by an ERR, or the connection is
\* closed; provided that no END is cut in two.
QueryEnds ==
  (pending /\ \A n \in RowCounts : ~EndCut(n)) ~> (~pending \/ conn = "closed")
=============================================================================
