----------------------------- MODULE GatewayInv -----------------------------
(***************************************************************************)
(* The inductive invariants from which GatewayProofs derives the safety    *)
(* properties of Gateway.  Each is a state predicate of its own, so that   *)
(* TLC can check it before it is proved.                                   *)
(***************************************************************************)
EXTENDS Gateway, Selection

\* What goes over the connection, and in which frames.
AnyLine == Command \cup [kind : {"row"}, id : Nat, num : Nat]
                   \cup [kind : {"END", "ERR", "OK", "ALERT"}, id : Nat]
                   \cup [kind : {"newline"}]
Unit    == [line : AnyLine, part : 0..2]
Upward  == [op : {"text", "ping", "close", "oversized"}, data : Seq(Unit)]
Handed  == [step : {"lock", "payload"}, op : {"text", "pong", "close"}, data : Seq(Unit)]
Headers == [op : {"text", "pong", "close"}, code : Nat, ext : Nat]

TypeInv ==
  /\ up \in Seq(Upward) /\ readBuf \in Seq(Unit) /\ scan \in Seq(Unit)
  /\ conn \in {"open", "closed"} /\ reply \in Seq(Unit)
  /\ out \in [Writers -> {noFrame} \cup Handed]
  /\ wire \in Seq(Headers \cup Unit)
  /\ pending \in BOOLEAN /\ rows \in Seq(Seq(Unit)) /\ query \in 0..MaxCommands
  /\ shown \in [query : 0..MaxCommands, rows : Seq(Seq(Unit)), crossed : BOOLEAN]
  /\ sent \in Seq(Command) /\ Len(sent) <= MaxCommands /\ \A i \in DOMAIN sent : sent[i].id = i
  /\ handled \in Seq(Seq(Unit)) /\ answer \in [1..MaxCommands -> RowCounts \cup {-1, -2}]
  /\ crossed \in BOOLEAN /\ alerts \in 0..MaxAlerts /\ pings \in 0..MaxPings
  /\ hungup \in BOOLEAN

\* writeLock is held between a header and its payload, by one of them.
LockInv ==
  /\ writeLock = {t \in Writers : out[t].step = "payload"}
  /\ \A t, u \in writeLock : t = u

\* The header of the payload in hand is the last thing on the wire; of an empty
\* payload it may have been read already.
FrameInv ==
  /\ WireFramed
  /\ \A t \in writeLock :
       \/ wire = <<>> /\ out[t].data = <<>>
       \/ /\ wire # <<>> /\ IsHeader(wire[Len(wire)])
          /\ Length(wire[Len(wire)]) = Len(out[t].data)

\* Frames of commands.
Texts == {f \in Upward : f.op = "text"}

\* What is read and not handled is the next command, whole; the commands behind it
\* are in frames of their own.
CommandInv ==
  LET k     == Len(handled)
      held  == scan \o readBuf
      texts == Select(up, Texts)
      next  == IF held = <<>> THEN k ELSE k + 1
  IN /\ CommandsIntact
     /\ held # <<>> => k < Len(sent) /\ held = Bytes(sent[k + 1])
     /\ Len(texts) = Len(sent) - next
     /\ \A i \in DOMAIN texts : texts[i].data \in {Body(sent[next + i]), Bytes(sent[next + i])}

\* The only headers of text in w are those at the places T.
TextOnlyAt(w, T) == \A i \in DOMAIN w : (IsHeader(w[i]) /\ w[i].op = "text") <=> i \in T

\* The connection has no text in hand.
NoText == out["conn"] # noFrame => out["conn"].op # "text"

\* Nothing is sent by way of answer.
Silent == reply = <<>> /\ NoText /\ TextOnlyAt(wire, {})

\* An answer a is in the writer's buffer, in hand, or on the wire in one frame; or
\* it is lost, or not given yet.
InBuffer(a) == reply = a /\ NoText /\ TextOnlyAt(wire, {})
InFrame(a) ==
  /\ reply = <<>> /\ out["conn"] # noFrame /\ out["conn"].op = "text" /\ out["conn"].data = a
  /\ TextOnlyAt(wire, IF out["conn"].step = "payload" THEN {Len(wire)} ELSE {})
OnWire(a) ==
  /\ reply = <<>> /\ NoText
  /\ \E i \in DOMAIN wire :
       /\ TextOnlyAt(wire, {i}) /\ Length(wire[i]) = Len(a) /\ i + Len(a) <= Len(wire)
       /\ \A k \in DOMAIN a : wire[i + k] = a[k]
UnderWay(a) == Silent \/ InBuffer(a) \/ InFrame(a) \/ OnWire(a)

\* While a query is pending and nothing else is under way, it is the last command;
\* before it is handled nothing comes back, and then its answer does.
QueryInv ==
  pending /\ ~crossed =>
    /\ query > 0 /\ query = Len(sent) /\ sent[query].kind = "QUERY"
    /\ Len(handled) \in {query - 1, query} /\ out["alert"] = noFrame
    /\ Len(handled) = query - 1 => rows = <<>> /\ Silent
    /\ Len(handled) = query =>
         LET a == Answer(query, answer[query])
         IN answer[query] # -2 /\ (Len(a) <= BufSize => rows = <<>> /\ UnderWay(a))

\* The answer that is shown is one that was given.
AnswerInv ==
  /\ shown.query # 0 /\ ~shown.crossed => shown.query <= Len(handled)
  /\ AnswerExact
  /\ QueryInv
=============================================================================
