----------------------------- MODULE SSEService -----------------------------
(***************************************************************************)
(* The other end of an event stream (external): how a service writes an    *)
(* event as lines, and how a stream that is being written can end.         *)
(***************************************************************************)
EXTENDS SSEScan, SequencesExt

CONSTANT Payloads   \* Payloads[n]: the lines of the data of the n-th event

VARIABLES
  layout,  \* how the service writes an event
  text     \* every line the service has written, in order

\* A JSON text is no beginning of another, and "cut" is no line of one.
ASSUME PayloadsAssumption ==
  /\ Payloads \in Seq(Seq(Text \ {"", "cut"}) \ {<<>>})
  /\ \A m, n \in DOMAIN Payloads : IsPrefix(Payloads[m], Payloads[n]) => m = n

Layouts == [dataFirst : BOOLEAN, keepAlive : BOOLEAN]

NewLine(f, v) == [field |-> f, val |-> v]
Blank == NewLine("blank", "")
DataLines(n) == [i \in 1 .. Len(Payloads[n]) |-> NewLine("data", Payloads[n][i])]

\* Event n as lines: its name and data in either order, a blank line, and a
\* comment between two events to keep the connection alive.
Written(l, name, n) ==
  LET nameLine == <<NewLine("event", name)>>
  IN  (IF l.keepAlive THEN <<NewLine("other", ""), Blank>> ELSE <<>>)
      \o (IF l.dataFirst THEN DataLines(n) \o nameLine
                              ELSE nameLine \o DataLines(n))
      \o <<Blank>>

Write(lines) == wire' = wire \o lines /\ text' = text \o lines

\* Event n was read whole: the blank line behind it, and those behind the comments
\* between events, are among the lines read.
Blanks(lines) == Cardinality({i \in DOMAIN lines : lines[i].field = "blank"})
ReadWhole(n)  == Blanks(read) >= IF layout.keepAlive THEN 2 * n ELSE n

\* What is left of a line that is cut: no colon yet, no value yet, a piece.
Pieces(l) ==
  IF l.field = "blank" THEN {}
  ELSE {NewLine("nocolon", "")} \cup {NewLine(l.field, v) : v \in {"", "cut"}}

\* The stream ends after any of the lines still to be read, or within one:
\* the service closes it, the connection breaks, the context is cancelled.
\* A line over the size limit leaves no piece.
CutStream ==
  /\ ending = "open"
  /\ ending' \in Endings
  /\ \E n \in 0 .. Len(wire) :
       \/ wire' = SubSeq(wire, 1, n)
       \/ /\ n < Len(wire) /\ ending' # "tooLong"
          /\ \E p \in Pieces(wire[n + 1]) : wire' = Append(SubSeq(wire, 1, n), p)
  /\ UNCHANGED <<spc, decoder, item, history>>

\* json.Unmarshal accepts the complete data of an event, and no piece of it.
Decodes(e, n) == n \in DOMAIN Payloads /\ e.data = Payloads[n]
Decodable(e) == \E n \in DOMAIN Payloads : Decodes(e, n)
=============================================================================
