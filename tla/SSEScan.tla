------------------------------- MODULE SSEScan -------------------------------
(***************************************************************************)
(* sse.ScanEvents (src/internal/sse/iter.go): a pull iterator that decodes *)
(* server-sent events from a byte stream, line by line, and hands each one *)
(* to its consumer through yield.  The scanner and the consumer alternate: *)
(* between a yield and its answer only the consumer runs.                  *)
(*                                                                         *)
(* A line is its field and its trimmed value.  The field "other" stands    *)
(* for comments (an empty name) and unknown names, which the code treats   *)
(* alike; "nocolon" is a non-empty line without a colon.  The text of data *)
(* lines joined by newlines is the sequence of their values.               *)
(***************************************************************************)
EXTENDS Naturals, Sequences

CONSTANTS
  Text,      \* the values of fields, "" among them
  Lines      \* the lines a stream may carry

Fields == {"blank", "event", "id", "retry", "data", "other", "nocolon"}

ASSUME LinesAssumption ==
  "" \in Text /\ Lines \subseteq [field : Fields, val : Text]

VARIABLES
  wire,     \* lines the reader delivers and the scanner has not read
  ending,   \* "open", or how the stream ends once wire is empty
  spc,      \* where the iterator function is
  evt,      \* the record being decoded
  dataBuf,  \* the run of data lines being collected; <<>> is a nil buffer
  item,     \* what is being yielded
  out,      \* everything yielded, in order
  read,     \* every line scanned, in order
  stopped   \* the consumer answered false

stream  == <<wire, ending>>
decoder == <<evt, dataBuf>>
history == <<out, read, stopped>>
scanVars == <<stream, spc, decoder, item, history>>

NoEvent == [name |-> "", id |-> "", retry |-> "", data |-> <<>>]
Event   == [name : Text, id : Text, retry : Text, data : Seq(Text)]

\* A single data line without text joins to no bytes.
Empty(e) == /\ e.name = "" /\ e.id = "" /\ e.retry = ""
            /\ e.data \in {<<>>, <<"">>}

Endings  == {"eof", "readError", "tooLong"}
Failures == {"nil", "malformed", "readError", "tooLong"}
Item(e, err) == [evt |-> e, err |-> err]

ScanInit ==
  /\ wire = <<>> /\ ending = "open"
  /\ spc = "scan" /\ evt = NoEvent /\ dataBuf = <<>>
  /\ item = Item(NoEvent, "nil")
  /\ out = <<>> /\ read = <<>> /\ stopped = FALSE

-----------------------------------------------------------------------------
MutFlushed(e, buf) == [e EXCEPT !.data = buf]

\* flushData: the collected run becomes the data of the event.
Flushed(e, buf) == IF buf # <<>> THEN [e EXCEPT !.data = buf] ELSE e

\* yield(e, err) with spc = pc afterwards: the consumer has it.
Yield(e, err, pc) ==
  /\ item' = Item(e, err)
  /\ out' = Append(out, Item(e, err))
  /\ spc' = pc

\* s.Scan() returned the next line.
Scan(field) ==
  /\ spc = "scan" /\ wire # <<>> /\ Head(wire).field = field
  /\ wire' = Tail(wire)
  /\ read' = Append(read, Head(wire))
  /\ UNCHANGED <<ending, stopped>>

\* A blank line ends the record: yield it unless it is empty.
BlankLine ==
  /\ Scan("blank")
  /\ dataBuf' = <<>>
  /\ LET e == Flushed(evt, dataBuf) IN
       IF Empty(e) THEN evt' = NoEvent /\ UNCHANGED <<spc, item, out>>
                   ELSE evt' = e /\ Yield(e, "nil", "yieldRecord")

\* A line without a colon is a terminal error.
MalformedLine ==
  /\ Scan("nocolon")
  /\ Yield(NoEvent, "malformed", "yieldLast")
  /\ UNCHANGED decoder

WithField(e, l) ==
  CASE l.field = "event" -> [e EXCEPT !.name = l.val]
    [] l.field = "id"    -> [e EXCEPT !.id = l.val]
    [] l.field = "retry" -> [e EXCEPT !.retry = l.val]
    [] OTHER             -> e

\* Any field but data ends the run of data lines and may set a field.
FieldLine ==
  /\ \E f \in {"event", "id", "retry", "other"} : Scan(f)
  /\ evt' = WithField(Flushed(evt, dataBuf), Head(wire))
  /\ dataBuf' = <<>>
  /\ UNCHANGED <<spc, item, out>>

MutDataLineAlwaysJoins ==
  /\ Scan("data")
  /\ dataBuf' = dataBuf \o <<"newline", Head(wire).val>>
  /\ UNCHANGED <<spc, evt, item, out>>

\* A data line starts or extends the run.
DataLine ==
  /\ Scan("data")
  /\ dataBuf' = Append(dataBuf, Head(wire).val)
  /\ UNCHANGED <<spc, evt, item, out>>

MutErrUnchecked ==
  /\ spc = "scan" /\ wire = <<>> /\ ending # "open"
  /\ spc' = "final"
  /\ UNCHANGED <<stream, decoder, item, history>>

MutNoLineLimit ==
  /\ spc = "scan" /\ wire = <<>> /\ ending # "open"
  /\ CASE ending = "eof"       -> spc' = "final" /\ UNCHANGED <<item, out>>
       [] ending = "readError" -> Yield(NoEvent, ending, "yieldError")
       [] ending = "tooLong"   -> UNCHANGED <<spc, item, out>>
  /\ UNCHANGED <<stream, decoder, read, stopped>>

\* s.Scan() returned false: report s.Err(), if any.
EndOfStream ==
  /\ spc = "scan" /\ wire = <<>> /\ ending # "open"
  /\ IF ending = "eof" THEN spc' = "final" /\ UNCHANGED <<item, out>>
                       ELSE Yield(NoEvent, ending, "yieldError")
  /\ UNCHANGED <<stream, decoder, read, stopped>>

\* After the loop the unfinished record is yielded too.
FinalRecord ==
  /\ spc = "final"
  /\ dataBuf' = <<>> /\ evt' = Flushed(evt, dataBuf)
  /\ IF Empty(evt') THEN spc' = "done" /\ UNCHANGED <<item, out>>
                    ELSE Yield(evt', "nil", "yieldLast")
  /\ UNCHANGED <<stream, read, stopped>>

Yielding == spc \in {"yieldRecord", "yieldError", "yieldLast"}

MutContinue ==
  /\ Yielding
  /\ spc' = CASE spc = "yieldRecord" -> "scan"
              [] spc = "yieldError"  -> "final"
              [] spc = "yieldLast"   -> "done"
  /\ UNCHANGED <<stream, decoder, item, history>>

\* yield returned true.
Continue ==
  /\ Yielding
  /\ spc' = CASE spc = "yieldRecord" -> "scan"
              [] spc = "yieldError"  -> "final"
              [] spc = "yieldLast"   -> "done"
  /\ evt' = IF spc = "yieldRecord" THEN NoEvent ELSE evt
  /\ UNCHANGED <<stream, dataBuf, item, history>>

MutStop ==
  /\ Yielding
  /\ spc' = IF spc = "yieldError" THEN "final" ELSE "done"
  /\ stopped' = TRUE
  /\ UNCHANGED <<stream, decoder, item, out, read>>

\* yield returned false: the consumer left its loop.
Stop ==
  /\ Yielding
  /\ spc' = "done" /\ stopped' = TRUE
  /\ UNCHANGED <<stream, decoder, item, out, read>>

\* The iterator's own steps.
ScanStep == \/ BlankLine \/ MalformedLine \/ FieldLine \/ DataLine
            \/ EndOfStream \/ FinalRecord

\* How many steps the scanner can still take once the stream has ended: two for
\* every line, and those behind the last one.
ScanLeft == CASE spc = "scan"        -> 2 * Len(wire) + 4
              [] spc = "yieldRecord" -> 2 * Len(wire) + 5
              [] spc = "yieldError"  -> 3
              [] spc = "final"       -> 2
              [] spc = "yieldLast"   -> 1
              [] spc = "done"        -> 0
=============================================================================
