--------------------------- MODULE SSEStreamProofs ---------------------------
(***************************************************************************)
(* Proofs about the scanner for streams of any length and any lines: what  *)
(* its steps keep, and that it yields the events of SSEReference.          *)
(***************************************************************************)
EXTENDS SSEReference, SequenceTheorems, FiniteSetTheorems, WellFoundedInduction, TLAPS

Items == [evt : Event, err : Failures]

LEMMA NoEventIsEvent == NoEvent \in Event /\ Empty(NoEvent)
<1>1. "" \in Text
  BY LinesAssumption
<1>2. NoEvent \in Event
  BY <1>1, EmptySeq DEF NoEvent, Event
<1>3. Empty(NoEvent)
  BY DEF NoEvent, Empty
<1> QED
  BY <1>2, <1>3

\* flushData yields a well-formed event.
LEMMA FlushedIsEvent ==
  ASSUME NEW e \in Event, NEW buf \in Seq(Text)
  PROVE  Flushed(e, buf) \in Event
BY DEF Flushed, Event

\* Setting a field yields a well-formed event.
LEMMA WithFieldIsEvent ==
  ASSUME NEW e \in Event, NEW l \in Lines
  PROVE  WithField(e, l) \in Event
<1>1. l.val \in Text
  BY LinesAssumption
<1> QED
  BY <1>1 DEF WithField, Event

\* The line at the head of the wire and the lines behind it.
LEMMA HeadOfWire ==
  ASSUME wire \in Seq(Lines), wire # <<>>
  PROVE  /\ Head(wire) \in Lines /\ Tail(wire) \in Seq(Lines)
         /\ Head(wire).val \in Text
<1>1. Head(wire) \in Lines /\ Tail(wire) \in Seq(Lines)
  BY HeadTailProperties
<1> QED
  BY <1>1, LinesAssumption

\* What one yield does to the items seen by the consumer.
LEMMA YieldAppends ==
  ASSUME out \in Seq(Items), NEW e \in Event, NEW err \in Failures, NEW pc,
         Yield(e, err, pc)
  PROVE  /\ item' \in Items /\ out' \in Seq(Items) /\ spc' = pc
         /\ Len(out) \in Nat /\ Len(out') = Len(out) + 1
         /\ ErrorsIn(out)' = IF err = "nil" THEN ErrorsIn(out)
                             ELSE ErrorsIn(out) \cup {Len(out')}
         /\ EventsAreNotEmpty /\ (err = "nil" => ~Empty(e)) => EventsAreNotEmpty'
<1> DEFINE x == Item(e, err)
<1>1. x \in Items /\ x.evt = e /\ x.err = err
  BY DEF Item, Items
<1>2. item' = x /\ out' = Append(out, x) /\ spc' = pc
  BY DEF Yield
<1> HIDE DEF x
<1>3. /\ out' \in Seq(Items) /\ Len(out) \in Nat /\ Len(out') = Len(out) + 1
      /\ \A i \in 1 .. Len(out) : out'[i] = out[i]
      /\ out'[Len(out) + 1] = x
  BY <1>1, <1>2, AppendProperties, LenProperties
<1>4. \A i \in 1 .. Len(out') : i \in 1 .. Len(out) \/ i = Len(out) + 1
  BY <1>3
<1>5. ErrorsIn(out)' = IF err = "nil" THEN ErrorsIn(out)
                      ELSE ErrorsIn(out) \cup {Len(out')}
  BY <1>1, <1>3, <1>4 DEF ErrorsIn
<1>6. EventsAreNotEmpty /\ (err = "nil" => ~Empty(e)) => EventsAreNotEmpty'
  <2> SUFFICES ASSUME EventsAreNotEmpty, err = "nil" => ~Empty(e),
                      NEW i \in 1 .. Len(out'), out'[i].err = "nil"
               PROVE  ~Empty(out'[i].evt)
    BY DEF EventsAreNotEmpty
  <2>1. CASE i \in 1 .. Len(out)
    BY <1>3, <2>1 DEF EventsAreNotEmpty
  <2>2. CASE i = Len(out) + 1
    BY <1>1, <1>3, <2>2
  <2> QED
    BY <1>4, <2>1, <2>2
<1> QED
  BY <1>1, <1>2, <1>3, <1>5, <1>6

-----------------------------------------------------------------------------
LEMMA InitTypeOK == Init => TypeOK
<1> SUFFICES ASSUME Init PROVE TypeOK
  OBVIOUS
<1>1. item \in [evt : Event, err : Failures]
  BY NoEventIsEvent DEF Init, ScanInit, Item, Failures
<1>2. /\ wire \in Seq(Lines) /\ dataBuf \in Seq(Text) /\ read \in Seq(Lines)
      /\ out \in Seq([evt : Event, err : Failures])
  BY DEF Init, ScanInit
<1> QED
  BY <1>1, <1>2, NoEventIsEvent DEF Init, ScanInit, TypeOK, SPCs

LEMMA NextTypeOK == TypeOK /\ [Next]_scanVars => TypeOK'
<1> SUFFICES ASSUME TypeOK, [Next]_scanVars PROVE TypeOK'
  OBVIOUS
<1>0. /\ wire \in Seq(Lines) /\ evt \in Event /\ dataBuf \in Seq(Text)
      /\ out \in Seq(Items) /\ read \in Seq(Lines)
      /\ ending \in Endings \cup {"open"}
  BY DEF TypeOK, Items
<1>00. /\ "nil" \in Failures /\ "malformed" \in Failures
      /\ Endings \ {"eof"} \subseteq Failures
  BY DEF Failures, Endings
<1> USE DEF SPCs, scanVars, stream, decoder, history, Items
<1>1. CASE BlankLine
  <2> DEFINE e == Flushed(evt, dataBuf)
  <2>1. e \in Event /\ Tail(wire) \in Seq(Lines) /\ Append(read, Head(wire)) \in Seq(Lines)
    BY <1>0, <1>1, FlushedIsEvent, HeadOfWire, AppendProperties DEF BlankLine, Scan
  <2> HIDE DEF e
  <2>2. CASE Empty(e)
    BY <1>1, <2>1, <2>2, NoEventIsEvent DEF BlankLine, Scan, TypeOK, e
  <2>3. CASE ~Empty(e)
    <3>1. evt' = e /\ Yield(e, "nil", "yieldRecord")
      BY <1>1, <2>3 DEF BlankLine, e
    <3>2. item' \in Items /\ out' \in Seq(Items) /\ spc' = "yieldRecord"
      BY <1>0, <1>00, <2>1, <3>1, YieldAppends
    <3> QED
      BY <1>1, <2>1, <3>1, <3>2 DEF BlankLine, Scan, TypeOK
  <2> QED
    BY <2>2, <2>3
<1>2. CASE MalformedLine
  <2>1. Tail(wire) \in Seq(Lines) /\ Append(read, Head(wire)) \in Seq(Lines)
    BY <1>0, <1>2, HeadOfWire, AppendProperties DEF MalformedLine, Scan
  <2>2. item' \in Items /\ out' \in Seq(Items) /\ spc' = "yieldLast"
    BY <1>0, <1>00, <1>2, NoEventIsEvent, YieldAppends DEF MalformedLine
  <2> QED
    BY <1>2, <2>1, <2>2 DEF MalformedLine, Scan, TypeOK
<1>3. CASE FieldLine
  <2>1. wire # <<>>
    BY <1>3 DEF FieldLine, Scan
  <2>2. /\ Head(wire) \in Lines /\ Tail(wire) \in Seq(Lines)
        /\ Append(read, Head(wire)) \in Seq(Lines)
    BY <1>0, <2>1, HeadOfWire, AppendProperties
  <2>3. WithField(Flushed(evt, dataBuf), Head(wire)) \in Event
    BY <1>0, <2>2, FlushedIsEvent, WithFieldIsEvent
  <2> QED
    BY <1>3, <2>2, <2>3 DEF FieldLine, Scan, TypeOK
<1>4. CASE DataLine
  <2>1. wire # <<>>
    BY <1>4 DEF DataLine, Scan
  <2>2. /\ Tail(wire) \in Seq(Lines) /\ Append(read, Head(wire)) \in Seq(Lines)
        /\ Append(dataBuf, Head(wire).val) \in Seq(Text)
    BY <1>0, <2>1, HeadOfWire, AppendProperties
  <2> QED
    BY <1>4, <2>2 DEF DataLine, Scan, TypeOK
<1>5. CASE EndOfStream
  <2>1. CASE ending = "eof"
    BY <1>5, <2>1 DEF EndOfStream, TypeOK
  <2>2. CASE ending # "eof"
    <3>1. Yield(NoEvent, ending, "yieldError") /\ ending \in Failures
      BY <1>0, <1>00, <1>5, <2>2 DEF EndOfStream
    <3>2. item' \in Items /\ out' \in Seq(Items) /\ spc' = "yieldError"
      BY <1>0, <1>00, <3>1, NoEventIsEvent, YieldAppends
    <3> QED
      BY <1>5, <3>2 DEF EndOfStream, TypeOK
  <2> QED
    BY <2>1, <2>2
<1>6. CASE FinalRecord
  <2>1. evt' \in Event /\ dataBuf' = <<>>
    BY <1>0, <1>6, FlushedIsEvent DEF FinalRecord
  <2>2. CASE Empty(evt')
    BY <1>6, <2>1, <2>2 DEF FinalRecord, TypeOK
  <2>3. CASE ~Empty(evt')
    <3>1. Yield(evt', "nil", "yieldLast")
      BY <1>6, <2>3 DEF FinalRecord
    <3>2. item' \in Items /\ out' \in Seq(Items) /\ spc' = "yieldLast"
      BY <1>0, <1>00, <2>1, <3>1, YieldAppends
    <3> QED
      BY <1>6, <2>1, <3>2 DEF FinalRecord, TypeOK
  <2> QED
    BY <2>2, <2>3
<1>7. CASE Continue
  BY <1>7, NoEventIsEvent DEF Continue, Yielding, TypeOK
<1>8. CASE Stop
  BY <1>8 DEF Stop, TypeOK
<1>9. CASE Arrive
  <2>1. PICK l \in Lines : wire' = <<l>>
    BY <1>9 DEF Arrive
  <2> QED
    BY <1>9, <2>1 DEF Arrive, TypeOK
<1>10. CASE StreamEnds
  BY <1>10 DEF StreamEnds, TypeOK
<1>11. CASE UNCHANGED scanVars
  BY <1>11 DEF TypeOK
<1> QED
  BY <1>1, <1>2, <1>3, <1>4, <1>5, <1>6, <1>7, <1>8, <1>9, <1>10, <1>11
  DEF Next, ScanStep, Terminated

-----------------------------------------------------------------------------
LEMMA InitScanInv == Init => ScanInv
BY DEF Init, ScanInit, ScanInv, OneError, EventsAreNotEmpty, ErrorsIn

\* A yield after which the iterator is at pc keeps the invariant, given what
\* errors may have been yielded before it.
LEMMA YieldKeepsInv ==
  ASSUME TypeOK, ScanInv, NEW e \in Event, NEW err \in Failures,
         NEW pc \in {"yieldRecord", "yieldError", "yieldLast"},
         Yield(e, err, pc), ~stopped', err = "nil" => ~Empty(e),
         \/ pc = "yieldRecord" /\ err = "nil" /\ ErrorsIn(out) = {}
         \/ pc = "yieldError" /\ err # "nil" /\ ErrorsIn(out) = {}
         \/ pc = "yieldLast" /\ err # "nil" /\ ErrorsIn(out) = {}
         \/ pc = "yieldLast" /\ err = "nil" /\ ErrorsIn(out) \subseteq {Len(out)}
  PROVE  ScanInv'
<1>1. out \in Seq(Items)
  BY DEF TypeOK, Items
<1>2. /\ spc' = pc /\ Len(out) \in Nat /\ Len(out') = Len(out) + 1
      /\ ErrorsIn(out)' = IF err = "nil" THEN ErrorsIn(out)
                          ELSE ErrorsIn(out) \cup {Len(out')}
      /\ EventsAreNotEmpty'
  BY <1>1, YieldAppends DEF ScanInv
<1>3. ErrorsIn(out') = ErrorsIn(out)'
  OBVIOUS
<1>4. OneError'
  BY <1>2, <1>3 DEF OneError
<1> QED
  BY <1>2, <1>3, <1>4 DEF ScanInv

LEMMA NextScanInv == TypeOK /\ ScanInv /\ [Next]_scanVars => ScanInv'
<1> SUFFICES ASSUME TypeOK, ScanInv, [Next]_scanVars PROVE ScanInv'
  OBVIOUS
<1>0. /\ evt \in Event /\ dataBuf \in Seq(Text) /\ "nil" \in Failures
      /\ "malformed" \in Failures /\ Flushed(evt, dataBuf) \in Event
  BY FlushedIsEvent DEF TypeOK, Failures
<1>1. CASE UNCHANGED <<spc, out, stopped>>
  BY <1>1 DEF ScanInv, OneError, EventsAreNotEmpty, ErrorsIn
<1>2. CASE BlankLine
  <2> DEFINE e == Flushed(evt, dataBuf)
  <2>1. ~stopped' /\ ErrorsIn(out) = {} /\ UNCHANGED stopped
    BY <1>2 DEF BlankLine, Scan, ScanInv
  <2>2. CASE Empty(e)
    BY <1>1, <1>2, <2>1, <2>2 DEF BlankLine
  <2>3. CASE ~Empty(e)
    <3>1. Yield(e, "nil", "yieldRecord")
      BY <1>2, <2>3 DEF BlankLine
    <3> QED
      BY <1>0, <2>1, <2>3, <3>1, YieldKeepsInv
  <2> QED
    BY <2>2, <2>3
<1>3. CASE MalformedLine
  <2>1. ~stopped' /\ ErrorsIn(out) = {}
    BY <1>3 DEF MalformedLine, Scan, ScanInv
  <2>2. Yield(NoEvent, "malformed", "yieldLast")
    BY <1>3 DEF MalformedLine
  <2> QED
    BY <1>0, <2>1, <2>2, NoEventIsEvent, YieldKeepsInv
<1>4. CASE FieldLine \/ DataLine
  BY <1>1, <1>4 DEF FieldLine, DataLine, Scan
<1>5. CASE EndOfStream
  <2>1. ~stopped /\ ~stopped' /\ ErrorsIn(out) = {}
    BY <1>5 DEF EndOfStream, ScanInv
  <2>2. CASE ending = "eof"
    <3>1. spc' = "final" /\ UNCHANGED <<out, stopped>>
      BY <1>5, <2>2 DEF EndOfStream, history
    <3> QED
      BY <2>1, <3>1 DEF ScanInv, OneError, EventsAreNotEmpty, ErrorsIn
  <2>3. CASE ending # "eof"
    <3>1. Yield(NoEvent, ending, "yieldError") /\ ending # "open"
      BY <1>5, <2>3 DEF EndOfStream
    <3>2. ending \in Failures /\ ending # "nil"
      BY <2>3, <3>1 DEF TypeOK, Endings, Failures
    <3> QED
      BY <1>0, <2>1, <3>1, <3>2, NoEventIsEvent, YieldKeepsInv
  <2> QED
    BY <2>2, <2>3
<1>6. CASE FinalRecord
  <2>1. ~stopped /\ ~stopped' /\ ErrorsIn(out) \subseteq {Len(out)}
    BY <1>6 DEF FinalRecord, ScanInv
  <2>2. evt' = Flushed(evt, dataBuf)
    BY <1>6 DEF FinalRecord
  <2>3. CASE Empty(evt')
    <3>1. spc' = "done" /\ UNCHANGED <<out, stopped>>
      BY <1>6, <2>3 DEF FinalRecord
    <3> QED
      BY <2>1, <3>1 DEF ScanInv, OneError, EventsAreNotEmpty, ErrorsIn
  <2>4. CASE ~Empty(evt')
    <3>1. Yield(evt', "nil", "yieldLast")
      BY <1>6, <2>4 DEF FinalRecord
    <3> QED
      BY <1>0, <2>1, <2>2, <2>4, <3>1, YieldKeepsInv
  <2> QED
    BY <2>3, <2>4
<1>7. CASE Continue
  <2>1. ~stopped /\ UNCHANGED <<out, stopped>>
    BY <1>7 DEF Continue, Yielding, ScanInv, history
  <2>2. \/ spc = "yieldRecord" /\ spc' = "scan"
        \/ spc = "yieldError" /\ spc' = "final"
        \/ spc' = "done"
    BY <1>7 DEF Continue, Yielding
  <2> QED
    BY <2>1, <2>2 DEF ScanInv, OneError, EventsAreNotEmpty, ErrorsIn
<1>8. CASE Stop
  <2>1. spc' = "done" /\ UNCHANGED out
    BY <1>8 DEF Stop
  <2> QED
    BY <2>1 DEF ScanInv, OneError, EventsAreNotEmpty, ErrorsIn
<1>9. CASE Arrive \/ StreamEnds \/ UNCHANGED scanVars
  BY <1>1, <1>9 DEF Arrive, StreamEnds, scanVars, history
<1> QED
  BY <1>2, <1>3, <1>4, <1>5, <1>6, <1>7, <1>8, <1>9
  DEF Next, ScanStep, Terminated

-----------------------------------------------------------------------------
\* The inductive invariant holds in every reachable state.
THEOREM Invariance == Spec => [](TypeOK /\ ScanInv)
<1>1. Init => TypeOK /\ ScanInv
  BY InitTypeOK, InitScanInv
<1>2. (TypeOK /\ ScanInv) /\ [Next]_scanVars => (TypeOK /\ ScanInv)'
  BY NextTypeOK, NextScanInv
<1> QED
  BY <1>1, <1>2, PTL DEF Spec

\* Type correctness of the scanner on every stream.
THEOREM TypeCorrect == Spec => []TypeOK
<1> QED
  BY Invariance, PTL

\* The consumer never sees an event without any field.
THEOREM NoEmptyEvent == Spec => []EventsAreNotEmpty
<1>1. ScanInv => EventsAreNotEmpty
  BY DEF ScanInv
<1> QED
  BY <1>1, Invariance, PTL

\* Nothing is yielded to a consumer that has left its loop.
THEOREM SilentAfterStop == Spec => NoYieldAfterStop
<1>1. ScanInv /\ [Next]_scanVars => [stopped => UNCHANGED <<out, stopped>>]_scanVars
  <2> SUFFICES ASSUME ScanInv, Next, stopped PROVE UNCHANGED <<out, stopped>>
    OBVIOUS
  <2>1. spc = "done"
    BY DEF ScanInv
  <2> QED
    BY <2>1 DEF Next, ScanStep, BlankLine, MalformedLine, FieldLine, DataLine,
       Scan, EndOfStream, FinalRecord, Continue, Stop, Yielding, Arrive,
       StreamEnds, Terminated, scanVars, history
<1> QED
  BY <1>1, Invariance, PTL DEF Spec, NoYieldAfterStop

-----------------------------------------------------------------------------
\* Behind the end of a stream every step of the scanner and of its consumer
\* brings the end of the iteration nearer: it is over after at most two steps for
\* every line that had arrived, and five (iter.go:104-154).
THEOREM EndIsBounded ==
  Spec => [][ending # "open" => ScanLeft' \in Nat /\ ScanLeft' < ScanLeft]_scanVars
<1> DEFINE Bounded == ending # "open" => ScanLeft' \in Nat /\ ScanLeft' < ScanLeft
<1>1. TypeOK /\ [Next]_scanVars => [Bounded]_scanVars
  <2> SUFFICES ASSUME TypeOK, Next, scanVars' # scanVars, ending # "open"
               PROVE  ScanLeft' \in Nat /\ ScanLeft' < ScanLeft
    OBVIOUS
  <2>1. Len(wire) \in Nat /\ (wire = <<>> => Len(wire) = 0)
    BY LenProperties DEF TypeOK
  <2>2. ASSUME NEW f, Scan(f)
        PROVE  spc = "scan" /\ Len(wire') \in Nat /\ Len(wire') = Len(wire) - 1
    BY <2>2, HeadTailProperties DEF Scan, TypeOK
  <2>3. CASE BlankLine
    <3>1. spc' \in {"scan", "yieldRecord"}
      BY <2>2, <2>3 DEF BlankLine, Yield
    <3> QED
      BY <2>1, <2>2, <2>3, <3>1 DEF BlankLine, ScanLeft
  <2>4. CASE MalformedLine
    BY <2>1, <2>2, <2>4 DEF MalformedLine, Yield, ScanLeft
  <2>5. CASE FieldLine \/ DataLine
    <3>1. /\ spc = "scan" /\ spc' = "scan"
          /\ Len(wire') \in Nat /\ Len(wire') = Len(wire) - 1
      BY <2>2, <2>5 DEF FieldLine, DataLine
    <3> QED
      BY <2>1, <3>1 DEF ScanLeft
  <2>6. CASE EndOfStream
    <3>1. spc = "scan" /\ spc' \in {"final", "yieldError"}
      BY <2>6 DEF EndOfStream, Yield
    <3> QED
      BY <2>1, <3>1 DEF ScanLeft
  <2>7. CASE FinalRecord
    <3>1. spc = "final" /\ spc' \in {"done", "yieldLast"}
      BY <2>7 DEF FinalRecord, Yield
    <3> QED
      BY <3>1 DEF ScanLeft
  <2>8. CASE Continue \/ Stop
    <3>1. /\ wire' = wire /\ Yielding
          /\ spc' \in IF spc = "yieldRecord" THEN {"scan", "done"}
                      ELSE IF spc = "yieldError" THEN {"final", "done"} ELSE {"done"}
      BY <2>8 DEF Continue, Stop, stream, Yielding
    <3> QED
      BY <2>1, <3>1 DEF ScanLeft, Yielding
  <2> QED
    BY <2>3, <2>4, <2>5, <2>6, <2>7, <2>8 DEF Next, ScanStep, Arrive, StreamEnds, Terminated
<1> HIDE DEF Bounded
<1>2. Spec => [][Bounded]_scanVars
  BY <1>1, Invariance, PTL DEF Spec
<1> QED
  BY <1>2 DEF Bounded

\* Where the iterator is decides what it has reported.
ReportInv ==
  /\ Malformed \subseteq {Len(read)}
  /\ spc \in {"scan", "yieldRecord", "yieldError", "final"} => Malformed = {}
  /\ spc \in {"scan", "yieldRecord"} => Reported = {}
  /\ spc = "yieldError" => AtEnd /\ ending # "eof" /\ Reported = {ending}
  /\ spc = "final" => AtEnd
  /\ spc \in {"final", "yieldLast"} \/ (spc = "done" /\ ~stopped) =>
       Reported = {Failure} \ {"nil"} /\ (Malformed # {} \/ AtEnd)

\* A line read is a line more, malformed or not.
LEMMA ScanReads ==
  ASSUME TypeOK, NEW f, Scan(f)
  PROVE  /\ Len(read) \in Nat /\ Len(read') = Len(read) + 1
         /\ Malformed' = IF f = "nocolon" THEN Malformed \cup {Len(read')} ELSE Malformed
         /\ UNCHANGED <<ending, stopped>>
<1>1. Head(wire) \in Lines /\ Head(wire).field = f /\ read' = Append(read, Head(wire))
  BY HeadOfWire DEF Scan, TypeOK
<1>2. /\ Len(read) \in Nat /\ Len(read') = Len(read) + 1
      /\ \A i \in 1 .. Len(read) : read'[i] = read[i]
      /\ read'[Len(read) + 1] = Head(wire)
  BY <1>1, AppendProperties, LenProperties DEF TypeOK
<1>3. \A i \in 1 .. Len(read') : i \in 1 .. Len(read) \/ i = Len(read) + 1
  BY <1>2
<1>4. Malformed' = IF f = "nocolon" THEN Malformed \cup {Len(read')} ELSE Malformed
  BY <1>1, <1>2, <1>3 DEF Malformed
<1> QED
  BY <1>2, <1>4 DEF Scan

\* An error yielded is an error reported.
LEMMA YieldReports ==
  ASSUME TypeOK, NEW e \in Event, NEW err \in Failures, NEW pc, Yield(e, err, pc)
  PROVE  /\ spc' = pc
         /\ Reported' = IF err = "nil" THEN Reported ELSE Reported \cup {err}
<1> DEFINE x == Item(e, err)
<1>1. x \in Items /\ x.err = err
  BY DEF Item, Items
<1>2. out' = Append(out, x) /\ spc' = pc /\ out \in Seq(Items)
  BY DEF Yield, TypeOK, Items
<1> HIDE DEF x
<1>3. /\ Len(out) \in Nat /\ Len(out') = Len(out) + 1
      /\ \A i \in 1 .. Len(out) : out'[i] = out[i]
      /\ out'[Len(out) + 1] = x
  BY <1>1, <1>2, AppendProperties, LenProperties
<1>4. ErrorsIn(out') = IF err = "nil" THEN ErrorsIn(out)
                       ELSE ErrorsIn(out) \cup {Len(out) + 1}
  <2>1. \A i \in 1 .. Len(out') : i \in 1 .. Len(out) \/ i = Len(out) + 1
    BY <1>3
  <2> QED
    BY <1>1, <1>3, <2>1 DEF ErrorsIn
<1>5. ErrorsIn(out) \subseteq 1 .. Len(out)
  BY DEF ErrorsIn
<1>6. Reported' = {out'[i].err : i \in ErrorsIn(out')}
  BY DEF Reported
<1>7. CASE err = "nil"
  <2>1. Reported' = {out'[i].err : i \in ErrorsIn(out)}
    BY <1>4, <1>6, <1>7
  <2>2. \A i \in ErrorsIn(out) : out'[i].err = out[i].err
    BY <1>3, <1>5
  <2>3. {out'[i].err : i \in ErrorsIn(out)} = Reported
    BY <2>2 DEF Reported
  <2> QED
    BY <1>2, <1>7, <2>1, <2>3
<1>8. CASE err # "nil"
  <2>1. ErrorsIn(out') = ErrorsIn(out) \cup {Len(out) + 1} /\ out'[Len(out) + 1].err = err
    BY <1>1, <1>3, <1>4, <1>8
  <2>2. \A i \in ErrorsIn(out) : out'[i].err = out[i].err
    BY <1>3, <1>5
  <2>3. Reported' = {out'[i].err : i \in ErrorsIn(out)} \cup {err}
    BY <1>6, <2>1
  <2>4. {out'[i].err : i \in ErrorsIn(out)} = Reported
    BY <2>2 DEF Reported
  <2> QED
    BY <1>2, <1>8, <2>3, <2>4
<1> QED
  BY <1>2, <1>7, <1>8

LEMMA NextReportInv ==
  ASSUME TypeOK, ScanInv, ReportInv, [Next]_scanVars PROVE ReportInv'
<1>0. /\ evt \in Event /\ dataBuf \in Seq(Text) /\ {"nil", "malformed"} \subseteq Failures
      /\ Flushed(evt, dataBuf) \in Event
  BY FlushedIsEvent DEF TypeOK, Failures
<1>1. ASSUME UNCHANGED <<wire, ending, spc, out, read, stopped>> PROVE ReportInv'
  <2>1. Malformed' = Malformed /\ Reported' = Reported
    BY <1>1 DEF Malformed, Reported, ErrorsIn
  <2>2. Failure' = Failure /\ AtEnd' = AtEnd
    BY <1>1, <2>1 DEF Failure, AtEnd
  <2> QED
    BY <1>1, <2>1, <2>2 DEF ReportInv
<1>2. ASSUME NEW f \in {"blank", "data", "event", "id", "retry", "other"}, Scan(f),
             spc' \in {"scan", "yieldRecord"}, Reported' = Reported
      PROVE  ReportInv'
  <2>1. Malformed' = Malformed /\ spc = "scan"
    BY <1>2, ScanReads DEF Scan
  <2> QED
    BY <1>2, <2>1 DEF ReportInv
<1>3. UNCHANGED out => Reported' = Reported
  BY DEF Reported, ErrorsIn
<1>4. UNCHANGED read => Malformed' = Malformed
  BY DEF Malformed
<1>5. CASE BlankLine
  <2> DEFINE e == Flushed(evt, dataBuf)
  <2>1. Scan("blank") /\ spc = "scan"
    BY <1>5 DEF BlankLine, Scan
  <2>2. CASE Empty(e)
    BY <1>2, <1>3, <1>5, <2>1, <2>2 DEF BlankLine
  <2>3. CASE ~Empty(e)
    <3>1. Yield(e, "nil", "yieldRecord")
      BY <1>5, <2>3 DEF BlankLine
    <3>2. spc' = "yieldRecord" /\ Reported' = Reported
      BY <1>0, <3>1, YieldReports
    <3> QED
      BY <1>2, <2>1, <3>2
  <2> QED
    BY <2>2, <2>3
<1>6. CASE MalformedLine
  <2>1. Scan("nocolon") /\ spc = "scan" /\ Yield(NoEvent, "malformed", "yieldLast")
    BY <1>6 DEF MalformedLine, Scan
  <2>2. spc' = "yieldLast" /\ Reported' = {"malformed"}
    BY <1>0, <2>1, NoEventIsEvent, YieldReports DEF ReportInv
  <2>3. Malformed' = {Len(read')} /\ Malformed' # {}
    BY <2>1, ScanReads DEF ReportInv
  <2> QED
    BY <2>2, <2>3 DEF ReportInv, Failure
<1>7. CASE FieldLine \/ DataLine
  <2>1. spc' = "scan" /\ UNCHANGED out
    BY <1>7 DEF FieldLine, DataLine, Scan
  <2>2. \E f \in {"blank", "data", "event", "id", "retry", "other"} : Scan(f)
    BY <1>7 DEF FieldLine, DataLine
  <2> QED
    BY <1>2, <1>3, <2>1, <2>2
<1>8. CASE EndOfStream
  <2>1. /\ spc = "scan" /\ AtEnd /\ AtEnd' /\ ending' = ending
        /\ Malformed = {} /\ Malformed' = {} /\ Reported = {}
    BY <1>4, <1>8 DEF EndOfStream, AtEnd, stream, ReportInv
  <2>2. CASE ending = "eof"
    <3>1. spc' = "final" /\ Reported' = {}
      BY <1>3, <1>8, <2>1, <2>2 DEF EndOfStream
    <3> QED
      BY <2>1, <2>2, <3>1 DEF ReportInv, Failure
  <2>3. CASE ending # "eof"
    <3>1. Yield(NoEvent, ending, "yieldError") /\ ending \in Failures \ {"nil"}
      BY <1>8, <2>1, <2>3 DEF EndOfStream, TypeOK, Endings, Failures, AtEnd
    <3>2. spc' = "yieldError" /\ Reported' = {ending}
      BY <2>1, <3>1, NoEventIsEvent, YieldReports
    <3> QED
      BY <2>1, <2>3, <3>2 DEF ReportInv
  <2> QED
    BY <2>2, <2>3
<1>9. CASE FinalRecord
  <2>1. /\ spc = "final" /\ UNCHANGED <<wire, ending, read, stopped>>
        /\ evt' = Flushed(evt, dataBuf)
    BY <1>9 DEF FinalRecord, stream
  <2>2. spc' \in {"done", "yieldLast"} /\ Reported' = Reported
    <3>1. CASE Empty(evt')
      BY <1>3, <1>9, <3>1 DEF FinalRecord
    <3>2. CASE ~Empty(evt')
      <4>1. Yield(evt', "nil", "yieldLast") /\ evt' \in Event
        BY <1>0, <1>9, <2>1, <3>2 DEF FinalRecord
      <4> QED
        BY <1>0, <4>1, YieldReports
    <3> QED
      BY <3>1, <3>2
  <2> QED
    BY <1>4, <2>1, <2>2 DEF ReportInv, Failure, AtEnd
<1>10. CASE Continue
  <2>1. /\ UNCHANGED <<wire, ending, out, read, stopped>>
        /\ \/ spc = "yieldRecord" /\ spc' = "scan"
           \/ spc = "yieldError" /\ spc' = "final"
           \/ spc = "yieldLast" /\ spc' = "done"
    BY <1>10 DEF Continue, Yielding, stream, history
  <2>2. Reported' = Reported /\ Malformed' = Malformed /\ Failure' = Failure /\ AtEnd' = AtEnd
    BY <1>3, <1>4, <2>1 DEF Failure, AtEnd
  <2>3. spc = "yieldError" => Reported = {Failure} \ {"nil"}
    BY DEF ReportInv, Failure, AtEnd, TypeOK, Endings
  <2> QED
    BY <2>1, <2>2, <2>3 DEF ReportInv
<1>11. CASE Stop
  <2>1. spc' = "done" /\ stopped' /\ Malformed' = Malformed /\ UNCHANGED read
    BY <1>4, <1>11 DEF Stop
  <2> QED
    BY <2>1 DEF ReportInv
<1>12. CASE Arrive \/ StreamEnds
  <2>1. ~AtEnd /\ UNCHANGED <<spc, out, read, stopped>>
    BY <1>12 DEF Arrive, StreamEnds, AtEnd, history
  <2>2. Reported' = Reported /\ Malformed' = Malformed
    BY <1>3, <1>4, <2>1
  <2>3. Malformed # {} => Failure' = Failure
    BY <2>2 DEF Failure
  <2> QED
    BY <2>1, <2>2, <2>3 DEF ReportInv
<1>13. CASE UNCHANGED scanVars
  BY <1>1, <1>13 DEF scanVars, stream, history
<1> QED
  BY <1>1, <1>5, <1>6, <1>7, <1>8, <1>9, <1>10, <1>11, <1>12, <1>13
  DEF Next, ScanStep, Terminated

\* No failure of the stream is swallowed and none is made up: an iteration that its
\* consumer has not left reports once how the stream broke, and nothing when it ended
\* cleanly behind the last line (iter.go:104, 118-119 and 141-149).
THEOREM BrokenReported == Spec => []BrokenIsReported
<1>1. Init => ReportInv
  <2>1. ASSUME Init PROVE Malformed = {} /\ Reported = {} /\ spc = "scan"
    BY <2>1 DEF Init, ScanInit, Malformed, Reported, ErrorsIn
  <2> QED
    BY <2>1 DEF ReportInv
<1>2. TypeOK /\ ScanInv /\ ReportInv /\ [Next]_scanVars => ReportInv'
  BY NextReportInv
<1>3. ScanInv /\ ReportInv => BrokenIsReported
  BY DEF ScanInv, OneError, ReportInv, BrokenIsReported
<1> QED
  BY <1>1, <1>2, <1>3, Invariance, PTL DEF Spec

-----------------------------------------------------------------------------
(* Positions: the ends of a set of them, and its members in order.         *)

LEMMA LeastExists ==
  ASSUME NEW S \in SUBSET Nat, S # {}
  PROVE  \E x \in S : \A y \in S : x <= y
<1>1. PICK x \in S : \A y \in S : ~ (<<y, x>> \in OpToRel(<, Nat))
  BY NatLessThanWellFounded, WFMin
<1>2. \A y \in S : ~ (y < x)
  BY <1>1 DEF OpToRel
<1> QED
  BY <1>2

LEMMA MinIsLeast ==
  ASSUME NEW S \in SUBSET Nat, S # {}
  PROVE  Min(S) \in S /\ \A y \in S : Min(S) <= y
BY LeastExists DEF Min

LEMMA MaxIsGreatest ==
  ASSUME NEW n \in Nat, NEW S \in SUBSET (1 .. n), S # {}
  PROVE  Max(S) \in S /\ \A y \in S : y <= Max(S)
<1> DEFINE T == {n - y : y \in S}
<1>1. \A y \in S : y \in 1 .. n /\ n - y \in Nat
  OBVIOUS
<1>2. T \in SUBSET Nat /\ T # {}
  BY <1>1
<1>3. PICK t \in T : \A u \in T : t <= u
  BY <1>2, LeastExists
<1>4. PICK x \in S : t = n - x
  OBVIOUS
<1>5. \A y \in S : n - y \in T /\ x >= y
  BY <1>1, <1>3, <1>4
<1> QED
  BY <1>5 DEF Max

\* The number of members of P up to i.
UpTo(P, i) == Cardinality({j \in P : j <= i})

LEMMA Counts ==
  ASSUME NEW n \in Nat, NEW P \in SUBSET (1 .. n)
  PROVE  /\ IsFiniteSet(P) /\ Cardinality(P) \in Nat
         /\ \A i \in Nat : UpTo(P, i) \in Nat /\ UpTo(P, i) <= Cardinality(P)
         /\ UpTo(P, 0) = 0 /\ UpTo(P, n) = Cardinality(P)
         /\ \A i \in Nat : UpTo(P, i + 1) = IF i + 1 \in P THEN UpTo(P, i) + 1
                                                           ELSE UpTo(P, i)
<1>0. \A j \in P : j \in Nat /\ 1 <= j /\ j <= n
  OBVIOUS
<1>1. IsFiniteSet(1 .. n)
  BY FS_Interval
<1>2. IsFiniteSet(P)
  BY <1>1, FS_Subset
<1>3. Cardinality(P) \in Nat
  BY <1>2, FS_CardinalityType
<1>4. \A i \in Nat : IsFiniteSet({j \in P : j <= i}) /\ UpTo(P, i) <= Cardinality(P)
  BY <1>2, FS_Subset DEF UpTo
<1>5. \A i \in Nat : UpTo(P, i) \in Nat
  BY <1>4, FS_CardinalityType DEF UpTo
<1>6. UpTo(P, 0) = 0
  <2>1. \A j \in P : ~ (j <= 0)
    BY <1>0
  <2>2. {j \in P : j <= 0} = {}
    BY <2>1
  <2> QED
    BY <2>2, FS_EmptySet DEF UpTo
<1>7. UpTo(P, n) = Cardinality(P)
  <2>1. {j \in P : j <= n} = P
    BY <1>0
  <2> QED
    BY <2>1 DEF UpTo
<1>8. ASSUME NEW i \in Nat
      PROVE  UpTo(P, i + 1) = IF i + 1 \in P THEN UpTo(P, i) + 1 ELSE UpTo(P, i)
  <2> DEFINE A == {j \in P : j <= i}
  <2>1. IsFiniteSet(A) /\ i + 1 \notin A
    BY <1>4
  <2>0. \A j \in P : j <= i + 1 <=> j <= i \/ j = i + 1
    BY <1>0
  <2>2. CASE i + 1 \in P
    <3>1. {j \in P : j <= i + 1} = A \cup {i + 1}
      BY <2>0, <2>2
    <3>2. Cardinality(A \cup {i + 1}) = Cardinality(A) + 1
      BY <2>1, FS_AddElement
    <3> QED
      BY <2>2, <3>1, <3>2 DEF UpTo
  <2>3. CASE i + 1 \notin P
    <3>1. {j \in P : j <= i + 1} = A
      BY <2>0, <2>3
    <3> QED
      BY <2>3, <3>1 DEF UpTo
  <2> QED
    BY <2>2, <2>3
<1> QED
  BY <1>2, <1>3, <1>4, <1>5, <1>6, <1>7, <1>8

LEMMA NthIsMember ==
  ASSUME NEW n \in Nat, NEW P \in SUBSET (1 .. n), NEW k \in 1 .. Cardinality(P)
  PROVE  Nth(P, k) \in P
<1> DEFINE S == {i \in Nat : UpTo(P, i) >= k}
<1>1. k \in Nat /\ k >= 1 /\ k <= Cardinality(P)
  BY Counts
<1>2. n \in S
  BY <1>1, Counts
<1>3. PICK i \in S : \A j \in S : i <= j
  BY <1>2, LeastExists
<1>4. i \in Nat \ {0}
  BY <1>1, Counts
<1>5. PICK m \in Nat : i = m + 1
  BY <1>4
<1>6. m \notin S
  BY <1>3, <1>5
<1>7. UpTo(P, m) < k /\ UpTo(P, m) \in Nat /\ UpTo(P, m + 1) >= k
  BY <1>1, <1>3, <1>5, <1>6, Counts
<1>8. i \in P /\ UpTo(P, i) = k
  <2>0. \A j \in Nat : UpTo(P, j + 1) = IF j + 1 \in P THEN UpTo(P, j) + 1
                                                         ELSE UpTo(P, j)
    BY Counts
  <2>1. UpTo(P, m + 1) = IF m + 1 \in P THEN UpTo(P, m) + 1 ELSE UpTo(P, m)
    BY <2>0
  <2> QED
    BY <1>1, <1>5, <1>7, <2>1
<1> QED
  BY <1>8 DEF Nth, UpTo

LEMMA NthGrows ==
  ASSUME NEW n \in Nat, NEW P \in SUBSET (1 .. n)
  PROVE  /\ Cardinality(P \cup {n + 1}) = Cardinality(P) + 1
         /\ \A k \in 1 .. Cardinality(P) : Nth(P \cup {n + 1}, k) = Nth(P, k)
         /\ Nth(P \cup {n + 1}, Cardinality(P) + 1) = n + 1
<1> DEFINE Q == P \cup {n + 1}
           c == Cardinality(P)
<1>1. Q \in SUBSET (1 .. n + 1) /\ n + 1 \notin P /\ n + 1 \in Nat
  OBVIOUS
<1>2. IsFiniteSet(P) /\ c \in Nat
  BY Counts
<1>3. Cardinality(Q) = c + 1
  BY <1>1, <1>2, FS_AddElement
<1>4. \A i \in P : UpTo(Q, i) = UpTo(P, i) /\ UpTo(P, i) <= c /\ UpTo(P, i) \in Nat
  <2> TAKE i \in P
  <2>1. i \in Nat /\ i <= n
    OBVIOUS
  <2>2. {j \in Q : j <= i} = {j \in P : j <= i}
    BY <2>1
  <2> QED
    BY <2>1, <2>2, Counts DEF UpTo
<1>5. UpTo(Q, n + 1) = c + 1
  <2>1. UpTo(Q, n + 1) = Cardinality(Q)
    BY <1>1, Counts
  <2> QED
    BY <1>3, <2>1
<1>6. ASSUME NEW k \in 1 .. c PROVE Nth(Q, k) = Nth(P, k)
  <2>0. UpTo(Q, n + 1) # k
    BY <1>2, <1>5
  <2>1. \A i : (i \in Q /\ UpTo(Q, i) = k) <=> (i \in P /\ UpTo(P, i) = k)
    <3>1. \A i \in P : UpTo(Q, i) = k <=> UpTo(P, i) = k
      BY <1>4
    <3>2. \A i \in Q : i \in P \/ i = n + 1
      OBVIOUS
    <3>3. P \subseteq Q
      OBVIOUS
    <3> QED
      BY <2>0, <3>1, <3>2, <3>3
  <2> QED
    BY <2>1 DEF Nth, UpTo
<1>7. Nth(Q, c + 1) = n + 1
  <2>1. \A i \in Q : UpTo(Q, i) = c + 1 <=> i = n + 1
    BY <1>2, <1>4, <1>5
  <2>2. \E i \in Q : UpTo(Q, i) = c + 1
    BY <1>5
  <2> QED
    BY <2>1, <2>2 DEF Nth, UpTo
<1> QED
  BY <1>3, <1>6, <1>7

\* P are positions up to n, v has values in S at them, and w the same ones.
Continues(w, v, P, n, S) ==
  P \subseteq 1 .. n /\ \A i \in P : v[i] \in S /\ w[i] = v[i]

\* What is listed when the position behind them is added, and when it is not.
Grows(w, v, P, n, S) ==
  /\ Listed(P, v) \in Seq(S)
  /\ Listed(P, w) = Listed(P, v)
  /\ Listed(P \cup {n + 1}, w) = Append(Listed(P, v), w[n + 1])

LEMMA ListedGrows ==
  ASSUME NEW S, NEW n \in Nat, NEW P, NEW v, NEW w, Continues(w, v, P, n, S)
  PROVE  Grows(w, v, P, n, S)
<1> DEFINE c == Cardinality(P)
           s == Listed(P, v)
           t == Listed(P \cup {n + 1}, w)
<1>0. P \in SUBSET (1 .. n)
  BY DEF Continues
<1>1. c \in Nat
  BY <1>0, Counts
<1>2. \A k \in 1 .. c : v[Nth(P, k)] \in S /\ w[Nth(P, k)] = v[Nth(P, k)]
  BY <1>0, NthIsMember DEF Continues
<1>3. s = [k \in 1 .. c |-> v[Nth(P, k)]]
  BY DEF Listed
<1>4. s \in Seq(S) /\ Len(s) = c
  BY <1>1, <1>2, <1>3
<1>5. Listed(P, w) = s
  BY <1>2, <1>3 DEF Listed
<1>6. /\ t = [k \in 1 .. c + 1 |-> w[Nth(P \cup {n + 1}, k)]]
      /\ \A k \in 1 .. c : w[Nth(P \cup {n + 1}, k)] = s[k]
      /\ w[Nth(P \cup {n + 1}, c + 1)] = w[n + 1]
  <2>1. Cardinality(P \cup {n + 1}) = c + 1
    BY <1>0, NthGrows
  <2>2. \A k \in 1 .. c : Nth(P \cup {n + 1}, k) = Nth(P, k)
    BY <1>0, NthGrows
  <2>3. Nth(P \cup {n + 1}, c + 1) = n + 1
    BY <1>0, NthGrows
  <2>4. \A k \in 1 .. c : w[Nth(P \cup {n + 1}, k)] = s[k]
    BY <1>2, <1>3, <2>2
  <2> QED
    BY <2>1, <2>3, <2>4 DEF Listed
<1>7. t = Append(s, w[n + 1])
  <2> DEFINE e == w[n + 1]
             R == S \cup {e}
  <2>1. s \in Seq(R) /\ e \in R
    BY <1>4, SeqMonotonic
  <2>2. /\ Append(s, e) \in Seq(R) /\ Len(Append(s, e)) = c + 1
        /\ \A k \in 1 .. c : Append(s, e)[k] = s[k]
        /\ Append(s, e)[c + 1] = e
    <3> HIDE DEF s, e, c
    <3> QED
      BY <1>4, <2>1, AppendProperties
  <2>3. \A k \in 1 .. c + 1 : k \in 1 .. c \/ k = c + 1
    BY <1>1
  <2>4. \A k \in 1 .. c + 1 : t[k] = Append(s, e)[k] /\ t[k] \in R
    <3> TAKE k \in 1 .. c + 1
    <3>1. t[k] = w[Nth(P \cup {n + 1}, k)]
      BY <1>6
    <3>2. CASE k \in 1 .. c
      <4>1. t[k] = s[k]
        BY <1>6, <3>1, <3>2
      <4>2. s[k] \in S
        BY <1>4, <3>2, ElementOfSeq
      <4> QED
        BY <2>2, <3>2, <4>1, <4>2
    <3>3. CASE k = c + 1
      BY <1>6, <2>2, <3>1, <3>3
    <3> QED
      BY <2>3, <3>2, <3>3
  <2>5. t \in Seq(R) /\ Len(t) = c + 1
    <3>1. t = [k \in 1 .. c + 1 |-> w[Nth(P \cup {n + 1}, k)]]
      BY <1>6
    <3>2. \A k \in 1 .. c + 1 : w[Nth(P \cup {n + 1}, k)] \in R
      BY <2>4, <3>1
    <3> HIDE DEF R, c
    <3>3. t \in [1 .. c + 1 -> R]
      BY <3>1, <3>2
    <3> HIDE DEF t
    <3>4. c + 1 \in Nat
      BY <1>1
    <3> QED
      BY <3>3, <3>4
  <2> HIDE DEF s, e, c, t, R
  <2>6. t = Append(s, e)
    BY <2>2, <2>4, <2>5, SeqEqual
  <2> QED
    BY <2>6 DEF e
<1> HIDE DEF c
<1> QED
  BY <1>4, <1>5, <1>7 DEF Grows

-----------------------------------------------------------------------------
(* The record that has not ended, when a line is added.                    *)

Whole(ls) == Record(ls, Len(ls) + 1)

\* A line added to lines.
LEMMA LineAdded ==
  ASSUME NEW ls \in Seq(Lines), NEW l \in Lines
  PROVE  /\ Append(ls, l) \in Seq(Lines) /\ Len(ls) \in Nat
         /\ Len(Append(ls, l)) = Len(ls) + 1
         /\ DOMAIN ls = 1 .. Len(ls) /\ DOMAIN Append(ls, l) = 1 .. Len(ls) + 1
         /\ \A i \in 1 .. Len(ls) : Append(ls, l)[i] = ls[i]
         /\ Append(ls, l)[Len(ls) + 1] = l
<1>1. /\ Append(ls, l) \in Seq(Lines)
      /\ Len(Append(ls, l)) = Len(ls) + 1
      /\ \A i \in 1 .. Len(ls) : Append(ls, l)[i] = ls[i]
      /\ Append(ls, l)[Len(ls) + 1] = l
  BY AppendProperties
<1>2. /\ Len(ls) \in Nat /\ DOMAIN ls = 1 .. Len(ls)
      /\ DOMAIN Append(ls, l) = 1 .. Len(Append(ls, l))
  BY <1>1, LenProperties
<1> QED
  BY <1>1, <1>2

\* The bounds of the last run of data lines.
Low(D) == Min({i \in D : i .. Max(D) \subseteq D})

LEMMA RunBounds ==
  ASSUME NEW n \in Nat, NEW D \in SUBSET (1 .. n), D # {}
  PROVE  /\ Max(D) \in D /\ Max(D) \in 1 .. n /\ Low(D) \in 1 .. Max(D)
         /\ Low(D) .. Max(D) \subseteq D
         /\ \A i \in D : i .. Max(D) \subseteq D => Low(D) <= i
<1> DEFINE R == {i \in D : i .. Max(D) \subseteq D}
<1>1. Max(D) \in D /\ \A i \in D : i <= Max(D)
  BY MaxIsGreatest
<1> HIDE DEF R
<1>2. Max(D) \in 1 .. n /\ \A i \in D : i \in Nat /\ i >= 1
  <2>1. \A i \in D : i \in 1 .. n
    OBVIOUS
  <2>2. \A i \in 1 .. n : i \in Nat /\ i >= 1
    OBVIOUS
  <2> QED
    BY <1>1, <2>1, <2>2
<1>3. \A m \in Nat : m .. m = {m}
  OBVIOUS
<1>4. Max(D) \in R /\ R \in SUBSET Nat
  <2>1. Max(D) .. Max(D) \subseteq D
    BY <1>1, <1>2, <1>3
  <2> QED
    BY <1>1, <1>2, <2>1 DEF R
<1>5. Low(D) \in R /\ \A i \in R : Low(D) <= i
  <2>1. Min(R) \in R /\ \A i \in R : Min(R) <= i
    BY <1>4, MinIsLeast
  <2> QED
    BY <2>1 DEF Low, R
<1>7. Low(D) \in D /\ Low(D) .. Max(D) \subseteq D
  BY <1>5 DEF R
<1>8. Low(D) \in 1 .. Max(D)
  <2>1. Low(D) <= Max(D) /\ Low(D) >= 1 /\ Low(D) \in Nat /\ Max(D) \in Nat
    BY <1>1, <1>2, <1>7
  <2> QED
    BY <2>1
<1>9. \A i \in D : i .. Max(D) \subseteq D => Low(D) <= i
  BY <1>5 DEF R
<1> QED
  BY <1>1, <1>2, <1>7, <1>8, <1>9

LEMMA RunOf ==
  ASSUME NEW ls, NEW I, Of(ls, I, "data") # {}
  PROVE  LET D == Of(ls, I, "data") IN
         LastRun(ls, I) = [k \in 1 .. Max(D) - Low(D) + 1 |-> ls[Low(D) + k - 1].val]
BY DEF LastRun, Low

\* What a record says depends on its own lines only.
Agree(ms, ls, n) == \A i \in 1 .. n : ms[i] = ls[i]

LEMMA SameLines ==
  ASSUME NEW n \in Nat, NEW I \in SUBSET (1 .. n), NEW ls, NEW ms, Agree(ms, ls, n)
  PROVE  /\ \A f \in Fields : Of(ms, I, f) = Of(ls, I, f)
         /\ \A f \in Fields : LastOf(ms, I, f) = LastOf(ls, I, f)
         /\ LastRun(ms, I) = LastRun(ls, I)
<1>1. \A f \in Fields : Of(ms, I, f) = Of(ls, I, f)
  BY DEF Of, Agree
<1>2. ASSUME NEW f \in Fields PROVE LastOf(ms, I, f) = LastOf(ls, I, f)
  <2>1. CASE Of(ls, I, f) = {}
    BY <1>1, <2>1 DEF LastOf
  <2>2. CASE Of(ls, I, f) # {}
    <3>1. Of(ls, I, f) \in SUBSET (1 .. n)
      BY DEF Of
    <3>2. Max(Of(ls, I, f)) \in 1 .. n
      BY <2>2, <3>1, MaxIsGreatest
    <3> QED
      BY <1>1, <2>2, <3>2 DEF LastOf, Agree
  <2> QED
    BY <2>1, <2>2
<1>3. LastRun(ms, I) = LastRun(ls, I)
  <2> DEFINE D == Of(ls, I, "data")
  <2>1. D = Of(ms, I, "data")
    BY <1>1 DEF Fields
  <2>2. CASE D = {}
    BY <2>1, <2>2 DEF LastRun
  <2>3. CASE D # {}
    <3>1. D \in SUBSET (1 .. n)
      BY DEF Of
    <3>2. Max(D) \in 1 .. n /\ Low(D) \in 1 .. Max(D)
      BY <2>3, <3>1, RunBounds
    <3>3. \A k \in 1 .. Max(D) - Low(D) + 1 : Low(D) + k - 1 \in 1 .. n
      BY <3>2
    <3>4. /\ LastRun(ls, I) = [k \in 1 .. Max(D) - Low(D) + 1 |-> ls[Low(D) + k - 1].val]
          /\ LastRun(ms, I) = [k \in 1 .. Max(D) - Low(D) + 1 |-> ms[Low(D) + k - 1].val]
      BY <2>1, <2>3, RunOf
    <3> HIDE DEF D
    <3> QED
      BY <3>3, <3>4 DEF Agree
  <2> QED
    BY <2>2, <2>3
<1> QED
  BY <1>1, <1>2, <1>3

\* The records that ended before a line was added are still what they were.
LEMMA EarlierRecord ==
  ASSUME NEW ls \in Seq(Lines), NEW l \in Lines, NEW end \in 1 .. Len(ls) + 1
  PROVE  Record(Append(ls, l), end) = Record(ls, end)
<1> DEFINE ms == Append(ls, l)
           n  == end - 1
<1>1. n \in Nat /\ \A i \in 1 .. n : ms[i] = ls[i]
  <2>1. Len(ls) \in Nat /\ \A i \in 1 .. Len(ls) : ms[i] = ls[i]
    BY LineAdded
  <2> HIDE DEF ms
  <2> QED
    BY <2>1
<1> HIDE DEF ms
<1>2. Part(ms, end) = Part(ls, end) /\ Part(ls, end) \in SUBSET (1 .. n)
  <2>1. \A i \in 1 .. end - 1 : \A j \in i .. end - 1 : ms[j] = ls[j]
    BY <1>1
  <2> QED
    BY <2>1 DEF Part
<1> HIDE DEF n
<1>3. /\ \A f \in Fields : LastOf(ms, Part(ls, end), f) = LastOf(ls, Part(ls, end), f)
      /\ LastRun(ms, Part(ls, end)) = LastRun(ls, Part(ls, end))
  <2> DEFINE I == Part(ls, end)
  <2>1. I \in SUBSET (1 .. n)
    BY <1>2
  <2> HIDE DEF I
  <2>0. n \in Nat
    BY <1>1
  <2>00. Agree(ms, ls, n)
    BY <1>1 DEF Agree
  <2>2. /\ \A f \in Fields : LastOf(ms, I, f) = LastOf(ls, I, f)
        /\ LastRun(ms, I) = LastRun(ls, I)
    BY SMTT(30), <2>0, <2>00, <2>1, SameLines
  <2> QED
    BY <2>2 DEF I
<1>4. Record(ms, end) = Record(ls, end)
  BY <1>2, <1>3 DEF Record, Fields
<1> QED
  BY <1>4 DEF ms

\* A blank line begins an empty record, and so does a stream.
LEMMA NoLines ==
  ASSUME NEW ls, NEW end, Part(ls, end) = {}
  PROVE  Record(ls, end) = NoEvent
<1>1. \A f \in Fields : Of(ls, {}, f) = {}
  BY DEF Of
<1> QED
  BY <1>1 DEF Record, LastOf, LastRun, NoEvent, Fields

LEMMA FirstRecord == Whole(<<>>) = NoEvent
<1>1. Part(<<>>, 1) = {}
  BY DEF Part
<1> QED
  BY <1>1, NoLines DEF Whole

LEMMA BlankAdded ==
  ASSUME NEW ls \in Seq(Lines), NEW l \in Lines, l.field = "blank"
  PROVE  Whole(Append(ls, l)) = NoEvent
<1> DEFINE ms == Append(ls, l)
           n  == Len(ls)
<1>1. n \in Nat /\ Len(ms) = n + 1 /\ ms[n + 1] = l
  BY LineAdded
<1> HIDE DEF ms, n
<1>2. \A i \in 1 .. n + 1 : n + 1 \in i .. n + 1
  BY <1>1
<1>3. Part(ms, n + 2) = {}
  BY <1>1, <1>2 DEF Part
<1>4. Whole(ms) = NoEvent
  BY <1>1, <1>3, NoLines DEF Whole
<1> QED
  BY <1>4 DEF ms

\* Any other line joins the record, and sets the field it names.
LEMMA FieldOfLast ==
  ASSUME NEW ls \in Seq(Lines), NEW l \in Lines, NEW f \in Fields,
         NEW I \in SUBSET (1 .. Len(ls))
  PROVE  LastOf(Append(ls, l), I \cup {Len(ls) + 1}, f)
           = IF l.field = f THEN l.val ELSE LastOf(ls, I, f)
<1> DEFINE ms == Append(ls, l)
           n  == Len(ls)
           J  == I \cup {n + 1}
<1>1. n \in Nat /\ ms[n + 1] = l /\ \A i \in 1 .. n : ms[i] = ls[i]
  BY LineAdded
<1> HIDE DEF ms, n
<1>2. I \in SUBSET (1 .. n) /\ \A i \in I : i \in 1 .. n
  BY DEF n
<1>3. Of(ms, I, f) = Of(ls, I, f) /\ LastOf(ms, I, f) = LastOf(ls, I, f)
  <2>1. /\ \A g \in Fields : Of(ms, I, g) = Of(ls, I, g)
        /\ \A g \in Fields : LastOf(ms, I, g) = LastOf(ls, I, g)
    <3>1. Agree(ms, ls, n)
      BY <1>1 DEF Agree
    <3> QED
      BY <1>1, <1>2, <3>1, SameLines
  <2> QED
    BY <2>1
<1>4. CASE l.field = f
  <2>1. Of(ms, J, f) = Of(ms, I, f) \cup {n + 1}
    BY <1>1, <1>4 DEF Of
  <2>2. Of(ms, J, f) \in SUBSET (1 .. n + 1) /\ n + 1 \in Of(ms, J, f)
    <3>1. \A i \in 1 .. n : i \in 1 .. n + 1
      BY <1>1
    <3>2. n + 1 \in 1 .. n + 1
      BY <1>1
    <3>3. J \in SUBSET (1 .. n + 1)
      BY <1>2, <3>1, <3>2
    <3>4. Of(ms, J, f) \subseteq J
      BY DEF Of
    <3> QED
      BY <2>1, <3>3, <3>4
  <2>3. /\ Max(Of(ms, J, f)) \in Of(ms, J, f)
        /\ \A y \in Of(ms, J, f) : y <= Max(Of(ms, J, f))
    <3> HIDE DEF J
    <3>1. n + 1 \in Nat /\ Of(ms, J, f) # {}
      BY <1>1, <2>2
    <3> QED
      BY <2>2, <3>1, MaxIsGreatest
  <2>4. Max(Of(ms, J, f)) = n + 1
    <3> HIDE DEF J
    <3> QED
      BY <1>1, <2>2, <2>3
  <2>5. LastOf(ms, J, f) = ms[n + 1].val
    BY <2>2, <2>4 DEF LastOf
  <2> QED
    BY <1>1, <1>4, <2>5 DEF ms, n
<1>5. CASE l.field # f
  <2>1. Of(ms, J, f) = Of(ms, I, f)
    BY <1>1, <1>5 DEF Of
  <2>2. LastOf(ms, J, f) = LastOf(ms, I, f)
    BY <2>1 DEF LastOf
  <2> QED
    BY <1>3, <1>5, <2>2 DEF ms, n
<1> QED
  BY <1>4, <1>5

\* A line of another field leaves the last run what it was.
LEMMA RunStays ==
  ASSUME NEW ls \in Seq(Lines), NEW l \in Lines, l.field # "data",
         NEW I \in SUBSET (1 .. Len(ls))
  PROVE  LastRun(Append(ls, l), I \cup {Len(ls) + 1}) = LastRun(ls, I)
<1> DEFINE ms == Append(ls, l)
           n  == Len(ls)
           J  == I \cup {n + 1}
<1>1. n \in Nat /\ ms[n + 1] = l /\ \A i \in 1 .. n : ms[i] = ls[i]
  BY LineAdded
<1> HIDE DEF ms, n
<1>2. I \in SUBSET (1 .. n)
  BY DEF n
<1>3. LastRun(ms, I) = LastRun(ls, I)
  <2>1. Agree(ms, ls, n)
    BY <1>1 DEF Agree
  <2> QED
    BY <1>1, <1>2, <2>1, SameLines
<1>4. Of(ms, J, "data") = Of(ms, I, "data")
  BY <1>1 DEF Of
<1> HIDE DEF J
<1>5. LastRun(ms, J) = LastRun(ms, I)
  BY <1>4 DEF LastRun
<1> QED
  BY <1>3, <1>5 DEF J, ms, n

\* A data line continues the run if the last line was one, else it begins a run.
LEMMA RunGrows ==
  ASSUME NEW ls \in Seq(Lines), NEW l \in Lines, l.field = "data",
         NEW I \in SUBSET (1 .. Len(ls)), InRun(ls) => Len(ls) \in I
  PROVE  LET r == LastRun(ls, I) IN
         /\ InRun(ls) => r \in Seq(Text)
         /\ LastRun(Append(ls, l), I \cup {Len(ls) + 1})
              = IF InRun(ls) THEN Append(r, l.val) ELSE <<l.val>>
<1> DEFINE ms == Append(ls, l)
           n  == Len(ls)
           J  == I \cup {n + 1}
           C  == Of(ls, I, "data")
           D  == Of(ms, J, "data")
           r  == LastRun(ls, I)
<1>1. /\ n \in Nat /\ ms[n + 1] = l /\ \A i \in 1 .. n : ms[i] = ls[i]
      /\ \A i \in 1 .. n + 1 : ms[i] \in Lines
      /\ ls # <<>> => n \in 1 .. n
  <2>1. /\ n \in Nat /\ ms[n + 1] = l /\ \A i \in 1 .. n : ms[i] = ls[i]
        /\ ms \in Seq(Lines) /\ Len(ms) = n + 1
    BY LineAdded
  <2>2. \A i \in 1 .. n + 1 : ms[i] \in Lines
    <3> HIDE DEF ms, n
    <3> QED
      BY <2>1, ElementOfSeq
  <2>3. ls # <<>> => n \in 1 .. n
    BY EmptySeq
  <2> QED
    BY <2>1, <2>2, <2>3
<1> HIDE DEF ms, n, r
<1>2. /\ C \in SUBSET (1 .. n) /\ D = C \cup {n + 1}
      /\ D \in SUBSET (1 .. n + 1) /\ D # {}
  <2>1. \A i \in I : i \in 1 .. n
    BY DEF n
  <2>2. C \in SUBSET (1 .. n)
    BY <2>1 DEF Of
  <2>3. D = C \cup {n + 1}
    <3>1. \A i \in I : ms[i] = ls[i]
      BY <1>1, <2>1
    <3> QED
      BY <1>1, <3>1 DEF Of
  <2> HIDE DEF C, D
  <2>4. \A i \in 1 .. n : i \in 1 .. n + 1
    BY <1>1
  <2>5. n + 1 \in 1 .. n + 1
    BY <1>1
  <2> QED
    BY <2>2, <2>3, <2>4, <2>5
<1>3. InRun(ls) => n \in C
  BY <1>1 DEF InRun, Of, n
<1>4. ~InRun(ls) => n \notin C
  <2>1. ASSUME n \in C PROVE InRun(ls)
    <3>1. n \in 1 .. n /\ ls[n].field = "data"
      BY <1>2, <2>1 DEF Of
    <3>2. ls # <<>>
      BY <3>1, EmptySeq DEF n
    <3> QED
      BY <3>1, <3>2 DEF InRun, n
  <2> QED
    BY <2>1
<1> HIDE DEF C, D
<1>5. Max(D) = n + 1
  <2>1. n + 1 \in Nat /\ n + 1 \in D /\ \A i \in D : i <= n + 1 /\ i \in Nat
    BY <1>1, <1>2
  <2>2. Max(D) \in D /\ \A y \in D : y <= Max(D)
    BY <1>2, <2>1, MaxIsGreatest
  <2> QED
    BY <2>1, <2>2
<1>6. /\ Low(D) \in 1 .. n + 1 /\ Low(D) .. n + 1 \subseteq D
      /\ \A i \in D : i .. n + 1 \subseteq D => Low(D) <= i
  <2> DEFINE p == n + 1
  <2>1. p \in Nat /\ D \in SUBSET (1 .. p) /\ D # {}
    BY <1>1, <1>2
  <2> HIDE DEF p
  <2>2. /\ Low(D) \in 1 .. Max(D) /\ Low(D) .. Max(D) \subseteq D
        /\ \A i \in D : i .. Max(D) \subseteq D => Low(D) <= i
    BY <2>1, RunBounds
  <2> QED
    BY <1>5, <2>2
<1>7. LastRun(ms, J) = [k \in 1 .. n + 1 - Low(D) + 1 |-> ms[Low(D) + k - 1].val]
  <2>1. Of(ms, J, "data") = D
    BY DEF D
  <2>2. LastRun(ms, J) = [k \in 1 .. Max(D) - Low(D) + 1 |-> ms[Low(D) + k - 1].val]
    <3> HIDE DEF J
    <3>1. D # {}
      BY <1>2
    <3> QED
      BY <3>1, RunOf DEF D
  <2> HIDE DEF J
  <2> QED
    BY <1>1, <1>5, <1>6, <2>2
<1>8. \A i \in 1 .. n + 1 : ms[i].val \in Text
  BY <1>1, LinesAssumption
<1> HIDE DEF J
<1>9. ASSUME InRun(ls)
      PROVE  r \in Seq(Text) /\ LastRun(ms, J) = Append(r, l.val)
  <2>1. n \in C /\ C # {} /\ n \in 1 .. n
    BY <1>2, <1>3, <1>9
  <2>2. Max(C) = n
    <3>1. Max(C) \in C /\ \A y \in C : y <= Max(C)
      BY <1>1, <1>2, <2>1, MaxIsGreatest
    <3>2. \A i \in C : i <= n /\ i \in Nat
      BY <1>1, <1>2
    <3>3. Max(C) <= n /\ n <= Max(C) /\ Max(C) \in Nat
      BY <2>1, <3>1, <3>2
    <3> QED
      BY <1>1, <3>3
  <2>3. /\ Low(C) \in 1 .. n /\ Low(C) .. n \subseteq C
        /\ \A i \in C : i .. n \subseteq C => Low(C) <= i
    BY <1>1, <1>2, <2>1, <2>2, RunBounds
  <2>4. Low(D) = Low(C)
    <3>1. Low(C) .. n + 1 \subseteq D /\ Low(C) \in D
      <4>1. \A j \in Low(C) .. n + 1 : j \in Low(C) .. n \/ j = n + 1
        BY <1>1, <2>3
      <4>2. Low(C) \in Low(C) .. n
        BY <1>1, <2>3
      <4> QED
        BY <1>2, <2>3, <4>1, <4>2
    <3>2. Low(D) <= Low(C)
      BY <1>6, <3>1
    <3>3. Low(D) \in 1 .. n /\ Low(D) .. n \subseteq C
      <4>1. Low(D) \in 1 .. n
        BY <1>1, <1>6, <2>3, <3>2
      <4>2. \A j \in Low(D) .. n : j \in Low(D) .. n + 1 /\ j # n + 1
        BY <1>1, <4>1
      <4> QED
        BY <1>2, <1>6, <4>1, <4>2
    <3>4. Low(D) \in C
      <4>1. Low(D) \in Low(D) .. n
        BY <1>1, <3>3
      <4> QED
        BY <3>3, <4>1
    <3>5. Low(C) <= Low(D)
      BY <2>3, <3>3, <3>4
    <3> QED
      BY <1>1, <2>3, <3>2, <3>3, <3>5
  <2> DEFINE lo == Low(C)
             m  == n - lo + 1
  <2>5. lo \in 1 .. n /\ m \in Nat /\ n + 1 - lo + 1 = m + 1
    BY <1>1, <2>3
  <2>6. r = [k \in 1 .. m |-> ls[lo + k - 1].val]
    BY <2>1, <2>2, RunOf DEF r, C
  <2>7. LastRun(ms, J) = [k \in 1 .. m + 1 |-> ms[lo + k - 1].val]
    BY <1>7, <2>4, <2>5
  <2> HIDE DEF lo
  <2>8. \A k \in 1 .. m : lo + k - 1 \in 1 .. n
    BY <1>1, <2>5
  <2>9. lo + (m + 1) - 1 = n + 1
    BY <1>1, <2>5
  <2>10. \A k \in 1 .. m : ls[lo + k - 1].val = ms[lo + k - 1].val
                           /\ ls[lo + k - 1].val \in Text
    <3> TAKE k \in 1 .. m
    <3>1. lo + k - 1 \in 1 .. n /\ lo + k - 1 \in 1 .. n + 1
      BY <1>1, <2>8
    <3>2. ms[lo + k - 1] = ls[lo + k - 1]
      BY <1>1, <3>1
    <3> QED
      BY <1>8, <3>1, <3>2
  <2> HIDE DEF m
  <2>11. r \in [1 .. m -> Text]
    BY <2>6, <2>10
  <2>12. r \in Seq(Text) /\ Len(r) = m
    <3>1. r \in Seq(Text)
      BY <2>5, <2>11
    <3>2. DOMAIN r = 1 .. m
      BY <2>6
    <3> QED
      BY <2>5, <3>1, <3>2, LenProperties
  <2>13. l.val \in Text
    BY LinesAssumption
  <2> DEFINE t == LastRun(ms, J)
  <2>14. /\ \A k \in 1 .. m : t[k] = r[k] /\ t[k] \in Text
         /\ t[m + 1] = l.val
    <3>1. \A k \in 1 .. m : k \in 1 .. m + 1
      BY <2>5
    <3>2. m + 1 \in 1 .. m + 1
      BY <2>5
    <3>3. \A k \in 1 .. m + 1 : t[k] = ms[lo + k - 1].val
      BY <2>7
    <3>4. t[m + 1] = ms[n + 1].val
      BY <2>9, <3>2, <3>3
    <3> HIDE DEF t
    <3>5. \A k \in 1 .. m : t[k] = r[k] /\ t[k] \in Text
      <4> TAKE k \in 1 .. m
      <4>1. t[k] = ms[lo + k - 1].val
        BY <3>1, <3>3
      <4>2. r[k] = ls[lo + k - 1].val
        BY <2>6
      <4> QED
        BY <2>10, <4>1, <4>2
    <3> QED
      BY <1>1, <3>4, <3>5
  <2>15. t \in Seq(Text) /\ Len(t) = m + 1
    <3>1. \A k \in 1 .. m + 1 : k \in 1 .. m \/ k = m + 1
      BY <2>5
    <3>2. \A k \in 1 .. m + 1 : t[k] \in Text
      BY <2>13, <2>14, <3>1
    <3>3. t \in [1 .. m + 1 -> Text] /\ DOMAIN t = 1 .. m + 1
      <4>1. \A k \in 1 .. m + 1 : ms[lo + k - 1].val \in Text
        BY <2>7, <3>2
      <4> QED
        BY <2>7, <4>1
    <3> HIDE DEF t
    <3>4. t \in Seq(Text)
      BY <2>5, <3>3
    <3> QED
      BY <2>5, <3>3, <3>4, LenProperties
  <2>16. /\ Append(r, l.val) \in Seq(Text) /\ Len(Append(r, l.val)) = m + 1
         /\ \A k \in 1 .. m : Append(r, l.val)[k] = r[k]
         /\ Append(r, l.val)[m + 1] = l.val
    BY <2>12, <2>13, AppendProperties
  <2> HIDE DEF t
  <2>17. \A k \in 1 .. m + 1 : t[k] = Append(r, l.val)[k]
    <3>1. \A k \in 1 .. m + 1 : k \in 1 .. m \/ k = m + 1
      BY <2>5
    <3> QED
      BY <2>14, <2>16, <3>1
  <2>18. t = Append(r, l.val)
    BY <2>15, <2>16, <2>17, SeqEqual
  <2> QED
    BY <2>12, <2>18 DEF t
<1>10. ASSUME ~InRun(ls)
       PROVE  LastRun(ms, J) = <<l.val>>
  <2>1. Low(D) = n + 1
    <3>1. n \notin D
      BY <1>1, <1>2, <1>4, <1>10
    <3>2. ~ (Low(D) <= n)
      <4>1. Low(D) <= n => n \in Low(D) .. n + 1
        BY <1>1, <1>6
      <4> QED
        BY <1>6, <3>1, <4>1
    <3> QED
      BY <1>1, <1>6, <3>2
  <2>2. n + 1 - Low(D) + 1 = 1
    BY <1>1, <2>1
  <2>3. LastRun(ms, J) = [k \in 1 .. 1 |-> ms[n + 1 + k - 1].val]
    BY <1>7, <2>1, <2>2
  <2>4. n + 1 + 1 - 1 = n + 1
    BY <1>1
  <2>5. \A k \in 1 .. 1 : ms[n + 1 + k - 1].val = l.val
    BY <1>1, <2>4
  <2> QED
    BY <2>3, <2>5
<1> QED
  BY <1>9, <1>10 DEF r, ms, J, n

LEMMA PartIs ==
  ASSUME NEW ls, NEW end, NEW last, end - 1 = last
  PROVE  Part(ls, end) = {i \in 1 .. last : \A j \in i .. last : ls[j].field # "blank"}
BY DEF Part

LEMMA LineJoins ==
  ASSUME NEW ls \in Seq(Lines), NEW l \in Lines, l.field # "blank"
  PROVE  LET R == Whole(ls) IN
         Whole(Append(ls, l)) =
           IF l.field = "data"
           THEN [R EXCEPT !.data = IF InRun(ls) THEN Append(R.data, l.val) ELSE <<l.val>>]
           ELSE WithField(R, l)
<1> DEFINE ms == Append(ls, l)
           n  == Len(ls)
           I  == Part(ls, n + 1)
           J  == I \cup {n + 1}
           R  == Whole(ls)
           W  == Whole(ms)
<1>1. /\ n \in Nat /\ Len(ms) = n + 1 /\ ms[n + 1] = l
      /\ \A i \in 1 .. n : ms[i] = ls[i]
  BY LineAdded
<1>2. /\ n + 1 - 1 = n /\ Len(ms) + 1 - 1 = n + 1
      /\ \A i \in 1 .. n + 1 : i \in 1 .. n \/ i = n + 1
      /\ \A i \in 1 .. n : i \in 1 .. n + 1 /\ i .. n + 1 = (i .. n) \cup {n + 1}
      /\ n + 1 \in 1 .. n + 1 /\ (n + 1) .. (n + 1) = {n + 1}
      /\ \A i \in 1 .. n : \A j \in i .. n : j \in 1 .. n
  <2> HIDE DEF n, ms
  <2>1. n + 1 - 1 = n /\ Len(ms) + 1 - 1 = n + 1 /\ n + 1 \in 1 .. n + 1
    BY <1>1
  <2>2. \A i \in 1 .. n + 1 : i \in 1 .. n \/ i = n + 1
    BY <1>1
  <2>3. \A i \in 1 .. n : i \in 1 .. n + 1 /\ i .. n + 1 = (i .. n) \cup {n + 1}
    BY <1>1
  <2>4. (n + 1) .. (n + 1) = {n + 1}
    BY <1>1
  <2>5. \A i \in 1 .. n : \A j \in i .. n : j \in 1 .. n
    BY <1>1
  <2> QED
    BY <2>1, <2>2, <2>3, <2>4, <2>5
<1> HIDE DEF ms, n
<1>3. I = {i \in 1 .. n : \A j \in i .. n : ls[j].field # "blank"}
  <2> DEFINE e == n + 1
  <2>1. e - 1 = n
    BY <1>1
  <2> HIDE DEF e
  <2>2. Part(ls, e) = {i \in 1 .. n : \A j \in i .. n : ls[j].field # "blank"}
    BY <2>1, PartIs
  <2> QED
    BY <2>2 DEF e
<1>4. Part(ms, Len(ms) + 1) = {i \in 1 .. n + 1 : \A j \in i .. n + 1 : ms[j].field # "blank"}
  BY <1>2, PartIs
<1>5. Part(ms, Len(ms) + 1) = J
  <2> DEFINE K == {i \in 1 .. n + 1 : \A j \in i .. n + 1 : ms[j].field # "blank"}
  <2>1. ASSUME NEW i \in 1 .. n PROVE i \in K <=> i \in I
    <3>1. \A j \in i .. n : ms[j] = ls[j]
      BY <1>1, <1>2
    <3>2. (\A j \in i .. n + 1 : ms[j].field # "blank")
            <=> (\A j \in i .. n : ls[j].field # "blank")
      <4>1. i .. n + 1 = (i .. n) \cup {n + 1}
        BY <1>2
      <4> QED
        BY <1>1, <3>1, <4>1
    <3> QED
      BY <1>2, <1>3, <3>2
  <2>2. n + 1 \in K
    BY <1>1, <1>2
  <2>3. \A i \in I : i \in 1 .. n
    BY <1>3
  <2>4. \A i \in K : i \in 1 .. n \/ i = n + 1
    BY <1>2
  <2> HIDE DEF K, I
  <2>5. K = J
    BY <2>1, <2>2, <2>3, <2>4
  <2> QED
    BY <1>4, <2>5 DEF K
<1>6. I \in SUBSET (1 .. n)
  BY <1>3
<1>7. InRun(ls) => n \in I
  <2> SUFFICES ASSUME InRun(ls) PROVE n \in I
    OBVIOUS
  <2>1. n \in 1 .. n
    BY EmptySeq DEF InRun, n
  <2>2. \A j \in n .. n : j = n
    BY <1>1
  <2>3. ls[n].field = "data"
    BY DEF InRun, n
  <2> QED
    BY <1>3, <2>1, <2>2, <2>3
<1> HIDE DEF I
<1>8. \A f \in Fields : LastOf(ms, J, f) = IF l.field = f THEN l.val ELSE LastOf(ls, I, f)
  BY <1>6, FieldOfLast DEF ms, n
<1>9. R = [name  |-> LastOf(ls, I, "event"), id   |-> LastOf(ls, I, "id"),
           retry |-> LastOf(ls, I, "retry"), data |-> LastRun(ls, I)]
  BY DEF Whole, Record, I, n
<1>10. W = [name  |-> LastOf(ms, J, "event"), id   |-> LastOf(ms, J, "id"),
            retry |-> LastOf(ms, J, "retry"), data |-> LastRun(ms, J)]
  BY <1>5 DEF Whole, Record
<1> HIDE DEF J, R, W
<1>11. /\ LastOf(ms, J, "event") = IF l.field = "event" THEN l.val ELSE LastOf(ls, I, "event")
       /\ LastOf(ms, J, "id") = IF l.field = "id" THEN l.val ELSE LastOf(ls, I, "id")
       /\ LastOf(ms, J, "retry") = IF l.field = "retry" THEN l.val ELSE LastOf(ls, I, "retry")
  BY <1>8 DEF Fields
<1>12. CASE l.field = "data"
  <2>1. LastRun(ms, J) = IF InRun(ls) THEN Append(LastRun(ls, I), l.val) ELSE <<l.val>>
    BY <1>6, <1>7, <1>12, RunGrows DEF ms, n, J
  <2>2. W = [R EXCEPT !.data = IF InRun(ls) THEN Append(R.data, l.val) ELSE <<l.val>>]
    <3> DEFINE d == IF InRun(ls) THEN Append(LastRun(ls, I), l.val) ELSE <<l.val>>
    <3>1. R.data = LastRun(ls, I)
      BY <1>9
    <3>2. LastRun(ms, J) = d
      BY <2>1
    <3> HIDE DEF d
    <3>3. W = [R EXCEPT !.data = d]
      BY <1>9, <1>10, <1>11, <1>12, <3>2
    <3> QED
      BY <3>1, <3>3 DEF d
  <2> QED
    BY <1>12, <2>2 DEF W, R, ms
<1>13. CASE l.field # "data"
  <2>1. LastRun(ms, J) = LastRun(ls, I)
    BY <1>6, <1>13, RunStays DEF ms, n, J
  <2>2. W = WithField(R, l)
    BY <1>9, <1>10, <1>11, <2>1 DEF WithField
  <2> QED
    BY <1>13, <2>2 DEF W, R, ms
<1> QED
  BY <1>12, <1>13

LEMMA RunAdded ==
  ASSUME NEW ls \in Seq(Lines), NEW l \in Lines
  PROVE  InRun(Append(ls, l)) <=> l.field = "data"
<1>1. /\ Append(ls, l) # <<>> /\ Len(Append(ls, l)) = Len(ls) + 1
      /\ Append(ls, l)[Len(ls) + 1] = l
  BY AppendProperties
<1> QED
  BY <1>1 DEF InRun

-----------------------------------------------------------------------------
(* The events of the lines, and those yielded, one more at a time.         *)

LEMMA ClosedIsSeq ==
  ASSUME NEW ls \in Seq(Lines)
  PROVE  /\ Closed(ls) \o <<>> = Closed(ls)
         /\ \A e : Closed(ls) \o <<e>> = Append(Closed(ls), e)
<1> DEFINE n  == Len(ls)
           P  == Ends(ls)
           v  == [b \in DOMAIN ls |-> Record(ls, b)]
           S  == {Record(ls, b) : b \in DOMAIN ls}
<1>1. n \in Nat /\ DOMAIN ls = 1 .. n
  BY LenProperties
<1> HIDE DEF n
<1>2. P \subseteq 1 .. n /\ \A i \in P : v[i] \in S
  BY <1>1 DEF Ends
<1>3. Closed(ls) = Listed(P, v)
  BY DEF Closed
<1> HIDE DEF P, v, S
<1>4. Continues(v, v, P, n, S)
  BY <1>2 DEF Continues
<1>5. Grows(v, v, P, n, S)
  BY <1>1, <1>4, ListedGrows
<1>6. Closed(ls) \in Seq(S)
  BY <1>3, <1>5 DEF Grows
<1>7. Closed(ls) \o <<>> = Closed(ls)
  BY <1>6, ConcatEmptySeq
<1>8. ASSUME NEW e PROVE Closed(ls) \o <<e>> = Append(Closed(ls), e)
  <2> DEFINE T == S \cup {e}
  <2>1. Closed(ls) \in Seq(T) /\ e \in T
    BY <1>6, SeqMonotonic
  <2> HIDE DEF T
  <2> QED
    BY <2>1, AppendIsConcat
<1> QED
  BY <1>7, <1>8

LEMMA ClosedGrows ==
  ASSUME NEW ls \in Seq(Lines), NEW l \in Lines
  PROVE  Closed(Append(ls, l)) = IF l.field = "blank" /\ ~Empty(Whole(ls))
                                  THEN Append(Closed(ls), Whole(ls)) ELSE Closed(ls)
<1> DEFINE ms == Append(ls, l)
           n  == Len(ls)
           P  == Ends(ls)
           v  == [b \in DOMAIN ls |-> Record(ls, b)]
           w  == [b \in DOMAIN ms |-> Record(ms, b)]
           S  == {Record(ls, b) : b \in DOMAIN ls}
           new == l.field = "blank" /\ ~Empty(Whole(ls))
<1>1. /\ n \in Nat /\ ms[n + 1] = l /\ \A i \in 1 .. n : ms[i] = ls[i]
      /\ DOMAIN ls = 1 .. n /\ DOMAIN ms = 1 .. n + 1
  BY LineAdded
<1>2. /\ \A b \in 1 .. n : Record(ms, b) = Record(ls, b)
      /\ Record(ms, n + 1) = Whole(ls)
  <2>1. \A b \in 1 .. n : b \in 1 .. n + 1
    BY <1>1
  <2>2. n + 1 \in 1 .. n + 1
    BY <1>1
  <2> QED
    BY <2>1, <2>2, EarlierRecord DEF Whole
<1> HIDE DEF ms, n
<1>3. P \in SUBSET (1 .. n)
  BY <1>1 DEF Ends
<1>4. /\ \A b \in 1 .. n : b \in 1 .. n + 1
      /\ n + 1 \in 1 .. n + 1 /\ n + 1 \notin 1 .. n
      /\ \A b \in 1 .. n + 1 : b \in 1 .. n \/ b = n + 1
  BY <1>1
<1>5. Ends(ms) = IF new THEN P \cup {n + 1} ELSE P
  <2>1. \A b \in 1 .. n : b \in Ends(ms) <=> b \in P
    BY <1>1, <1>2, <1>4 DEF Ends
  <2>2. n + 1 \in Ends(ms) <=> new
    BY <1>1, <1>2, <1>4 DEF Ends
  <2>3. \A b \in Ends(ms) : b \in 1 .. n \/ b = n + 1
    BY <1>1, <1>4 DEF Ends
  <2> DEFINE N == Ends(ms)
  <2> HIDE DEF P, new, N
  <2>4. CASE new
    <3>1. N = P \cup {n + 1}
      BY <1>3, <2>1, <2>2, <2>3, <2>4 DEF N
    <3> QED
      BY <2>4, <3>1 DEF N
  <2>5. CASE ~new
    <3>1. N = P
      BY <1>3, <2>1, <2>2, <2>3, <2>5 DEF N
    <3> QED
      BY <2>5, <3>1 DEF N
  <2> QED
    BY <2>4, <2>5
<1>6. /\ \A i \in P : v[i] \in S /\ w[i] = v[i]
      /\ w[n + 1] = Whole(ls)
  <2>1. \A i \in P : i \in 1 .. n /\ i \in 1 .. n + 1
    BY <1>3, <1>4
  <2> HIDE DEF P
  <2> QED
    BY <1>1, <1>2, <1>4, <2>1
<1>7. Closed(ls) = Listed(P, v) /\ Closed(ms) = Listed(Ends(ms), w)
  BY DEF Closed
<1> HIDE DEF P, v, w, S, new
<1>8. /\ Listed(P, v) \in Seq(S)
      /\ Listed(P, w) = Listed(P, v)
      /\ Listed(P \cup {n + 1}, w) = Append(Listed(P, v), w[n + 1])
  <2>1. n \in Nat
    BY <1>1
  <2>2. Continues(w, v, P, n, S)
    BY <1>3, <1>6 DEF Continues
  <2>3. Grows(w, v, P, n, S)
    BY <2>1, <2>2, ListedGrows
  <2> QED
    BY <2>3 DEF Grows
<1>9. Closed(ms) = IF new THEN Append(Closed(ls), Whole(ls)) ELSE Closed(ls)
  BY <1>5, <1>6, <1>7, <1>8
<1> QED
  BY <1>9 DEF ms, new

LEMMA EventsGrow ==
  ASSUME NEW items \in Seq(Items), NEW x \in Items
  PROVE  EventsOf(Append(items, x)) = IF x.err = "nil" THEN Append(EventsOf(items), x.evt)
                                                      ELSE EventsOf(items)
<1> DEFINE longer == Append(items, x)
           n  == Len(items)
           P  == Nils(items)
           v  == [i \in DOMAIN items |-> items[i].evt]
           w  == [i \in DOMAIN longer |-> longer[i].evt]
           S  == {items[i].evt : i \in DOMAIN items}
<1>1. /\ n \in Nat /\ longer[n + 1] = x /\ \A i \in 1 .. n : longer[i] = items[i]
      /\ DOMAIN items = 1 .. n /\ DOMAIN longer = 1 .. n + 1
  <2>1. /\ longer \in Seq(Items) /\ Len(longer) = n + 1 /\ longer[n + 1] = x
        /\ \A i \in 1 .. n : longer[i] = items[i]
    BY AppendProperties
  <2>2. n \in Nat /\ DOMAIN items = 1 .. n
    BY LenProperties
  <2> HIDE DEF longer
  <2>3. DOMAIN longer = 1 .. n + 1
    BY <2>1, LenProperties
  <2> QED
    BY <2>1, <2>2, <2>3
<1> HIDE DEF longer, n
<1>2. P \in SUBSET (1 .. n)
  BY <1>1 DEF Nils
<1>3. /\ \A b \in 1 .. n : b \in 1 .. n + 1
      /\ n + 1 \in 1 .. n + 1 /\ n + 1 \notin 1 .. n
      /\ \A b \in 1 .. n + 1 : b \in 1 .. n \/ b = n + 1
  BY <1>1
<1>4. Nils(longer) = IF x.err = "nil" THEN P \cup {n + 1} ELSE P
  <2>1. \A i \in 1 .. n : i \in Nils(longer) <=> i \in P
    BY <1>1, <1>3 DEF Nils
  <2>2. n + 1 \in Nils(longer) <=> x.err = "nil"
    BY <1>1, <1>3 DEF Nils
  <2>3. \A i \in Nils(longer) : i \in 1 .. n \/ i = n + 1
    BY <1>1, <1>3 DEF Nils
  <2> DEFINE N == Nils(longer)
  <2> HIDE DEF P, N
  <2>4. CASE x.err = "nil"
    <3>1. N = P \cup {n + 1}
      BY <1>2, <2>1, <2>2, <2>3, <2>4 DEF N
    <3> QED
      BY <2>4, <3>1 DEF N
  <2>5. CASE x.err # "nil"
    <3>1. N = P
      BY <1>2, <2>1, <2>2, <2>3, <2>5 DEF N
    <3> QED
      BY <2>5, <3>1 DEF N
  <2> QED
    BY <2>4, <2>5
<1>5. /\ \A i \in P : v[i] \in S /\ w[i] = v[i]
      /\ w[n + 1] = x.evt
  <2>1. \A i \in P : i \in 1 .. n /\ i \in 1 .. n + 1
    BY <1>2, <1>3
  <2> HIDE DEF P
  <2> QED
    BY <1>1, <1>3, <2>1
<1>6. EventsOf(items) = Listed(P, v) /\ EventsOf(longer) = Listed(Nils(longer), w)
  BY DEF EventsOf
<1> HIDE DEF P, v, w, S
<1>7. /\ Listed(P, w) = Listed(P, v)
      /\ Listed(P \cup {n + 1}, w) = Append(Listed(P, v), w[n + 1])
  <2>1. n \in Nat
    BY <1>1
  <2>2. Continues(w, v, P, n, S)
    BY <1>2, <1>5 DEF Continues
  <2>3. Grows(w, v, P, n, S)
    BY <2>1, <2>2, ListedGrows
  <2> QED
    BY <2>3 DEF Grows
<1>8. EventsOf(longer) = IF x.err = "nil" THEN Append(EventsOf(items), x.evt)
                                         ELSE EventsOf(items)
  BY <1>4, <1>5, <1>6, <1>7
<1> QED
  BY <1>8 DEF longer

-----------------------------------------------------------------------------
(* The scanner yields the events of the lines it has read.                 *)

LEMMA InitDecoderInv == Init => DecoderInv
<1> SUFFICES ASSUME Init PROVE DecoderInv
  OBVIOUS
<1>1. /\ spc = "scan" /\ evt = NoEvent /\ dataBuf = <<>> /\ out = <<>> /\ read = <<>>
  BY DEF Init, ScanInit
<1>2. Whole(<<>>) = NoEvent /\ Len(<<>>) = 0 /\ ~InRun(<<>>)
  BY FirstRecord, EmptySeq DEF InRun
<1>3. Flushed(evt, dataBuf) = NoEvent
  BY <1>1 DEF Flushed
<1>4. EventsOf(<<>>) = <<>> /\ Closed(<<>>) = <<>>
  <2>1. Nils(<<>>) = {} /\ Ends(<<>>) = {}
    BY DEF Nils, Ends
  <2>2. \A v : Listed({}, v) = <<>>
    BY FS_EmptySet DEF Listed
  <2> QED
    BY <2>1, <2>2 DEF EventsOf, Closed
<1>5. ~Completed
  BY <1>1 DEF Completed
<1>6. <<>> \o <<>> = <<>>
  BY EmptySeq, ConcatEmptySeq
<1>7. YieldsTheEvents
  BY <1>1, <1>4, <1>5, <1>6 DEF YieldsTheEvents
<1> QED
  BY <1>1, <1>2, <1>3, <1>7 DEF DecoderInv, Whole

\* Before the iteration completes, the events yielded are those that ended.
LEMMA CaughtUp ==
  ASSUME TypeOK, DecoderInv, ~Completed
  PROVE  EventsOf(out) = Closed(read)
BY ClosedIsSeq DEF DecoderInv, YieldsTheEvents, TypeOK

\* One yield and the events yielded.
LEMMA YieldedEvents ==
  ASSUME TypeOK, NEW e \in Event, NEW err \in Failures, NEW pc, Yield(e, err, pc)
  PROVE  /\ EventsOf(out') = IF err = "nil" THEN Append(EventsOf(out), e) ELSE EventsOf(out)
         /\ out' # <<>> /\ out'[Len(out')].err = err /\ spc' = pc
<1> DEFINE x == Item(e, err)
<1>1. x \in Items /\ x.evt = e /\ x.err = err
  BY DEF Item, Items
<1>2. out' = Append(out, x) /\ spc' = pc
  BY DEF Yield
<1> HIDE DEF x
<1>3. out \in Seq(Items)
  BY DEF TypeOK, Items
<1>4. /\ Append(out, x) # <<>> /\ Len(Append(out, x)) = Len(out) + 1
      /\ Append(out, x)[Len(out) + 1] = x
  BY <1>1, <1>3, AppendProperties
<1>5. EventsOf(Append(out, x)) = IF x.err = "nil" THEN Append(EventsOf(out), x.evt)
                                                 ELSE EventsOf(out)
  BY <1>1, <1>3, EventsGrow
<1> QED
  BY <1>1, <1>2, <1>4, <1>5

\* One line scanned.
LEMMA ScannedLine ==
  ASSUME TypeOK, DecoderInv, NEW f, Scan(f)
  PROVE  LET l == Head(wire) IN
         /\ l \in Lines /\ l.field = f /\ read' = Append(read, l)
         /\ read' \in Seq(Lines)
         /\ InRun(read') <=> f = "data"
         /\ f = "blank" => Whole(read') = NoEvent
         /\ Flushed(evt, dataBuf) = Whole(read)
         /\ dataBuf # <<>> <=> InRun(read)
         /\ EventsOf(out) = Closed(read)
         /\ Closed(read') = IF f = "blank" /\ ~Empty(Whole(read))
                            THEN Append(Closed(read), Whole(read)) ELSE Closed(read)
<1> DEFINE l == Head(wire)
<1>1. wire # <<>> /\ wire \in Seq(Lines) /\ read \in Seq(Lines) /\ spc = "scan"
  BY DEF TypeOK, Scan
<1>2. l \in Lines
  BY <1>1, HeadOfWire
<1>3. l.field = f /\ read' = Append(read, l)
  BY DEF Scan
<1> HIDE DEF l
<1>4. read' \in Seq(Lines)
  BY <1>1, <1>2, <1>3, AppendProperties
<1>5. ~Completed
  BY <1>1 DEF Completed
<1>6. EventsOf(out) = Closed(read)
  BY <1>5, CaughtUp
<1>7. Flushed(evt, dataBuf) = Whole(read) /\ (dataBuf # <<>> <=> InRun(read))
  BY <1>1 DEF DecoderInv, Whole
<1>8. InRun(read') <=> f = "data"
  BY <1>1, <1>2, <1>3, RunAdded
<1>9. f = "blank" => Whole(read') = NoEvent
  BY <1>1, <1>2, <1>3, BlankAdded
<1>10. Closed(read') = IF f = "blank" /\ ~Empty(Whole(read))
                       THEN Append(Closed(read), Whole(read)) ELSE Closed(read)
  BY <1>1, <1>2, <1>3, ClosedGrows
<1> QED
  BY <1>2, <1>3, <1>4, <1>6, <1>7, <1>8, <1>9, <1>10 DEF l

\* The invariant after a step that does not complete the iteration.
LEMMA Decoding ==
  ASSUME read' \in Seq(Lines), ~Completed', EventsOf(out') = Closed(read'),
         spc' \in {"scan", "yieldError", "final"} =>
           /\ Flushed(evt', dataBuf') = Whole(read')
           /\ dataBuf' # <<>> <=> InRun(read'),
         spc' = "yieldRecord" =>
           dataBuf' = <<>> /\ Whole(read') = NoEvent /\ ~InRun(read')
  PROVE  DecoderInv'
<1>1. Closed(read') \o <<>> = Closed(read')
  BY ClosedIsSeq
<1>2. YieldsTheEvents'
  BY <1>1 DEF YieldsTheEvents
<1> QED
  BY <1>2 DEF DecoderInv, Whole

LEMMA NextDecoderInv ==
  TypeOK /\ ScanInv /\ DecoderInv /\ [Next]_scanVars => DecoderInv'
<1> SUFFICES ASSUME TypeOK, ScanInv, DecoderInv, [Next]_scanVars PROVE DecoderInv'
  OBVIOUS
<1> DEFINE l == Head(wire)
           e == Flushed(evt, dataBuf)
<1>0. /\ evt \in Event /\ dataBuf \in Seq(Text) /\ read \in Seq(Lines)
      /\ e \in Event /\ NoEvent \in Event /\ Empty(NoEvent)
      /\ "nil" \in Failures /\ "malformed" \in Failures
  BY FlushedIsEvent, NoEventIsEvent DEF TypeOK, Failures
<1>00. \A b : Flushed(b, <<>>) = b
  BY DEF Flushed
<1>1. CASE BlankLine
  <2>1. /\ read' \in Seq(Lines) /\ ~InRun(read') /\ Whole(read') = NoEvent /\ e = Whole(read)
        /\ EventsOf(out) = Closed(read)
        /\ Closed(read') = IF ~Empty(Whole(read))
                           THEN Append(Closed(read), Whole(read)) ELSE Closed(read)
    BY <1>1, ScannedLine DEF BlankLine
  <2>2. dataBuf' = <<>> /\ spc = "scan"
    BY <1>1 DEF BlankLine, Scan
  <2>3. CASE Empty(e)
    <3>1. evt' = NoEvent /\ spc' = spc /\ out' = out
      BY <1>1, <2>3 DEF BlankLine
    <3>2. ~Completed'
      BY <2>2, <3>1 DEF Completed
    <3>3. Flushed(evt', dataBuf') = NoEvent
      BY <1>00, <2>2, <3>1
    <3> HIDE DEF e
    <3> QED
      BY <2>1, <2>2, <2>3, <3>1, <3>2, <3>3, Decoding
  <2>4. CASE ~Empty(e)
    <3>1. Yield(e, "nil", "yieldRecord")
      BY <1>1, <2>4 DEF BlankLine
    <3> HIDE DEF e
    <3>2. EventsOf(out') = Append(EventsOf(out), e) /\ spc' = "yieldRecord"
      BY <1>0, <3>1, YieldedEvents
    <3>3. ~Completed'
      BY <3>2 DEF Completed
    <3> QED
      BY <2>1, <2>2, <2>4, <3>2, <3>3, Decoding
  <2> QED
    BY <2>3, <2>4
<1>2. CASE MalformedLine
  <2>1. read' \in Seq(Lines) /\ EventsOf(out) = Closed(read) /\ Closed(read') = Closed(read)
    BY <1>2, ScannedLine DEF MalformedLine
  <2>2. Yield(NoEvent, "malformed", "yieldLast")
    BY <1>2 DEF MalformedLine
  <2>3. /\ EventsOf(out') = EventsOf(out) /\ out' # <<>>
        /\ out'[Len(out')].err = "malformed" /\ spc' = "yieldLast"
    BY <1>0, <2>2, YieldedEvents
  <2>4. ~Completed'
    BY <2>3 DEF Completed
  <2> QED
    BY <2>1, <2>3, <2>4, Decoding
<1>3. CASE FieldLine
  <2>1. PICK f \in {"event", "id", "retry", "other"} : Scan(f)
    BY <1>3 DEF FieldLine
  <2>2. /\ evt' = WithField(e, l) /\ dataBuf' = <<>> /\ spc' = spc /\ out' = out
    BY <1>3 DEF FieldLine
  <2>3. /\ l \in Lines /\ l.field = f /\ read' = Append(read, l) /\ read' \in Seq(Lines)
        /\ ~InRun(read') /\ e = Whole(read)
        /\ EventsOf(out) = Closed(read) /\ Closed(read') = Closed(read)
    BY <2>1, ScannedLine
  <2>4. spc = "scan"
    BY <2>1 DEF Scan
  <2> HIDE DEF e, l
  <2>5. Whole(read') = WithField(e, l)
    <3>1. l.field # "blank" /\ l.field # "data"
      BY <2>3
    <3>2. Whole(Append(read, l)) = WithField(Whole(read), l)
      BY <1>0, <2>3, <3>1, LineJoins
    <3> QED
      BY <2>3, <3>2
  <2>6. Flushed(evt', dataBuf') = Whole(read')
    BY <1>00, <2>2, <2>5
  <2>7. ~Completed'
    BY <2>2, <2>4 DEF Completed
  <2> QED
    BY <2>2, <2>3, <2>4, <2>6, <2>7, Decoding
<1>4. CASE DataLine
  <2>1. Scan("data")
    BY <1>4 DEF DataLine
  <2>2. /\ dataBuf' = Append(dataBuf, l.val) /\ evt' = evt /\ spc' = spc /\ out' = out
    BY <1>4 DEF DataLine
  <2>3. /\ l \in Lines /\ l.field = "data" /\ read' = Append(read, l) /\ read' \in Seq(Lines)
        /\ InRun(read') /\ e = Whole(read) /\ (dataBuf # <<>> <=> InRun(read))
        /\ EventsOf(out) = Closed(read) /\ Closed(read') = Closed(read)
    BY <2>1, ScannedLine
  <2>4. spc = "scan"
    BY <2>1 DEF Scan
  <2>5. e = IF dataBuf # <<>> THEN [evt EXCEPT !.data = dataBuf] ELSE evt
    BY DEF Flushed
  <2> HIDE DEF e, l
  <2>6. Whole(read') = [e EXCEPT !.data = IF InRun(read) THEN Append(e.data, l.val)
                                                        ELSE <<l.val>>]
    <3>1. l.field # "blank"
      BY <2>3
    <3>2. Whole(Append(read, l)) =
            [Whole(read) EXCEPT !.data = IF InRun(read) THEN Append(Whole(read).data, l.val)
                                                        ELSE <<l.val>>]
      BY <1>0, <2>3, <3>1, LineJoins
    <3> QED
      BY <2>3, <3>2
  <2>7. dataBuf' # <<>> /\ Flushed(evt', dataBuf') = [evt EXCEPT !.data = dataBuf']
    <3>1. l.val \in Text
      BY <2>3, LinesAssumption
    <3>2. Append(dataBuf, l.val) # <<>>
      BY <1>0, <3>1, AppendProperties
    <3> QED
      BY <2>2, <3>2 DEF Flushed
  <2>8. Whole(read') = [evt EXCEPT !.data = dataBuf']
    <3>1. CASE dataBuf # <<>>
      <4>1. e = [evt EXCEPT !.data = dataBuf] /\ InRun(read)
        BY <2>3, <2>5, <3>1
      <4>2. e.data = dataBuf
        BY <1>0, <4>1 DEF Event
      <4>3. Whole(read') = [e EXCEPT !.data = dataBuf']
        BY <2>2, <2>6, <4>1, <4>2
      <4> QED
        BY <1>0, <4>1, <4>3 DEF Event
    <3>2. CASE dataBuf = <<>>
      <4>1. e = evt /\ ~InRun(read)
        BY <2>3, <2>5, <3>2
      <4>2. dataBuf' = <<l.val>>
        BY <2>2, <3>2
      <4> QED
        BY <2>6, <4>1, <4>2
    <3> QED
      BY <3>1, <3>2
  <2>9. ~Completed'
    BY <2>2, <2>4 DEF Completed
  <2> QED
    BY <2>2, <2>3, <2>4, <2>7, <2>8, <2>9, Decoding
<1>5. CASE EndOfStream
  <2>1. spc = "scan" /\ read' = read /\ evt' = evt /\ dataBuf' = dataBuf
    BY <1>5 DEF EndOfStream, decoder
  <2>2. /\ Flushed(evt', dataBuf') = Whole(read') /\ (dataBuf' # <<>> <=> InRun(read'))
    BY <2>1 DEF DecoderInv, Whole
  <2>3. ~Completed
    BY <2>1 DEF Completed
  <2>4. EventsOf(out) = Closed(read)
    BY <2>3, CaughtUp
  <2>5. CASE ending = "eof"
    <3>1. spc' = "final" /\ out' = out
      BY <1>5, <2>5 DEF EndOfStream
    <3>2. ~Completed'
      BY <3>1 DEF Completed
    <3> QED
      BY <1>0, <2>1, <2>2, <2>4, <3>1, <3>2, Decoding
  <2>6. CASE ending # "eof"
    <3>1. Yield(NoEvent, ending, "yieldError") /\ ending # "open"
      BY <1>5, <2>6 DEF EndOfStream
    <3>2. ending \in Failures /\ ending # "nil"
      BY <2>6, <3>1 DEF TypeOK, Endings, Failures
    <3>3. EventsOf(out') = EventsOf(out) /\ spc' = "yieldError"
      BY <1>0, <3>1, <3>2, YieldedEvents
    <3>4. ~Completed'
      BY <3>3 DEF Completed
    <3> QED
      BY <1>0, <2>1, <2>2, <2>4, <3>3, <3>4, Decoding
  <2> QED
    BY <2>5, <2>6
<1>6. CASE FinalRecord
  <2>1. spc = "final" /\ evt' = e /\ read' = read
    BY <1>6 DEF FinalRecord
  <2>2. e = Whole(read)
    BY <2>1 DEF DecoderInv, Whole
  <2>3. ~Completed
    BY <2>1 DEF Completed
  <2>4. EventsOf(out) = Closed(read)
    BY <2>3, CaughtUp
  <2>5. Closed(read) \o <<>> = Closed(read) /\ Closed(read) \o <<e>> = Append(Closed(read), e)
    BY <1>0, ClosedIsSeq
  <2>6. Unfinished(read) = IF Empty(e) THEN <<>> ELSE <<e>>
    BY <2>2 DEF Unfinished, Whole
  <2>7. CASE Empty(e)
    <3>1. spc' = "done" /\ out' = out
      BY <1>6, <2>1, <2>7 DEF FinalRecord
    <3> HIDE DEF e
    <3>2. YieldsTheEvents'
      BY <2>1, <2>4, <2>5, <2>6, <2>7, <3>1 DEF YieldsTheEvents
    <3> QED
      BY <3>1, <3>2 DEF DecoderInv
  <2>8. CASE ~Empty(e)
    <3>1. Yield(e, "nil", "yieldLast")
      BY <1>6, <2>1, <2>8 DEF FinalRecord
    <3> HIDE DEF e
    <3>2. /\ EventsOf(out') = Append(EventsOf(out), e) /\ spc' = "yieldLast"
          /\ out'[Len(out')].err = "nil"
      BY <1>0, <3>1, YieldedEvents
    <3>3. Completed'
      BY <3>2 DEF Completed
    <3>4. YieldsTheEvents'
      BY <2>1, <2>4, <2>5, <2>6, <2>8, <3>2, <3>3 DEF YieldsTheEvents
    <3> QED
      BY <3>2, <3>4 DEF DecoderInv
  <2> QED
    BY <2>7, <2>8
<1>7. CASE Continue
  <2>1. read' = read /\ out' = out /\ dataBuf' = dataBuf
    BY <1>7 DEF Continue, history
  <2>2. CASE spc = "yieldRecord"
    <3>1. spc' = "scan" /\ evt' = NoEvent
      BY <1>7, <2>2 DEF Continue
    <3>2. ~Completed /\ ~Completed'
      BY <2>2, <3>1 DEF Completed
    <3>3. EventsOf(out) = Closed(read)
      BY <3>2, CaughtUp
    <3>4. dataBuf = <<>> /\ Whole(read) = NoEvent /\ ~InRun(read)
      BY <2>2 DEF DecoderInv, Whole
    <3> QED
      BY <1>0, <1>00, <2>1, <3>1, <3>2, <3>3, <3>4, Decoding
  <2>3. CASE spc = "yieldError"
    <3>1. spc' = "final" /\ evt' = evt
      BY <1>7, <2>3 DEF Continue
    <3>2. ~Completed /\ ~Completed'
      BY <2>3, <3>1 DEF Completed
    <3>3. EventsOf(out) = Closed(read)
      BY <3>2, CaughtUp
    <3>4. Flushed(evt, dataBuf) = Whole(read) /\ (dataBuf # <<>> <=> InRun(read))
      BY <2>3 DEF DecoderInv, Whole
    <3> QED
      BY <1>0, <2>1, <3>1, <3>2, <3>3, <3>4, Decoding
  <2>4. CASE spc = "yieldLast"
    <3>1. spc' = "done"
      BY <1>7, <2>4 DEF Continue
    <3>2. YieldsTheEvents'
      BY <2>1, <2>4, <3>1 DEF DecoderInv, YieldsTheEvents, Completed
    <3> QED
      BY <3>1, <3>2 DEF DecoderInv
  <2> QED
    BY <1>7, <2>2, <2>3, <2>4 DEF Continue, Yielding
<1>8. CASE Stop
  <2>1. read' = read /\ out' = out /\ spc' = "done"
    BY <1>8 DEF Stop
  <2>2. YieldsTheEvents'
    <3>1. CASE spc = "yieldRecord"
      <4>1. ~Completed
        BY <3>1 DEF Completed
      <4>2. EventsOf(out) = Closed(read)
        BY <4>1, CaughtUp
      <4>3. Unfinished(read) = <<>>
        BY <1>0, <3>1 DEF DecoderInv, Unfinished
      <4>4. Closed(read) \o <<>> = Closed(read)
        BY <1>0, ClosedIsSeq
      <4> QED
        BY <2>1, <4>2, <4>3, <4>4 DEF YieldsTheEvents
    <3>2. CASE spc = "yieldError"
      <4>1. out[Len(out)].err # "nil" /\ out # <<>>
        <5>1. Len(out) \in 1 .. Len(out) /\ out[Len(out)].err # "nil"
          BY <3>2 DEF ScanInv, ErrorsIn
        <5> QED
          BY <5>1, EmptySeq
      <4>2. ~Completed /\ ~Completed'
        BY <2>1, <3>2, <4>1 DEF Completed
      <4> QED
        BY <2>1, <4>2 DEF DecoderInv, YieldsTheEvents
    <3>3. CASE spc = "yieldLast"
      BY <2>1, <3>3 DEF DecoderInv, YieldsTheEvents, Completed
    <3> QED
      BY <1>8, <3>1, <3>2, <3>3 DEF Stop, Yielding
  <2> QED
    BY <2>1, <2>2 DEF DecoderInv
<1>9. CASE Arrive \/ StreamEnds \/ UNCHANGED scanVars
  <2>1. UNCHANGED <<spc, evt, dataBuf, out, read>>
    BY <1>9 DEF Arrive, StreamEnds, scanVars, decoder, history
  <2> QED
    BY <2>1 DEF DecoderInv, YieldsTheEvents, Completed
<1> QED
  BY <1>1, <1>2, <1>3, <1>4, <1>5, <1>6, <1>7, <1>8, <1>9
  DEF Next, ScanStep, Terminated

\* The consumer gets exactly the events of the lines, as SSEReference reads
\* them, for streams of any length, wherever they end and it leaves.
THEOREM EventsYielded == Spec => []YieldsTheEvents
<1>1. Init => DecoderInv
  BY InitDecoderInv
<1>2. (TypeOK /\ ScanInv) /\ DecoderInv /\ [Next]_scanVars => DecoderInv'
  BY NextDecoderInv
<1>3. DecoderInv => YieldsTheEvents
  BY DEF DecoderInv
<1> QED
  BY <1>1, <1>2, <1>3, Invariance, PTL DEF Spec
=============================================================================
