------------------------------ MODULE SSEStream ------------------------------
(***************************************************************************)
(* The scanner of SSEScan on an arbitrary stream: any lines, ended at any  *)
(* point by end of file, a read error or a line over the size limit, and a *)
(* consumer that leaves its loop whenever it likes.                        *)
(***************************************************************************)
EXTENDS SSEScan

CONSTANT MaxLines   \* lines a stream carries before it must end

ASSUME MaxLinesAssumption == MaxLines \in Nat

\* The reader (external): bufio.Scanner asks it for one line at a time.  The
\* piece of a line before a cut is a line like any other.
Arrive ==
  /\ ending = "open" /\ wire = <<>> /\ Len(read) < MaxLines
  /\ \E l \in Lines : wire' = <<l>>
  /\ UNCHANGED <<ending, spc, decoder, item, history>>

StreamEnds ==
  /\ ending = "open"
  /\ ending' \in Endings
  /\ UNCHANGED <<wire, spc, decoder, item, history>>

\* Without wire the scanner waits; after done nothing is left to do.
Terminated == spc = "done" /\ UNCHANGED scanVars

Init == ScanInit
Next == ScanStep \/ Continue \/ Stop \/ Arrive \/ StreamEnds \/ Terminated

Spec == Init /\ [][Next]_scanVars

\* The iterator runs, and its consumer answers every yield.  Nothing is
\* assumed of the reader: a stream may stay silent for ever.
FairSpec == Spec /\ WF_scanVars(ScanStep) /\ WF_scanVars(Continue \/ Stop)

-----------------------------------------------------------------------------
SPCs == {"scan", "yieldRecord", "yieldError", "yieldLast", "final", "done"}

TypeOK ==
  /\ wire \in Seq(Lines) /\ ending \in Endings \cup {"open"}
  /\ spc \in SPCs
  /\ evt \in Event /\ dataBuf \in Seq(Text)
  /\ item \in [evt : Event, err : Failures]
  /\ out \in Seq([evt : Event, err : Failures])
  /\ read \in Seq(Lines) /\ stopped \in BOOLEAN

\* The positions of the errors among the items yielded.
ErrorsIn(items) == {i \in 1 .. Len(items) : items[i].err # "nil"}

\* An iteration reports at most one error, and at most the unfinished record
\* comes after it.
OneError ==
  \A i, j \in ErrorsIn(out) : i = j /\ i >= Len(out) - 1

\* The lines without a colon among those read, and the errors yielded.
Malformed == {i \in 1 .. Len(read) : read[i].field = "nocolon"}
Reported  == {out[i].err : i \in ErrorsIn(out)}

\* How the stream broke as far as it was read, "nil" when it ended cleanly.
Failure == IF Malformed # {} THEN "malformed"
           ELSE IF ending = "eof" THEN "nil" ELSE ending

\* A broken stream is not taken for a finished one, nor a finished one for a
\* broken one: an iteration that its consumer has not left reports how the stream
\* broke, once, and nothing when it ended cleanly; it has read every line, or none
\* behind the one without a colon (iter.go:104, 118-119 and 141-149).  Nothing is
\* said of what comes behind the report: after a read error the unfinished record
\* is still yielded (151-153), although the error is called terminal (62-64).
AtEnd == wire = <<>> /\ ending # "open"
BrokenIsReported ==
  spc = "done" /\ ~stopped =>
    /\ Reported = {Failure} \ {"nil"} /\ \A i, j \in ErrorsIn(out) : i = j
    /\ Malformed \subseteq {Len(read)} /\ (Malformed # {} \/ AtEnd)

\* No event without any field reaches the consumer (iter.go:109 and 151).
EventsAreNotEmpty ==
  \A i \in 1 .. Len(out) : out[i].err = "nil" => ~Empty(out[i].evt)

\* The parts of the inductive invariant: what has been yielded follows from
\* where the iterator is.
ScanInv ==
  /\ stopped => spc = "done"
  /\ spc \in {"scan", "yieldRecord"} => ErrorsIn(out) = {}
  /\ spc = "yieldError" => ErrorsIn(out) = {Len(out)}
  /\ spc = "final" => ErrorsIn(out) \subseteq {Len(out)}
  /\ OneError /\ EventsAreNotEmpty

\* Once the consumer has left its loop nothing is yielded to it any more: a
\* range-over-func body that is called again panics (iter.go:109 and 146).
NoYieldAfterStop == [][stopped => UNCHANGED <<out, stopped>>]_scanVars

\* When the stream ends the iteration ends, however the stream ended.
EndsWithStream == ending # "open" ~> spc = "done"
=============================================================================
