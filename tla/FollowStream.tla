---------------------------- MODULE FollowStream ----------------------------
(***************************************************************************)
(* followProcessOutput (src/sandbox_process_follow_output.go), the iterator *)
(* behind FollowProcessOutput, FollowProcessStdout and FollowProcessStderr: *)
(* an iterator of output lines around the iterator of SSEScan.  While its  *)
(* own consumer has a line, the scanner is inside its yield.               *)
(***************************************************************************)
EXTENDS SSEService

CONSTANT Names   \* Names[n]: the n-th event of the process, output lines first

ASSUME NamesAssumption ==
  /\ Names \in Seq({"output", "eof"}) /\ Len(Names) = Len(Payloads)
  /\ \A n \in DOMAIN Names : Names[n] = "eof" => n = Len(Names)

VARIABLES
  emitted,   \* number of events the service has written
  fpc,       \* the iterator: "open", "loop", "line", "error", "done"
  body,      \* the response body: "none", "open", "closed"
  yielded,   \* what its consumer got: the number of a line, 0 for an error
  sawEof,    \* it has received the eof event
  left       \* its consumer has left the loop

process  == <<layout, emitted, text>>
follower == <<fpc, body, yielded, sawEof, left>>
followVars == <<scanVars, process, follower>>

FollowInit ==
  /\ ScanInit
  /\ layout \in Layouts /\ emitted = 0 /\ text = <<>>
  /\ fpc = "open" /\ body = "none" /\ yielded = <<>>
  /\ sawEof = FALSE /\ left = FALSE

-----------------------------------------------------------------------------
(* The service (external): the output so far is replayed, then new lines   *)
(* follow, and eof once the process has exited.                            *)

ProcessEmits ==
  /\ body = "open" /\ ending = "open" /\ emitted < Len(Names)
  /\ emitted' = emitted + 1
  /\ Write(Written(layout, Names[emitted + 1], emitted + 1))
  /\ UNCHANGED <<ending, spc, decoder, item, history, layout, follower>>

OutputEnds ==
  /\ body = "open" /\ CutStream
  /\ UNCHANGED <<process, follower>>

-----------------------------------------------------------------------------
(* The iterator.                                                           *)

Give(x, pc) == yielded' = Append(yielded, x) /\ fpc' = pc

\* followProcessStream: no request, no connection, a status of 400 or more.
OpenFails ==
  /\ fpc = "open"
  /\ Give(0, "error")
  /\ UNCHANGED <<scanVars, process, body, sawEof, left>>

Open ==
  /\ fpc = "open"
  /\ fpc' = "loop" /\ body' = "open"
  /\ UNCHANGED <<scanVars, process, yielded, sawEof, left>>

HasEvent == fpc = "loop" /\ Yielding

\* The scanner reports an error, or the data of an output event is not JSON.
ReceiveError ==
  /\ HasEvent
  /\ \/ item.err # "nil"
     \/ item.err = "nil" /\ item.evt.name = "output" /\ ~Decodable(item.evt)
  /\ Give(0, "error")
  /\ UNCHANGED <<scanVars, process, body, sawEof, left>>

\* return in the loop: leave the inner iteration, then close the body.
LeaveScan == Stop /\ fpc' = "done" /\ body' = "closed"

ReceiveEof ==
  /\ HasEvent /\ item.err = "nil" /\ item.evt.name = "eof"
  /\ sawEof' = TRUE
  /\ LeaveScan
  /\ UNCHANGED <<process, yielded, left>>

ReceiveOutput ==
  /\ HasEvent /\ item.err = "nil" /\ item.evt.name = "output"
  /\ \E n \in DOMAIN Payloads : Decodes(item.evt, n) /\ Give(n, "line")
  /\ UNCHANGED <<scanVars, process, body, sawEof, left>>

\* An event of any other name falls through the switch.
IgnoreEvent ==
  /\ HasEvent /\ item.err = "nil" /\ item.evt.name \notin {"output", "eof"}
  /\ Continue
  /\ UNCHANGED <<process, follower>>

\* yield(out, nil) returned true.
ConsumerContinues ==
  /\ fpc = "line"
  /\ fpc' = "loop"
  /\ Continue
  /\ UNCHANGED <<process, body, yielded, sawEof, left>>

\* yield(out, nil) returned false.
ConsumerLeaves ==
  /\ fpc = "line"
  /\ left' = TRUE
  /\ LeaveScan
  /\ UNCHANGED <<process, yielded, sawEof>>

MutAfterError ==
  /\ fpc = "error"
  /\ left' \in BOOLEAN
  /\ IF body = "open" /\ ~left' THEN Continue /\ fpc' = "loop" /\ UNCHANGED body
     ELSE /\ fpc' = "done"
          /\ IF body = "open" THEN Stop /\ body' = "closed"
                              ELSE UNCHANGED <<scanVars, body>>
  /\ UNCHANGED <<process, yielded, sawEof>>

\* After an error the iterator returns, whatever its consumer answered.
AfterError ==
  /\ fpc = "error"
  /\ left' \in BOOLEAN
  /\ IF body = "open" THEN LeaveScan
                      ELSE fpc' = "done" /\ UNCHANGED <<scanVars, body>>
  /\ UNCHANGED <<process, yielded, sawEof>>

MutReconnects ==
  /\ fpc = "loop" /\ spc = "done"
  /\ fpc' = IF stopped THEN "done" ELSE "open"
  /\ body' = "closed"
  /\ UNCHANGED <<scanVars, process, yielded, sawEof, left>>

\* The inner iteration is over.
ScanEnds ==
  /\ fpc = "loop" /\ spc = "done"
  /\ fpc' = "done" /\ body' = "closed"
  /\ UNCHANGED <<scanVars, process, yielded, sawEof, left>>

-----------------------------------------------------------------------------
FollowScans   == fpc = "loop" /\ ScanStep /\ UNCHANGED <<process, follower>>
FollowOver  == fpc = "done" /\ UNCHANGED followVars

Iterator == \/ OpenFails \/ Open \/ ReceiveError \/ ReceiveEof \/ ReceiveOutput
            \/ IgnoreEvent \/ ConsumerContinues \/ ConsumerLeaves \/ AfterError
            \/ ScanEnds

FollowNext == FollowScans \/ Iterator \/ ProcessEmits \/ OutputEnds \/ FollowOver

FollowSpec == FollowInit /\ [][FollowNext]_followVars

\* Scanner, iterator and consumer run in the consumer's goroutine, which keeps
\* answering; the service owes nothing.
FairFollowSpec ==
  FollowSpec /\ WF_followVars(FollowScans) /\ WF_followVars(Iterator)

-----------------------------------------------------------------------------
FollowTypeOK ==
  /\ layout \in Layouts /\ emitted \in 0 .. Len(Names)
  /\ fpc \in {"open", "loop", "line", "error", "done"}
  /\ body \in {"none", "open", "closed"}
  /\ yielded \in Seq(0 .. Len(Names)) /\ Len(yielded) <= Len(Names) + 1
  /\ sawEof \in BOOLEAN /\ left \in BOOLEAN

\* Whatever happens to the stream, the consumer sees a feed that LineFeed allows:
\* the lines in order from the first one, each whole and once, at most one error
\* as the last item, eof only after every line, and nothing after it has left
\* (sandbox_process_follow_output.go:43-70, iter.go:104-153).
Failed == yielded # <<>> /\ Last(yielded) = 0
Status == IF Failed THEN "error" ELSE IF left THEN "left" ELSE IF sawEof THEN "eof"
          ELSE IF fpc = "done" THEN "lost" ELSE "on"
Feed == INSTANCE LineFeed WITH written <- emitted, given <- yielded, status <- Status
ImplementsLineFeed == Feed!Spec

\* Every event that was read whole has reached the consumer, wherever the stream
\* was cut and whenever the iteration is not waiting for the next one.
EventsAreFollowed ==
  fpc # "loop" =>
    \A n \in 1 .. emitted : ReadWhole(n) =>
      IF Names[n] = "eof" THEN sawEof ELSE n <= Len(yielded) /\ yielded[n] = n

\* When nothing of the stream is lost, nothing of the process is: no error comes
\* from a stream that goes on, the events that were read whole are followed, and
\* the consumer that stays until the end of a whole stream gets every line and
\* then the end, however the service lays out its events
\* (sandbox_process_follow_output.go:57-70, iter.go:98-140).
WholeStreamIsFollowed ==
  /\ Failed /\ body # "none" => ending # "open"
  /\ EventsAreFollowed
  /\ /\ fpc = "done" /\ ~left /\ read = text
     /\ Names # <<>> /\ emitted = Len(Names) /\ Last(Names) = "eof"
     => sawEof /\ yielded = [n \in 1 .. Len(Names) - 1 |-> n]

\* When the stream ends, the iteration ends.
EndsWithStream == ending # "open" ~> fpc = "done" /\ body # "open"

\* "Iteration ends when the server sends an "eof" event" (line 31): one that
\* ended without an error and was not left saw eof.  Violated when the stream
\* is cut between two events, or inside the event's name.
EndsOnlyWithEof ==
  fpc = "done" /\ ~left => sawEof \/ Failed
=============================================================================
