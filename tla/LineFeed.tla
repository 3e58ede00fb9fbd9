------------------------------ MODULE LineFeed ------------------------------
(***************************************************************************)
(* What the follow iterators promise their consumer, without the stream:   *)
(* the lines of the process in order from the first one, none twice and    *)
(* none left out; at most one error, and nothing after it; the end of the  *)
(* process only after its last line; nothing once the consumer has left.   *)
(* They do not promise to tell a stream that was lost from one that ended. *)
(***************************************************************************)
EXTENDS Naturals, Sequences

CONSTANT Names   \* Names[n]: the n-th event of the process, eof the last one

VARIABLES
  written,  \* events the process has written
  given,    \* what the consumer got: the number of a line, 0 for an error
  status    \* "on", or how the feed has ended: "eof", "error", "left", "lost"

feedVars == <<written, given, status>>

Init == written = 0 /\ given = <<>> /\ status = "on"

Write ==
  /\ written < Len(Names)
  /\ written' = written + 1
  /\ UNCHANGED <<given, status>>

IsNext(n) == status = "on" /\ n = Len(given) + 1 /\ n <= written

Give ==
  \E n \in 1 .. written :
    /\ IsNext(n) /\ Names[n] = "output"
    /\ given' = Append(given, n)
    /\ UNCHANGED <<written, status>>

Complete ==
  \E n \in 1 .. written :
    /\ IsNext(n) /\ Names[n] = "eof"
    /\ status' = "eof"
    /\ UNCHANGED <<written, given>>

Fail ==
  /\ status = "on"
  /\ given' = Append(given, 0) /\ status' = "error"
  /\ UNCHANGED written

Leave ==
  /\ status = "on" /\ given # <<>>
  /\ status' = "left"
  /\ UNCHANGED <<written, given>>

Lose ==
  /\ status = "on" /\ status' = "lost"
  /\ UNCHANGED <<written, given>>

Spec == Init /\ [][Write \/ Give \/ Complete \/ Fail \/ Leave \/ Lose]_feedVars
=============================================================================
