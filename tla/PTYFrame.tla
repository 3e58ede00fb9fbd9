------------------------------ MODULE PTYFrame ------------------------------
(***************************************************************************)
(* The binary frames of a terminal session                                 *)
(* (src/sandbox_pty_websocket.go): a frame is a sequence of bytes, and its *)
(* first byte, the opcode, says what the rest is.  Base is the number of   *)
(* values of a byte, 256 in the code.  What the session prints or is told  *)
(* is one element of the frame, whatever its length.                       *)
(***************************************************************************)
EXTENDS Integers, Sequences

CONSTANT Base

ASSUME BaseAssumption == Base \in Nat /\ Base >= 5

OpData   == 0
OpResize == 1
OpReady  == 2
OpExit   == 3
OpUnknown == Base - 1

Wrap == Base * Base * Base * Base   \* the values of four bytes
Int32s == -(Wrap \div 2) .. (Wrap \div 2) - 1

\* What Ready, Write and Resize send, and what the server takes it for.
FrameOf(op) == CASE op = "ready"  -> <<OpReady>>
                 [] op = "write"  -> <<OpData, 0>>
                 [] op = "resize" -> <<OpResize, 0, 0, 0, 0>>
Heard(frame) == CASE frame[1] = OpReady  -> "ready"
                  [] frame[1] = OpData   -> "write"
                  [] frame[1] = OpResize -> "resize"

-----------------------------------------------------------------------------
(* How the server encodes what it sends (external).                        *)

Upper(u) == u \div Base

\* A negative number is sent as its two's complement.
Unsigned(code) == IF code < 0 THEN code + Wrap ELSE code

DataFrame(n) == <<OpData, n>>
ExitFrame(code) ==
  LET u == Unsigned(code) IN
    <<OpExit, Upper(Upper(Upper(u))), Upper(Upper(u)) % Base, Upper(u) % Base, u % Base>>

-----------------------------------------------------------------------------
(* How Read decodes it.                                                    *)

\* binary.BigEndian.Uint32
Uint32(b) == ((b[1] * Base + b[2]) * Base + b[3]) * Base + b[4]

MutInt32(u) == u
\* The conversion of a uint32 to an int32, which keeps its bits.
Int32(u) == IF u < Wrap \div 2 THEN u ELSE u - Wrap

MutKind(frame) ==
  IF frame = <<>> THEN "error"
  ELSE CASE frame[1] = OpExit /\ Len(frame) >= 5 -> "exit"
         [] OTHER -> "data"

\* What a frame is to Read: output, the exit, or an error when it is empty, of
\* an unknown opcode, or an exit without its four bytes.
Kind(frame) ==
  IF frame = <<>> THEN "error"
  ELSE CASE frame[1] = OpData -> "data"
         [] frame[1] = OpExit /\ Len(frame) >= 5 -> "exit"
         [] OTHER -> "error"

\* The Data or the ExitCode of the message.
Content(frame) ==
  IF Kind(frame) = "data" THEN frame[2] ELSE Int32(Uint32(SubSeq(frame, 2, 5)))
=============================================================================
