------------------------------- MODULE PTYConn -------------------------------
(***************************************************************************)
(* PTYConn (src/sandbox_pty_websocket.go): a WebSocket connection to a     *)
(* terminal session, shared by callers of Ready, Write, Resize, Read and   *)
(* Close.  A mutex orders the writes.  The WebSocket library, the network  *)
(* and the session are not part of the repository: they are modelled by    *)
(* the contract the code relies on.                                        *)
(*                                                                         *)
(* A piece of output is its position in what the session prints; frames    *)
(* are the sequences of bytes of PTYFrame.                                 *)
(***************************************************************************)
EXTENDS PTYFrame

CONSTANTS
  Callers,      \* the goroutines that share the connection
  Nobody,       \* holder of the mutex when it is free
  MaxOut,       \* pieces of output the session prints
  Odd,          \* the ones the server sends in a frame Read does not know
  ExitCodes,    \* the codes the process may exit with
  ExitLengths,  \* the lengths an exit frame may have, 5 when it is complete
  SendWindow,   \* frames the network takes before the server reads them
  BufferLimit   \* output the server keeps before Ready (1 MB)

ASSUME PTYAssumption ==
  /\ Nobody \notin Callers
  /\ MaxOut \in Nat /\ Odd \subseteq 1 .. MaxOut
  /\ ExitCodes \subseteq Int32s /\ ExitLengths \subseteq 1 .. 5
  /\ SendWindow \in Nat \ {0} /\ BufferLimit \in Nat

VARIABLES
  conn,       \* the connection as its callers see it: "none", "open", "closed"
  mu,         \* who holds pc.mu
  call,       \* for each caller, its pending operation and where it is
  reply,      \* for each caller, what its last operation returned when it has
  cancelled,  \* the callers whose context is cancelled
  got,        \* what Read has returned to anyone, in order
  up, down,   \* frames on their way to the server, and to the client
  first,      \* the first frame the server has received, "none" so far
  told,       \* the server has received a Ready
  printed,    \* pieces of output the session has printed
  sent,       \* pieces of output the server has sent
  ended,      \* the session: "no", "exited", "over" (Exit sent), "dropped"
  exitCode    \* the code its process has exited with

api     == <<mu, call, reply, got>>
network == <<up, down>>
session == <<first, told, printed, sent, ended, exitCode>>
ptyVars == <<conn, api, cancelled, network, session>>

WriteOps == {"ready", "write", "resize"}
Idle == [op |-> "none", at |-> "idle"]

PTYInit ==
  /\ conn = "none" /\ mu = Nobody
  /\ call = [p \in Callers |-> Idle]
  /\ reply = [p \in Callers |-> "none"]
  /\ cancelled = {} /\ got = <<>>
  /\ up = <<>> /\ down = <<>>
  /\ first = "none" /\ told = FALSE /\ printed = 0 /\ sent = 0
  /\ ended = "no" /\ exitCode = 0

-----------------------------------------------------------------------------
(* The operations.                                                         *)

\* ConnectPTY: the dial succeeded.
Connect ==
  /\ conn = "none" /\ conn' = "open"
  /\ UNCHANGED <<api, cancelled, network, session>>

IsIdle(p) == call[p] = Idle

\* A method is called: a write goes for the mutex, Read and Close do not.
Begin(p, op) ==
  /\ IsIdle(p) /\ conn # "none"
  /\ call' = [call EXCEPT ![p] =
       [op |-> op, at |-> CASE op \in WriteOps -> "lock"
                            [] op = "read"     -> "receive"
                            [] op = "close"    -> "closing"]]
  /\ reply' = [reply EXCEPT ![p] = "none"]
  /\ UNCHANGED <<conn, mu, got, cancelled, network, session>>

Return(p, r) ==
  /\ call' = [call EXCEPT ![p] = Idle]
  /\ reply' = [reply EXCEPT ![p] = r]

MutNoLock(p) ==
  /\ call[p].at = "lock"
  /\ call' = [call EXCEPT ![p].at = "send"]
  /\ UNCHANGED <<conn, mu, reply, got, cancelled, network, session>>

\* pc.mu.Lock(), which no context interrupts.
Lock(p) ==
  /\ call[p].at = "lock" /\ mu = Nobody
  /\ mu' = p
  /\ call' = [call EXCEPT ![p].at = "send"]
  /\ UNCHANGED <<conn, reply, got, cancelled, network, session>>

\* conn.Write hands the frame to the network; the deferred Unlock runs.
Send(p) ==
  /\ call[p].at = "send" /\ conn = "open" /\ Len(up) < SendWindow
  /\ up' = Append(up, FrameOf(call[p].op))
  /\ mu' = Nobody /\ Return(p, "ok")
  /\ UNCHANGED <<conn, got, cancelled, down, session>>

MutFailsBackground(p) == conn = "closed" /\ conn' = conn

\* A call that cannot go on, or whose context is cancelled, fails; the
\* library may close the connection with it.
Fails(p) ==
  /\ conn = "closed" \/ p \in cancelled
  /\ conn' \in {conn, "closed"}
  /\ conn' = conn \/ p \in cancelled

MutSendFailsLocked(p) ==
  /\ call[p].at = "send" /\ Fails(p)
  /\ Return(p, "error")
  /\ UNCHANGED <<mu, got, cancelled, network, session>>

SendFails(p) ==
  /\ call[p].at = "send" /\ Fails(p)
  /\ mu' = Nobody /\ Return(p, "error")
  /\ UNCHANGED <<got, cancelled, network, session>>

\* conn.Read returns a frame: output, the exit, or one that makes no sense.
Receive(p) ==
  /\ call[p].at = "receive" /\ conn = "open" /\ down # <<>>
  /\ down' = Tail(down)
  /\ LET frame == Head(down) IN
       /\ Return(p, Kind(frame))
       /\ got' = IF Kind(frame) = "error" THEN got
                 ELSE Append(got, <<Kind(frame), Content(frame)>>)
  /\ UNCHANGED <<conn, mu, cancelled, up, session>>

\* The server's close comes after all its frames: the connection is at its end.
ServerClosed == ended \in {"over", "dropped"}

ReceiveClose(p) ==
  /\ call[p].at = "receive" /\ conn = "open" /\ down = <<>> /\ ServerClosed
  /\ conn' = "closed" /\ Return(p, "error")
  /\ UNCHANGED <<mu, got, cancelled, network, session>>

ReceiveFails(p) ==
  /\ call[p].at = "receive" /\ Fails(p)
  /\ Return(p, "error")
  /\ UNCHANGED <<mu, got, cancelled, network, session>>

\* conn.Close: the handshake is over or has timed out.
Close(p) ==
  /\ call[p].at = "closing"
  /\ conn' = "closed" /\ Return(p, "ok")
  /\ UNCHANGED <<mu, got, cancelled, network, session>>

CallStep(p) == \/ Lock(p) \/ Send(p) \/ SendFails(p)
               \/ Receive(p) \/ ReceiveClose(p) \/ ReceiveFails(p) \/ Close(p)

-----------------------------------------------------------------------------
(* The session and the network (external).                                 *)

\* The process prints; without Ready the server drops a client too far behind.
SessionPrints ==
  /\ ended = "no" /\ conn # "none" /\ printed < MaxOut
  /\ printed' = printed + 1
  /\ ended' = IF ~told /\ printed' > BufferLimit THEN "dropped" ELSE ended
  /\ UNCHANGED <<conn, api, cancelled, network, first, told, sent, exitCode>>

SessionExits ==
  /\ ended = "no" /\ conn # "none"
  /\ ended' = "exited" /\ exitCode' \in ExitCodes
  /\ UNCHANGED <<conn, api, cancelled, network, first, told, printed, sent>>

ServerHears ==
  /\ up # <<>>
  /\ up' = Tail(up)
  /\ first' = IF first = "none" THEN Heard(Head(up)) ELSE first
  /\ told' = (told \/ Heard(Head(up)) = "ready")
  /\ UNCHANGED <<conn, api, cancelled, down, printed, sent, ended, exitCode>>

OutputFrames(n) == IF n \in Odd THEN {<<OpUnknown, n>>, <<>>} ELSE {DataFrame(n)}
ExitFrames == {SubSeq(ExitFrame(exitCode), 1, n) : n \in ExitLengths}

\* Once it has heard Ready the server sends the output, then the exit, then
\* closes the connection.
ServerSends ==
  /\ told
  /\ \/ /\ sent < printed /\ ended \in {"no", "exited"}
        /\ sent' = sent + 1
        /\ \E frame \in OutputFrames(sent') : down' = Append(down, frame)
        /\ UNCHANGED ended
     \/ /\ sent = printed /\ ended = "exited"
        /\ ended' = "over"
        /\ \E frame \in ExitFrames : down' = Append(down, frame)
        /\ UNCHANGED sent
  /\ UNCHANGED <<conn, api, cancelled, up, first, told, printed, exitCode>>

\* The connection is lost with everything on its way.
ConnBreaks ==
  /\ conn = "open"
  /\ conn' = "closed" /\ up' = <<>> /\ down' = <<>>
  /\ UNCHANGED <<api, cancelled, session>>

Server == SessionPrints \/ SessionExits \/ ServerHears \/ ServerSends \/ ConnBreaks

-----------------------------------------------------------------------------
Places == {"idle", "lock", "send", "receive", "closing"}
Ops == WriteOps \cup {"none", "read", "close"}

PTYTypeOK ==
  /\ conn \in {"none", "open", "closed"} /\ mu \in Callers \cup {Nobody}
  /\ call \in [Callers -> [op : Ops, at : Places]]
  /\ reply \in [Callers -> {"none", "ok", "error", "data", "exit"}]
  /\ cancelled \subseteq Callers
  /\ printed \in 0 .. MaxOut /\ sent \in 0 .. printed
  /\ ended \in {"no", "exited", "over", "dropped"}
  /\ exitCode \in ExitCodes \cup {0} /\ Len(up) <= SendWindow

\* At most one caller is inside conn.Write at a time, it holds the mutex, and
\* nobody leaves with it (sandbox_pty_websocket.go:138-140, 145-150, 155-161).
OneWriter == \A p \in Callers : mu = p <=> call[p].at = "send"

\* What Read returns, over all its callers, is the session's output in order,
\* each piece once, and after the exit nothing; before the exit nothing is
\* missing but frames of an unknown kind (sandbox_pty_websocket.go:169-190).
OutputInOrder ==
  \A i \in 1 .. Len(got) :
    \/ /\ got[i][1] = "data" /\ got[i][2] \in 1 .. sent \ Odd
       /\ \A j \in 1 .. i - 1 : got[j][1] = "data" /\ got[j][2] < got[i][2]
    \/ /\ got[i][1] = "exit" /\ i = Len(got)
       /\ {got[j][2] : j \in 1 .. i - 1} = 1 .. printed \ Odd

\* The code of an exit message is the one the process has exited with, negative
\* ones included; a frame too short to hold it is an error, not another code
\* (sandbox_pty_websocket.go:182-187).
ExitCodeIsTheProcess ==
  \A i \in 1 .. Len(got) : got[i][1] = "exit" => ended = "over" /\ got[i][2] = exitCode
=============================================================================
