---------------------------- MODULE PTYConnProofs ----------------------------
(* What every step of a PTYConn preserves: the facts on which the proofs    *)
(* about its clients rest.                                                  *)
EXTENDS PTYConn, SequenceTheorems, TLAPS

\* What the mutex depends on: the type of calls, and that nothing is called
\* on a connection that does not exist yet.
MutexTypeOK ==
  /\ mu \in Callers \cup {Nobody}
  /\ call \in [Callers -> [op : Ops, at : Places]]
  /\ conn = "none" => \A p \in Callers : call[p] = Idle

MutexInv == MutexTypeOK /\ OneWriter

\* A new connection has a free mutex (sandbox_pty_websocket.go:45-48).
LEMMA PTYInitMutex == PTYInit => MutexInv
  BY PTYAssumption
  DEF PTYInit, MutexInv, MutexTypeOK, OneWriter, Idle, Ops, Places

\* Beginning a call takes no mutex.
LEMMA BeginMutex ==
  ASSUME MutexInv, NEW p \in Callers, NEW op \in Ops \ {"none"}, Begin(p, op)
  PROVE  MutexInv'
<1> DEFINE at == CASE op \in WriteOps -> "lock"
                   [] op = "read"     -> "receive"
                   [] op = "close"    -> "closing"
<1>1. at \in Places \ {"send"} /\ call' = [call EXCEPT ![p] = [op |-> op, at |-> at]]
  BY DEF Begin, Ops, WriteOps, Places
<1>2. mu' = mu /\ call[p].at = "idle" /\ conn' # "none"
  BY DEF Begin, IsIdle, Idle
<1> HIDE DEF at
<1>3. MutexTypeOK'
  BY <1>1, <1>2 DEF MutexInv, MutexTypeOK
<1>4. OneWriter'
  BY <1>1, <1>2 DEF MutexInv, MutexTypeOK, OneWriter
<1> QED
  BY <1>3, <1>4 DEF MutexInv

\* Every step of a pending call keeps the mutex with the one that sends.
LEMMA CallStepMutex ==
  ASSUME MutexInv, NEW p \in Callers, CallStep(p)
  PROVE  MutexInv'
<1> USE DEF MutexInv, MutexTypeOK, OneWriter, Ops, Places, WriteOps
<1>0. call[p].at # "idle" => conn # "none"
  BY DEF Idle
<1>1. CASE Lock(p)
  BY <1>0, <1>1, PTYAssumption DEF Lock
<1>2. CASE Send(p)
  BY <1>2, PTYAssumption DEF Send, Return, Idle
<1>3. CASE SendFails(p)
  BY <1>0, <1>3, PTYAssumption DEF SendFails, Fails, Return, Idle
<1>4. CASE Receive(p)
  BY <1>4 DEF Receive, Return, Idle
<1>5. CASE ReceiveFails(p)
  BY <1>0, <1>5 DEF ReceiveFails, Fails, Return, Idle
<1>6. CASE Close(p)
  BY <1>6 DEF Close, Return, Idle
<1>7. CASE ReceiveClose(p)
  BY <1>0, <1>7 DEF ReceiveClose, Return, Idle
<1> QED
  BY <1>1, <1>2, <1>3, <1>4, <1>5, <1>6, <1>7 DEF CallStep

\* The server and the network take no part in the mutex.
LEMMA ServerMutex ==
  ASSUME MutexInv, Server
  PROVE  MutexInv'
  BY DEF MutexInv, MutexTypeOK, OneWriter, Server, SessionPrints, SessionExits,
         ServerHears, ServerSends, ConnBreaks, api
-----------------------------------------------------------------------------
(* Types, and what the network takes before it blocks a writer.            *)

PTYTypeInv ==
  /\ PTYTypeOK /\ up \in Seq(Seq(Int))
  /\ \A p \in Callers : call[p].at \in {"lock", "send"} => call[p].op \in WriteOps

\* A frame that is sent is a sequence of bytes.
LEMMA FramesOfOps ==
  ASSUME NEW op \in WriteOps
  PROVE  FrameOf(op) \in Seq(Int) /\ FrameOf(op) # <<>> /\ (op = "ready" => Heard(FrameOf(op)) = "ready")
  BY DEF WriteOps, FrameOf, Heard, OpReady, OpData, OpResize

LEMMA PTYInitType == PTYInit => PTYTypeInv
<1>1. PTYInit => up = <<>> /\ Len(up) = 0 /\ up \in Seq(Seq(Int))
  BY DEF PTYInit
<1> QED
  BY <1>1, PTYAssumption DEF PTYInit, PTYTypeInv, PTYTypeOK, Idle, Ops, Places

LEMMA BeginType ==
  ASSUME PTYTypeInv, NEW p \in Callers, NEW op \in Ops \ {"none"}, Begin(p, op)
  PROVE  PTYTypeInv'
<1> DEFINE at == CASE op \in WriteOps -> "lock"
                   [] op = "read"     -> "receive"
                   [] op = "close"    -> "closing"
<1>1. at \in Places /\ call' = [call EXCEPT ![p] = [op |-> op, at |-> at]]
  BY DEF Begin, Ops, WriteOps, Places
<1> HIDE DEF at
<1>2. call' \in [Callers -> [op : Ops, at : Places]]
  BY <1>1 DEF PTYTypeInv, PTYTypeOK
<1>3. at \in {"lock", "send"} => op \in WriteOps
  BY DEF at, Ops
<1>4. \A q \in Callers : call'[q].at \in {"lock", "send"} => call'[q].op \in WriteOps
  BY <1>1, <1>3 DEF PTYTypeInv, PTYTypeOK
<1> QED
  BY <1>2, <1>4 DEF Begin, network, session, PTYTypeInv, PTYTypeOK

\* A pending call sends into the window that is left (sandbox_pty_websocket.go:137-195).
LEMMA CallStepType ==
  ASSUME PTYTypeInv, NEW p \in Callers, CallStep(p)
  PROVE  PTYTypeInv'
<1>1. call' \in [Callers -> [op : Ops, at : Places]]
  BY SMTT(30) DEF CallStep, Lock, Send, SendFails, Receive, ReceiveClose, ReceiveFails, Close,
         Return, PTYTypeInv, PTYTypeOK, Idle, Ops, Places
<1>0. \A q \in Callers : call'[q].at \in {"lock", "send"} => call'[q].op \in WriteOps
  BY DEF CallStep, Lock, Send, SendFails, Receive, ReceiveClose, ReceiveFails, Close,
         Return, PTYTypeInv, PTYTypeOK, Idle
<1>2. reply' \in [Callers -> {"none", "ok", "error", "data", "exit"}]
  BY DEF CallStep, Lock, Send, SendFails, Receive, ReceiveClose, ReceiveFails, Close,
         Return, Kind, PTYTypeInv, PTYTypeOK
<1>3. mu' \in Callers \cup {Nobody} /\ conn' \in {"none", "open", "closed"}
  BY DEF CallStep, Lock, Send, SendFails, Receive, ReceiveClose, ReceiveFails, Close,
         Fails, PTYTypeInv, PTYTypeOK
<1>4. UNCHANGED <<cancelled, session>>
  BY DEF CallStep, Lock, Send, SendFails, Receive, ReceiveClose, ReceiveFails, Close, network
<1>5. up' \in Seq(Seq(Int)) /\ Len(up') <= SendWindow
  <2>1. CASE Send(p)
    <3>1. call[p].op \in WriteOps /\ up' = Append(up, FrameOf(call[p].op)) /\ Len(up) < SendWindow
      BY <2>1 DEF Send, PTYTypeInv
    <3>2. FrameOf(call[p].op) \in Seq(Int) /\ up \in Seq(Seq(Int)) /\ SendWindow \in Nat
      BY <3>1, FramesOfOps, PTYAssumption DEF PTYTypeInv
    <3>3. up' \in Seq(Seq(Int)) /\ Len(up') = Len(up) + 1 /\ Len(up) \in Nat
      BY <3>1, <3>2, AppendProperties, LenProperties
    <3> QED
      BY <3>1, <3>2, <3>3
  <2>2. CASE ~Send(p)
    <3>1. up' = up
      BY <2>2 DEF CallStep, Lock, SendFails, Receive, ReceiveClose, ReceiveFails, Close, network
    <3> QED
      BY <3>1 DEF PTYTypeInv, PTYTypeOK
  <2> QED
    BY <2>1, <2>2
<1> QED
  BY <1>0, <1>1, <1>2, <1>3, <1>4, <1>5 DEF PTYTypeInv, PTYTypeOK, session

\* A step of a call ends it, or takes a writer from the mutex to its write.
LEMMA CallGoesOn ==
  ASSUME PTYTypeInv, NEW p \in Callers, CallStep(p)
  PROVE  /\ \/ call'[p] = Idle
            \/ call[p].at = "lock" /\ call'[p] = [op |-> call[p].op, at |-> "send"] /\ reply' = reply
         /\ ~IsIdle(p)
         /\ \A q \in Callers \ {p} : call'[q] = call[q] /\ reply'[q] = reply[q]
<1>1. CASE Lock(p)
  BY <1>1 DEF Lock, PTYTypeInv, PTYTypeOK, IsIdle, Idle, Ops, Places
<1>2. CASE ~Lock(p)
  BY <1>2 DEF CallStep, Send, SendFails, Receive, ReceiveClose, ReceiveFails, Close,
     Return, PTYTypeInv, PTYTypeOK, Idle, IsIdle
<1> QED
  BY <1>1, <1>2

\* The session prints no more than there is, and sends no more than it has printed.
LEMMA ServerType ==
  ASSUME PTYTypeInv, Server
  PROVE  PTYTypeInv'
<1> USE PTYAssumption DEF PTYTypeInv, PTYTypeOK, api, network, session
<1>1. CASE SessionPrints
  BY <1>1 DEF SessionPrints
<1>2. CASE SessionExits
  BY <1>2 DEF SessionExits
<1>3. CASE ServerHears
  <2>1. up # <<>> /\ up' = Tail(up)
    BY <1>3 DEF ServerHears
  <2>2. up' \in Seq(Seq(Int)) /\ Len(up') = Len(up) - 1 /\ Len(up) \in Nat
    BY <2>1, HeadTailProperties, LenProperties
  <2>3. Len(up') <= SendWindow
    BY <2>2
  <2> QED
    BY <1>3, <2>2, <2>3 DEF ServerHears
<1>4. CASE ServerSends
  BY <1>4 DEF ServerSends
<1>5. CASE ConnBreaks
  <2>1. up' = <<>> /\ Len(up') = 0 /\ up' \in Seq(Seq(Int))
    BY <1>5 DEF ConnBreaks
  <2> QED
    BY <1>5, <2>1 DEF ConnBreaks
<1> QED
  BY <1>1, <1>2, <1>3, <1>4, <1>5 DEF Server
-----------------------------------------------------------------------------
(* Frames.                                                                 *)

\* One digit of a number.
LEMMA Digit ==
  ASSUME NEW u \in Nat
  PROVE  \E q \in Nat, r \in 0 .. Base - 1 : u = q * Base + r /\ Upper(u) = q /\ u % Base = r
<1>1. Base \in Nat \ {0}
  BY BaseAssumption
<1>2. \E q \in Int, r \in 0 .. Base - 1 : u = q * Base + r /\ u \div Base = q /\ u % Base = r
  BY <1>1
<1>3. u \div Base \in Nat
  BY <1>1
<1> QED
  BY <1>2, <1>3 DEF Upper

\* The values of four bytes are a number.
LEMMA Wraps == Wrap \in Nat /\ Wrap >= 625
  BY BaseAssumption, Z3 DEF Wrap

\* An exit code survives its two's complement (sandbox_pty_websocket.go:186).
LEMMA Int32RoundTrip ==
  ASSUME NEW code \in Int32s
  PROVE  Unsigned(code) \in 0 .. Wrap - 1 /\ Int32(Unsigned(code)) = code
<1>1. Wrap \in Nat /\ Wrap \div 2 \in Nat /\ 2 * (Wrap \div 2) <= Wrap /\ Wrap < 2 * (Wrap \div 2) + 2
  <2>1. Wrap \in Nat
    BY Wraps
  <2> QED
    BY <2>1
<1>2. code \in Int /\ code >= -(Wrap \div 2) /\ code < Wrap \div 2
  BY <1>1 DEF Int32s
<1> QED
  BY <1>1, <1>2 DEF Int32, Unsigned

\* The four bytes of an exit frame are its code's, the first one first.
LEMMA ExitBytes ==
  ASSUME NEW code \in Int32s
  PROVE  /\ ExitFrame(code) \in Seq(Int) /\ Len(ExitFrame(code)) = 5
         /\ ExitFrame(code)[1] = OpExit
         /\ Uint32([i \in 1 .. 4 |-> ExitFrame(code)[i + 1]]) = Unsigned(code)
<1> DEFINE u == Unsigned(code)
<1>0. u \in Nat
  BY Int32RoundTrip, Wraps
<1> HIDE DEF u
<1>1. PICK q1 \in Nat, r1 \in 0 .. Base - 1 :
        u = q1 * Base + r1 /\ Upper(u) = q1 /\ u % Base = r1
  BY <1>0, Digit
<1>2. PICK q2 \in Nat, r2 \in 0 .. Base - 1 :
        q1 = q2 * Base + r2 /\ Upper(q1) = q2 /\ q1 % Base = r2
  BY Digit
<1>3. PICK q3 \in Nat, r3 \in 0 .. Base - 1 :
        q2 = q3 * Base + r3 /\ Upper(q2) = q3 /\ q2 % Base = r3
  BY Digit
<1>4. ExitFrame(code) = <<3, q3, r3, r2, r1>>
  BY <1>1, <1>2, <1>3 DEF ExitFrame, OpExit, u
<1>5. Uint32([i \in 1 .. 4 |-> ExitFrame(code)[i + 1]])
        = ((q3 * Base + r3) * Base + r2) * Base + r1
  BY <1>4 DEF Uint32
<1>6. u = ((q3 * Base + r3) * Base + r2) * Base + r1
  BY <1>1, <1>2, <1>3, BaseAssumption
<1> QED
  BY <1>4, <1>5, <1>6, BaseAssumption DEF u, OpExit

\* Read decodes the exit frame of any 32-bit code to that code, and refuses one
\* that is too short (sandbox_pty_websocket.go:182-187).
LEMMA ExitRoundTrip ==
  ASSUME NEW code \in Int32s, NEW n \in 1 .. 5
  PROVE  LET frame == SubSeq(ExitFrame(code), 1, n)
         IN  /\ Kind(frame) = IF n = 5 THEN "exit" ELSE "error"
             /\ n = 5 => Content(frame) = code
             /\ frame \in Seq(Int)
<1> DEFINE whole == ExitFrame(code)
           frame == SubSeq(whole, 1, n)
<1>1. /\ whole \in Seq(Int) /\ Len(whole) = 5 /\ whole[1] = OpExit
      /\ Int32(Uint32([i \in 1 .. 4 |-> whole[i + 1]])) = code
  BY ExitBytes, Int32RoundTrip
<1> HIDE DEF whole
<1>2. /\ frame \in Seq(Int) /\ Len(frame) = n
      /\ \A i \in 1 .. n : frame[i] = whole[i]
  <2>1. \A i \in 1 .. n : whole[i] \in Int
    <3> TAKE i \in 1 .. n
    <3>1. i \in 1 .. Len(whole)
      BY <1>1
    <3> QED
      BY <1>1, <3>1, ElementOfSeq
  <2> QED
    BY <1>1, <2>1, SubSeqProperties
<1> HIDE DEF frame
<1>3. frame # <<>> /\ frame[1] = OpExit
  BY <1>1, <1>2
<1>4. Kind(frame) = IF n = 5 THEN "exit" ELSE "error"
  BY <1>2, <1>3 DEF Kind, OpExit, OpData
<1>5. ASSUME n = 5 PROVE Content(frame) = code
  <2>1. \A i \in 1 .. 4 : SubSeq(frame, 2, 5)[i] = whole[i + 1]
    <3>1. \A i \in 2 .. 5 : frame[i] \in Int
      <4> TAKE i \in 2 .. 5
      <4>1. i \in 1 .. Len(frame)
        BY <1>2, <1>5
      <4> QED
        BY <1>2, <4>1, ElementOfSeq
    <3>2. \A i \in 1 .. 4 : SubSeq(frame, 2, 5)[i] = frame[2 + i - 1]
      BY <3>1, SubSeqProperties
    <3> QED
      BY <1>2, <1>5, <3>2
  <2>2. Uint32(SubSeq(frame, 2, 5)) = Uint32([i \in 1 .. 4 |-> whole[i + 1]])
    BY <2>1 DEF Uint32
  <2> QED
    BY <1>1, <1>4, <1>5, <2>2 DEF Content
<1> QED
  BY <1>2, <1>4, <1>5 DEF frame, whole

\* Read decodes output to itself, and refuses an unknown or an empty frame
\* (sandbox_pty_websocket.go:175-189).
LEMMA OutputRoundTrip ==
  ASSUME NEW n \in Nat
  PROVE  /\ DataFrame(n) \in Seq(Int) /\ Kind(DataFrame(n)) = "data" /\ Content(DataFrame(n)) = n
         /\ <<OpUnknown, n>> \in Seq(Int) /\ Kind(<<OpUnknown, n>>) = "error"
         /\ <<>> \in Seq(Int) /\ Kind(<<>>) = "error"
<1>1. OpUnknown \in Int /\ OpUnknown # 0 /\ OpUnknown # 3
  BY BaseAssumption DEF OpUnknown
<1>2. Kind(DataFrame(n)) = "data"
  BY DEF Kind, DataFrame, OpData, OpExit
<1>3. Kind(<<OpUnknown, n>>) = "error"
  BY <1>1 DEF Kind, OpData, OpExit
<1> QED
  BY <1>1, <1>2, <1>3 DEF Kind, Content, DataFrame, OpData

-----------------------------------------------------------------------------
(* The output on its way from the session to Read.                         *)

IsData(frame) == Kind(frame) = "data"

StreamTypeOK ==
  /\ down \in Seq(Seq(Int)) /\ got \in Seq({"data", "exit"} \X Int)
  /\ printed \in Nat /\ sent \in 0 .. printed /\ exitCode \in Int32s

\* What is in the network is output, in order ...
DownIsOutput ==
  \A i \in 1 .. Len(down) : IsData(down[i]) => Content(down[i]) \in 1 .. sent \ Odd
DownRises ==
  \A i, j \in 1 .. Len(down) :
    j < i /\ IsData(down[i]) /\ IsData(down[j]) => Content(down[j]) < Content(down[i])

\* ... after what Read has returned ...
DownAfterGot ==
  \A i \in 1 .. Len(down), k \in 1 .. Len(got) :
    /\ IsData(down[i]) => got[k][1] = "data" /\ got[k][2] < Content(down[i])
    /\ Kind(down[i]) = "exit" => got[k][1] = "data"

\* ... and the exit is the last of it.
DownExit ==
  \A i \in 1 .. Len(down) :
    Kind(down[i]) = "exit" =>
      /\ ended = "over" /\ Content(down[i]) = exitCode
      /\ \A j \in 1 .. Len(down) : j <= i

DownInOrder == DownIsOutput /\ DownRises /\ DownAfterGot /\ DownExit

\* While the connection lives, what was sent is there or has been returned.
NothingLost ==
  conn # "closed" =>
    \A n \in 1 .. sent \ Odd :
      \/ \E k \in 1 .. Len(got) : got[k] = <<"data", n>>
      \/ \E i \in 1 .. Len(down) : IsData(down[i]) /\ Content(down[i]) = n

StreamInv ==
  /\ StreamTypeOK /\ DownInOrder /\ NothingLost
  /\ OutputInOrder /\ ExitCodeIsTheProcess
  /\ ended = "over" => sent = printed

LEMMA PTYInitStream == PTYInit => StreamInv
<1>1. 0 \in Int32s
  BY Wraps DEF Int32s
<1> QED
  BY <1>1, EmptySeq
  DEF PTYInit, StreamInv, StreamTypeOK, DownInOrder, DownIsOutput, DownRises, DownAfterGot,
      DownExit, NothingLost, OutputInOrder,
      ExitCodeIsTheProcess

\* A step that leaves the stream alone; the connection may open or close.
LEMMA StreamQuiet ==
  ASSUME StreamInv, UNCHANGED <<down, got, printed, sent, ended, exitCode>>,
         conn # "closed" \/ conn' = "closed"
  PROVE  StreamInv'
<1>1. StreamTypeOK' /\ OutputInOrder' /\ ExitCodeIsTheProcess'
  BY DEF StreamInv, StreamTypeOK, OutputInOrder, ExitCodeIsTheProcess
<1>2. DownIsOutput' /\ DownRises' /\ DownAfterGot' /\ DownExit'
  BY DEF StreamInv, DownInOrder, DownIsOutput, DownRises, DownAfterGot, DownExit
<1>3. NothingLost'
  BY DEF StreamInv, NothingLost
<1> QED
  BY <1>1, <1>2, <1>3 DEF StreamInv, DownInOrder

\* The first frame leaves the network.
LEMMA TailDown ==
  ASSUME StreamInv, down # <<>>, down' = Tail(down), UNCHANGED <<sent, ended, exitCode>>
  PROVE  /\ down' \in Seq(Seq(Int)) /\ Len(down') \in Nat /\ Len(down) = Len(down') + 1
         /\ \A i \in 1 .. Len(down') : down'[i] = down[i + 1] /\ i + 1 \in 1 .. Len(down)
         /\ Head(down) = down[1] /\ 1 \in 1 .. Len(down)
         /\ DownIsOutput' /\ DownRises' /\ DownExit'
<1>1. /\ down' \in Seq(Seq(Int)) /\ Len(down') = Len(down) - 1 /\ Len(down) \in Nat \ {0}
      /\ \A i \in 1 .. Len(down') : down'[i] = down[i + 1]
      /\ Head(down) = down[1]
  BY HeadTailProperties, LenProperties, EmptySeq DEF StreamInv, StreamTypeOK
<1>2. \A i \in 1 .. Len(down') : i + 1 \in 1 .. Len(down)
  BY <1>1
<1>3. DownIsOutput'
  BY <1>1, <1>2 DEF StreamInv, DownInOrder, DownIsOutput
<1>4. DownRises'
  <2> SUFFICES ASSUME NEW i \in 1 .. Len(down'), NEW j \in 1 .. Len(down'), j < i,
                      IsData(down'[i]), IsData(down'[j])
               PROVE  Content(down'[j]) < Content(down'[i])
    BY DEF DownRises, IsData, Kind, Content
  <2>1. j + 1 < i + 1 /\ down'[i] = down[i + 1] /\ down'[j] = down[j + 1]
    BY <1>1
  <2> QED
    BY <1>2, <2>1 DEF StreamInv, DownInOrder, DownRises
<1>5. DownExit'
  <2> SUFFICES ASSUME NEW i \in 1 .. Len(down'), Kind(down'[i]) = "exit"
               PROVE  /\ ended = "over" /\ Content(down'[i]) = exitCode
                      /\ \A j \in 1 .. Len(down') : j <= i
    BY DEF DownExit
  <2>1. /\ ended = "over" /\ Content(down[i + 1]) = exitCode
        /\ \A j \in 1 .. Len(down) : j <= i + 1
    BY <1>1, <1>2 DEF StreamInv, DownInOrder, DownExit
  <2>2. down'[i] = down[i + 1]
    BY <1>1
  <2>3. \A j \in 1 .. Len(down') : j <= i
    BY <1>2, <2>1
  <2> QED
    BY <2>1, <2>2, <2>3
<1> QED
  BY <1>1, <1>2, <1>3, <1>4, <1>5

LEMMA ReceiveStream ==
  ASSUME StreamInv, NEW p \in Callers, Receive(p)
  PROVE  StreamInv'
<1> DEFINE frame == down[1]
<1>1. /\ down # <<>> /\ down' = Tail(down) /\ conn = "open"
      /\ UNCHANGED <<conn, printed, sent, ended, exitCode>>
  BY DEF Receive, session
<1>2. /\ down' \in Seq(Seq(Int)) /\ Len(down') \in Nat /\ Len(down) = Len(down') + 1
      /\ \A i \in 1 .. Len(down') : down'[i] = down[i + 1] /\ i + 1 \in 1 .. Len(down)
      /\ Head(down) = frame /\ 1 \in 1 .. Len(down)
      /\ DownIsOutput' /\ DownRises' /\ DownExit'
  BY <1>1, TailDown
<1>3. Kind(frame) \in {"data", "exit", "error"}
  BY DEF Kind
<1>4. \A n : (\E i \in 1 .. Len(down) : IsData(down[i]) /\ Content(down[i]) = n) =>
         \/ IsData(frame) /\ Content(frame) = n
         \/ \E i \in 1 .. Len(down') : IsData(down'[i]) /\ Content(down'[i]) = n
  <2> SUFFICES ASSUME NEW i \in 1 .. Len(down), IsData(down[i]), i # 1
               PROVE  \E j \in 1 .. Len(down') : down'[j] = down[i]
    BY DEF IsData, Kind, Content
  <2>1. i - 1 \in 1 .. Len(down') /\ (i - 1) + 1 = i
    BY <1>2
  <2> QED
    BY <1>2, <2>1
<1>5. CASE Kind(frame) = "error"
  <2>1. got' = got
    BY <1>2, <1>5 DEF Receive
  <2>2. DownAfterGot'
    BY <1>2, <2>1 DEF StreamInv, DownInOrder, DownAfterGot
  <2>3. NothingLost'
    BY <1>1, <1>4, <1>5, <2>1 DEF StreamInv, NothingLost, IsData
  <2>4. DownInOrder'
    BY <1>2, <2>2 DEF DownInOrder
  <2>5. StreamTypeOK'
    BY <1>1, <1>2, <2>1 DEF StreamInv, StreamTypeOK
  <2>6. OutputInOrder' /\ ExitCodeIsTheProcess'
    BY <1>1, <1>2, <2>1 DEF StreamInv, OutputInOrder, ExitCodeIsTheProcess
  <2>7. ended' = "over" => sent' = printed'
    BY <1>1 DEF StreamInv
  <2> QED
    BY <2>3, <2>4, <2>5, <2>6, <2>7 DEF StreamInv
<1>6. CASE Kind(frame) # "error"
  <2> DEFINE m == <<Kind(frame), Content(frame)>>
  <2>1. got' = Append(got, m)
    BY <1>2, <1>6 DEF Receive
  <2>2. m \in {"data", "exit"} \X Int
    BY <1>2, <1>3, <1>6
    DEF StreamInv, StreamTypeOK, DownInOrder, DownIsOutput, DownExit, IsData, Int32s
  <2>3. m[1] = Kind(frame) /\ m[2] = Content(frame)
    OBVIOUS
  <2> HIDE DEF m
  <2>4. /\ got' \in Seq({"data", "exit"} \X Int) /\ Len(got') = Len(got) + 1 /\ Len(got) \in Nat
        /\ got'[Len(got) + 1] = m
        /\ \A k \in 1 .. Len(got) : got'[k] = got[k]
    BY <2>1, <2>2, AppendProperties, LenProperties DEF StreamInv, StreamTypeOK
  <2>5. \A k \in 1 .. Len(got) : got[k][1] = "data"
    BY <1>2, <1>3, <1>6 DEF StreamInv, DownInOrder, DownAfterGot, IsData
  <2>6. DownAfterGot'
    <3> SUFFICES ASSUME NEW i \in 1 .. Len(down'), NEW k \in 1 .. Len(got')
                 PROVE  /\ IsData(down'[i]) => got'[k][1] = "data" /\ got'[k][2] < Content(down'[i])
                        /\ Kind(down'[i]) = "exit" => got'[k][1] = "data"
      BY DEF DownAfterGot, IsData, Kind, Content
    <3>1. CASE k \in 1 .. Len(got)
      <4>1. i + 1 \in 1 .. Len(down) /\ down'[i] = down[i + 1]
        BY <1>2
      <4>2. got'[k] = got[k]
        BY <2>4, <3>1
      <4>3. /\ IsData(down[i + 1]) => got[k][1] = "data" /\ got[k][2] < Content(down[i + 1])
            /\ Kind(down[i + 1]) = "exit" => got[k][1] = "data"
        BY <3>1, <4>1 DEF StreamInv, DownInOrder, DownAfterGot
      <4> QED
        BY <4>1, <4>2, <4>3
    <3>2. CASE k = Len(got) + 1
      <4>1. Kind(frame) = "data"
        BY <1>2, <1>3, <1>6 DEF StreamInv, DownInOrder, DownExit
      <4>2. i + 1 \in 1 .. Len(down) /\ 1 < i + 1 /\ down'[i] = down[i + 1]
        BY <1>2
      <4>3. IsData(down'[i]) => Content(frame) < Content(down'[i])
        BY <1>2, <4>1, <4>2 DEF StreamInv, DownInOrder, DownRises, IsData
      <4> QED
        BY <2>3, <2>4, <3>2, <4>1, <4>3
    <3> QED
      BY <2>4, <3>1, <3>2
  <2>7. NothingLost'
    <3> SUFFICES ASSUME NEW n \in 1 .. sent \ Odd
                 PROVE  \/ \E k \in 1 .. Len(got') : got'[k] = <<"data", n>>
                        \/ \E i \in 1 .. Len(down') : IsData(down'[i]) /\ Content(down'[i]) = n
      BY <1>1 DEF NothingLost, IsData, Kind, Content
    <3>1. \/ \E k \in 1 .. Len(got) : got[k] = <<"data", n>>
          \/ IsData(frame) /\ Content(frame) = n
          \/ \E i \in 1 .. Len(down') : IsData(down'[i]) /\ Content(down'[i]) = n
      BY <1>1, <1>4 DEF StreamInv, NothingLost
    <3>2. IsData(frame) /\ Content(frame) = n => m = <<"data", n>>
      BY DEF m, IsData
    <3>3. 1 .. Len(got) \subseteq 1 .. Len(got') /\ Len(got) + 1 \in 1 .. Len(got')
      BY <2>4
    <3> QED
      BY <2>4, <3>1, <3>2, <3>3
  <2>8. OutputInOrder'
    <3> SUFFICES ASSUME NEW k \in 1 .. Len(got')
                 PROVE  \/ /\ got'[k][1] = "data" /\ got'[k][2] \in 1 .. sent \ Odd
                           /\ \A j \in 1 .. k - 1 : got'[j][1] = "data" /\ got'[j][2] < got'[k][2]
                        \/ /\ got'[k][1] = "exit" /\ k = Len(got')
                           /\ {got'[j][2] : j \in 1 .. k - 1} = 1 .. printed \ Odd
      BY <1>1 DEF OutputInOrder
    <3>1. CASE k \in 1 .. Len(got)
      <4>1. got[k][2] \in 1 .. sent \ Odd /\ \A j \in 1 .. k - 1 : got[j][2] < got[k][2]
        BY <2>5, <3>1 DEF StreamInv, OutputInOrder
      <4>2. 1 .. k - 1 \subseteq 1 .. Len(got)
        BY <2>4, <3>1
      <4> QED
        BY <2>4, <2>5, <3>1, <4>1, <4>2
    <3>2. CASE k = Len(got) + 1 /\ Kind(frame) = "data"
      <4>1. Content(frame) \in 1 .. sent \ Odd
        BY <1>2, <3>2 DEF StreamInv, DownInOrder, DownIsOutput, IsData
      <4>2. \A j \in 1 .. Len(got) : got[j][2] < Content(frame)
        BY <1>2, <3>2 DEF StreamInv, DownInOrder, DownAfterGot, IsData
      <4>3. got'[k] = m /\ k - 1 = Len(got)
        BY <2>4, <3>2
      <4>4. \A j \in 1 .. k - 1 : got'[j][1] = "data" /\ got'[j][2] < Content(frame)
        BY <2>4, <2>5, <4>2, <4>3
      <4> QED
        BY <2>3, <3>2, <4>1, <4>3, <4>4
    <3>3. CASE k = Len(got) + 1 /\ Kind(frame) = "exit"
      <4>1. Len(down') = 0 /\ sent = printed
        BY <1>2, <3>3 DEF StreamInv, DownInOrder, DownExit
      <4>2. \A n \in 1 .. sent \ Odd : \E j \in 1 .. Len(got) : got[j] = <<"data", n>>
        <5>1. ~IsData(frame) /\ 1 .. Len(down') = {}
          BY <3>3, <4>1 DEF IsData
        <5> QED
          BY <1>1, <1>4, <5>1 DEF StreamInv, NothingLost
      <4>3. \A j \in 1 .. Len(got) : got[j][2] \in 1 .. sent \ Odd
        BY <2>5 DEF StreamInv, OutputInOrder
      <4>4. {got[j][2] : j \in 1 .. Len(got)} = 1 .. printed \ Odd
        <5>1. ASSUME NEW n \in 1 .. printed \ Odd
              PROVE  n \in {got[j][2] : j \in 1 .. Len(got)}
          <6>1. PICK j \in 1 .. Len(got) : got[j] = <<"data", n>>
            BY <4>1, <4>2
          <6> QED
            BY <6>1
        <5> QED
          BY <4>1, <4>3, <5>1
      <4>5. {got'[j][2] : j \in 1 .. k - 1} = {got[j][2] : j \in 1 .. Len(got)}
        BY <2>4, <3>3
      <4> QED
        BY <2>3, <2>4, <3>3, <4>4, <4>5
    <3> QED
      BY <1>3, <1>6, <2>4, <3>1, <3>2, <3>3
  <2>9. ExitCodeIsTheProcess'
    <3>1. Kind(frame) = "exit" => ended = "over" /\ Content(frame) = exitCode
      BY <1>2 DEF StreamInv, DownInOrder, DownExit
    <3> QED
      <4> SUFFICES ASSUME NEW k \in 1 .. Len(got'), got'[k][1] = "exit"
                   PROVE  ended = "over" /\ got'[k][2] = exitCode
        BY <1>1 DEF ExitCodeIsTheProcess
      <4>1. k = Len(got) + 1
        BY <2>4, <2>5
      <4> QED
        BY <2>3, <2>4, <3>1, <4>1
  <2> QED
    BY <1>1, <1>2, <2>4, <2>6, <2>7, <2>8, <2>9 DEF StreamInv, StreamTypeOK, DownInOrder
<1> QED
  BY <1>5, <1>6

\* Only Receive moves the stream.
LEMMA CallStepStream ==
  ASSUME StreamInv, NEW p \in Callers, CallStep(p)
  PROVE  StreamInv'
<1>1. CASE Receive(p)
  BY <1>1, ReceiveStream
<1>2. CASE ~Receive(p)
  BY <1>2, StreamQuiet
  DEF CallStep, Lock, Send, SendFails, ReceiveClose, ReceiveFails, Close, Fails,
      network, session
<1> QED
  BY <1>1, <1>2

\* The frame the server sends is the next one.
LEMMA AppendDown ==
  ASSUME StreamInv, NEW frame \in Seq(Int), down' = Append(down, frame)
  PROVE  /\ down' \in Seq(Seq(Int)) /\ Len(down') = Len(down) + 1 /\ Len(down) \in Nat
         /\ down'[Len(down) + 1] = frame
         /\ \A i \in 1 .. Len(down) : down'[i] = down[i]
  BY AppendProperties, LenProperties DEF StreamInv, StreamTypeOK

LEMMA SendOutput ==
  ASSUME StreamInv, sent < printed, ended \in {"no", "exited"}, sent' = sent + 1,
         NEW frame \in OutputFrames(sent'), down' = Append(down, frame),
         UNCHANGED <<conn, got, printed, ended, exitCode>>
  PROVE  StreamInv'
<1>1. /\ frame \in Seq(Int) /\ Kind(frame) # "exit"
      /\ sent' \in Odd => Kind(frame) = "error"
      /\ sent' \notin Odd => IsData(frame) /\ Content(frame) = sent'
  <2>1. sent' \in Nat
    BY DEF StreamInv, StreamTypeOK
  <2>2. CASE sent' \in Odd
    BY <2>1, <2>2, OutputRoundTrip DEF OutputFrames
  <2>3. CASE sent' \notin Odd
    BY <2>1, <2>3, OutputRoundTrip DEF OutputFrames, IsData
  <2> QED
    BY <2>2, <2>3
<1>2. /\ down' \in Seq(Seq(Int)) /\ Len(down') = Len(down) + 1 /\ Len(down) \in Nat
      /\ down'[Len(down) + 1] = frame
      /\ \A i \in 1 .. Len(down) : down'[i] = down[i]
  BY <1>1, AppendDown
<1>3. sent \in Nat /\ sent' \in 0 .. printed
  BY DEF StreamInv, StreamTypeOK
<1>4. \A k \in 1 .. Len(got) : got[k][1] = "data" /\ got[k][2] \in 1 .. sent \ Odd
  BY DEF StreamInv, OutputInOrder, ExitCodeIsTheProcess
<1>5. DownInOrder'
  <2>0. \A i \in 1 .. Len(down') : i \in 1 .. Len(down) \/ i = Len(down) + 1
    BY <1>2
  <2>1. DownIsOutput'
    <3> SUFFICES ASSUME NEW i \in 1 .. Len(down'), IsData(down'[i])
                 PROVE  Content(down'[i]) \in 1 .. sent' \ Odd
      BY DEF DownIsOutput
    <3>1. CASE i \in 1 .. Len(down)
      BY <1>2, <1>3, <3>1 DEF StreamInv, DownInOrder, DownIsOutput
    <3>2. CASE i = Len(down) + 1
      BY <1>1, <1>2, <1>3, <3>2 DEF IsData
    <3> QED
      BY <1>2, <3>1, <3>2
  <2>2. DownRises'
    <3> SUFFICES ASSUME NEW i \in 1 .. Len(down'), NEW j \in 1 .. Len(down'), j < i,
                        IsData(down'[i]), IsData(down'[j])
                 PROVE  Content(down'[j]) < Content(down'[i])
      BY DEF DownRises
    <3>1. j \in 1 .. Len(down)
      BY <1>2
    <3>2. CASE i \in 1 .. Len(down)
      BY <1>2, <3>1, <3>2 DEF StreamInv, DownInOrder, DownRises
    <3>3. CASE i = Len(down) + 1
      <4>1. Content(down'[j]) \in 1 .. sent
        BY <1>2, <3>1 DEF StreamInv, DownInOrder, DownIsOutput
      <4>2. Content(down'[i]) = sent + 1
        BY <1>1, <1>2, <3>3 DEF IsData
      <4> QED
        BY <1>3, <4>1, <4>2
    <3> QED
      BY <2>0, <3>2, <3>3
  <2>3. DownAfterGot'
    <3> SUFFICES ASSUME NEW i \in 1 .. Len(down'), NEW k \in 1 .. Len(got)
                 PROVE  /\ IsData(down'[i]) => got[k][1] = "data" /\ got[k][2] < Content(down'[i])
                        /\ Kind(down'[i]) = "exit" => got[k][1] = "data"
      BY DEF DownAfterGot
    <3>1. CASE i \in 1 .. Len(down)
      BY <1>2, <3>1 DEF StreamInv, DownInOrder, DownAfterGot
    <3>2. CASE i = Len(down) + 1
      <4>1. got[k][1] = "data" /\ got[k][2] < sent + 1
        BY <1>3, <1>4
      <4>2. IsData(down'[i]) => Content(down'[i]) = sent + 1
        BY <1>1, <1>2, <3>2 DEF IsData
      <4> QED
        BY <4>1, <4>2
    <3> QED
      BY <1>2, <3>1, <3>2
  <2>4. DownExit'
    BY <1>1, <1>2 DEF StreamInv, DownInOrder, DownExit
  <2> QED
    BY <2>1, <2>2, <2>3, <2>4 DEF DownInOrder
<1>6. NothingLost'
  <2> SUFFICES ASSUME conn # "closed", NEW n \in 1 .. sent' \ Odd
               PROVE  \/ \E k \in 1 .. Len(got) : got[k] = <<"data", n>>
                      \/ \E i \in 1 .. Len(down') : IsData(down'[i]) /\ Content(down'[i]) = n
    BY DEF NothingLost
  <2>1. 1 .. Len(down) \subseteq 1 .. Len(down') /\ Len(down) + 1 \in 1 .. Len(down')
    BY <1>2
  <2>2. CASE n = sent'
    BY <1>1, <1>2, <2>1, <2>2
  <2>3. CASE n \in 1 .. sent \ Odd
    BY <1>2, <2>1, <2>3 DEF StreamInv, NothingLost
  <2> QED
    BY SMTT(30), <1>3, <2>2, <2>3
<1>7. OutputInOrder' /\ ExitCodeIsTheProcess'
  BY <1>3, <1>4 DEF StreamInv, OutputInOrder, ExitCodeIsTheProcess
<1> QED
  BY <1>2, <1>3, <1>5, <1>6, <1>7 DEF StreamInv, StreamTypeOK

LEMMA SendExit ==
  ASSUME StreamInv, sent = printed, ended = "exited", ended' = "over",
         NEW frame \in ExitFrames, down' = Append(down, frame),
         UNCHANGED <<conn, got, printed, sent, exitCode>>
  PROVE  StreamInv'
<1>1. PICK n \in 1 .. 5 : frame = SubSeq(ExitFrame(exitCode), 1, n)
  BY PTYAssumption DEF ExitFrames
<1>2. /\ frame \in Seq(Int) /\ Kind(frame) \in {"exit", "error"}
      /\ Kind(frame) = "exit" => Content(frame) = exitCode
  BY <1>1, ExitRoundTrip DEF StreamInv, StreamTypeOK
<1>3. /\ down' \in Seq(Seq(Int)) /\ Len(down') = Len(down) + 1 /\ Len(down) \in Nat
      /\ down'[Len(down) + 1] = frame
      /\ \A i \in 1 .. Len(down) : down'[i] = down[i]
  BY <1>2, AppendDown
<1>4. \A k \in 1 .. Len(got) : got[k][1] = "data"
  BY DEF StreamInv, OutputInOrder, ExitCodeIsTheProcess
<1>5. DownInOrder'
  <2>1. DownIsOutput' /\ DownRises'
    <3>1. ~IsData(frame)
      BY <1>2 DEF IsData
    <3>2. \A i \in 1 .. Len(down') : IsData(down'[i]) => i \in 1 .. Len(down)
      BY <1>3, <3>1
    <3> QED
      BY <1>3, <3>2 DEF StreamInv, DownInOrder, DownIsOutput, DownRises
  <2>2. DownAfterGot'
    BY <1>2, <1>3, <1>4 DEF StreamInv, DownInOrder, DownAfterGot, IsData
  <2>3. DownExit'
    BY <1>2, <1>3 DEF StreamInv, DownInOrder, DownExit
  <2> QED
    BY <2>1, <2>2, <2>3 DEF DownInOrder
<1>6. NothingLost'
  <2>1. 1 .. Len(down) \subseteq 1 .. Len(down')
    BY <1>3
  <2> QED
    BY <1>3, <2>1 DEF StreamInv, NothingLost
<1>7. OutputInOrder' /\ ExitCodeIsTheProcess'
  BY DEF StreamInv, OutputInOrder, ExitCodeIsTheProcess
<1> QED
  BY <1>3, <1>5, <1>6, <1>7 DEF StreamInv, StreamTypeOK

\* The session and the network keep the output in order.
LEMMA ServerStream ==
  ASSUME StreamInv, Server
  PROVE  StreamInv'
<1> USE DEF api, network, session
<1>1. CASE SessionPrints
  <2>1. /\ ended # "over" /\ ended' # "over" /\ printed' = printed + 1
        /\ UNCHANGED <<conn, down, got, sent, exitCode>>
    BY <1>1 DEF SessionPrints
  <2>2. \A k \in 1 .. Len(got) : got[k][1] # "exit"
    BY <2>1 DEF StreamInv, ExitCodeIsTheProcess
  <2>3. StreamTypeOK' /\ OutputInOrder' /\ ExitCodeIsTheProcess'
    BY <2>1, <2>2 DEF StreamInv, StreamTypeOK, OutputInOrder, ExitCodeIsTheProcess
  <2>4. DownInOrder' /\ NothingLost'
    BY <2>1 DEF StreamInv, DownInOrder, DownIsOutput, DownRises, DownAfterGot, DownExit, NothingLost
  <2> QED
    BY <2>1, <2>3, <2>4 DEF StreamInv
<1>2. CASE SessionExits
  <2>1. /\ ended # "over" /\ ended' # "over" /\ exitCode' \in Int32s
        /\ UNCHANGED <<conn, down, got, sent, printed>>
    BY <1>2, PTYAssumption DEF SessionExits
  <2>2. \A k \in 1 .. Len(got) : got[k][1] # "exit"
    BY <2>1 DEF StreamInv, ExitCodeIsTheProcess
  <2>3. StreamTypeOK' /\ OutputInOrder' /\ ExitCodeIsTheProcess'
    BY <2>1, <2>2 DEF StreamInv, StreamTypeOK, OutputInOrder, ExitCodeIsTheProcess
  <2>4. DownInOrder' /\ NothingLost'
    BY <2>1 DEF StreamInv, DownInOrder, DownIsOutput, DownRises, DownAfterGot, DownExit, NothingLost
  <2> QED
    BY <2>1, <2>3, <2>4 DEF StreamInv
<1>3. CASE ServerHears
  BY <1>3, StreamQuiet DEF ServerHears
<1>4. CASE ServerSends
  BY <1>4, SendOutput, SendExit DEF ServerSends
<1>5. CASE ConnBreaks
  <2>1. /\ down' = <<>> /\ conn' = "closed" /\ Len(down') = 0 /\ down' \in Seq(Seq(Int))
        /\ UNCHANGED <<got, printed, sent, ended, exitCode>>
    BY <1>5, EmptySeq DEF ConnBreaks
  <2>2. DownInOrder' /\ NothingLost'
    BY <2>1 DEF DownInOrder, DownIsOutput, DownRises, DownAfterGot, DownExit, NothingLost
  <2> QED
    BY <2>1, <2>2 DEF StreamInv, StreamTypeOK, OutputInOrder, ExitCodeIsTheProcess
<1> QED
  BY <1>1, <1>2, <1>3, <1>4, <1>5 DEF Server
-----------------------------------------------------------------------------
(* Any number of callers that use a connection in any way: one writes at a *)
(* time, and what they read is what the session sent.  The connection of   *)
(* PTYClient is the one of above.                                          *)

CONSTANTS Unused, MaxCalls
VARIABLE calls

Client == INSTANCE PTYClient

LEMMA SameFrames ==
  /\ \A op : Client!FrameOf(op) = FrameOf(op)
  /\ \A f : Client!Heard(f) = Heard(f)
  /\ \A f : Client!Kind(f) = Kind(f)
  /\ \A f : Client!Content(f) = Content(f)
  /\ \A n : Client!OutputFrames(n) = OutputFrames(n)
  /\ Client!ExitFrames = ExitFrames
<1>1. \A op : Client!FrameOf(op) = FrameOf(op)
  BY DEF Client!FrameOf, FrameOf, Client!OpReady, Client!OpData, Client!OpResize,
     OpReady, OpData, OpResize
<1>2. \A f : Client!Heard(f) = Heard(f)
  BY DEF Client!Heard, Heard, Client!OpReady, Client!OpData, Client!OpResize,
     OpReady, OpData, OpResize
<1>3. \A f : Client!Kind(f) = Kind(f)
  BY DEF Client!Kind, Kind, Client!OpData, Client!OpExit, OpData, OpExit
<1>4. \A u : Client!Int32(u) = Int32(u)
  BY DEF Client!Int32, Int32, Client!Wrap, Wrap
<1>5. \A b : Client!Uint32(b) = Uint32(b)
  BY DEF Client!Uint32, Uint32
<1>6. \A f : Client!Content(f) = Content(f)
  BY <1>3, <1>4, <1>5 DEF Client!Content, Content
<1>7. \A n : Client!OutputFrames(n) = OutputFrames(n)
  BY DEF Client!OutputFrames, OutputFrames, Client!OpUnknown, OpUnknown,
     Client!DataFrame, DataFrame, Client!OpData, OpData
<1>8. \A c : Client!ExitFrame(c) = ExitFrame(c)
  BY DEF Client!ExitFrame, ExitFrame, Client!Unsigned, Unsigned, Client!Upper, Upper,
     Client!Wrap, Wrap, Client!OpExit, OpExit
<1>9. Client!ExitFrames = ExitFrames
  BY <1>8 DEF Client!ExitFrames, ExitFrames
<1> QED
  BY <1>1, <1>2, <1>3, <1>6, <1>7, <1>9

LEMMA SameCalls ==
  /\ Client!PTYInit <=> PTYInit
  /\ Client!Connect <=> Connect
  /\ Client!Ops = Ops
  /\ \A p, op : Client!Begin(p, op) <=> Begin(p, op)
  /\ \A p : Client!CallStep(p) <=> CallStep(p)
<1>1. /\ Client!api = api /\ Client!network = network /\ Client!session = session
      /\ Client!Idle = Idle /\ Client!WriteOps = WriteOps /\ Client!Ops = Ops
  BY DEF Client!api, api, Client!network, network, Client!session, session,
     Client!Idle, Idle, Client!WriteOps, WriteOps, Client!Ops, Ops
<1>2. Client!PTYInit <=> PTYInit
  BY DEF Client!PTYInit, PTYInit, Client!Idle, Idle
<1>3. Client!Connect <=> Connect
  BY DEF Client!Connect, Connect, Client!api, api, Client!network, network,
     Client!session, session
<1>4. \A p, op : Client!Begin(p, op) <=> Begin(p, op)
  BY DEF Client!Begin, Begin, Client!IsIdle, IsIdle, Client!Idle, Idle,
     Client!WriteOps, WriteOps, Client!network, network, Client!session, session
<1>5. ASSUME NEW p PROVE Client!CallStep(p) <=> CallStep(p)
  <2> USE DEF Client!Return, Return, Client!Idle, Idle, Client!Fails, Fails,
              Client!network, network, Client!session, session
  <2>1. Client!Lock(p) <=> Lock(p)
    BY DEF Client!Lock, Lock
  <2>2. Client!Send(p) <=> Send(p)
    BY SameFrames DEF Client!Send, Send
  <2>3. Client!SendFails(p) <=> SendFails(p)
    BY DEF Client!SendFails, SendFails
  <2>4. Client!Receive(p) <=> Receive(p)
    BY SameFrames DEF Client!Receive, Receive
  <2>5. Client!ReceiveClose(p) <=> ReceiveClose(p)
    BY DEF Client!ReceiveClose, ReceiveClose, Client!ServerClosed, ServerClosed
  <2>6. Client!ReceiveFails(p) <=> ReceiveFails(p)
    BY DEF Client!ReceiveFails, ReceiveFails
  <2>7. Client!Close(p) <=> Close(p)
    BY DEF Client!Close, Close
  <2> QED
    BY <2>1, <2>2, <2>3, <2>4, <2>5, <2>6, <2>7 DEF Client!CallStep, CallStep
<1> QED
  BY <1>1, <1>2, <1>3, <1>4, <1>5

LEMMA SameServer == Client!Server <=> Server
<1> USE DEF Client!api, api, Client!network, network, Client!session, session
<1>1. Client!SessionPrints <=> SessionPrints
  BY DEF Client!SessionPrints, SessionPrints
<1>2. Client!SessionExits <=> SessionExits
  BY DEF Client!SessionExits, SessionExits
<1>3. Client!ServerHears <=> ServerHears
  BY SameFrames DEF Client!ServerHears, ServerHears
<1>4. Client!ServerSends <=> ServerSends
  <2>1. Client!OutputFrames(sent') = OutputFrames(sent')
    BY SameFrames
  <2> QED
    BY <2>1, SameFrames DEF Client!ServerSends, ServerSends
<1>5. Client!ConnBreaks <=> ConnBreaks
  BY DEF Client!ConnBreaks, ConnBreaks
<1> QED
  BY <1>1, <1>2, <1>3, <1>4, <1>5 DEF Client!Server, Server

LEMMA ClientSteps ==
  ASSUME [Client!Next]_(Client!vars)
  PROVE  \/ Connect
         \/ Server
         \/ \E p \in Callers, op \in Ops \ {"none"} : Begin(p, op)
         \/ \E p \in Callers : CallStep(p)
         \/ /\ UNCHANGED <<conn, api, network, session>>
            /\ cancelled' = cancelled \/ \E p \in Callers : cancelled' = cancelled \cup {p}
<1>1. CASE Client!Dial
  BY <1>1, SameCalls DEF Client!Dial
<1>2. CASE Client!Environment
  BY <1>2, SameServer DEF Client!Environment
<1>3. CASE \E p \in Callers : Client!Call(p)
  BY <1>3, SameCalls DEF Client!Call
<1>4. CASE \E p \in Callers : Client!Step(p)
  BY <1>4, SameCalls DEF Client!Step
<1>5. CASE \E p \in Callers : Client!Cancel(p)
  <2>1. UNCHANGED <<conn, api, network, session>>
    BY <1>5 DEF Client!Cancel, Client!api, api, Client!network, network,
       Client!session, session
  <2>2. \E p \in Callers : cancelled' = cancelled \cup {p}
    BY <1>5 DEF Client!Cancel
  <2> QED
    BY <2>1, <2>2
<1>6. CASE UNCHANGED Client!vars
  BY <1>6 DEF Client!vars, Client!ptyVars, Client!api, api, Client!network, network,
     Client!session, session
<1> QED
  BY <1>1, <1>2, <1>3, <1>4, <1>5, <1>6 DEF Client!Next

\* The mutex stays with the one that sends, whatever the callers do.
LEMMA MutexHolds == Client!Spec => []MutexInv
<1>1. Client!Init => MutexInv
  BY SameCalls, PTYInitMutex DEF Client!Init
<1>2. MutexInv /\ [Client!Next]_(Client!vars) => MutexInv'
  <2> SUFFICES ASSUME MutexInv, [Client!Next]_(Client!vars) PROVE MutexInv'
    OBVIOUS
  <2>1. CASE Connect
    BY <2>1 DEF Connect, api, MutexInv, MutexTypeOK, OneWriter
  <2>2. CASE Server
    BY <2>2, ServerMutex
  <2>3. CASE \E p \in Callers, op \in Ops \ {"none"} : Begin(p, op)
    BY <2>3, BeginMutex
  <2>4. CASE \E p \in Callers : CallStep(p)
    BY <2>4, CallStepMutex
  <2>5. CASE UNCHANGED <<conn, api, network, session>>
    BY <2>5 DEF api, MutexInv, MutexTypeOK, OneWriter
  <2> QED
    BY <2>1, <2>2, <2>3, <2>4, <2>5, ClientSteps
<1> QED
  BY <1>1, <1>2, PTL DEF Client!Spec

\* At most one of any number of callers is inside conn.Write, it holds the
\* mutex, and whoever returns has given it back (sandbox_pty_websocket.go:137-162).
THEOREM ClientsExclude == Client!Spec => []OneWriter
<1>1. MutexInv => OneWriter
  BY DEF MutexInv
<1> QED
  BY <1>1, MutexHolds, PTL

\* The output stays in order, whatever the callers do.
LEMMA StreamHolds == Client!Spec => []StreamInv
<1>1. Client!Init => StreamInv
  BY SameCalls, PTYInitStream DEF Client!Init
<1>2. StreamInv /\ [Client!Next]_(Client!vars) => StreamInv'
  <2> SUFFICES ASSUME StreamInv, [Client!Next]_(Client!vars) PROVE StreamInv'
    OBVIOUS
  <2>1. CASE Connect
    BY <2>1, StreamQuiet DEF Connect, api, network, session
  <2>2. CASE Server
    BY <2>2, ServerStream
  <2>3. CASE \E p \in Callers, op \in Ops \ {"none"} : Begin(p, op)
    BY <2>3, StreamQuiet DEF Begin, network, session
  <2>4. CASE \E p \in Callers : CallStep(p)
    BY <2>4, CallStepStream
  <2>5. CASE UNCHANGED <<conn, api, network, session>>
    BY <2>5, StreamQuiet DEF api, network, session
  <2> QED
    BY <2>1, <2>2, <2>3, <2>4, <2>5, ClientSteps
<1> QED
  BY <1>1, <1>2, PTL DEF Client!Spec

\* Whoever reads, Read returns the session's output in order, each piece once,
\* and the exit after all of it (sandbox_pty_websocket.go:169-190).
THEOREM OutputOrdered == Client!Spec => []OutputInOrder
<1>1. StreamInv => OutputInOrder
  BY DEF StreamInv
<1> QED
  BY <1>1, StreamHolds, PTL

\* The code of an exit message is the process's, for every 32-bit code
\* (sandbox_pty_websocket.go:182-187).
THEOREM ClientsReadExitCode == Client!Spec => []ExitCodeIsTheProcess
<1>1. StreamInv => ExitCodeIsTheProcess
  BY DEF StreamInv
<1> QED
  BY <1>1, StreamHolds, PTL

\* The types hold, whatever the callers do.
LEMMA TypesHold == Client!Spec => []PTYTypeInv
<1>1. Client!Init => PTYTypeInv
  BY SameCalls, PTYInitType DEF Client!Init
<1>2. PTYTypeInv /\ [Client!Next]_(Client!vars) => PTYTypeInv'
  <2> SUFFICES ASSUME PTYTypeInv, [Client!Next]_(Client!vars) PROVE PTYTypeInv'
    OBVIOUS
  <2>1. CASE Connect
    BY <2>1 DEF Connect, api, network, session, PTYTypeInv, PTYTypeOK
  <2>2. CASE Server
    BY <2>2, ServerType
  <2>3. CASE \E p \in Callers, op \in Ops \ {"none"} : Begin(p, op)
    BY <2>3, BeginType
  <2>4. CASE \E p \in Callers : CallStep(p)
    BY <2>4, CallStepType
  <2>5. CASE /\ UNCHANGED <<conn, api, network, session>>
             /\ cancelled' = cancelled \/ \E p \in Callers : cancelled' = cancelled \cup {p}
    BY <2>5 DEF api, network, session, PTYTypeInv, PTYTypeOK
  <2> QED
    BY <2>1, <2>2, <2>3, <2>4, <2>5, ClientSteps
<1> QED
  BY <1>1, <1>2, PTL DEF Client!Spec

\* The variables of a connection keep their types, for any number of callers; the
\* network never holds more frames than it takes.
THEOREM ClientsTypeCorrect == Client!Spec => []PTYTypeOK
<1>1. PTYTypeInv => PTYTypeOK
  BY DEF PTYTypeInv
<1> QED
  BY <1>1, TypesHold, PTL
-----------------------------------------------------------------------------
(* Whoever waits gets away.                                                *)

\* A caller is idle or in a call, never in between.
IdleInv == \A p \in Callers : call[p].at = "idle" => IsIdle(p)

LEMMA IdleHolds == Client!Spec => []IdleInv
<1>1. Client!Init => IdleInv
  BY SameCalls DEF Client!Init, PTYInit, IdleInv, IsIdle
<1>2. PTYTypeInv /\ IdleInv /\ [Client!Next]_(Client!vars) => IdleInv'
  <2> SUFFICES ASSUME PTYTypeInv, IdleInv, [Client!Next]_(Client!vars) PROVE IdleInv'
    OBVIOUS
  <2>1. CASE Connect \/ Server \/ UNCHANGED <<conn, api, network, session>>
    <3>1. call' = call
      BY <2>1 DEF Connect, Server, SessionPrints, SessionExits, ServerHears, ServerSends,
         ConnBreaks, api
    <3> QED
      BY <3>1 DEF IdleInv, IsIdle
  <2>2. CASE \E p \in Callers, op \in Ops \ {"none"} : Begin(p, op)
    <3> PICK p \in Callers, op \in Ops \ {"none"} : Begin(p, op)
      BY <2>2
    <3>1. /\ call'[p].at \in {"lock", "receive", "closing"}
          /\ \A q \in Callers \ {p} : call'[q] = call[q]
      BY DEF Begin, Ops, WriteOps, PTYTypeInv, PTYTypeOK
    <3> QED
      BY <3>1 DEF IdleInv, IsIdle
  <2>3. CASE \E p \in Callers : CallStep(p)
    <3> PICK p \in Callers : CallStep(p)
      BY <2>3
    <3>1. call'[p] = Idle \/ call'[p] = [op |-> call[p].op, at |-> "send"]
      BY CallGoesOn
    <3>2. \A q \in Callers \ {p} : call'[q] = call[q]
      BY CallGoesOn
    <3> QED
      BY <3>1, <3>2 DEF IdleInv, IsIdle
  <2> QED
    BY <2>1, <2>2, <2>3, ClientSteps
<1> QED
  BY <1>1, <1>2, TypesHold, PTL DEF Client!Spec

\* The caller's next step is possible: the guards of Lock, SendFails,
\* ReceiveFails and Close.
CanGo(p) ==
  \/ call[p].at = "lock" /\ mu = Nobody
  \/ call[p].at \in {"send", "receive"} /\ (conn = "closed" \/ p \in cancelled)
  \/ call[p].at = "closing"

\* Once the connection is closed, or every context cancelled, no call is stuck:
\* it can go on, or it waits for a mutex whose holder can
\* (sandbox_pty_websocket.go:137-195).
THEOREM NobodyIsStuck ==
  Client!Spec => [](conn = "closed" \/ cancelled = Callers =>
    \A p \in Callers : ~IsIdle(p) =>
      CanGo(p) \/ (call[p].at = "lock" /\ mu \in Callers \ {p} /\ CanGo(mu)))
<1>1. ASSUME PTYTypeInv, MutexInv, IdleInv, conn = "closed" \/ cancelled = Callers,
             NEW p \in Callers, ~IsIdle(p)
      PROVE  CanGo(p) \/ (call[p].at = "lock" /\ mu \in Callers \ {p} /\ CanGo(mu))
  <2>1. call[p].at \in Places \ {"idle"} /\ mu \in Callers \cup {Nobody}
    BY <1>1 DEF PTYTypeInv, PTYTypeOK, IdleInv
  <2>2. CASE call[p].at # "lock"
    BY <1>1, <2>1, <2>2 DEF CanGo, Places
  <2>3. CASE call[p].at = "lock" /\ mu # Nobody
    <3>1. mu \in Callers /\ call[mu].at = "send"
      BY <1>1, <2>1, <2>3 DEF MutexInv, OneWriter
    <3> QED
      BY <1>1, <2>3, <3>1 DEF CanGo
  <2> QED
    BY <2>2, <2>3 DEF CanGo
<1>2. PTYTypeInv /\ MutexInv /\ IdleInv =>
        (conn = "closed" \/ cancelled = Callers =>
           \A p \in Callers : ~IsIdle(p) =>
             CanGo(p) \/ (call[p].at = "lock" /\ mu \in Callers \ {p} /\ CanGo(mu)))
  BY <1>1
<1> QED
  BY <1>2, TypesHold, MutexHolds, IdleHolds, PTL

\* The steps a pending call has left.
StepsOfCall(p) == CASE call[p].at = "idle" -> 0
                    [] call[p].at = "lock" -> 2
                    [] OTHER -> 1

\* A call takes two steps at most: each of its own brings its return nearer, and
\* nobody else, neither another caller nor the server, puts it off
\* (sandbox_pty_websocket.go:137-195).
THEOREM CallsAreShort ==
  Client!Spec => [][\A p \in Callers :
    IF Client!Step(p) THEN StepsOfCall(p)' < StepsOfCall(p)
    ELSE Client!Call(p) \/ StepsOfCall(p)' = StepsOfCall(p)]_(Client!vars)
<1> DEFINE Short == \A p \in Callers :
             IF Client!Step(p) THEN StepsOfCall(p)' < StepsOfCall(p)
             ELSE Client!Call(p) \/ StepsOfCall(p)' = StepsOfCall(p)
<1>1. PTYTypeInv /\ IdleInv /\ [Client!Next]_(Client!vars) => [Short]_(Client!vars)
  <2> SUFFICES ASSUME PTYTypeInv, IdleInv, Client!Next, NEW p \in Callers
               PROVE  IF Client!Step(p) THEN StepsOfCall(p)' < StepsOfCall(p)
                      ELSE Client!Call(p) \/ StepsOfCall(p)' = StepsOfCall(p)
    OBVIOUS
  <2>1. CASE Client!Step(p)
    <3>1. CallStep(p)
      BY <2>1, SameCalls DEF Client!Step
    <3>2. call[p].at # "idle"
      BY <3>1, CallGoesOn DEF IdleInv
    <3>3. \/ call'[p] = Idle
          \/ call[p].at = "lock" /\ call'[p] = [op |-> call[p].op, at |-> "send"]
      BY <3>1, CallGoesOn
    <3>4. \/ call'[p].at = "idle"
          \/ call[p].at = "lock" /\ call'[p].at = "send"
      BY <3>3 DEF Idle
    <3> QED
      BY <2>1, <3>2, <3>4 DEF StepsOfCall
  <2>2. ASSUME ~Client!Step(p), ~Client!Call(p) PROVE call'[p] = call[p]
    <3>1. CASE \E q \in Callers \ {p} : Client!Step(q)
      BY <3>1, SameCalls, CallGoesOn DEF Client!Step
    <3>2. CASE \E q \in Callers \ {p} : Client!Call(q)
      BY <3>2, SameCalls DEF Client!Call, Begin, PTYTypeInv, PTYTypeOK
    <3>3. CASE Client!Dial
      BY <3>3, SameCalls DEF Client!Dial, Connect, api
    <3>4. CASE Client!Environment
      BY <3>4, SameServer DEF Client!Environment, Server, SessionPrints, SessionExits,
         ServerHears, ServerSends, ConnBreaks, api
    <3>5. CASE \E q \in Callers : Client!Cancel(q)
      BY <3>5 DEF Client!Cancel, Client!api
    <3> QED
      BY <2>2, <3>1, <3>2, <3>3, <3>4, <3>5 DEF Client!Next
  <2>3. ASSUME ~Client!Step(p), ~Client!Call(p) PROVE StepsOfCall(p)' = StepsOfCall(p)
    BY <2>2, <2>3 DEF StepsOfCall
  <2> QED
    BY <2>1, <2>3
<1> HIDE DEF Short
<1>2. Client!Spec => [][Short]_(Client!vars)
  BY <1>1, TypesHold, IdleHolds, PTL DEF Client!Spec
<1> QED
  BY <1>2 DEF Short
=============================================================================
