------------------------ MODULE SandboxTerminalProofs ------------------------
(* The terminal example gives up what it has acquired, on every way out and *)
(* in the right order, for any number of polls, tries, inputs and outputs.  *)
EXTENDS SandboxTerminal, PTYConnProofs, SequenceTheorems

\* The numbers of the deferred calls.
LEMMA Ranks ==
  /\ Rank["delete"] = 1 /\ Rank["kill"] = 2
  /\ Rank["close"] = 3 /\ Rank["restore"] = 4
  /\ \A d \in Deferrable : Rank[d] \in 1 .. 4
  BY DEF Rank, Deferrable

\* What is pending can be deferred.
LEMMA DeferrablePending == DeferInv => Pending \subseteq Deferrable
  BY ElementOfSeq DEF DeferInv, Pending

\* Deferring a call above all the pending ones keeps them in order.
LEMMA Push ==
  ASSUME NEW d \in Deferrable, DeferInv, Below(Rank[d]), defers' = Append(defers, d)
  PROVE  /\ defers' \in Seq(Deferrable)
         /\ \A i, j \in 1 .. Len(defers') : i < j => Rank[defers'[i]] < Rank[defers'[j]]
         /\ Pending' = Pending \cup {d}
<1>1. /\ defers \in Seq(Deferrable) /\ Len(defers) \in Nat
      /\ \A i, j \in 1 .. Len(defers) : i < j => Rank[defers[i]] < Rank[defers[j]]
  BY LenProperties DEF DeferInv
<1>2. /\ defers' \in Seq(Deferrable) /\ Len(defers') = Len(defers) + 1
      /\ \A i \in 1 .. Len(defers) : defers'[i] = defers[i]
      /\ defers'[Len(defers) + 1] = d
  BY <1>1, AppendProperties
<1>3. \A i \in 1 .. Len(defers) : Rank[defers[i]] < Rank[d]
  BY DEF Below, Pending
<1>4. \A i, j \in 1 .. Len(defers') : i < j => Rank[defers'[i]] < Rank[defers'[j]]
  BY <1>1, <1>2, <1>3
<1>5. Pending' = Pending \cup {d}
  BY <1>1, <1>2 DEF Pending
<1> QED
  BY <1>2, <1>4, <1>5

\* Running the last deferred call leaves the ones below it.
LEMMA Pop ==
  ASSUME NEW d, DeferInv, NextDeferred(d)
  PROVE  /\ defers' \in Seq(Deferrable) /\ d \in Deferrable
         /\ \A i, j \in 1 .. Len(defers') : i < j => Rank[defers'[i]] < Rank[defers'[j]]
         /\ Pending' = Pending \ {d}
         /\ d \in Pending
         /\ \A e \in Pending' : Rank[e] < Rank[d]
<1>1. /\ defers \in Seq(Deferrable) /\ Len(defers) \in Nat \ {0}
      /\ \A i, j \in 1 .. Len(defers) : i < j => Rank[defers[i]] < Rank[defers[j]]
  BY LenProperties, EmptySeq DEF DeferInv, NextDeferred
<1>2. /\ d = defers[Len(defers)] /\ d \in Deferrable
      /\ defers' = SubSeq(defers, 1, Len(defers) - 1)
  BY <1>1, ElementOfSeq DEF NextDeferred
<1>3. \A i \in 1 .. Len(defers) : defers[i] \in Deferrable
  BY <1>1, ElementOfSeq
<1>4. /\ defers' \in Seq(Deferrable) /\ Len(defers') = Len(defers) - 1
      /\ \A i \in 1 .. Len(defers) - 1 : defers'[i] = defers[i]
  <2> DEFINE n == Len(defers) - 1
  <2>1. n \in Nat /\ \A i \in 1 .. n : defers[i] \in Deferrable
    BY <1>1, <1>3
  <2>2. defers' = SubSeq(defers, 1, n)
    BY <1>2
  <2> HIDE DEF n
  <2>3. /\ SubSeq(defers, 1, n) \in Seq(Deferrable)
        /\ Len(SubSeq(defers, 1, n)) = IF 1 <= n THEN n - 1 + 1 ELSE 0
        /\ \A i \in 1 .. n - 1 + 1 : SubSeq(defers, 1, n)[i] = defers[1 + i - 1]
    BY <2>1, SubSeqProperties
  <2>4. /\ defers' \in Seq(Deferrable) /\ Len(defers') = n
        /\ \A i \in 1 .. n : defers'[i] = defers[i]
    BY <2>1, <2>2, <2>3
  <2> QED
    BY <2>4 DEF n
<1>5. \A i, j \in 1 .. Len(defers') : i < j => Rank[defers'[i]] < Rank[defers'[j]]
  BY <1>1, <1>4
<1>6. \A e \in Pending' : Rank[e] < Rank[d]
  BY <1>1, <1>2, <1>4 DEF Pending
<1>7. \A i \in 1 .. Len(defers) - 1 : Rank[defers[i]] < Rank[d] /\ defers[i] # d
  BY SMTT(30), <1>1, <1>2, <1>3, Ranks
<1>8. Pending' = Pending \ {d} /\ d \in Pending
  BY <1>1, <1>2, <1>4, <1>7 DEF Pending
<1> QED
  BY <1>2, <1>4, <1>5, <1>6, <1>8

\* A step that leaves run, its terminal and its clean-up calls alone, and can
\* only close the connection, keeps the invariant.
LEMMA Quiet ==
  ASSUME DeferInv, UNCHANGED <<mpc, defers, flags, sbID, ptyResp, raw, attempted>>,
         conn' = conn \/ (conn' = "closed" /\ conn # "none"),
         mpc = "closing" => call'["main"] = call["main"] \/ conn' = "closed"
  PROVE  DeferInv'
  BY DEF DeferInv, Below, Pending

\* The steps of a pending call close the connection at most.
LEMMA CallStepCloses ==
  ASSUME NEW p \in Callers, CallStep(p), MutexTypeOK
  PROVE  /\ conn' = conn \/ (conn' = "closed" /\ conn # "none")
         /\ call[p].at = "closing" => conn' = "closed"
         /\ \A q \in Callers \ {p} : call'[q] = call[q]
  BY DEF CallStep, Lock, Send, SendFails, Receive, ReceiveClose, ReceiveFails, Close, Fails,
         Return, MutexTypeOK, Idle

\* Nothing is acquired, deferred or attempted at first (main.go:59-76).
LEMMA InitInv == Init => MutexInv /\ DeferInv
<1> SUFFICES ASSUME Init PROVE MutexInv /\ DeferInv
  OBVIOUS
<1>1. MutexInv
  BY PTYInitMutex DEF Init
<1>2. Pending = {} /\ defers \in Seq(Deferrable) /\ Len(defers) = 0
  BY EmptySeq DEF Init, Pending
<1>3. conn = "none"
  BY DEF Init, PTYInit
<1> QED
  BY <1>1, <1>2, <1>3 DEF Init, DeferInv, MainPCs, Below

\* A step of run that neither acquires nor gives back anything.
LEMMA Moves ==
  ASSUME DeferInv,
         UNCHANGED <<ptyVars, flags, defers, sbID, ptyResp, raw, attempted>>,
         mpc' \in MainPCs, mpc # "closing",
         \/ mpc' = "return"
         \/ mpc' = mpc
         \/ mpc = "create" /\ mpc' = "poll"
         \/ mpc = "poll" /\ mpc' = "createPTY"
         \/ mpc = "awaitReady" /\ mpc' = "raw"
  PROVE  DeferInv'
<1>1. Pending' = Pending
  BY DEF Pending
<1>2. Below(1) => Below(2)
  BY Ranks, DeferrablePending DEF Below
<1> QED
  BY <1>1, <1>2 DEF DeferInv, Below, ptyVars, api

\* The steps of run up to the end of select, which acquire and defer.
LEMMA AcquireInv ==
  ASSUME MutexInv, DeferInv,
         \/ Reuse \/ CreateSandbox \/ PollFails \/ Poll \/ CreatePTY \/ CreatePTYFails
         \/ ConnectPTY \/ ConnectFails \/ Ready \/ ReadySent \/ MakeRaw \/ Select
  PROVE  DeferInv'
<1> USE DEF MainPCs
<1>1. CASE Reuse
  BY <1>1, Moves DEF Reuse, service
<1>2. CASE CreateSandbox
  <2>1. CASE defers' = Append(defers, "delete") /\ mpc' = "poll"
    <3>1. Below(1) /\ mpc = "create"
      BY <1>2 DEF CreateSandbox, DeferInv
    <3>2. /\ defers' \in Seq(Deferrable) /\ Pending' = Pending \cup {"delete"}
          /\ \A i, j \in 1 .. Len(defers') : i < j => Rank[defers'[i]] < Rank[defers'[j]]
      BY <2>1, <3>1, Push, Ranks DEF Deferrable
    <3>3. Below(2)'
      BY <3>1, <3>2, Ranks, DeferrablePending DEF Below
    <3> QED
      BY <1>2, <2>1, <3>1, <3>2, <3>3 DEF CreateSandbox, DeferInv, ptyVars
  <2>2. CASE defers' = defers /\ flags.keep /\ mpc' = "poll"
    <3>1. Pending' = Pending /\ mpc = "create"
      BY <1>2, <2>2 DEF CreateSandbox, Pending
    <3>2. Below(2)'
      BY <3>1, Ranks, DeferrablePending DEF Below, DeferInv
    <3> QED
      BY <1>2, <2>2, <3>1, <3>2 DEF CreateSandbox, DeferInv, ptyVars
  <2>3. CASE Leave /\ UNCHANGED <<sbID, defers>>
    BY <1>2, <2>3, Moves DEF CreateSandbox, Leave
  <2> QED
    BY <1>2, <2>1, <2>2, <2>3 DEF CreateSandbox
<1>3. CASE PollFails
  BY <1>3, Moves DEF PollFails, Leave, service
<1>4. CASE Poll
  BY <1>4, Moves DEF Poll, service
<1>5. CASE CreatePTY
  <2>1. Below(2) /\ mpc = "createPTY" /\ defers' = Append(defers, "kill")
    BY <1>5 DEF CreatePTY, DeferInv
  <2>2. /\ defers' \in Seq(Deferrable) /\ Pending' = Pending \cup {"kill"}
        /\ \A i, j \in 1 .. Len(defers') : i < j => Rank[defers'[i]] < Rank[defers'[j]]
    BY <2>1, Push, Ranks DEF Deferrable
  <2>3. Below(3)'
    BY <2>1, <2>2, Ranks, DeferrablePending DEF Below
  <2> QED
    BY <1>5, <2>1, <2>2, <2>3 DEF CreatePTY, DeferInv, ptyVars
<1>6. CASE CreatePTYFails
  BY <1>6, Moves DEF CreatePTYFails
<1>7. CASE ConnectPTY
  <2>1. Below(3) /\ mpc = "connect" /\ defers' = Append(defers, "close")
    BY <1>7 DEF ConnectPTY, DeferInv
  <2>2. /\ defers' \in Seq(Deferrable) /\ Pending' = Pending \cup {"close"}
        /\ \A i, j \in 1 .. Len(defers') : i < j => Rank[defers'[i]] < Rank[defers'[j]]
    BY <2>1, Push, Ranks DEF Deferrable
  <2>3. Below(4)'
    BY <2>1, <2>2, Ranks, DeferrablePending DEF Below
  <2> QED
    BY <1>7, <2>1, <2>2, <2>3 DEF ConnectPTY, DeferInv, service
<1>8. CASE ConnectFails
  BY <1>8, Moves DEF ConnectFails, Leave, service
<1>9. CASE Ready
  <2>1. Pending' = Pending
    BY <1>9 DEF Ready, Pending
  <2> QED
    BY <1>9, <2>1 DEF Ready, Begin, DeferInv, Below, service
<1>10. CASE ReadySent
  BY <1>10, Moves DEF ReadySent, service
<1>11. CASE MakeRaw
  <2>1. CASE raw' = TRUE /\ defers' = Append(defers, "restore") /\ mpc' = "select"
    <3>1. Below(4) /\ mpc = "raw"
      BY <1>11 DEF MakeRaw, DeferInv
    <3>2. /\ defers' \in Seq(Deferrable) /\ Pending' = Pending \cup {"restore"}
          /\ \A i, j \in 1 .. Len(defers') : i < j => Rank[defers'[i]] < Rank[defers'[j]]
      BY <2>1, <3>1, Push, Ranks DEF Deferrable
    <3> QED
      BY <1>11, <2>1, <3>1, <3>2 DEF MakeRaw, DeferInv, ptyVars, service
  <2>2. CASE Leave /\ UNCHANGED <<raw, defers, gos>>
    BY <1>11, <2>2, Moves DEF MakeRaw, Leave, service
  <2> QED
    BY <1>11, <2>1, <2>2 DEF MakeRaw
<1>12. CASE Select
  BY <1>12, Moves DEF Select, Leave, service
<1> QED
  BY <1>1, <1>2, <1>3, <1>4, <1>5, <1>6, <1>7, <1>8, <1>9, <1>10, <1>11, <1>12

\* The deferred calls and the exit, which give back from the top.
LEMMA ReleaseInv ==
  ASSUME MutexInv, DeferInv,
         \/ Restore \/ CloseConn \/ ConnClosed \/ KillPTY \/ DeleteSandbox \/ Exit
  PROVE  DeferInv'
<1> USE DEF MainPCs
<1>0. Pending \subseteq Deferrable
  BY DeferrablePending
<1>1. CASE Restore
  <2>1. /\ defers' \in Seq(Deferrable) /\ Pending' = Pending \ {"restore"}
        /\ \A i, j \in 1 .. Len(defers') : i < j => Rank[defers'[i]] < Rank[defers'[j]]
    BY <1>1, Pop DEF Restore
  <2> QED
    BY <1>1, <2>1 DEF Restore, NextDeferred, DeferInv, Below, ptyVars, service
<1>2. CASE CloseConn
  <2>1. /\ defers' \in Seq(Deferrable) /\ Pending' = Pending \ {"close"}
        /\ \A i, j \in 1 .. Len(defers') : i < j => Rank[defers'[i]] < Rank[defers'[j]]
        /\ \A e \in Pending' : Rank[e] < 3
        /\ "close" \in Pending
    BY <1>2, Pop, Ranks DEF CloseConn
  <2>2. call'["main"].at = "closing" /\ conn' = conn
    BY <1>2, TerminalAssumption DEF CloseConn, Begin, MutexInv, MutexTypeOK, WriteOps
  <2>3. ~raw
    BY <1>0, <2>1, Ranks DEF DeferInv
  <2>4. attempted = {}
    BY <2>1, Ranks DEF DeferInv, Below
  <2> QED
    BY <1>2, <2>1, <2>2, <2>3, <2>4 DEF CloseConn, NextDeferred, Begin, DeferInv, Below, service
<1>3. CASE ConnClosed
  <2>1. Pending' = Pending /\ conn # "open"
    BY <1>3 DEF ConnClosed, Pending, DeferInv, IsIdle, Idle
  <2> QED
    BY <1>3, <2>1 DEF ConnClosed, Leave, DeferInv, Below, ptyVars, service
<1>4. CASE KillPTY
  <2>1. /\ defers' \in Seq(Deferrable) /\ Pending' = Pending \ {"kill"}
        /\ \A i, j \in 1 .. Len(defers') : i < j => Rank[defers'[i]] < Rank[defers'[j]]
        /\ \A e \in Pending' : Rank[e] < 2
        /\ "kill" \in Pending
    BY <1>4, Pop, Ranks DEF KillPTY
  <2>2. mpc = "return" /\ mpc' = "return"
    BY <1>4 DEF KillPTY, NextDeferred
  <2>3. conn # "open" /\ ~raw
    BY <2>1, <2>2, Ranks DEF DeferInv
  <2>4. "delete" \notin attempted
    BY <2>1, Ranks DEF DeferInv, Below
  <2> QED
    BY <1>4, <2>1, <2>2, <2>3, <2>4 DEF KillPTY, DeferInv, Below, ptyVars
<1>5. CASE DeleteSandbox
  <2>1. /\ defers' \in Seq(Deferrable) /\ Pending' = Pending \ {"delete"}
        /\ \A i, j \in 1 .. Len(defers') : i < j => Rank[defers'[i]] < Rank[defers'[j]]
        /\ \A e \in Pending' : Rank[e] < 1
        /\ "delete" \in Pending
    BY <1>5, Pop, Ranks DEF DeleteSandbox
  <2>2. mpc = "return" /\ mpc' = "return"
    BY <1>5 DEF DeleteSandbox, NextDeferred
  <2>3. Pending' = {}
    BY <1>0, <2>1, Ranks
  <2> QED
    BY <1>5, <2>1, <2>2, <2>3, Ranks DEF DeleteSandbox, DeferInv, Below, ptyVars
<1>6. CASE Exit
  <2>1. Pending' = {} /\ Pending = {}
    BY <1>6 DEF Exit, Pending
  <2> QED
    BY <1>6, <2>1 DEF Exit, DeferInv, Below, ptyVars, service
<1> QED
  BY <1>1, <1>2, <1>3, <1>4, <1>5, <1>6

\* The goroutines, the user and the service touch nothing of it.
LEMMA OthersInv ==
  ASSUME MutexInv, DeferInv,
         \/ Reader \/ User \/ SandboxChanges \/ Environment
         \/ \E p \in Callers : Call(p)
         \/ UNCHANGED vars
  PROVE  DeferInv'
<1> USE DEF main, service, goroutines
<1>1. CASE Reader
  BY <1>1, Quiet, TerminalAssumption
  DEF Reader, ReaderReads, ReaderWrites, ReaderEnds, Begin, Forget, ptyVars, api,
      MutexInv, MutexTypeOK
<1>2. CASE User
  BY <1>2, Quiet, TerminalAssumption
  DEF User, Interrupt, StdinWrites, StdinEnds, WinchResizes, Begin, ptyVars, api,
      MutexInv, MutexTypeOK
<1>3. CASE SandboxChanges
  BY <1>3, Quiet DEF SandboxChanges, ptyVars, api
<1>4. CASE Environment
  <2>1. (conn' = conn \/ (conn' = "closed" /\ conn # "none")) /\ call' = call
    BY <1>4 DEF Environment, Server, SessionPrints, SessionExits, ServerHears,
                ServerSends, ConnBreaks, api
  <2> QED
    BY <1>4, <2>1, Quiet DEF Environment
<1>5. CASE \E p \in Callers : Call(p)
  <2> PICK p \in Callers : Call(p)
    BY <1>5
  <2>1. /\ conn' = conn \/ (conn' = "closed" /\ conn # "none")
        /\ call[p].at = "closing" => conn' = "closed"
        /\ \A q \in Callers \ {p} : call'[q] = call[q]
    BY CallStepCloses DEF Call, MutexInv
  <2>2. CASE p = "main" /\ mpc = "closing"
    <3>1. conn = "closed" \/ conn' = "closed"
      BY <2>1, <2>2 DEF DeferInv
    <3> QED
      BY <2>1, <3>1, Quiet DEF Call
  <2>3. CASE ~(p = "main" /\ mpc = "closing")
    BY <2>1, <2>3, Quiet, TerminalAssumption DEF Call
  <2> QED
    BY <2>2, <2>3
<1>6. CASE UNCHANGED vars
  BY <1>6, Quiet DEF vars, ptyVars, api
<1> QED
  BY <1>1, <1>2, <1>3, <1>4, <1>5, <1>6

\* The steps that touch the connection; the others leave it alone, and run waits
\* for its calls and starts the goroutines only after Ready (main.go:162-181).
LEMMA ConnectionSteps ==
  ASSUME [Next]_vars
  PROVE  \/ ConnectPTY \/ Interrupt \/ Environment \/ \E p \in Callers : Call(p)
         \/ Ready \/ CloseConn \/ ReaderReads \/ StdinWrites \/ WinchResizes
         \/ ReaderWrites
         \/ /\ UNCHANGED <<ptyVars, stdout>>
            /\ mpc \in {"awaitReady", "closing"} => IsIdle("main") \/ mpc' = mpc
            /\ gos' \subseteq gos \/ mpc = "raw"
            /\ mpc' = "raw" =>
                 mpc = "raw" \/ (mpc = "awaitReady" /\ IsIdle("main") /\ reply["main"] = "ok")
            /\ mpc' = "select" => mpc \in {"raw", "select"}
            /\ mpc' = "awaitReady" => mpc = "awaitReady"
<1> USE DEF goroutines
<1>1. CASE Reuse \/ CreateSandbox \/ PollFails \/ Poll
  BY <1>1 DEF Reuse, CreateSandbox, PollFails, Poll, Leave
<1>2. CASE CreatePTY \/ CreatePTYFails \/ ConnectFails
  BY <1>2 DEF CreatePTY, CreatePTYFails, ConnectFails, Leave
<1>3. CASE ReadySent \/ MakeRaw \/ Select
  BY <1>3 DEF ReadySent, MakeRaw, Select, Leave
<1>4. CASE Restore \/ ConnClosed \/ KillPTY \/ DeleteSandbox \/ Exit
  BY <1>4 DEF Restore, ConnClosed, KillPTY, DeleteSandbox, Exit, Leave, NextDeferred
<1>5. CASE ReaderEnds \/ StdinEnds \/ SandboxChanges \/ UNCHANGED vars
  BY <1>5 DEF ReaderEnds, StdinEnds, SandboxChanges, vars, main
<1> QED
  BY <1>1, <1>2, <1>3, <1>4, <1>5 DEF Next, Run, Reader, User

\* No step disturbs the mutex of the connection.
LEMMA TerminalMutex ==
  ASSUME MutexInv, [Next]_vars
  PROVE  MutexInv'
<1>1. {"ready", "write", "resize", "read", "close"} \subseteq Ops \ {"none"}
  BY DEF Ops, WriteOps
<1>2. Callers = {"main", "reader", "stdin", "winch"}
  BY TerminalAssumption
<1>3. CASE UNCHANGED <<conn, mu, call>>
  BY <1>3 DEF MutexInv, MutexTypeOK, OneWriter
<1>4. CASE Ready \/ CloseConn \/ ReaderReads \/ StdinWrites \/ WinchResizes
  BY <1>1, <1>2, <1>4, BeginMutex
  DEF Ready, CloseConn, ReaderReads, StdinWrites, WinchResizes
<1>5. CASE ConnectPTY
  BY <1>5 DEF ConnectPTY, Connect, api, MutexInv, MutexTypeOK, OneWriter
<1>6. CASE Environment
  BY <1>6, ServerMutex DEF Environment
<1>7. CASE \E p \in Callers : Call(p)
  BY <1>7, CallStepMutex DEF Call
<1>8. CASE ReaderWrites \/ Interrupt \/ UNCHANGED ptyVars
  BY <1>3, <1>8 DEF ReaderWrites, Interrupt, ptyVars, api
<1> QED
  BY <1>4, <1>5, <1>6, <1>7, <1>8, ConnectionSteps

\* The mutex and the stack of deferred calls are in order in every state.
LEMMA Invariance == Spec => [](MutexInv /\ DeferInv)
<1>1. Init => MutexInv /\ DeferInv
  BY InitInv
<1>2. MutexInv /\ DeferInv /\ [Next]_vars => (MutexInv /\ DeferInv)'
  <2> SUFFICES ASSUME MutexInv, DeferInv, [Next]_vars PROVE MutexInv' /\ DeferInv'
    OBVIOUS
  <2>1. MutexInv'
    BY TerminalMutex
  <2>2. DeferInv'
    BY AcquireInv, ReleaseInv, OthersInv DEF Next, Run
  <2> QED
    BY <2>1, <2>2
<1> QED
  BY <1>1, <1>2, PTL DEF Spec

\* What is acquired is given back or still deferred, above what it depends on,
\* for any number of polls and tries (main.go:78-171).
THEOREM Deferred == Spec => []DeferInv
  BY Invariance, PTL

\* Among run, its deferred Close and the three goroutines, one at a time is
\* inside conn.Write (main.go:162-216, sandbox_pty_websocket.go:137-162).
THEOREM WritersExclude == Spec => []OneWriter
<1>1. MutexInv => OneWriter
  BY DEF MutexInv
<1> QED
  BY <1>1, Invariance, PTL

\* Whatever failed and whenever the signal came, the program does not exit with
\* something it knows of and has not asked to end (main.go:91-99, 148-152,
\* 160, 171).
THEOREM GivenUp == Spec => []GivenUpOnExit
<1>1. DeferInv => GivenUpOnExit
  <2> SUFFICES ASSUME DeferInv, mpc = "done"
               PROVE  /\ ~raw /\ conn # "open"
                      /\ ptyResp # 0 => "kill" \in attempted
                      /\ sbID /\ ~flags.keep => "delete" \in attempted
    BY DEF GivenUpOnExit
  <2>1. Below(1)
    BY DEF DeferInv
  <2>2. Pending = {}
    BY <2>1, DeferrablePending, Ranks DEF Below
  <2> QED
    BY <2>2 DEF DeferInv
<1> QED
  BY <1>1, Invariance, PTL

\* The clean-up runs in reverse order of acquisition (main.go:91-171).
THEOREM GivenUpReversed == Spec => []GivenUpInOrder
<1>1. DeferInv => GivenUpInOrder
  <2> SUFFICES ASSUME DeferInv
               PROVE  /\ "kill" \in attempted => ~raw /\ conn # "open"
                      /\ "delete" \in attempted => (ptyResp # 0 => "kill" \in attempted)
    BY DEF GivenUpInOrder
  <2>1. ASSUME "kill" \in attempted PROVE ~raw /\ conn # "open"
    <3>1. Below(2) /\ mpc # "closing"
      BY <2>1 DEF DeferInv
    <3>2. "restore" \notin Pending /\ "close" \notin Pending
      BY <3>1, Ranks DEF Below
    <3> QED
      BY <3>1, <3>2 DEF DeferInv
  <2>2. ASSUME "delete" \in attempted, ptyResp # 0 PROVE "kill" \in attempted
    <3>1. "kill" \notin Pending
      BY <2>2, Ranks DEF DeferInv, Below
    <3> QED
      BY <2>2, <3>1 DEF DeferInv
  <2> QED
    BY <2>1, <2>2
<1> QED
  BY <1>1, Invariance, PTL

-----------------------------------------------------------------------------
(* Types, the first frame, and the output.                                 *)

\* Which call each goroutine can be in: each has its own method.
CallersInv ==
  /\ call["reader"] \in {Idle, [op |-> "read", at |-> "receive"]}
  /\ call["stdin"] \in {Idle} \cup [op : {"write"}, at : {"lock", "send"}]
  /\ call["winch"] \in {Idle} \cup [op : {"resize"}, at : {"lock", "send"}]
  /\ \/ call["main"] = Idle
     \/ mpc = "awaitReady" /\ call["main"] \in [op : {"ready"}, at : {"lock", "send"}]
     \/ mpc = "closing" /\ call["main"] = [op |-> "close", at |-> "closing"]

\* While nothing has gone to the server, only run's Ready can.
Fresh == first = "none" /\ up = <<>> /\ conn # "closed"
ReadyInv ==
  /\ ReadyIsFirst
  /\ first = "none" /\ up # <<>> => Heard(Head(up)) = "ready"
  /\ Fresh =>
       /\ gos = {} /\ mpc \notin {"raw", "select"}
       /\ \A p \in Callers \ {"main"} : IsIdle(p)
       /\ mpc = "awaitReady" /\ IsIdle("main") => reply["main"] # "ok"

\* How many sessions there can be: one for each try made.
SessionsInv ==
  /\ sessions \in Seq({"alive", "killed"})
  /\ mpc \in {"create", "poll"} => Len(sessions) = 0
  /\ mpc = "createPTY" => Len(sessions) <= round

\* What the reader has written is what Read has returned to it, but for the last
\* message it looks at; the connection holds what follows.
Unwritten == IF reply["reader"] \in {"data", "exit"} THEN 1 ELSE 0
OutputInv ==
  /\ stdout \in Seq(Int) /\ reply["reader"] \in {"none", "data", "exit", "error"}
  /\ ~IsIdle("reader") => reply["reader"] = "none"
  /\ Len(got) = Len(stdout) + Unwritten
  /\ \A i \in 1 .. Len(stdout) : stdout[i] = i
  /\ reply["reader"] = "data" => got[Len(got)][2] = Len(got)
  /\ reply["reader"] = "exit" => Len(stdout) = printed /\ ended = "over"
  /\ reply["reader"] \in {"none", "data"} /\ conn # "closed" =>
       /\ Len(got) + Len(down) = IF ended = "over" THEN sent + 1 ELSE sent
       /\ \A i \in 1 .. Len(down) : IsData(down[i]) => Content(down[i]) = Len(got) + i

\* The five calls the terminal makes.
LEMMA Begins ==
  ASSUME Ready \/ CloseConn \/ ReaderReads \/ StdinWrites \/ WinchResizes
  PROVE  \E p \in Callers, op \in Ops \ {"none"} : Begin(p, op)
  BY TerminalAssumption DEF Ready, CloseConn, ReaderReads, StdinWrites, WinchResizes, Ops, WriteOps

LEMMA TerminalPTYType ==
  ASSUME PTYTypeInv, [Next]_vars
  PROVE  PTYTypeInv'
<1>1. CASE Ready \/ CloseConn \/ ReaderReads \/ StdinWrites \/ WinchResizes
  BY <1>1, Begins, BeginType
<1>2. CASE ConnectPTY
  BY <1>2 DEF ConnectPTY, Connect, api, network, session, PTYTypeInv, PTYTypeOK
<1>3. CASE Environment
  BY <1>3, ServerType DEF Environment
<1>4. CASE \E p \in Callers : Call(p)
  BY <1>4, CallStepType DEF Call
<1>5. CASE UNCHANGED ptyVars
  BY <1>5 DEF ptyVars, api, network, session, PTYTypeInv, PTYTypeOK
<1>6. CASE ReaderWrites
  <2>1. reply' \in [Callers -> {"none", "ok", "error", "data", "exit"}]
    BY <1>6 DEF ReaderWrites, Forget, PTYTypeInv, PTYTypeOK
  <2> QED
    BY <1>6, <2>1 DEF ReaderWrites, network, session, PTYTypeInv, PTYTypeOK
<1>7. CASE Interrupt
  BY <1>7 DEF Interrupt, api, network, session, PTYTypeInv, PTYTypeOK
<1> QED
  BY <1>1, <1>2, <1>3, <1>4, <1>5, <1>6, <1>7, ConnectionSteps

\* The output stays in order under run and its goroutines too.
LEMMA TerminalStream ==
  ASSUME StreamInv, [Next]_vars
  PROVE  StreamInv'
<1> USE DEF network, session
<1>1. CASE Ready \/ CloseConn \/ ReaderReads \/ StdinWrites \/ WinchResizes
  BY <1>1, Begins, StreamQuiet DEF Begin
<1>2. CASE ConnectPTY
  BY <1>2, StreamQuiet DEF ConnectPTY, Connect, api
<1>3. CASE Environment
  BY <1>3, ServerStream DEF Environment
<1>4. CASE \E p \in Callers : Call(p)
  BY <1>4, CallStepStream DEF Call
<1>5. CASE ReaderWrites \/ Interrupt \/ UNCHANGED ptyVars
  BY <1>5, StreamQuiet DEF ReaderWrites, Interrupt, ptyVars, api
<1> QED
  BY <1>1, <1>2, <1>3, <1>4, <1>5, ConnectionSteps

\* Each goroutine keeps to its method, and run waits for the calls it makes
\* (main.go:162-216).
LEMMA TerminalCallers ==
  ASSUME PTYTypeInv, CallersInv, [Next]_vars
  PROVE  CallersInv'
<1> USE TerminalAssumption DEF CallersInv, IsIdle
<1>0. call \in [Callers -> [op : Ops, at : Places]]
  BY DEF PTYTypeInv, PTYTypeOK
<1>1. CASE Ready
  BY <1>0, <1>1 DEF Ready, Begin, WriteOps
<1>2. CASE CloseConn
  BY <1>0, <1>2 DEF CloseConn, NextDeferred, Begin, WriteOps
<1>3. CASE ReaderReads \/ StdinWrites \/ WinchResizes
  BY <1>0, <1>3 DEF ReaderReads, StdinWrites, WinchResizes, Begin, WriteOps, main
<1>4. CASE ConnectPTY
  BY <1>4 DEF ConnectPTY, Connect, api
<1>5. CASE Environment
  <2>1. call' = call
    BY <1>5 DEF Environment, Server, SessionPrints, SessionExits, ServerHears, ServerSends,
                ConnBreaks, api
  <2> QED
    BY <1>5, <2>1 DEF Environment, main
<1>6. CASE \E p \in Callers : Call(p)
  <2> PICK p \in Callers : Call(p)
    BY <1>6
  <2>1. /\ \/ call'[p] = Idle
           \/ call[p].at = "lock" /\ call'[p] = [op |-> call[p].op, at |-> "send"]
        /\ \A q \in Callers \ {p} : call'[q] = call[q]
    BY CallGoesOn DEF Call
  <2>2. mpc' = mpc
    BY DEF Call, main
  <2>3. /\ call'["reader"] \in {Idle, [op |-> "read", at |-> "receive"]}
        /\ call'["stdin"] \in {Idle} \cup [op : {"write"}, at : {"lock", "send"}]
        /\ call'["winch"] \in {Idle} \cup [op : {"resize"}, at : {"lock", "send"}]
    BY <2>1 DEF Idle
  <2>4. \/ call'["main"] = Idle
        \/ mpc = "awaitReady" /\ call'["main"] \in [op : {"ready"}, at : {"lock", "send"}]
        \/ mpc = "closing" /\ call'["main"] = [op |-> "close", at |-> "closing"]
    BY <2>1 DEF Idle
  <2> QED
    BY <2>2, <2>3, <2>4
<1>7. CASE ReaderWrites \/ Interrupt
  BY <1>7 DEF ReaderWrites, Interrupt, api, main
<1>8. CASE /\ UNCHANGED ptyVars
           /\ mpc \in {"awaitReady", "closing"} => IsIdle("main") \/ mpc' = mpc
  BY <1>8 DEF ptyVars, api
<1> QED
  BY <1>1, <1>2, <1>3, <1>4, <1>5, <1>6, <1>7, <1>8, ConnectionSteps

\* The frame at the head of what goes to the server after a write.
LEMMA SentBehind ==
  ASSUME PTYTypeInv, NEW frame \in Seq(Int), up' = Append(up, frame)
  PROVE  up' # <<>> /\ Head(up') = IF up = <<>> THEN frame ELSE Head(up)
<1>1. up \in Seq(Seq(Int))
  BY DEF PTYTypeInv
<1>2. /\ up' # <<>> /\ Len(up') = Len(up) + 1 /\ Len(up) \in Nat
      /\ up'[Len(up) + 1] = frame /\ \A i \in 1 .. Len(up) : up'[i] = up[i]
      /\ up' \in Seq(Seq(Int))
  BY <1>1, AppendProperties, LenProperties
<1>3. Head(up') = up'[1]
  BY <1>2, HeadTailProperties
<1>4. CASE up = <<>>
  BY <1>2, <1>3, <1>4
<1>5. CASE up # <<>>
  <2>1. Head(up) = up[1] /\ 1 \in 1 .. Len(up)
    BY <1>1, <1>5, HeadTailProperties, EmptySeq, LenProperties
  <2> QED
    BY <1>2, <1>3, <1>5, <2>1
<1> QED
  BY <1>4, <1>5

\* Nobody overtakes Ready: run writes alone until it has returned, and a Ready
\* that returned without an error is on its way, or lost with the connection
\* (main.go:162-216).
LEMMA TerminalReady ==
  ASSUME PTYTypeInv, CallersInv, ReadyInv, [Next]_vars
  PROVE  ReadyInv'
<1> USE TerminalAssumption DEF Fresh, IsIdle
<1>1. CASE Ready
  <2>1. /\ mpc' = "awaitReady" /\ call'["main"] # Idle
        /\ \A p \in Callers \ {"main"} : call'[p] = call[p]
    BY <1>1 DEF Ready, Begin, WriteOps, PTYTypeInv, PTYTypeOK, Idle
  <2> QED
    BY <1>1, <2>1 DEF Ready, Begin, network, session, goroutines, ReadyInv, ReadyIsFirst
<1>2. CASE CloseConn
  <2>1. mpc' = "closing" /\ \A p \in Callers \ {"main"} : call'[p] = call[p]
    BY <1>2 DEF CloseConn, Begin, PTYTypeInv, PTYTypeOK
  <2> QED
    BY <1>2, <2>1 DEF CloseConn, Begin, network, session, goroutines, ReadyInv, ReadyIsFirst
<1>3. CASE ReaderReads \/ StdinWrites \/ WinchResizes \/ ReaderWrites
  <2>1. ~Fresh
    BY <1>3 DEF ReaderReads, StdinWrites, WinchResizes, ReaderWrites, Runs, ReadyInv
  <2>2. UNCHANGED <<first, up, conn>>
    BY <1>3 DEF ReaderReads, StdinWrites, WinchResizes, ReaderWrites, Begin, network, session
  <2> QED
    BY <2>1, <2>2 DEF ReadyInv, ReadyIsFirst
<1>4. CASE ConnectPTY
  BY <1>4 DEF ConnectPTY, Connect, api, network, session, goroutines, ReadyInv, ReadyIsFirst
<1>5. CASE Interrupt
  BY <1>5 DEF Interrupt, api, network, session, main, goroutines, ReadyInv, ReadyIsFirst
<1>6. CASE Environment
  <2>1. UNCHANGED <<call, reply, mpc, gos>>
    BY <1>6 DEF Environment, Server, SessionPrints, SessionExits, ServerHears, ServerSends,
                ConnBreaks, api, main, goroutines
  <2>2. CASE UNCHANGED <<first, up, conn>>
    BY <2>1, <2>2 DEF ReadyInv, ReadyIsFirst
  <2>3. CASE ServerHears
    BY <2>1, <2>3 DEF ServerHears, ReadyInv, ReadyIsFirst
  <2>4. CASE ConnBreaks
    BY <2>1, <2>4 DEF ConnBreaks, session, ReadyInv, ReadyIsFirst
  <2> QED
    BY <1>6, <2>2, <2>3, <2>4
    DEF Environment, Server, SessionPrints, SessionExits, ServerSends, network
<1>7. CASE \E p \in Callers : Call(p)
  <2> PICK p \in Callers : Call(p)
    BY <1>7
  <2>1. /\ \/ call'[p] = Idle
           \/ call[p].at = "lock" /\ call'[p] = [op |-> call[p].op, at |-> "send"] /\ reply' = reply
        /\ call[p] # Idle
        /\ \A q \in Callers \ {p} : call'[q] = call[q] /\ reply'[q] = reply[q]
    BY CallGoesOn DEF Call
  <2>2. UNCHANGED <<mpc, gos, first>>
    BY DEF Call, CallStep, Lock, Send, SendFails, Receive, ReceiveClose, ReceiveFails, Close,
           main, goroutines, session, network
  <2>3. CASE Send(p)
    <3>1. /\ FrameOf(call[p].op) \in Seq(Int) /\ up' = Append(up, FrameOf(call[p].op))
          /\ call[p].op = "ready" => Heard(FrameOf(call[p].op)) = "ready"
      BY <2>3, FramesOfOps DEF Send, PTYTypeInv
    <3>2. up' # <<>> /\ Head(up') = IF up = <<>> THEN FrameOf(call[p].op) ELSE Head(up)
      BY <3>1, SentBehind
    <3>3. Fresh => p = "main"
      BY <2>1 DEF ReadyInv
    <3>4. p = "main" => call[p].op = "ready"
      BY <2>3 DEF CallersInv, Send, Idle
    <3>5. conn # "closed"
      BY <2>3 DEF Send
    <3>6. first = "none" => Heard(Head(up')) = "ready"
      BY <3>1, <3>2, <3>3, <3>4, <3>5 DEF ReadyInv
    <3> QED
      BY <2>2, <3>2, <3>6 DEF ReadyInv, ReadyIsFirst
  <2>4. CASE ~Send(p)
    <3>1. up' = up /\ (conn' # "closed" => conn # "closed")
      BY <2>4 DEF Call, CallStep, Lock, SendFails, Receive, ReceiveClose, ReceiveFails, Close,
                  Fails, network
    <3>2. ASSUME Fresh'
          PROVE  /\ gos' = {} /\ mpc' \notin {"raw", "select"}
                 /\ \A q \in Callers \ {"main"} : call'[q] = Idle
                 /\ mpc' = "awaitReady" /\ call'["main"] = Idle => reply'["main"] # "ok"
      <4>1. Fresh
        BY <2>2, <3>1, <3>2
      <4>2. p = "main"
        BY <2>1, <4>1 DEF ReadyInv
      <4>3. CASE mpc = "awaitReady" /\ call'["main"] = Idle
        <5>1. call["main"].at \in {"lock", "send"}
          BY <2>1, <4>2, <4>3 DEF CallersInv
        <5>2. SendFails("main")
          BY <2>4, <4>2, <4>3, <5>1
          DEF Call, CallStep, Lock, Receive, ReceiveClose, ReceiveFails, Close, Idle,
              PTYTypeInv, PTYTypeOK
        <5>3. reply'["main"] = "error"
          BY <5>2 DEF SendFails, Return, PTYTypeInv, PTYTypeOK
        <5> QED
          BY <2>1, <2>2, <4>1, <4>2, <5>3 DEF ReadyInv
      <4> QED
        BY <2>1, <2>2, <4>1, <4>2, <4>3 DEF ReadyInv
    <3> QED
      BY <2>2, <3>1, <3>2 DEF ReadyInv, ReadyIsFirst
  <2> QED
    BY <2>3, <2>4
<1>8. CASE /\ UNCHANGED <<ptyVars, stdout>>
           /\ gos' \subseteq gos \/ mpc = "raw"
           /\ mpc' = "raw" =>
                mpc = "raw" \/ (mpc = "awaitReady" /\ IsIdle("main") /\ reply["main"] = "ok")
           /\ mpc' = "select" => mpc \in {"raw", "select"}
           /\ mpc' = "awaitReady" => mpc = "awaitReady"
  BY <1>8 DEF ptyVars, api, network, session, ReadyInv, ReadyIsFirst
<1> QED
  BY <1>1, <1>2, <1>3, <1>4, <1>5, <1>6, <1>7, <1>8, ConnectionSteps

\* A step that moves no output; the connection may open or close.
LEMMA OutputQuiet ==
  ASSUME OutputInv, UNCHANGED <<stdout, got, down, printed, sent, ended>>,
         reply'["reader"] = reply["reader"], conn # "closed" \/ conn' = "closed",
         call'["reader"] = call["reader"] \/ reply["reader"] = "none"
  PROVE  OutputInv'
<1>1. Unwritten' = Unwritten
  BY DEF Unwritten
<1> QED
  BY <1>1 DEF OutputInv, IsIdle, IsData, Kind, Content

\* The reader writes what it was given.
LEMMA WrittenOut ==
  ASSUME PTYTypeInv, StreamInv, OutputInv, ReaderWrites
  PROVE  OutputInv'
<1> DEFINE x == got[Len(got)][2]
<1>1. /\ reply["reader"] = "data" /\ stdout' = Append(stdout, x) /\ IsIdle("reader")
      /\ UNCHANGED <<conn, call, got, down, printed, sent, ended>>
  BY DEF ReaderWrites, Runs, network, session
<1>2. reply'["reader"] = "none"
  BY TerminalAssumption DEF ReaderWrites, Forget, PTYTypeInv, PTYTypeOK
<1>3. Len(got) = Len(stdout) + 1 /\ x = Len(got)
  BY <1>1 DEF OutputInv, Unwritten
<1>4. stdout \in Seq(Int) /\ Len(got) \in Nat
  BY LenProperties DEF OutputInv, StreamInv, StreamTypeOK
<1> HIDE DEF x
<1>5. /\ stdout' \in Seq(Int) /\ Len(stdout') = Len(stdout) + 1 /\ Len(stdout) \in Nat
      /\ stdout'[Len(stdout) + 1] = x
      /\ \A i \in 1 .. Len(stdout) : stdout'[i] = stdout[i]
  BY <1>1, <1>3, <1>4, AppendProperties, LenProperties
<1>6. \A i \in 1 .. Len(stdout') : stdout'[i] = i
  <2> TAKE i \in 1 .. Len(stdout')
  <2>1. CASE i \in 1 .. Len(stdout)
    BY <1>5, <2>1 DEF OutputInv
  <2>2. CASE i = Len(stdout) + 1
    BY <1>3, <1>5, <2>2
  <2> QED
    BY <1>5, <2>1, <2>2
<1>7. Unwritten' = 0
  BY <1>2 DEF Unwritten
<1>8. Len(got') = Len(stdout') + Unwritten'
  BY <1>1, <1>3, <1>4, <1>5, <1>7
<1>9. conn' # "closed" =>
       /\ Len(got') + Len(down') = IF ended' = "over" THEN sent' + 1 ELSE sent'
       /\ \A i \in 1 .. Len(down') : IsData(down'[i]) => Content(down'[i]) = Len(got') + i
  BY <1>1 DEF OutputInv
<1> QED
  BY <1>1, <1>2, <1>5, <1>6, <1>8, <1>9 DEF OutputInv, IsIdle, IsData, Kind, Content

\* The session and the network keep the count of what is on its way.
LEMMA ServerOutput ==
  ASSUME StreamInv, OutputInv, Server, UNCHANGED stdout
  PROVE  OutputInv'
<1> USE DEF api, network, session
<1>0. /\ Len(down) \in Nat /\ Len(got) \in Nat /\ sent \in Nat /\ down \in Seq(Seq(Int))
  BY LenProperties DEF StreamInv, StreamTypeOK
<1>1. CASE SessionPrints
  <2>1. /\ ended = "no" /\ ended' # "over"
        /\ UNCHANGED <<conn, call, reply, got, down, sent>>
    BY <1>1 DEF SessionPrints
  <2> QED
    BY <2>1 DEF OutputInv, Unwritten, IsIdle, IsData, Kind, Content
<1>2. CASE SessionExits
  <2>1. /\ ended = "no" /\ ended' # "over"
        /\ UNCHANGED <<conn, call, reply, got, down, sent>>
    BY <1>2 DEF SessionExits
  <2> QED
    BY <2>1 DEF OutputInv, Unwritten, IsIdle, IsData, Kind, Content
<1>3. CASE ServerHears
  BY <1>3, OutputQuiet DEF ServerHears
<1>4. CASE ServerSends
  <2>1. /\ ended # "over" /\ UNCHANGED <<conn, call, reply, got, printed>>
    BY <1>4 DEF ServerSends
  <2>2. reply["reader"] # "exit" /\ Unwritten' = Unwritten
    BY <2>1 DEF OutputInv, Unwritten
  <2>3. \E frame \in Seq(Int) :
          /\ down' = Append(down, frame)
          /\ IsData(frame) => sent' = sent + 1 /\ Content(frame) = sent'
          /\ \/ sent' = sent + 1 /\ ended' = ended
             \/ sent' = sent /\ ended' = "over"
    <3>1. CASE /\ sent' = sent + 1 /\ ended' = ended
               /\ \E frame \in OutputFrames(sent') : down' = Append(down, frame)
      <4>1. PICK frame \in OutputFrames(sent') : down' = Append(down, frame)
        BY <3>1
      <4>2. sent' \in Nat
        BY <1>0, <3>1
      <4>3. frame \in Seq(Int) /\ (IsData(frame) => Content(frame) = sent')
        BY <4>1, <4>2, OutputRoundTrip DEF OutputFrames, IsData
      <4> QED
        BY <3>1, <4>1, <4>3
    <3>2. CASE /\ sent' = sent /\ ended' = "over"
               /\ \E frame \in ExitFrames : down' = Append(down, frame)
      <4>1. PICK n \in ExitLengths : down' = Append(down, SubSeq(ExitFrame(exitCode), 1, n))
        BY <3>2 DEF ExitFrames
      <4>2. n \in 1 .. 5 /\ exitCode \in Int32s
        BY PTYAssumption DEF StreamInv, StreamTypeOK
      <4>3. /\ SubSeq(ExitFrame(exitCode), 1, n) \in Seq(Int)
            /\ ~IsData(SubSeq(ExitFrame(exitCode), 1, n))
        BY <4>2, ExitRoundTrip DEF IsData
      <4> QED
        BY <3>2, <4>1, <4>3
    <3> QED
      BY <1>4, <3>1, <3>2 DEF ServerSends
  <2>4. PICK frame \in Seq(Int) :
          /\ down' = Append(down, frame)
          /\ IsData(frame) => sent' = sent + 1 /\ Content(frame) = sent'
          /\ \/ sent' = sent + 1 /\ ended' = ended
             \/ sent' = sent /\ ended' = "over"
    BY <2>3
  <2>5. /\ down' \in Seq(Seq(Int)) /\ Len(down') = Len(down) + 1 /\ Len(down) \in Nat
        /\ down'[Len(down) + 1] = frame
        /\ \A i \in 1 .. Len(down) : down'[i] = down[i]
    BY <2>4, AppendDown
  <2>6. ASSUME reply["reader"] \in {"none", "data"}, conn # "closed"
        PROVE  /\ Len(got) + Len(down') = IF ended' = "over" THEN sent' + 1 ELSE sent'
               /\ \A i \in 1 .. Len(down') : IsData(down'[i]) => Content(down'[i]) = Len(got) + i
    <3>1. /\ Len(got) + Len(down) = sent
          /\ \A i \in 1 .. Len(down) : IsData(down[i]) => Content(down[i]) = Len(got) + i
      BY <2>1, <2>6 DEF OutputInv
    <3>2. Len(got) + Len(down') = sent + 1
      <4>1. Len(down') = Len(down) + 1
        BY <2>5
      <4> QED
        BY <1>0, <3>1, <4>1
    <3>3. \A i \in 1 .. Len(down') : IsData(down'[i]) => Content(down'[i]) = Len(got) + i
      <4> TAKE i \in 1 .. Len(down')
      <4>1. CASE i \in 1 .. Len(down)
        BY <2>5, <3>1, <4>1
      <4>2. CASE i = Len(down) + 1
        <5>1. down'[i] = frame /\ Len(got) + i = sent + 1
          BY <1>0, <2>5, <3>1, <4>2
        <5> QED
          BY <2>4, <5>1
      <4> QED
        BY <2>5, <4>1, <4>2
    <3>4. Len(got) + Len(down') = IF ended' = "over" THEN sent' + 1 ELSE sent'
      BY <1>0, <2>1, <2>4, <3>2
    <3> QED
      BY <3>3, <3>4
  <2> QED
    BY <2>1, <2>2, <2>6 DEF OutputInv, IsIdle, IsData, Kind, Content
<1>5. CASE ConnBreaks
  <2>1. conn' = "closed" /\ UNCHANGED <<call, reply, got, printed, sent, ended>>
    BY <1>5 DEF ConnBreaks
  <2> QED
    BY <2>1 DEF OutputInv, Unwritten, IsIdle
<1> QED
  BY <1>1, <1>2, <1>3, <1>4, <1>5 DEF Server

\* Read gives the reader the next piece of output, or the exit when it was the
\* last one.
LEMMA ReceiveOutput ==
  ASSUME PTYTypeInv, CallersInv, StreamInv, OutputInv, Receive("reader"), UNCHANGED stdout
  PROVE  OutputInv'
<1> DEFINE frame == down[1]
<1>1. /\ down # <<>> /\ down' = Tail(down) /\ conn = "open" /\ call["reader"] # Idle
      /\ UNCHANGED <<conn, printed, sent, ended, exitCode>>
  BY DEF Receive, session, Idle
<1>2. /\ down' \in Seq(Seq(Int)) /\ Len(down') \in Nat /\ Len(down) = Len(down') + 1
      /\ \A i \in 1 .. Len(down') : down'[i] = down[i + 1] /\ i + 1 \in 1 .. Len(down)
      /\ Head(down) = frame /\ 1 \in 1 .. Len(down)
  BY <1>1, TailDown
<1>3. /\ reply["reader"] = "none" /\ Len(got) = Len(stdout)
      /\ Len(stdout) \in Nat /\ Len(got) \in Nat /\ sent \in Nat /\ printed \in Nat
      /\ Len(got) + Len(down) = IF ended = "over" THEN sent + 1 ELSE sent
      /\ \A i \in 1 .. Len(down) : IsData(down[i]) => Content(down[i]) = Len(got) + i
  BY <1>1, LenProperties DEF OutputInv, Unwritten, IsIdle, StreamInv, StreamTypeOK
<1>4. reply'["reader"] = Kind(frame) /\ call'["reader"] = Idle
  BY <1>2, TerminalAssumption DEF Receive, Return, PTYTypeInv, PTYTypeOK
<1>5. Kind(frame) \in {"data", "exit", "error"}
  BY DEF Kind
<1> HIDE DEF frame
<1>6. CASE Kind(frame) = "error"
  <2>1. got' = got /\ Unwritten' = 0
    BY <1>2, <1>4, <1>6 DEF Receive, Unwritten
  <2> QED
    BY <1>1, <1>3, <1>4, <1>6, <2>1 DEF OutputInv, IsIdle
<1>7. CASE Kind(frame) # "error"
  <2> DEFINE m == <<Kind(frame), Content(frame)>>
  <2>1. got' = Append(got, m) /\ Unwritten' = 1
    BY <1>2, <1>4, <1>5, <1>7 DEF Receive, Unwritten
  <2>2. m \in {"data", "exit"} \X Int
    BY <1>2, <1>5, <1>7
    DEF frame, StreamInv, StreamTypeOK, DownInOrder, DownIsOutput, DownExit, IsData, Int32s
  <2>3. m[2] = Content(frame)
    OBVIOUS
  <2> HIDE DEF m
  <2>4. Len(got') = Len(got) + 1 /\ got'[Len(got) + 1] = m
    BY <2>1, <2>2, AppendProperties, LenProperties DEF StreamInv, StreamTypeOK
  <2>5. Len(got') = Len(stdout) + 1
    BY <1>3, <2>4
  <2>6. CASE Kind(frame) = "data"
    <3>1. Content(frame) = Len(got) + 1
      BY <1>2, <1>3, <2>6 DEF frame, IsData
    <3>2. got'[Len(got')][2] = Len(got')
      BY <2>3, <2>4, <3>1
    <3>3. Len(got') + Len(down') = IF ended = "over" THEN sent + 1 ELSE sent
      BY <1>2, <1>3, <2>4
    <3>4. \A i \in 1 .. Len(down') : IsData(down'[i]) => Content(down'[i]) = Len(got') + i
      <4> TAKE i \in 1 .. Len(down')
      <4>1. down'[i] = down[i + 1] /\ i + 1 \in 1 .. Len(down)
        BY <1>2
      <4>2. Len(got') + i = Len(got) + (i + 1)
        BY <1>3, <2>4
      <4> QED
        BY <1>3, <4>1, <4>2
    <3> QED
      BY <1>1, <1>4, <2>1, <2>5, <2>6, <3>2, <3>3, <3>4
      DEF OutputInv, IsIdle, IsData, Kind, Content
  <2>7. CASE Kind(frame) = "exit"
    <3>1. ended = "over" /\ Len(down) = 1
      BY <1>2, <2>7 DEF frame, StreamInv, DownInOrder, DownExit
    <3>2. Len(stdout) = printed
      BY <1>3, <3>1 DEF StreamInv
    <3> QED
      BY <1>1, <1>4, <2>1, <2>5, <2>7, <3>1, <3>2 DEF OutputInv, IsIdle
  <2> QED
    BY <1>5, <1>7, <2>6, <2>7
<1> QED
  BY <1>6, <1>7

\* What the reader has written is the beginning of the output, and it is told of
\* the exit only when nothing of it is missing (main.go:186-201).
LEMMA TerminalOutput ==
  ASSUME PTYTypeInv, CallersInv, StreamInv, OutputInv, [Next]_vars
  PROVE  OutputInv'
<1> USE TerminalAssumption DEF network, session, goroutines
<1>0. call \in [Callers -> [op : Ops, at : Places]]
  BY DEF PTYTypeInv, PTYTypeOK
<1>1. CASE Ready \/ CloseConn \/ StdinWrites \/ WinchResizes
  <2>0. reply \in [Callers -> {"none", "ok", "error", "data", "exit"}]
    BY DEF PTYTypeInv, PTYTypeOK
  <2>1. call'["reader"] = call["reader"] /\ reply'["reader"] = reply["reader"]
    BY <1>0, <1>1, <2>0 DEF Ready, CloseConn, StdinWrites, WinchResizes, Begin
  <2> QED
    BY <1>1, <2>1, OutputQuiet DEF Ready, CloseConn, StdinWrites, WinchResizes, Begin
<1>2. CASE ReaderReads
  BY <1>2, OutputQuiet DEF ReaderReads, Begin
<1>3. CASE ConnectPTY
  BY <1>3, OutputQuiet DEF ConnectPTY, Connect, api
<1>4. CASE Interrupt
  BY <1>4, OutputQuiet DEF Interrupt, api
<1>5. CASE ReaderWrites
  BY <1>5, WrittenOut
<1>6. CASE Environment
  BY <1>6, ServerOutput DEF Environment
<1>7. CASE \E p \in Callers : Call(p)
  <2> PICK p \in Callers : Call(p)
    BY <1>7
  <2>0. CallStep(p) /\ UNCHANGED stdout
    BY DEF Call
  <2>1. CASE p = "reader" /\ Receive(p)
    BY <2>0, <2>1, ReceiveOutput
  <2>2. CASE p = "reader" /\ ~Receive(p)
    <3>1. call["reader"] = [op |-> "read", at |-> "receive"]
      BY <2>0, <2>2, CallGoesOn DEF CallersInv, IsIdle
    <3>2. /\ reply'["reader"] = "error" /\ call'["reader"] = Idle
          /\ UNCHANGED <<got, down, printed, sent, ended>>
      BY <2>0, <2>2, <3>1
      DEF CallStep, Lock, Send, SendFails, ReceiveClose, ReceiveFails, Close, Return,
          PTYTypeInv, PTYTypeOK
    <3>3. reply["reader"] = "none" /\ Unwritten' = Unwritten
      BY <3>1, <3>2 DEF OutputInv, Unwritten, IsIdle, Idle
    <3> QED
      BY <2>0, <3>2, <3>3 DEF OutputInv, IsIdle
  <2>3. CASE p # "reader"
    <3>1. call'["reader"] = call["reader"] /\ reply'["reader"] = reply["reader"]
      BY <2>0, <2>3, CallGoesOn
    <3>2. ~Receive(p)
      BY <2>3 DEF Receive, CallersInv, Idle
    <3>3. UNCHANGED <<got, down, printed, sent, ended>> /\ (conn # "closed" \/ conn' = "closed")
      BY <2>0, <3>2
      DEF CallStep, Lock, Send, SendFails, ReceiveClose, ReceiveFails, Close, Fails
    <3> QED
      BY <2>0, <3>1, <3>3, OutputQuiet
  <2> QED
    BY <2>1, <2>2, <2>3
<1>8. CASE UNCHANGED <<ptyVars, stdout>>
  BY <1>8, OutputQuiet DEF ptyVars, api
<1> QED
  BY <1>1, <1>2, <1>3, <1>4, <1>5, <1>6, <1>7, <1>8, ConnectionSteps

\* What TypeOK says beyond the connection.
TerminalTypeInv ==
  /\ SessionsInv
  /\ round \in 0 .. CASE mpc = "poll"      -> MaxPolls - 1
                      [] mpc = "createPTY" -> MaxTries - 1
                      [] OTHER             -> 0
  /\ sbID \in BOOLEAN /\ ptyResp \in 0 .. Len(sessions) /\ raw \in BOOLEAN
  /\ gos \subseteq Callers \ {"main"}
  /\ typed \in 0 .. MaxInput /\ sized \in 0 .. MaxInput
  /\ sandbox \in Statuses \cup {"none"}
  /\ Len(sessions) <= MaxTries

\* One more session.
LEMMA SessionAdded ==
  ASSUME sessions \in Seq({"alive", "killed"}), sessions' = Append(sessions, "alive")
  PROVE  /\ sessions' \in Seq({"alive", "killed"}) /\ Len(sessions) \in Nat
         /\ Len(sessions') = Len(sessions) + 1
  BY AppendProperties, LenProperties

\* run creates no more sessions than it has tries (main.go:101-158).
LEMMA RunType ==
  ASSUME TerminalTypeInv, Run
  PROVE  TerminalTypeInv'
<1> USE TerminalAssumption DEF TerminalTypeInv, SessionsInv, Leave, main, goroutines, service
<1>0. Len(sessions) \in Nat
  BY LenProperties
<1>1. CASE Reuse
  BY <1>1 DEF Reuse
<1>2. CASE CreateSandbox
  <2>1. /\ mpc = "create" /\ mpc' \in {"poll", "return"} /\ sbID' \in BOOLEAN
        /\ sandbox' \in Statuses \cup {"none"}
        /\ UNCHANGED <<round, ptyResp, raw, gos, typed, sized, sessions>>
    BY <1>2 DEF CreateSandbox, Statuses
  <2> QED
    BY <2>1
<1>3. CASE PollFails
  BY <1>3 DEF PollFails
<1>4. CASE Poll
  BY <1>0, <1>4 DEF Poll
<1>5. CASE CreatePTY
  <2>1. /\ sessions' \in Seq({"alive", "killed"}) /\ Len(sessions') = Len(sessions) + 1
        /\ mpc = "createPTY" /\ mpc' = "connect" /\ ptyResp' = Len(sessions') /\ round' = 0
        /\ UNCHANGED <<sbID, raw, gos, typed, sized, sandbox>>
    BY <1>5, SessionAdded DEF CreatePTY
  <2> QED
    BY <1>0, <2>1
<1>6. CASE CreatePTYFails
  <2>1. /\ mpc = "createPTY" /\ mpc' = IF round + 1 = MaxTries THEN "return" ELSE "createPTY"
        /\ round' = IF mpc' = "createPTY" THEN round + 1 ELSE 0
        /\ UNCHANGED <<sbID, ptyResp, raw, gos, typed, sized, sandbox>>
    BY <1>6 DEF CreatePTYFails
  <2>2. /\ sessions' \in Seq({"alive", "killed"}) /\ Len(sessions') \in Nat
        /\ Len(sessions) <= Len(sessions') /\ Len(sessions') <= Len(sessions) + 1
    BY <1>0, <1>6, SessionAdded DEF CreatePTYFails
  <2>3. round \in 0 .. MaxTries - 1 /\ Len(sessions) <= round
    BY <2>1
  <2>4. Len(sessions') <= MaxTries /\ (mpc' = "createPTY" => Len(sessions') <= round')
    BY <1>0, <2>1, <2>2, <2>3
  <2>5. ptyResp' \in 0 .. Len(sessions')
    BY <1>0, <2>1, <2>2
  <2>6. CASE round + 1 = MaxTries
    BY <2>1, <2>2, <2>4, <2>5, <2>6
  <2>7. CASE round + 1 # MaxTries
    <3>1. round' \in 0 .. MaxTries - 1 /\ mpc' = "createPTY"
      BY <2>1, <2>3, <2>7
    <3> QED
      BY <2>1, <2>2, <2>4, <2>5, <3>1
  <2> QED
    BY <2>6, <2>7
<1>7. CASE ConnectPTY
  BY <1>7 DEF ConnectPTY
<1>8. CASE ConnectFails
  BY <1>8 DEF ConnectFails
<1>9. CASE Ready
  BY <1>9 DEF Ready
<1>10. CASE ReadySent
  BY <1>10 DEF ReadySent
<1>11. CASE MakeRaw
  BY <1>11 DEF MakeRaw
<1>12. CASE Select
  BY <1>12 DEF Select
<1>13. CASE Restore
  BY <1>13 DEF Restore, NextDeferred
<1>14. CASE CloseConn
  BY <1>14 DEF CloseConn, NextDeferred
<1>15. CASE ConnClosed
  BY <1>15 DEF ConnClosed
<1>16. CASE KillPTY
  <2>1. /\ sessions' \in Seq({"alive", "killed"}) /\ Len(sessions') = Len(sessions)
        /\ mpc' = mpc /\ UNCHANGED <<round, ptyResp, sbID, raw, gos, typed, sized, sandbox>>
    BY <1>16 DEF KillPTY
  <2> QED
    BY <2>1
<1>17. CASE DeleteSandbox
  BY <1>17 DEF DeleteSandbox, Statuses
<1>18. CASE Exit
  BY <1>18 DEF Exit
<1> QED
  BY <1>1, <1>2, <1>3, <1>4, <1>5, <1>6, <1>7, <1>8, <1>9, <1>10, <1>11, <1>12, <1>13,
     <1>14, <1>15, <1>16, <1>17, <1>18 DEF Run

LEMMA TerminalType ==
  ASSUME TerminalTypeInv, [Next]_vars
  PROVE  TerminalTypeInv'
<1> USE TerminalAssumption DEF TerminalTypeInv, SessionsInv, main, goroutines, service
<1>1. CASE Run
  BY <1>1, RunType
<1>2. CASE Reader
  BY <1>2 DEF Reader, ReaderReads, ReaderWrites, ReaderEnds
<1>3. CASE User
  BY <1>3 DEF User, Interrupt, StdinWrites, StdinEnds, WinchResizes
<1>4. CASE SandboxChanges
  BY <1>4 DEF SandboxChanges, Statuses
<1>5. CASE Environment \/ \E p \in Callers : Call(p)
  BY <1>5 DEF Environment, Call
<1>6. CASE UNCHANGED vars
  BY <1>6 DEF vars
<1> QED
  BY <1>1, <1>2, <1>3, <1>4, <1>5, <1>6 DEF Next

\* All of it in every state.
TerminalInv == PTYTypeInv /\ CallersInv /\ ReadyInv /\ StreamInv /\ OutputInv /\ TerminalTypeInv

LEMMA TerminalInvariance == Spec => []TerminalInv
<1>1. Init => TerminalInv
  <2> SUFFICES ASSUME Init PROVE TerminalInv
    OBVIOUS
  <2> USE TerminalAssumption DEF Init
  <2>1. PTYTypeInv /\ StreamInv
    BY PTYInitType, PTYInitStream
  <2>2. CallersInv /\ ReadyInv
    BY DEF PTYInit, CallersInv, ReadyInv, ReadyIsFirst, IsIdle
  <2>3. OutputInv
    <3>1. /\ stdout \in Seq(Int) /\ Len(stdout) = 0 /\ Len(got) = 0 /\ Len(down) = 0
          /\ sent = 0 /\ ended = "no" /\ reply["reader"] = "none" /\ call["reader"] = Idle
      BY EmptySeq DEF PTYInit
    <3> QED
      BY <3>1 DEF OutputInv, Unwritten, IsIdle
  <2>4. TerminalTypeInv
    <3>1. sessions \in Seq({"alive", "killed"}) /\ Len(sessions) = 0
      BY EmptySeq
    <3> QED
      <4>1. ptyResp \in 0 .. Len(sessions) /\ Len(sessions) <= MaxTries
        BY <3>1
      <4>2. sandbox \in Statuses \cup {"none"}
        BY DEF Statuses
      <4>3. typed \in 0 .. MaxInput /\ sized \in 0 .. MaxInput /\ round = 0
        OBVIOUS
      <4> QED
        BY <3>1, <4>1, <4>2, <4>3 DEF TerminalTypeInv, SessionsInv
  <2> QED
    BY <2>1, <2>2, <2>3, <2>4 DEF TerminalInv
<1>2. TerminalInv /\ [Next]_vars => TerminalInv'
  BY TerminalPTYType, TerminalCallers, TerminalReady, TerminalStream, TerminalOutput, TerminalType
  DEF TerminalInv
<1> QED
  BY <1>1, <1>2, PTL DEF Spec

\* Every variable keeps its type, and polls, tries and sessions their bounds,
\* whatever these are (main.go:101-158).
THEOREM TypeCorrect == Spec => []TypeOK
<1>1. TerminalInv /\ DeferInv => TypeOK
  BY DEF TerminalInv, PTYTypeInv, TerminalTypeInv, DeferInv, TypeOK
<1> QED
  BY <1>1, TerminalInvariance, Invariance, PTL

\* The server hears Ready before any input or resize, wherever a signal or a
\* lost connection comes between (main.go:162-216).
THEOREM ReadyFirst == Spec => []ReadyIsFirst
<1>1. TerminalInv => ReadyIsFirst
  BY DEF TerminalInv, ReadyInv
<1> QED
  BY <1>1, TerminalInvariance, PTL

\* A reader that has the exit message has written all the output, in order, for
\* any amount of it and any frames Read does not know (main.go:186-201).
THEOREM OutputComplete == Spec => []OutputIsComplete
<1>1. TerminalInv => OutputIsComplete
  <2> SUFFICES ASSUME TerminalInv, reply["reader"] = "exit"
               PROVE  stdout = [n \in 1 .. printed |-> n]
    BY DEF OutputIsComplete
  <2>1. /\ stdout \in Seq(Int) /\ Len(stdout) = printed
        /\ \A i \in 1 .. Len(stdout) : stdout[i] = i
    BY DEF TerminalInv, OutputInv
  <2>2. stdout = [n \in 1 .. Len(stdout) |-> stdout[n]]
    BY <2>1
  <2> QED
    BY <2>1, <2>2
<1> QED
  BY <1>1, TerminalInvariance, PTL

\* The exit code the terminal reads is the process's (sandbox_pty_websocket.go:182-187).
THEOREM ExitCodeArrives == Spec => []ExitCodeIsTheProcess
<1>1. TerminalInv => ExitCodeIsTheProcess
  BY DEF TerminalInv, StreamInv
<1> QED
  BY <1>1, TerminalInvariance, PTL

-----------------------------------------------------------------------------
(* run ends: how many steps it has left, and that a signal finds it able to *)
(* take the next one.                                                       *)

\* The places of run before it starts its goroutines.
Early == {"create", "poll", "createPTY", "connect", "ready", "awaitReady", "raw"}
StartInv ==
  /\ mpc \in Early => gos = {} /\ \A p \in Callers \ {"main"} : IsIdle(p)
  /\ mpc = "ready" => conn # "none"
  /\ "close" \in Pending => conn # "none"

\* Who has a connection keeps it, if only closed.
LEMMA ConnStays ==
  ASSUME PTYTypeInv, [Next]_vars, conn # "none"
  PROVE  conn' # "none"
<1>1. CASE Ready \/ CloseConn \/ ReaderReads \/ StdinWrites \/ WinchResizes
  BY <1>1 DEF Ready, CloseConn, ReaderReads, StdinWrites, WinchResizes, Begin
<1>2. CASE ConnectPTY \/ Environment
  BY <1>2 DEF ConnectPTY, Connect, Environment, Server, SessionPrints, SessionExits,
     ServerHears, ServerSends, ConnBreaks
<1>3. CASE \E p \in Callers : Call(p)
  BY <1>3 DEF Call, CallStep, Lock, Send, SendFails, Receive, ReceiveClose, ReceiveFails,
     Close, Fails
<1>4. CASE ReaderWrites \/ Interrupt \/ UNCHANGED ptyVars
  BY <1>4 DEF ReaderWrites, Interrupt, ptyVars
<1> QED
  BY <1>1, <1>2, <1>3, <1>4, ConnectionSteps

\* What a step may defer.
LEMMA Deferring ==
  ASSUME DeferInv, [Next]_vars
  PROVE  /\ Pending' \subseteq Pending \/ ConnectPTY
            \/ Pending' \subseteq Pending \cup {"delete", "kill", "restore"}
         /\ mpc' \in Early => mpc \in Early
         /\ mpc' = "ready" => mpc = "ready" \/ ConnectPTY
<1> USE DEF Early, Leave, main
<1>1. CASE CreateSandbox \/ CreatePTY \/ MakeRaw
  <2>1. defers' = defers \/ \E d \in {"delete", "kill", "restore"} : defers' = Append(defers, d)
    BY <1>1 DEF CreateSandbox, CreatePTY, MakeRaw
  <2>2. ASSUME NEW d \in {"delete", "kill", "restore"}, defers' = Append(defers, d)
        PROVE  Pending' \subseteq Pending \cup {d}
    <3>1. defers \in Seq(Deferrable) /\ d \in Deferrable /\ Len(defers) \in Nat
      BY LenProperties DEF DeferInv, Deferrable
    <3>2. /\ Len(defers') = Len(defers) + 1 /\ defers'[Len(defers) + 1] = d
          /\ \A i \in 1 .. Len(defers) : defers'[i] = defers[i]
      BY <2>2, <3>1, AppendProperties
    <3> QED
      BY <3>1, <3>2 DEF Pending
  <2>3. Pending' \subseteq Pending \cup {"delete", "kill", "restore"}
    BY <2>1, <2>2 DEF Pending
  <2> QED
    BY <1>1, <2>3 DEF CreateSandbox, CreatePTY, MakeRaw
<1>2. CASE Restore \/ CloseConn \/ KillPTY \/ DeleteSandbox
  <2>1. \E d : NextDeferred(d)
    BY <1>2 DEF Restore, CloseConn, KillPTY, DeleteSandbox
  <2>2. Pending' \subseteq Pending
    BY <2>1, Pop
  <2> QED
    BY <1>2, <2>2 DEF Restore, CloseConn, KillPTY, DeleteSandbox, NextDeferred
<1>3. CASE \/ Reuse \/ PollFails \/ Poll \/ CreatePTYFails \/ ConnectFails \/ Ready
           \/ ReadySent \/ Select \/ ConnClosed \/ Exit
  BY <1>3 DEF Reuse, PollFails, Poll, CreatePTYFails, ConnectFails, Ready, ReadySent, Select,
     ConnClosed, Exit, Pending
<1>4. CASE ConnectPTY
  BY <1>4 DEF ConnectPTY
<1>5. CASE \/ Reader \/ User \/ SandboxChanges \/ Environment
           \/ (\E p \in Callers : Call(p)) \/ UNCHANGED vars
  BY <1>5 DEF Reader, ReaderReads, ReaderWrites, ReaderEnds, User, Interrupt, StdinWrites,
     StdinEnds, WinchResizes, SandboxChanges, Environment, Call, vars, Pending
<1> QED
  BY <1>1, <1>2, <1>3, <1>4, <1>5 DEF Next, Run

\* No goroutine runs, and none is in a call, before run has the terminal.
LEMMA StartNext ==
  ASSUME PTYTypeInv, DeferInv, StartInv, [Next]_vars
  PROVE  StartInv'
<1>1. ("close" \in Pending)' => conn' # "none"
  <2>1. ConnectPTY => conn' = "open"
    BY DEF ConnectPTY, Connect
  <2> QED
    BY <2>1, Deferring, ConnStays DEF StartInv
<1>2. mpc' = "ready" => conn' # "none"
  <2>1. ConnectPTY => conn' = "open"
    BY DEF ConnectPTY, Connect
  <2> QED
    BY <2>1, Deferring, ConnStays DEF StartInv
<1>3. ASSUME mpc' \in Early
      PROVE  gos' = {} /\ \A p \in Callers \ {"main"} : call'[p] = Idle
  <2>1. mpc \in Early /\ gos = {} /\ \A p \in Callers \ {"main"} : call[p] = Idle
    BY <1>3, Deferring DEF StartInv, IsIdle
  <2>2. gos' = {}
    BY <1>3, <2>1 DEF Next, Run, Reader, User, Reuse, CreateSandbox, PollFails, Poll, CreatePTY,
       CreatePTYFails, ConnectPTY, ConnectFails, Ready, ReadySent, MakeRaw, Leave, Select, Restore,
       CloseConn, ConnClosed, KillPTY, DeleteSandbox, Exit, ReaderReads, ReaderWrites, ReaderEnds,
       Interrupt, StdinWrites, StdinEnds, WinchResizes, SandboxChanges, Environment, Call,
       goroutines, vars, Early
  <2>0. ASSUME \A p \in Callers \ {"main"} : call'[p] = call[p]
        PROVE  \A p \in Callers \ {"main"} : call'[p] = Idle
    BY <2>0, <2>1
  <2>3. CASE Ready \/ CloseConn
    <3>1. \A p \in Callers \ {"main"} : call'[p] = call[p]
      BY <2>3 DEF Ready, CloseConn, Begin, PTYTypeInv, PTYTypeOK
    <3> QED
      BY <2>0, <2>2, <3>1
  <2>4. CASE ReaderReads \/ StdinWrites \/ WinchResizes \/ ReaderWrites
    BY <2>1, <2>4 DEF ReaderReads, StdinWrites, WinchResizes, ReaderWrites, Runs
  <2>5. CASE ConnectPTY \/ Interrupt \/ Environment \/ UNCHANGED ptyVars
    <3>1. call' = call
      BY <2>5 DEF ConnectPTY, Connect, Interrupt, Environment, Server, SessionPrints,
         SessionExits, ServerHears, ServerSends, ConnBreaks, ptyVars, api
    <3> QED
      BY <2>0, <2>2, <3>1
  <2>6. CASE \E p \in Callers : Call(p)
    <3> PICK p \in Callers : Call(p)
      BY <2>6
    <3>1. call[p] # Idle /\ \A q \in Callers \ {p} : call'[q] = call[q]
      BY CallGoesOn DEF Call, IsIdle
    <3>2. p = "main"
      BY <2>1, <3>1
    <3> QED
      BY <2>0, <2>2, <3>1, <3>2
  <2> QED
    BY <2>2, <2>3, <2>4, <2>5, <2>6, ConnectionSteps
<1> QED
  BY <1>1, <1>2, <1>3 DEF StartInv, IsIdle

LEMMA StartHolds == Spec => []StartInv
<1>1. Init => StartInv
  BY DEF Init, PTYInit, StartInv, Pending, IsIdle
<1>2. PTYTypeInv /\ DeferInv /\ StartInv /\ [Next]_vars => StartInv'
  BY StartNext
<1>3. TerminalInv => PTYTypeInv
  BY DEF TerminalInv
<1> QED
  BY <1>1, <1>2, <1>3, Invariance, TerminalInvariance, PTL DEF Spec

\* What run or its call can do next, an answer of the service or a failure: the
\* guards of its steps.
Free ==
  \/ mpc \in {"create", "poll", "createPTY", "connect", "raw"}
  \/ mpc = "ready" /\ IsIdle("main") /\ conn # "none"
  \/ mpc \in {"awaitReady", "closing"} /\ IsIdle("main")
  \/ call["main"].at = "lock" /\ mu = Nobody
  \/ call["main"].at = "send" /\ (conn = "closed" \/ "main" \in cancelled)
  \/ call["main"].at = "closing"
  \/ mpc = "select" /\ Interrupted
  \/ mpc = "return" /\ \/ defers = <<>> \/ defers[Len(defers)] \in Deferrable \ {"close"}
                       \/ defers[Len(defers)] = "close" /\ IsIdle("main") /\ conn # "none"

\* Wherever a signal finds run, nothing keeps it from the end: it waits for no
\* answer, and for no mutex, for its Ready comes before the goroutines that
\* write and its Close takes no mutex, though one of them may sit in a write with it
\* (main.go:101-216, sandbox_pty_websocket.go:137-196).
THEOREM SignalFindsRunFree == Spec => [](Interrupted /\ mpc # "done" => Free)
<1>1. MutexInv /\ DeferInv /\ TerminalInv /\ StartInv => (Interrupted /\ mpc # "done" => Free)
  <2> SUFFICES ASSUME MutexInv, DeferInv, TerminalInv, StartInv, Interrupted, mpc # "done"
               PROVE  Free
    OBVIOUS
  <2>1. mpc \in MainPCs /\ CallersInv /\ "main" \in cancelled
    BY TerminalAssumption DEF DeferInv, TerminalInv, Interrupted
  <2>2. CASE mpc = "ready"
    <3>1. IsIdle("main")
      BY <2>1, <2>2 DEF CallersInv, IsIdle
    <3> QED
      BY <2>2, <3>1 DEF StartInv, Free
  <2>3. CASE mpc = "awaitReady"
    <3>1. CASE call["main"].at = "lock"
      <4>1. \A p \in Callers : call[p].at # "send"
        BY <2>3, <3>1 DEF StartInv, Early, IsIdle, Idle
      <4>2. mu = Nobody
        BY <4>1 DEF MutexInv, MutexTypeOK, OneWriter
      <4> QED
        BY <3>1, <4>2 DEF Free
    <3>2. CASE call["main"].at # "lock"
      BY <2>1, <2>3, <3>2 DEF CallersInv, Free, IsIdle
    <3> QED
      BY <3>1, <3>2
  <2>4. CASE mpc = "closing"
    BY <2>1, <2>4 DEF CallersInv, Free, IsIdle
  <2>5. CASE mpc = "return"
    <3>1. IsIdle("main")
      BY <2>1, <2>5 DEF CallersInv, IsIdle
    <3>2. defers # <<>> => Len(defers) \in 1 .. Len(defers) /\ defers[Len(defers)] \in Deferrable
      BY LenProperties, EmptySeq, ElementOfSeq DEF DeferInv
    <3>3. defers # <<>> /\ defers[Len(defers)] = "close" => "close" \in Pending
      BY <3>2 DEF Pending
    <3> QED
      BY <2>5, <3>1, <3>2, <3>3 DEF StartInv, Free
  <2> QED
    BY <2>1, <2>2, <2>3, <2>4, <2>5 DEF Free, MainPCs
<1> QED
  BY <1>1, Invariance, TerminalInvariance, StartHolds, PTL

\* How many steps run has left, its deferred calls and its waiting for a call of
\* the connection included.
Ahead ==
  CASE mpc = "done"   -> 0
    [] mpc = "return" -> 1
    [] mpc = "select" -> 2
    [] mpc = "raw"    -> 6
    [] mpc = "ready"  -> 10
    [] mpc = "connect" -> 14
    [] mpc = "closing" -> IF IsIdle("main") THEN 2 ELSE 3
    [] mpc = "awaitReady" -> CASE call["main"].at = "lock" -> 9
                               [] call["main"].at = "send" -> 8
                               [] OTHER -> 7
    [] mpc = "createPTY" -> 17 + (MaxTries - round)
    [] mpc = "poll"      -> 17 + MaxTries + (MaxPolls - round)
    [] mpc = "create"    -> 21 + MaxTries + MaxPolls
RunLeft == Ahead + 3 * Len(defers)

\* What a step of run leaves of it: a deferred call is worth three steps.
LEMMA Nearer ==
  ASSUME DeferInv, Ahead \in Nat, Ahead' \in Nat,
         \/ defers' = defers /\ Ahead' < Ahead
         \/ \E d \in Deferrable : defers' = Append(defers, d) /\ Ahead' + 3 < Ahead
         \/ \E d : NextDeferred(d) /\ Ahead' < Ahead + 3
  PROVE  RunLeft' \in Nat /\ RunLeft' < RunLeft
<1>1. defers \in Seq(Deferrable) /\ Len(defers) \in Nat
  BY LenProperties DEF DeferInv
<1>2. ASSUME NEW k \in Nat, Len(defers') = k, Ahead' + 3 * k < Ahead + 3 * Len(defers)
      PROVE  RunLeft' \in Nat /\ RunLeft' < RunLeft
  <2>1. RunLeft' = Ahead' + 3 * k /\ RunLeft = Ahead + 3 * Len(defers)
    BY <1>2 DEF RunLeft
  <2>2. Ahead' + 3 * k \in Nat
    <3>1. \A a, i \in Nat : a + 3 * i \in Nat
      OBVIOUS
    <3> QED
      BY <3>1
  <2> QED
    BY <1>2, <2>1, <2>2
<1>3. CASE defers' = defers /\ Ahead' < Ahead
  BY <1>1, <1>2, <1>3
<1>4. CASE \E d \in Deferrable : defers' = Append(defers, d) /\ Ahead' + 3 < Ahead
  <2>1. Len(defers') = Len(defers) + 1 /\ Ahead' + 3 < Ahead
    <3>1. PICK d \in Deferrable : defers' = Append(defers, d) /\ Ahead' + 3 < Ahead
      BY <1>4
    <3>2. Len(Append(defers, d)) = Len(defers) + 1
      BY <1>1, AppendProperties
    <3> QED
      BY <3>1, <3>2
  <2>2. Ahead' + 3 * (Len(defers) + 1) < Ahead + 3 * Len(defers)
    <3>1. \A a, b, n \in Nat : b + 3 < a => b + 3 * (n + 1) < a + 3 * n
      OBVIOUS
    <3> QED
      BY <1>1, <2>1, <3>1
  <2> QED
    BY <1>2, <2>1, <2>2
<1>5. CASE \E d : NextDeferred(d) /\ Ahead' < Ahead + 3
  <2>1. Len(defers) # 0 /\ defers' = SubSeq(defers, 1, Len(defers) - 1)
    BY <1>1, <1>5, EmptySeq DEF NextDeferred
  <2> DEFINE n == Len(defers) - 1
  <2>2. /\ n \in Nat /\ defers' = SubSeq(defers, 1, n)
        /\ Ahead' + 3 * n < Ahead + 3 * Len(defers)
    BY <1>1, <1>5, <2>1
  <2>3. \A i \in 1 .. n : defers[i] \in Deferrable
    <3>1. \A i \in 1 .. n : i \in 1 .. Len(defers)
      BY <1>1
    <3> QED
      BY <1>1, <3>1, ElementOfSeq
  <2> HIDE DEF n
  <2>4. Len(SubSeq(defers, 1, n)) = IF 1 <= n THEN n - 1 + 1 ELSE 0
    BY <1>1, <2>2, <2>3, SubSeqProperties
  <2>5. Len(defers') = n
    BY <2>2, <2>4
  <2> QED
    BY <1>2, <2>2, <2>5
<1> QED
  BY <1>3, <1>4, <1>5

\* run makes a bounded number of steps, whatever fails and however often the
\* sandbox is polled and the session tried: each of its own steps and of the call
\* it is in brings its end nearer, and nobody else can put it off
\* (main.go:101-158, 218-228).
THEOREM RunIsBounded ==
  Spec => [][IF Run \/ Call("main") THEN RunLeft' \in Nat /\ RunLeft' < RunLeft
             ELSE RunLeft' = RunLeft]_vars
<1> DEFINE Bounded == IF Run \/ Call("main") THEN RunLeft' \in Nat /\ RunLeft' < RunLeft
                      ELSE RunLeft' = RunLeft
<1>1. DeferInv /\ PTYTypeInv /\ CallersInv /\ TerminalTypeInv /\ [Next]_vars => [Bounded]_vars
  <2> SUFFICES ASSUME DeferInv, PTYTypeInv, CallersInv, TerminalTypeInv, Next
               PROVE  Bounded \/ UNCHANGED vars
    BY DEF vars
  <2>1. /\ MaxPolls \in Nat \ {0} /\ MaxTries \in Nat \ {0} /\ mpc \in MainPCs
        /\ mpc = "poll" => round \in 0 .. MaxPolls - 1
        /\ mpc = "createPTY" => round \in 0 .. MaxTries - 1
        /\ mpc \notin {"poll", "createPTY"} => round = 0
    BY TerminalAssumption DEF DeferInv, TerminalTypeInv
  <2>2. Ahead \in Nat
    BY <2>1 DEF Ahead, MainPCs
  <2>3. ASSUME Run PROVE RunLeft' \in Nat /\ RunLeft' < RunLeft
    <3> USE DEF Leave
    <3>1. CASE Reuse \/ PollFails \/ ConnectFails \/ Select \/ Exit
      <4>1. /\ defers' = defers
            /\ \/ mpc = "create" /\ mpc' = "poll" /\ round' = 0
               \/ mpc \in {"poll", "connect", "select"} /\ mpc' = "return"
               \/ mpc = "return" /\ mpc' = "done"
        BY <2>1, <3>1 DEF Reuse, PollFails, ConnectFails, Select, Exit
      <4>2. Ahead' \in Nat /\ Ahead' < Ahead
        BY <2>1, <2>2, <4>1 DEF Ahead
      <4> QED
        BY <2>2, <4>1, <4>2, Nearer
    <3>2. CASE CreateSandbox
      BY <2>1, <2>2, <3>2, Nearer DEF CreateSandbox, Ahead, Deferrable
    <3>3. CASE Poll
      BY <2>1, <2>2, <3>3, Nearer DEF Poll, Ahead
    <3>4. CASE CreatePTY
      BY <2>1, <2>2, <3>4, Nearer DEF CreatePTY, Ahead, Deferrable
    <3>5. CASE CreatePTYFails
      BY <2>1, <2>2, <3>5, Nearer DEF CreatePTYFails, Ahead
    <3>6. CASE ConnectPTY
      BY <2>1, <2>2, <3>6, Nearer DEF ConnectPTY, Ahead, Deferrable
    <3>7. CASE Ready
      <4>1. call'["main"].at = "lock" /\ defers' = defers
        BY <3>7, TerminalAssumption DEF Ready, Begin, WriteOps, PTYTypeInv, PTYTypeOK
      <4> QED
        BY <2>1, <2>2, <3>7, <4>1, Nearer DEF Ready, Ahead
    <3>8. CASE ReadySent
      <4>1. call["main"].at = "idle" /\ mpc' \in {"raw", "return"}
        BY <3>8 DEF ReadySent, IsIdle, Idle
      <4> QED
        BY <2>1, <2>2, <3>8, <4>1, Nearer DEF ReadySent, Ahead
    <3>9. CASE MakeRaw
      BY <2>1, <2>2, <3>9, Nearer DEF MakeRaw, Ahead, Deferrable
    <3>10. CASE Restore \/ KillPTY \/ DeleteSandbox
      <4>1. mpc' = mpc /\ mpc = "return" /\ \E d : NextDeferred(d)
        BY <3>10 DEF Restore, KillPTY, DeleteSandbox, NextDeferred
      <4> QED
        BY <2>2, <4>1, Nearer DEF Ahead
    <3>11. CASE CloseConn
      <4>1. mpc' = "closing" /\ mpc = "return" /\ \E d : NextDeferred(d)
        BY <3>11 DEF CloseConn, NextDeferred
      <4> QED
        BY <2>2, <4>1, Nearer DEF Ahead
    <3>12. CASE ConnClosed
      BY <2>1, <2>2, <3>12, Nearer DEF ConnClosed, Ahead
    <3> QED
      BY <2>3, <3>1, <3>2, <3>3, <3>4, <3>5, <3>6, <3>7, <3>8, <3>9, <3>10, <3>11, <3>12 DEF Run
  <2>4. ASSUME Call("main") PROVE RunLeft' \in Nat /\ RunLeft' < RunLeft
    <3>1. /\ \/ call'["main"] = Idle
             \/ call["main"].at = "lock" /\ call'["main"].at = "send"
          /\ ~IsIdle("main")
      BY <2>4, CallGoesOn, TerminalAssumption DEF Call
    <3>2. mpc' = mpc /\ defers' = defers
      BY <2>4 DEF Call, main
    <3>3. \/ mpc = "awaitReady" /\ call["main"].at \in {"lock", "send"}
          \/ mpc = "closing" /\ call["main"].at = "closing"
      BY <3>1 DEF CallersInv, IsIdle
    <3> QED
      BY <2>2, <3>1, <3>2, <3>3, Nearer DEF Ahead, Idle, IsIdle
  <2>5. ASSUME ~Run, ~Call("main") PROVE RunLeft' = RunLeft \/ UNCHANGED vars
    <3>1. CASE Reader \/ User \/ SandboxChanges \/ Environment
      <4>1. call'["main"] = call["main"]
        BY <3>1, TerminalAssumption DEF Reader, ReaderReads, ReaderWrites, ReaderEnds, User,
           Interrupt, StdinWrites, StdinEnds, WinchResizes, SandboxChanges, Environment, Begin,
           Server, SessionPrints, SessionExits, ServerHears, ServerSends, ConnBreaks, ptyVars, api,
           PTYTypeInv, PTYTypeOK
      <4>2. mpc' = mpc /\ round' = round /\ defers' = defers
        BY <3>1 DEF Reader, ReaderReads, ReaderWrites, ReaderEnds, User,
           Interrupt, StdinWrites, StdinEnds, WinchResizes, SandboxChanges, Environment, main
      <4> QED
        BY <4>1, <4>2 DEF RunLeft, Ahead, IsIdle
    <3>2. ASSUME NEW p \in Callers \ {"main"}, Call(p) PROVE RunLeft' = RunLeft
      <4>1. call'["main"] = call["main"]
        BY <3>2, CallGoesOn, TerminalAssumption DEF Call
      <4>2. mpc' = mpc /\ round' = round /\ defers' = defers
        BY <3>2 DEF Call, main
      <4> QED
        BY <4>1, <4>2 DEF RunLeft, Ahead, IsIdle
    <3> QED
      BY <2>5, <3>1, <3>2 DEF Next
  <2> QED
    BY <2>3, <2>4, <2>5
<1>2. TerminalInv => PTYTypeInv /\ CallersInv /\ TerminalTypeInv
  BY DEF TerminalInv
<1> HIDE DEF Bounded
<1>3. Spec => [][Bounded]_vars
  BY <1>1, <1>2, Invariance, TerminalInvariance, PTL DEF Spec
<1> QED
  BY <1>3 DEF Bounded
=============================================================================
