--------------------------- MODULE SandboxTerminal ---------------------------
(***************************************************************************)
(* The terminal example (src/examples/sandbox-terminal/main.go) on top of  *)
(* PTYConn: run creates or reuses a sandbox, waits for it, creates a       *)
(* session, connects, starts three goroutines, waits for the end and runs  *)
(* its deferred calls, last one first.  A signal cancels the one context   *)
(* all calls but the deferred ones share.  The service is external.        *)
(***************************************************************************)
EXTENDS PTYConn

CONSTANTS
  ReuseFlags, KeepFlags,   \* the values of -sandbox and -keep that are tried
  MaxPolls,   \* polls of the sandbox's status (60 in the code)
  MaxTries,   \* calls of CreatePTY (10 in the code)
  MaxInput    \* reads of stdin, and signals that the window has changed

ASSUME TerminalAssumption ==
  /\ Callers = {"main", "reader", "stdin", "winch"}
  /\ ReuseFlags \subseteq BOOLEAN /\ KeepFlags \subseteq BOOLEAN
  /\ MaxPolls \in Nat \ {0} /\ MaxTries \in Nat \ {0} /\ MaxInput \in Nat

VARIABLES
  flags,      \* -sandbox and -keep
  mpc,        \* where run is
  defers,     \* its deferred calls, the last one last
  round,      \* turns made in the loop that run is in, 0 outside
  sbID,       \* run knows the sandbox it created
  ptyResp,    \* the session run knows, 0 for none
  raw,        \* the terminal is in raw mode
  gos,        \* the goroutines that still run
  stdout,     \* what the reader has written
  typed, sized, \* what the user has typed and resized so far
  sandbox,    \* the service's sandbox
  sessions,   \* its sessions: alive or killed
  attempted   \* deferred API calls that were made

main       == <<flags, mpc, defers, round, sbID, ptyResp>>
goroutines == <<gos, stdout, typed, sized>>
service    == <<sandbox, sessions, attempted>>
vars == <<ptyVars, main, raw, goroutines, service>>

\* The statuses the example tells apart: "pending" stands for the rest.
Statuses == {"pending", "running", "terminated"}
Interrupted == cancelled = Callers

Init ==
  /\ PTYInit
  /\ flags \in [reuse : ReuseFlags, keep : KeepFlags]
  /\ mpc = "create" /\ defers = <<>>
  /\ round = 0 /\ sbID = FALSE /\ ptyResp = 0
  /\ raw = FALSE /\ gos = {} /\ stdout = <<>> /\ typed = 0 /\ sized = 0
  /\ sandbox \in IF flags.reuse THEN Statuses ELSE {"none"}
  /\ sessions = <<>> /\ attempted = {}

Running == mpc # "done"

\* SIGINT or SIGTERM: signal.NotifyContext cancels the context.
Interrupt ==
  /\ Running /\ ~Interrupted
  /\ cancelled' = Callers
  /\ UNCHANGED <<conn, api, network, session, main, raw, goroutines, service>>

\* Every return of run before its deferred calls.
Leave == mpc' = "return"

-----------------------------------------------------------------------------
(* The steps of run.                                                       *)

Reuse ==
  /\ mpc = "create" /\ flags.reuse
  /\ mpc' = "poll"
  /\ UNCHANGED <<ptyVars, flags, defers, round, sbID, ptyResp, raw,
                 goroutines, service>>

\* CreateSandbox: the service may create the sandbox whatever the answer.
CreateSandbox ==
  /\ mpc = "create" /\ ~flags.reuse
  /\ \/ /\ ~Interrupted
        /\ sandbox' \in {"pending", "running"} /\ sbID' = TRUE
        /\ defers' = IF flags.keep THEN defers ELSE Append(defers, "delete")
        /\ mpc' = "poll"
     \/ /\ sandbox' \in IF Interrupted THEN {"none"} ELSE {"none", "pending"}
        /\ Leave
        /\ UNCHANGED <<sbID, defers>>
  /\ UNCHANGED <<ptyVars, flags, round, ptyResp, raw, goroutines,
                 sessions, attempted>>

MutPollFailsLeaks ==
  /\ mpc = "poll"
  /\ mpc' = "done"
  /\ UNCHANGED <<ptyVars, flags, defers, round, sbID, ptyResp, raw,
                 goroutines, service>>

\* GetSandbox fails.
PollFails ==
  /\ mpc = "poll"
  /\ Leave /\ round' = 0
  /\ UNCHANGED <<ptyVars, flags, defers, sbID, ptyResp, raw, goroutines, service>>

\* GetSandbox answers: running, terminated, or sleep and poll again.
Poll ==
  /\ mpc = "poll" /\ ~Interrupted
  /\ mpc' = CASE sandbox = "running"    -> "createPTY"
              [] sandbox = "terminated" -> "return"
              [] OTHER -> IF round + 1 = MaxPolls THEN "createPTY" ELSE "poll"
  /\ round' = IF mpc' = "poll" THEN round + 1 ELSE 0
  /\ UNCHANGED <<ptyVars, flags, defers, sbID, ptyResp, raw, goroutines, service>>

\* CreatePTY succeeds.
CreatePTY ==
  /\ mpc = "createPTY" /\ ~Interrupted /\ sandbox = "running"
  /\ sessions' = Append(sessions, "alive") /\ ptyResp' = Len(sessions')
  /\ defers' = Append(defers, "kill")
  /\ round' = 0 /\ mpc' = "connect"
  /\ UNCHANGED <<ptyVars, flags, sbID, raw, goroutines, sandbox, attempted>>

MutCreatePTYFails ==
  /\ mpc = "createPTY"
  /\ \/ UNCHANGED sessions
     \/ /\ ~Interrupted /\ sandbox = "running"
        /\ sessions' = Append(sessions, "alive")
  /\ mpc' = IF round + 1 > MaxTries THEN "return" ELSE "createPTY"
  /\ round' = IF mpc' = "createPTY" THEN round + 1 ELSE 0
  /\ UNCHANGED <<ptyVars, flags, defers, sbID, ptyResp, raw, goroutines,
                 sandbox, attempted>>

\* CreatePTY fails, or its answer is lost: try again, ten times in all.
CreatePTYFails ==
  /\ mpc = "createPTY"
  /\ \/ UNCHANGED sessions
     \/ /\ ~Interrupted /\ sandbox = "running"
        /\ sessions' = Append(sessions, "alive")
  /\ mpc' = IF round + 1 = MaxTries THEN "return" ELSE "createPTY"
  /\ round' = IF mpc' = "createPTY" THEN round + 1 ELSE 0
  /\ UNCHANGED <<ptyVars, flags, defers, sbID, ptyResp, raw, goroutines,
                 sandbox, attempted>>

ConnectPTY ==
  /\ mpc = "connect" /\ ~Interrupted /\ sessions[ptyResp] = "alive"
  /\ Connect
  /\ defers' = Append(defers, "close") /\ mpc' = "ready"
  /\ UNCHANGED <<flags, round, sbID, ptyResp, raw, goroutines, service>>

ConnectFails ==
  /\ mpc = "connect"
  /\ Leave
  /\ UNCHANGED <<ptyVars, flags, defers, round, sbID, ptyResp, raw,
                 goroutines, service>>

Ready ==
  /\ mpc = "ready"
  /\ Begin("main", "ready")
  /\ mpc' = "awaitReady"
  /\ UNCHANGED <<flags, defers, round, sbID, ptyResp, raw, goroutines, service>>

MutReadySent ==
  /\ mpc = "awaitReady"
  /\ mpc' = "raw"
  /\ UNCHANGED <<ptyVars, flags, defers, round, sbID, ptyResp, raw,
                 goroutines, service>>

\* conn.Ready has returned.
ReadySent ==
  /\ mpc = "awaitReady" /\ IsIdle("main")
  /\ mpc' = IF reply["main"] = "ok" THEN "raw" ELSE "return"
  /\ UNCHANGED <<ptyVars, flags, defers, round, sbID, ptyResp, raw,
                 goroutines, service>>

\* term.MakeRaw and the start of the goroutines, or its failure.
MakeRaw ==
  /\ mpc = "raw"
  /\ \/ /\ raw' = TRUE /\ defers' = Append(defers, "restore")
        /\ gos' = {"reader", "stdin", "winch"} /\ mpc' = "select"
     \/ Leave /\ UNCHANGED <<raw, defers, gos>>
  /\ UNCHANGED <<ptyVars, flags, round, sbID, ptyResp, stdout, typed,
                 sized, service>>

\* done is closed, or the context is cancelled.
Select ==
  /\ mpc = "select" /\ ("reader" \notin gos \/ Interrupted)
  /\ Leave
  /\ UNCHANGED <<ptyVars, flags, defers, round, sbID, ptyResp, raw,
                 goroutines, service>>

-----------------------------------------------------------------------------
(* The deferred calls.                                                     *)

MutNextDeferred(d) ==
  /\ mpc = "return" /\ defers # <<>> /\ Head(defers) = d
  /\ defers' = Tail(defers)

\* Deferred calls run last in, first out.
NextDeferred(d) ==
  /\ mpc = "return" /\ defers # <<>> /\ defers[Len(defers)] = d
  /\ defers' = SubSeq(defers, 1, Len(defers) - 1)

Restore ==
  /\ NextDeferred("restore")
  /\ raw' = FALSE
  /\ UNCHANGED <<ptyVars, flags, mpc, round, sbID, ptyResp, goroutines, service>>

CloseConn ==
  /\ NextDeferred("close")
  /\ Begin("main", "close")
  /\ mpc' = "closing"
  /\ UNCHANGED <<flags, round, sbID, ptyResp, raw, goroutines, service>>

ConnClosed ==
  /\ mpc = "closing" /\ IsIdle("main")
  /\ Leave
  /\ UNCHANGED <<ptyVars, flags, defers, round, sbID, ptyResp, raw,
                 goroutines, service>>

\* KillPTY with a context of its own; its error is ignored.
KillPTY ==
  /\ NextDeferred("kill")
  /\ attempted' = attempted \cup {"kill"}
  /\ sessions' \in {sessions, [sessions EXCEPT ![ptyResp] = "killed"]}
  /\ UNCHANGED <<ptyVars, flags, mpc, round, sbID, ptyResp, raw,
                 goroutines, sandbox>>

\* DeleteSandbox with a context of its own; its error is printed.
DeleteSandbox ==
  /\ NextDeferred("delete")
  /\ attempted' = attempted \cup {"delete"}
  /\ sandbox' \in {sandbox, "terminated"}
  /\ UNCHANGED <<ptyVars, flags, mpc, round, sbID, ptyResp, raw,
                 goroutines, sessions>>

\* Nothing is deferred any more: the process exits, its goroutines with it.
Exit ==
  /\ mpc = "return" /\ defers = <<>>
  /\ mpc' = "done"
  /\ UNCHANGED <<ptyVars, flags, defers, round, sbID, ptyResp, raw,
                 goroutines, service>>

-----------------------------------------------------------------------------
(* The goroutines, which run on while run executes its deferred calls.     *)

Runs(g) == Running /\ g \in gos /\ IsIdle(g)

\* Each loops: call the connection, then look at the reply.
ReaderReads ==
  /\ Runs("reader") /\ reply["reader"] = "none"
  /\ Begin("reader", "read")
  /\ UNCHANGED <<main, raw, goroutines, service>>

\* The reply has been dealt with.
Forget(g) == reply' = [reply EXCEPT ![g] = "none"]

MutReaderWrites ==
  /\ Runs("reader") /\ reply["reader"] = "data"
  /\ Forget("reader")
  /\ UNCHANGED <<conn, mu, call, got, cancelled, network, session, main, raw,
                 goroutines, service>>

\* os.Stdout.Write(msg.Data), then the next Read.
ReaderWrites ==
  /\ Runs("reader") /\ reply["reader"] = "data"
  /\ stdout' = Append(stdout, got[Len(got)][2])
  /\ Forget("reader")
  /\ UNCHANGED <<conn, mu, call, got, cancelled, network, session, main, raw,
                 gos, typed, sized, service>>

MutReaderEnds ==
  /\ Runs("reader") /\ reply["reader"] = "exit"
  /\ gos' = gos \ {"reader"}
  /\ UNCHANGED <<ptyVars, main, raw, stdout, typed, sized, service>>

\* The exit message or an error: close(done).
ReaderEnds ==
  /\ Runs("reader") /\ reply["reader"] \in {"exit", "error"}
  /\ gos' = gos \ {"reader"}
  /\ UNCHANGED <<ptyVars, main, raw, stdout, typed, sized, service>>

\* os.Stdin.Read has returned input.
StdinWrites ==
  /\ Runs("stdin") /\ reply["stdin"] # "error" /\ typed < MaxInput
  /\ typed' = typed + 1
  /\ Begin("stdin", "write")
  /\ UNCHANGED <<main, raw, gos, stdout, sized, service>>

\* conn.Write failed, or stdin is at its end.
StdinEnds ==
  /\ Runs("stdin")
  /\ gos' = gos \ {"stdin"}
  /\ UNCHANGED <<ptyVars, main, raw, stdout, typed, sized, service>>

\* SIGWINCH; errors of Resize are ignored.
WinchResizes ==
  /\ Runs("winch") /\ sized < MaxInput
  /\ sized' = sized + 1
  /\ Begin("winch", "resize")
  /\ UNCHANGED <<main, raw, gos, stdout, typed, service>>

Call(p) == Running /\ CallStep(p) /\ UNCHANGED <<main, raw, goroutines, service>>

-----------------------------------------------------------------------------
(* The service (external).                                                 *)

\* The sandbox starts, or is terminated: its timeout, another client.
SandboxChanges ==
  /\ Running /\ sandbox \in {"pending", "running"}
  /\ sandbox' \in IF sandbox = "pending" THEN {"running", "terminated"} ELSE {"terminated"}
  /\ UNCHANGED <<ptyVars, main, raw, goroutines, sessions, attempted>>

Environment == Running /\ Server /\ UNCHANGED <<main, raw, goroutines, service>>

-----------------------------------------------------------------------------
Run == \/ Reuse \/ CreateSandbox \/ PollFails \/ Poll \/ CreatePTY
       \/ CreatePTYFails \/ ConnectPTY \/ ConnectFails \/ Ready \/ ReadySent
       \/ MakeRaw \/ Select \/ Restore \/ CloseConn \/ ConnClosed \/ KillPTY
       \/ DeleteSandbox \/ Exit
Reader == ReaderReads \/ ReaderWrites \/ ReaderEnds
User   == Interrupt \/ StdinWrites \/ StdinEnds \/ WinchResizes

Next == \/ Run \/ Reader \/ User \/ SandboxChanges \/ Environment
        \/ \E p \in Callers : Call(p)
        \/ mpc = "done" /\ UNCHANGED vars

Spec == Init /\ [][Next]_vars

\* Goroutines run and API calls return, if only with an error: the one context
\* is cancelled by the user, the deferred calls have timeouts.  Neither the
\* server nor the user owes anything.
FairSpec == /\ Spec /\ WF_vars(Run) /\ WF_vars(Reader)
            /\ \A p \in Callers : WF_vars(Call(p))

-----------------------------------------------------------------------------
MainPCs == {"create", "poll", "createPTY", "connect", "ready", "awaitReady",
            "raw", "select", "return", "closing", "done"}

\* The deferred calls in the order in which run defers them.
Deferrable == {"delete", "kill", "close", "restore"}
Rank == [d \in Deferrable |-> CASE d = "delete" -> 1 [] d = "kill"    -> 2
                                [] d = "close"  -> 3 [] d = "restore" -> 4]
Pending == {defers[i] : i \in 1 .. Len(defers)}
Below(n) == \A d \in Pending : Rank[d] < n

TypeOK ==
  /\ PTYTypeOK /\ mpc \in MainPCs
  /\ round \in 0 .. CASE mpc = "poll"      -> MaxPolls - 1
                      [] mpc = "createPTY" -> MaxTries - 1
                      [] OTHER             -> 0
  /\ sbID \in BOOLEAN /\ ptyResp \in 0 .. Len(sessions) /\ raw \in BOOLEAN
  /\ gos \subseteq Callers \ {"main"}
  /\ typed \in 0 .. MaxInput /\ sized \in 0 .. MaxInput
  /\ sandbox \in Statuses \cup {"none"}
  /\ Len(sessions) <= MaxTries

\* The inductive invariant of SandboxTerminalProofs: whatever run has acquired
\* is given back or still deferred, above what it depends on (main.go:78-171).
DeferInv ==
  /\ mpc \in MainPCs /\ defers \in Seq(Deferrable) /\ attempted \subseteq {"kill", "delete"}
  /\ \A i, j \in 1 .. Len(defers) : i < j => Rank[defers[i]] < Rank[defers[j]]
  /\ mpc \in {"create", "done"} => Below(1)
  /\ mpc \in {"poll", "createPTY"} => Below(2)
  /\ mpc \in {"connect", "closing"} => Below(3)
  /\ mpc \in {"ready", "awaitReady", "raw"} => Below(4)
  /\ mpc \in {"create", "poll", "createPTY", "connect"} => conn = "none"
  /\ mpc \notin {"return", "done"} => attempted = {}
  /\ raw => "restore" \in Pending
  /\ conn = "open" => "close" \in Pending \/ mpc = "closing"
  /\ mpc = "closing" => conn = "closed" \/ call["main"].at = "closing"
  /\ ptyResp # 0 => "kill" \in Pending \cup attempted
  /\ sbID /\ ~flags.keep => "delete" \in Pending \cup attempted
  /\ "kill" \in attempted => Below(2)
  /\ "delete" \in attempted => Below(1)

\* On every way out, whatever step failed and whenever the signal came, the
\* terminal is restored, the connection closed, and the session and sandbox
\* that run knows of are asked to end (main.go:91-99, 148-152, 160, 171).
GivenUpOnExit ==
  mpc = "done" =>
    /\ ~raw /\ conn # "open"
    /\ ptyResp # 0 => "kill" \in attempted
    /\ sbID /\ ~flags.keep => "delete" \in attempted

\* ... in reverse order: nobody kills a session that is still connected or
\* whose terminal is raw, and the sandbox goes last.
GivenUpInOrder ==
  /\ "kill" \in attempted => ~raw /\ conn # "open"
  /\ "delete" \in attempted => (ptyResp # 0 => "kill" \in attempted)

\* The server hears Ready before anything else: the goroutines that write start
\* after Ready has returned (main.go:162-164, 174-216).
ReadyIsFirst == first \in {"none", "ready"}

\* When the reader has the exit message of the session's process, the user has
\* seen all its output, in order (main.go:186-201).
OutputIsComplete ==
  reply["reader"] = "exit" => stdout = [n \in 1 .. printed |-> n]

\* A signal, a lost connection or the end of the process ends the program.
Ends == (Interrupted \/ conn = "closed" \/ reply["reader"] \in {"exit", "error"})
          ~> mpc = "done"
=============================================================================
