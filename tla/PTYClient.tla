------------------------------ MODULE PTYClient ------------------------------
(***************************************************************************)
(* A connection of PTYConn with callers that use it as they like: any      *)
(* method, in any order, at the same time, with contexts of their own.     *)
(***************************************************************************)
EXTENDS PTYConn

CONSTANTS
  Unused,    \* the methods they leave alone
  MaxCalls   \* calls made in all, those of Read not counted

ASSUME MaxCallsAssumption == MaxCalls \in Nat

VARIABLE calls   \* calls made so far, those of Read not counted

vars == <<ptyVars, calls>>

Init == PTYInit /\ calls = 0

Dial == Connect /\ UNCHANGED calls

\* Frames have one reader at a time: the WebSocket library lets any two of its
\* methods run together but Read with itself.
Call(p) == \E op \in Ops \ (Unused \cup {"none"}) :
  /\ op = "read" => \A q \in Callers : call[q].op # "read"
  /\ Begin(p, op)
  /\ calls' = IF op = "read" THEN calls ELSE calls + 1
  /\ calls' <= MaxCalls

Cancel(p) ==
  /\ p \notin cancelled /\ conn # "none"
  /\ cancelled' = cancelled \cup {p}
  /\ UNCHANGED <<conn, api, network, session, calls>>

Step(p) == CallStep(p) /\ UNCHANGED calls
Environment == Server /\ UNCHANGED calls

\* A call that nothing serves waits for ever: deadlock is not an error here.
Next == \/ Dial \/ Environment
        \/ \E p \in Callers : Call(p) \/ Step(p) \/ Cancel(p)

Spec == Init /\ [][Next]_vars

\* Goroutines run; the mutex is handed on.  The server owes nothing: it may
\* stop reading and stop sending.
FairSpec == Spec /\ \A p \in Callers : WF_vars(Step(p))

TypeOK == PTYTypeOK /\ calls \in 0 .. MaxCalls

\* Once the connection is closed, by anyone, every pending call returns, the
\* ones that wait for the mutex included (sandbox_pty_websocket.go:138-195).
ReleasedByClose ==
  \A p \in Callers : conn = "closed" /\ ~IsIdle(p) ~> IsIdle(p)

\* When every caller's context is cancelled, every pending call returns, though
\* Lock knows no context: the holder's write fails and frees the mutex.
ReleasedByCancel ==
  \A p \in Callers : cancelled = Callers /\ ~IsIdle(p) ~> IsIdle(p)
=============================================================================
