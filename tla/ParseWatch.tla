----------------------------- MODULE ParseWatch -----------------------------
(***************************************************************************)
(* What GetParseResult promises its caller, without the stream: the        *)
(* callback sees the job's events in order, none skipped, none twice, each *)
(* under its own name; the call succeeds only with the event that ended    *)
(* the job or with a snapshot taken before any update; nothing happens     *)
(* after it has returned.                                                  *)
(***************************************************************************)
EXTENDS Naturals, Sequences

Progress == {"parse_queued", "parse_update"}
Terminal == {"parse_done", "parse_failed"}
Unknown  == {"parse_paused"}          \* a name this client does not know
EventNames == Progress \cup Terminal \cup Unknown

CONSTANT MaxEvents     \* events one job emits, a natural number

VARIABLES
  job,       \* the names of the events the service has emitted, in order
  callback,  \* the caller passed WithOnUpdate
  updates,   \* the calls of onUpdate: <<name, number of the event>>
  result     \* what the call returned, and the event it came from

watchVars == <<job, callback, updates, result>>

NoResult == [kind |-> "none", event |-> 0]
Errors == {"doError", "apiError", "decodeError", "unexpectedStatus",
           "scanError", "unmarshalError", "unknownEvent", "noEvents", "noTerminal"}

Init ==
  /\ job = <<>> /\ callback \in BOOLEAN
  /\ updates = <<>> /\ result = NoResult

\* The job goes on until it has ended.
Emit ==
  /\ Len(job) < MaxEvents
  /\ \A i \in 1 .. Len(job) : job[i] \notin Terminal
  /\ \E name \in EventNames : job' = Append(job, name)
  /\ UNCHANGED <<callback, updates, result>>

\* The callback is told of event n, the first it has not been told of.
Notify(n) ==
  updates' = IF callback THEN Append(updates, <<job[n], n>>) ELSE updates
IsNext(n) == callback => n = Len(updates) + 1

Update ==
  /\ result = NoResult
  /\ \E n \in 1 .. Len(job) : IsNext(n) /\ job[n] \in Progress /\ Notify(n)
  /\ UNCHANGED <<job, callback, result>>

Finish ==
  /\ result = NoResult
  /\ \E n \in 1 .. Len(job) :
       /\ IsNext(n) /\ job[n] \in Terminal /\ Notify(n)
       /\ result' = [kind |-> IF job[n] = "parse_done" THEN "ok" ELSE "failed",
                     event |-> n]
  /\ UNCHANGED <<job, callback>>

Snapshot ==
  /\ result = NoResult /\ updates = <<>>
  /\ result' = [kind |-> "snapshot", event |-> 0]
  /\ UNCHANGED <<job, callback, updates>>

GiveUp ==
  /\ result = NoResult
  /\ \E e \in Errors : result' = [kind |-> e, event |-> 0]
  /\ UNCHANGED <<job, callback, updates>>

Next == Emit \/ Update \/ Finish \/ Snapshot \/ GiveUp
Spec == Init /\ [][Next]_watchVars
=============================================================================
