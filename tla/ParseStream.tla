----------------------------- MODULE ParseStream -----------------------------
(***************************************************************************)
(* GetParseResult and handleSSEResponse (src/parse_get.go) on top of the   *)
(* scanner: the service writes the events of a parse job to a stream that  *)
(* may be cut anywhere, the scanner decodes it, and the caller's loop      *)
(* turns each event into a callback or a return.                           *)
(***************************************************************************)
EXTENDS SSEService

VARIABLES
  useSSE,    \* WithSSE
  callback,  \* WithOnUpdate with a function
  job,       \* the names of the events written so far
  cpc,       \* the caller: "send", "stream", "returned"
  count,     \* eventCount
  updates,   \* the calls of onUpdate: <<name, number of the event>>
  result     \* what the call returned, and the event it came from

call    == <<useSSE, callback, layout>>
service == <<job, text>>
caller  == <<cpc, count, updates, result>>
vars    == <<scanVars, call, service, caller>>

Progress == {"parse_queued", "parse_update"}
Terminal == {"parse_done", "parse_failed"}
EventNames == Progress \cup Terminal \cup {"parse_paused"}

Init ==
  /\ ScanInit
  /\ useSSE \in BOOLEAN /\ callback \in BOOLEAN
  /\ layout \in Layouts
  /\ job = <<>> /\ text = <<>> /\ cpc = "send" /\ count = 0
  /\ updates = <<>> /\ result = [kind |-> "none", event |-> 0]

-----------------------------------------------------------------------------
(* The service (external).                                                 *)

\* The job's next event, until the job has ended.
Emit ==
  /\ cpc = "stream" /\ ending = "open" /\ Len(job) < Len(Payloads)
  /\ \A i \in 1 .. Len(job) : job[i] \notin Terminal
  /\ \E name \in EventNames :
       /\ job' = Append(job, name)
       /\ Write(Written(layout, name, Len(job) + 1))
  /\ UNCHANGED <<ending, spc, decoder, item, history, call, caller>>

\* The stream ends, cut or not.
StreamEnds ==
  /\ cpc = "stream" /\ CutStream
  /\ UNCHANGED <<call, service, caller>>

-----------------------------------------------------------------------------
(* The call.                                                               *)

Return(kind, n) == cpc' = "returned" /\ result' = [kind |-> kind, event |-> n]

\* The request: the ways it ends without a stream.
Immediate == {"doError", "apiError", "decodeError", "snapshot"}
             \cup IF useSSE THEN {} ELSE {"unexpectedStatus"}

Request ==
  /\ cpc = "send"
  /\ \/ /\ \E kind \in Immediate : Return(kind, 0)
     \/ /\ useSSE /\ cpc' = "stream" /\ UNCHANGED result
  /\ UNCHANGED <<scanVars, call, service, count, updates>>

Receiving == cpc = "stream" /\ Yielding
Leave(kind, n) == Stop /\ Return(kind, n)

\* if onUpdate != nil { onUpdate(name, &result) }
Notify(name, n) ==
  updates' = IF callback THEN Append(updates, <<name, n>>) ELSE updates

\* The scanner reports an error.
ScanError ==
  /\ Receiving /\ item.err # "nil"
  /\ Leave("scanError", 0)
  /\ UNCHANGED <<call, service, count, updates>>

BadData ==
  /\ Receiving /\ item.err = "nil" /\ ~Decodable(item.evt)
  /\ Leave("unmarshalError", 0)
  /\ UNCHANGED <<call, service, count, updates>>

ProgressEvent ==
  /\ Receiving /\ item.err = "nil" /\ item.evt.name \in Progress
  /\ \E n \in DOMAIN Payloads : Decodes(item.evt, n) /\ Notify(item.evt.name, n)
  /\ count' = count + 1
  /\ Continue
  /\ UNCHANGED <<call, service, cpc, result>>

TerminalEvent ==
  /\ Receiving /\ item.err = "nil" /\ item.evt.name \in Terminal
  /\ \E n \in DOMAIN Payloads :
       /\ Decodes(item.evt, n) /\ Notify(item.evt.name, n)
       /\ Leave(IF item.evt.name = "parse_done" THEN "ok" ELSE "failed", n)
  /\ UNCHANGED <<call, service, count>>

UnknownEvent ==
  /\ Receiving /\ item.err = "nil" /\ Decodable(item.evt)
  /\ item.evt.name \notin Progress \cup Terminal
  /\ Leave("unknownEvent", 0)
  /\ UNCHANGED <<call, service, count, updates>>

MutLoopEnds ==
  /\ cpc = "stream" /\ spc = "done"
  /\ IF updates = <<>> THEN Return("noEvents", 0) ELSE Return("ok", Len(updates))
  /\ UNCHANGED <<scanVars, call, service, count, updates>>

MutRetries ==
  /\ cpc = "stream" /\ spc = "done"
  /\ IF count = 0 THEN Return("noEvents", 0) ELSE cpc' = "send" /\ UNCHANGED result
  /\ UNCHANGED <<scanVars, call, service, count, updates>>

\* The iteration is over and no event returned from the loop.
LoopEnds ==
  /\ cpc = "stream" /\ spc = "done"
  /\ Return(IF count = 0 THEN "noEvents" ELSE "noTerminal", 0)
  /\ UNCHANGED <<scanVars, call, service, count, updates>>

-----------------------------------------------------------------------------
Scanning   == /\ cpc = "stream" /\ ScanStep
              /\ UNCHANGED <<call, service, caller>>
Terminated == cpc = "returned" /\ UNCHANGED vars

Service == Emit \/ StreamEnds
Caller  == \/ Request \/ ScanError \/ BadData \/ ProgressEvent \/ TerminalEvent
           \/ UnknownEvent \/ LoopEnds

Next == Scanning \/ Caller \/ Service \/ Terminated

Spec == Init /\ [][Next]_vars

\* The caller's goroutine runs scanner and loop.  Nothing is assumed of the
\* service: the client sets no timeout, so a silent stream blocks the call.
FairSpec == Spec /\ WF_vars(Scanning) /\ WF_vars(Caller)

-----------------------------------------------------------------------------
TypeOK ==
  /\ useSSE \in BOOLEAN /\ callback \in BOOLEAN
  /\ layout \in Layouts
  /\ job \in Seq(EventNames) /\ Len(job) <= Len(Payloads)
  /\ cpc \in {"send", "stream", "returned"}
  /\ count \in 0 .. Len(Payloads)
  /\ updates \in Seq(EventNames \X DOMAIN Payloads)
  /\ result.event \in 0 .. Len(Payloads)

\* The call, cut streams included, is one that ParseWatch allows: callbacks in
\* the job's order under their own names, success only from the event that
\* ended the job (parse_get.go:151-193, iter.go:104-153).
Watch == INSTANCE ParseWatch WITH MaxEvents <- Len(Payloads)
ImplementsParseWatch == Watch!Spec

\* What was read whole is not lost.  When the lines of all the job's events have
\* been read, up to and with a terminal one, the call has that event's outcome.
\* And wherever the stream is cut, each event of which every line was read was
\* counted, or the call returns with it, and the callback has been told, unless
\* the call gives up for an event it does not know (parse_get.go:143-193).
OutcomeIsReported ==
  /\ cpc = "returned" /\ job # <<>> /\ Last(job) \in Terminal
  /\ Range(job) \subseteq Progress \cup Terminal
  /\ read = text
  => result.kind = IF Last(job) = "parse_done" THEN "ok" ELSE "failed"
EventsAreReported ==
  cpc = "returned" /\ result.kind # "unknownEvent" =>
    \A n \in 1 .. Len(job) : ReadWhole(n) =>
      /\ n <= count \/ n = result.event
      /\ callback => n <= Len(updates)
WholeStreamIsReported == OutcomeIsReported /\ EventsAreReported

\* When the stream ends the call returns.
ReturnsWhenStreamEnds == ending # "open" ~> cpc = "returned"
=============================================================================
