------------------------- MODULE HTTPDispatchProofs -------------------------
(* Every call of the library reports what the service answered and releases *)
(* the body of the answer, whatever its length and wherever it is cut.      *)
EXTENDS HTTPDispatch, TLAPS

Dispatchers == {"do", "doSandbox", "doSandboxAPI"}
Readings == {"nothing", "json", "all", "stream"}

\* The rows of the table.
LEMMA CallRows ==
  ASSUME NEW c \in Calls
  PROVE  /\ c.via \in Dispatchers /\ c.reads \in Readings /\ c.method \in Methods
         /\ c.via = "doSandbox" =>
              c.closes = IF c.reads = "nothing" THEN "now" ELSE "defer"
         /\ c.via # "doSandbox" => c.reads \in {"nothing", "json"}
  BY DEF Calls, Row, SandboxRow, Needing, Dispatchers, Readings, Methods,
     CreateSandbox, GetSandbox, ListSandboxes, UpdateSandbox, SnapshotSandbox,
     DeleteSandbox, SuspendSandbox, ResumeSandbox, ReadSandboxFile,
     WriteSandboxFile, ListSandboxDirectory, DeleteSandboxFile, StartProcess,
     GetProcess, ListProcesses, GetProcessStdout, GetProcessStderr,
     GetProcessOutput, KillProcess, SignalProcess, WriteProcessStdin,
     CloseProcessStdin, FollowProcess, CreatePTY, GetPTY, ListPTY, ResizePTY,
     KillPTY, ParseDocument, ReadDocument, ExtractDocument, ClassifyDocument,
     GetParseResult, ListParseJobs, DeleteParseJob, CreateDataset, GetDataset,
     UpdateDataset, ListDatasets, ListDatasetData, ParseDataset, DeleteDataset,
     ListFiles, GetFileMetadata, DeleteFile

\* The fields of an answer.
LEMMA AnswerFields ==
  ASSUME NEW a \in Answers \cup {NoAnswer}
  PROVE  /\ a.status \in {"none", "ok", "other", "error"} /\ a.json \in BOOLEAN
         /\ a.size \in Nat /\ (a.json => a.size > 0)
         /\ a = NoAnswer => a.status = "none" /\ ~a.json /\ a.size = 0
<1>1. CASE a \in Answers
  <2>1. a \in [status : {"ok", "other", "error"}, json : BOOLEAN, size : 0 .. MaxSize]
        /\ (a.json => a.size > 0)
    BY <1>1 DEF Answers
  <2>2. a.status \in {"ok", "other", "error"} /\ a.json \in BOOLEAN /\ a.size \in 0 .. MaxSize
    BY <2>1
  <2>3. a.size \in Nat /\ a # NoAnswer
    BY <2>2, DispatchAssumption DEF NoAnswer
  <2> QED
    BY <2>1, <2>2, <2>3
<1>2. CASE a = NoAnswer
  BY <1>2 DEF NoAnswer
<1> QED
  BY <1>1, <1>2

\* Every variable keeps its type: in particular no read goes beyond the body.
LEMMA NextTypeOK ==
  ASSUME TypeOK, DispatchInv, [Next]_vars
  PROVE  TypeOK'
<1> USE DEF TypeOK, Results, Methods
<1>1. answer.size \in Nat /\ pos \in Nat /\ from \in Nat
  BY AnswerFields
<1>2. CASE Reject \/ DoFails
  BY <1>2 DEF Reject, DoFails, Return
<1>3. CASE Execute \/ CarryOut \/ Redirect
  BY <1>3 DEF Execute, CarryOut, Redirect
<1>4. CASE Answer
  <2>1. pos = 0 /\ from = 0 /\ answer' \in Answers
    BY <1>4 DEF Answer, DispatchInv
  <2>2. answer'.size \in Nat
    BY <2>1, AnswerFields
  <2> QED
    BY <1>4, <2>1, <2>2 DEF Answer
<1>5. CASE Handle
  BY <1>5 DEF Handle, Return
<1>13. CASE HandOver \/ CloseUnread
  BY <1>13 DEF HandOver, CloseUnread
<1>14. CASE TakeBody
  <2>1. call.reads \in Readings
    BY CallRows
  <2> QED
    BY <1>14, <2>1 DEF TakeBody, Readings
<1>15. CASE EndStream
  BY <1>15 DEF EndStream, Return
<1>6. CASE HandleError
  BY <1>6 DEF HandleError
<1>7. CASE Read
  BY <1>1, <1>7 DEF Read, Wanted
<1>8. CASE ReadFails
  BY <1>8 DEF ReadFails
<1>9. CASE Decoded
  <2>1. call.via \in Dispatchers
    BY CallRows
  <2>2. pc = "json" \/ call.via \in {"do", "doSandbox"}
    BY <1>9, <2>1 DEF Decoded, Decoding, DispatchInv, Dispatchers
  <2> QED
    BY <1>9, <2>2 DEF Decoded, Return
<1>10. CASE NotDecoded
  <2>1. \/ pc' = "text" /\ from' = pos /\ UNCHANGED <<body, deferred, result>>
        \/ pc' = "over" /\ result' = "error" /\ deferred' = FALSE /\ body' \in {body, "closed"}
           /\ from' = from
    BY <1>10 DEF NotDecoded, Return
  <2>2. UNCHANGED <<call, input, sent, done, answer, pos, broken>>
    BY <1>10 DEF NotDecoded
  <2>3. from' \in 0 .. pos'
    BY <1>1, <2>1, <2>2
  <2>4. pc' \in {"text", "over"} /\ result' \in {result, "error"} /\ deferred' \in BOOLEAN
        /\ body' \in {"none", "open", "closed"}
    BY <2>1
  <2> QED
    BY <2>2, <2>3, <2>4
<1>11. CASE ReadWhole \/ ReadText
  BY <1>11 DEF ReadWhole, ReadText, Return
<1>12. CASE UNCHANGED vars
  BY <1>12 DEF vars
<1> QED
  BY <1>2, <1>3, <1>4, <1>5, <1>6, <1>7, <1>8, <1>9, <1>10, <1>11, <1>12,
     <1>13, <1>14, <1>15 DEF Next

\* Every step keeps what a body is read for and what a result follows from.
LEMMA NextDispatchInv ==
  ASSUME TypeOK, DispatchInv, [Next]_vars
  PROVE  DispatchInv'
<1> USE DEF DispatchInv, Accepted, Reading, BodyIsReleased, SuccessIsWhole, RefusalIsReported,
        SuccessIsCarriedOut
<1>1. /\ call.via \in Dispatchers /\ call.reads \in Readings
      /\ answer.status \in {"none", "ok", "other", "error"} /\ answer.json \in BOOLEAN
      /\ answer.size \in Nat /\ (answer.json => answer.size > 0)
      /\ pos \in 0 .. answer.size /\ from \in 0 .. pos /\ broken \in BOOLEAN
      /\ call.via = "doSandbox" =>
           call.closes = IF call.reads = "nothing" THEN "now" ELSE "defer"
      /\ call.via # "doSandbox" => call.reads \in {"nothing", "json"}
  BY CallRows, AnswerFields DEF TypeOK
<1>2. NoAnswer.status = "none"
  BY DEF NoAnswer
<1>3. CASE Reject \/ DoFails
  BY <1>2, <1>3 DEF Reject, DoFails, Return
<1>4. CASE Execute \/ CarryOut \/ Redirect
  BY <1>2, <1>4 DEF Execute, CarryOut, Redirect
<1>5. CASE Answer
  <2>1. answer'.status \in {"ok", "other", "error"}
    BY <1>5 DEF Answer, Answers
  <2> QED
    BY <1>5, <2>1 DEF Answer
<1>6. CASE Handle
  BY <1>1, <1>6 DEF Handle, Return, Dispatchers, Readings
<1>15. CASE HandOver
  BY <1>1, <1>15 DEF HandOver
<1>16. CASE CloseUnread
  BY <1>1, <1>16 DEF CloseUnread
<1>17. CASE TakeBody
  BY <1>1, <1>17 DEF TakeBody, Readings
<1>18. CASE EndStream
  BY <1>1, <1>18 DEF EndStream, Return
<1>7. CASE HandleError
  <2>1. pos = 0 /\ from = 0 /\ ~broken /\ body = "open"
    BY <1>7 DEF HandleError
  <2>2. pos' - from' <= Limit
    BY <1>7, <2>1, DispatchAssumption DEF HandleError
  <2> QED
    BY <1>1, <1>7, <2>1, <2>2 DEF HandleError, Dispatchers
<1>8. CASE Read
  <2>1. pos \in Nat /\ from \in Nat /\ Limit \in Nat
    BY <1>1, DispatchAssumption
  <2>2. pc' = "text" => pos' - from' <= Limit
    BY <1>8, <2>1 DEF Read, Wanted
  <2> QED
    BY <1>1, <1>8, <2>1, <2>2 DEF Read, Reading, Wanted
<1>9. CASE ReadFails
  BY <1>1, <1>9 DEF ReadFails, Reading, Wanted
<1>10. CASE Decoded
  BY <1>1, <1>10 DEF Decoded, Decoding, Wanted, Return, Dispatchers
<1>11. CASE NotDecoded
  <2>1. pc' = "text" => pos' - from' <= Limit
    BY <1>1, <1>11, DispatchAssumption DEF NotDecoded, Return
  <2> QED
    BY <1>1, <1>11, <2>1 DEF NotDecoded, Decoding, Wanted, Return, Dispatchers
<1>12. CASE ReadWhole
  BY <1>1, <1>12 DEF ReadWhole, Decoding, Wanted, Return, Dispatchers
<1>13. CASE ReadText
  BY <1>1, <1>13, DispatchAssumption DEF ReadText, Decoding, Wanted, Return, Dispatchers
<1>14. CASE UNCHANGED vars
  BY <1>14 DEF vars
<1> QED
  BY <1>3, <1>4, <1>5, <1>6, <1>7, <1>8, <1>9, <1>10, <1>11, <1>12, <1>13, <1>14,
     <1>15, <1>16, <1>17, <1>18
  DEF Next

\* Types and the reasons of every reading hold in every state.
LEMMA Invariance == Spec => [](TypeOK /\ DispatchInv)
<1>1. Init => TypeOK /\ DispatchInv
  <2> SUFFICES ASSUME Init PROVE TypeOK /\ DispatchInv
    OBVIOUS
  <2>1. answer.size = 0 /\ answer = NoAnswer
    BY DEF Init, NoAnswer
  <2>0. sent \in Methods
    BY CallRows DEF Init
  <2>2. answer \in Answers \cup {NoAnswer} /\ pos \in 0 .. answer.size /\ from \in 0 .. pos
    BY <2>1 DEF Init
  <2>a. TypeOK
    BY <2>0, <2>2 DEF Init, TypeOK, Results
  <2>3. DispatchInv
    BY <2>1, DispatchAssumption
    DEF Init, NoAnswer, DispatchInv, Reading, BodyIsReleased, SuccessIsWhole, RefusalIsReported,
        SuccessIsCarriedOut
  <2> QED
    BY <2>a, <2>3
<1>2. TypeOK /\ DispatchInv /\ [Next]_vars => (TypeOK /\ DispatchInv)'
  BY NextTypeOK, NextDispatchInv
<1> QED
  BY <1>1, <1>2, PTL DEF Spec

\* Every variable of a call keeps its type (client.go:101-132).
THEOREM TypeCorrect == Spec => []TypeOK
  BY Invariance, PTL

\* No call leaves a body open, and none reads a closed one: neither the dispatchers
\* nor any of the callers doSandbox hands a body to (client.go:111, sandbox.go:109,
\* sandbox_api.go:134, sandbox_file_read.go:48, sandbox_process_follow_output.go:49).
THEOREM Released == Spec => []BodyIsReleased
<1>1. DispatchInv => BodyIsReleased
  BY DEF DispatchInv
<1> QED
  BY <1>1, Invariance, PTL

\* A cut body is never taken for a whole one (sandbox_file_read.go:50-54).
THEOREM WholeSuccess == Spec => []SuccessIsWhole
<1>1. DispatchInv => SuccessIsWhole
  BY DEF DispatchInv
<1> QED
  BY <1>1, Invariance, PTL

\* A refusal is an error of the kind the documents promise (client.go:120-125,
\* sandbox.go:108-116, sandbox_api.go:143-145).
THEOREM Reported == Spec => []RefusalIsReported
<1>1. DispatchInv => RefusalIsReported
  BY DEF DispatchInv
<1> QED
  BY <1>1, Invariance, PTL

\* A call reports as done only what was done, but for a 3xx of a file, process or
\* PTY call and for a redirected call (sandbox.go:100-118, client.go:107-118).
THEOREM CarriedOut == Spec => []SuccessIsCarriedOut
<1>1. DispatchInv => SuccessIsCarriedOut
  BY DEF DispatchInv
<1> QED
  BY <1>1, Invariance, PTL

\* How many steps a call can still take: what the service may do before it answers,
\* then the pieces of the answer, a read that fails and the ways of reading.
Switches == CASE pc = "over" -> 0
              [] pc \in {"json", "all", "text", "stream"} -> 1
              [] pc \in {"error", "caller"} -> 2
              [] pc = "switch" -> 3
PiecesLeft == (answer.size - pos) + (IF broken THEN 0 ELSE 1)
StepsLeft == IF pc \in {"new", "do"}
             THEN MaxSize + 5 + (IF pc = "new" THEN 1 ELSE 0) + (IF done THEN 0 ELSE 1)
                  + (IF sent = "GET" THEN 0 ELSE 1)
             ELSE Switches + PiecesLeft

\* No call goes round for ever: every step brings its return nearer, though doSandbox
\* reads a body a second time when it was not the JSON it expects and a read may fail
\* at any piece (client.go:107-131, sandbox.go:100-131, sandbox_api.go:129-146).
THEOREM StepsAreBounded == Spec => [][StepsLeft' \in Nat /\ StepsLeft' < StepsLeft]_vars
<1> DEFINE Nearer == StepsLeft' \in Nat /\ StepsLeft' < StepsLeft
<1>1. TypeOK /\ DispatchInv /\ [Next]_vars => [Nearer]_vars
  <2> SUFFICES ASSUME TypeOK, DispatchInv, Next PROVE Nearer \/ UNCHANGED vars
    BY DEF vars
  <2>1. /\ MaxSize \in Nat /\ answer.size \in Nat /\ pos \in 0 .. answer.size
        /\ answer.size - pos \in Nat
    BY DispatchAssumption, AnswerFields DEF TypeOK
  <2>0. answer.size <= MaxSize
    <3>1. NoAnswer.size = 0 /\ \A a \in Answers : a.size \in 0 .. MaxSize
      BY DEF NoAnswer, Answers
    <3> QED
      BY <2>1, <3>1 DEF TypeOK
  <2>2. ASSUME pc # "over", pc' = "over", UNCHANGED <<answer, pos, broken>>
        PROVE  Nearer
    <3>1. PiecesLeft \in Nat /\ PiecesLeft' = PiecesLeft /\ PiecesLeft <= MaxSize + 1
      BY <2>1, <2>2, <2>0 DEF PiecesLeft
    <3>2. /\ StepsLeft' = PiecesLeft
          /\ StepsLeft \in Nat /\ StepsLeft >= PiecesLeft + 1
      <4>1. pc \in {"new", "do"} => StepsLeft \in Nat /\ StepsLeft >= MaxSize + 5
        BY <2>1 DEF StepsLeft
      <4>2. pc \notin {"new", "do"} => StepsLeft \in {PiecesLeft + i : i \in 1 .. 3}
        BY <2>2, <3>1 DEF StepsLeft, Switches, TypeOK
      <4>3. StepsLeft' = 0 + PiecesLeft
        BY <2>2, <3>1 DEF StepsLeft, Switches
      <4> QED
        BY <2>1, <3>1, <4>1, <4>2, <4>3
    <3> QED
      BY <3>1, <3>2
  <2>3. CASE Execute
    BY <2>1, <2>3 DEF Execute, StepsLeft
  <2>4. CASE CarryOut
    BY <2>1, <2>4 DEF CarryOut, StepsLeft
  <2>5. CASE Redirect
    BY <2>1, <2>5 DEF Redirect, StepsLeft
  <2>6. CASE Answer
    <3>1. pc = "do" /\ pc' = "switch" /\ answer' \in Answers /\ pos' = pos /\ broken' = broken
      BY <2>6 DEF Answer
    <3>2. answer'.size \in 0 .. MaxSize /\ pos = 0 /\ ~broken
      BY <3>1 DEF Answers, DispatchInv
    <3> QED
      BY <2>1, <3>1, <3>2 DEF StepsLeft, Switches, PiecesLeft
  <2>7. CASE Handle \/ HandOver \/ HandleError
    <3>1. /\ pc = "switch" /\ pc' \in {"json", "caller", "error", "text", "over"}
          /\ answer' = answer /\ pos' = pos /\ broken' = broken
      BY <2>7 DEF Handle, HandOver, HandleError, Return
    <3> QED
      BY <2>1, <2>2, <3>1 DEF StepsLeft, Switches, PiecesLeft
  <2>12. CASE TakeBody
    <3>1. call.reads \in Readings
      BY CallRows DEF TypeOK
    <3>2. /\ pc = "caller" /\ pc' \in {"json", "all", "stream"}
          /\ answer' = answer /\ pos' = pos /\ broken' = broken
      BY <2>12, <3>1 DEF TakeBody, Readings
    <3> QED
      BY <2>1, <3>2 DEF StepsLeft, Switches, PiecesLeft
  <2>8. CASE Read
    <3>1. /\ pc \in {"json", "error", "all", "text", "stream"} /\ pos < answer.size /\ pos' = pos + 1
          /\ answer' = answer /\ pc' = pc /\ broken' = broken
      BY <2>8 DEF Read, Reading, Wanted
    <3> QED
      BY <2>1, <3>1 DEF StepsLeft, Switches, PiecesLeft
  <2>9. CASE ReadFails
    <3>1. /\ pc \in {"json", "error", "all", "text", "stream"} /\ ~broken /\ broken'
          /\ answer' = answer /\ pc' = pc /\ pos' = pos
      BY <2>9 DEF ReadFails, Reading, Wanted
    <3> QED
      BY <2>1, <3>1 DEF StepsLeft, Switches, PiecesLeft
  <2>10. CASE NotDecoded
    <3>1. /\ pc \in {"json", "error"} /\ ((pc = "error" /\ pc' = "text") \/ pc' = "over")
          /\ answer' = answer /\ pos' = pos /\ broken' = broken
      BY <2>10 DEF NotDecoded, Decoding, Return
    <3> QED
      BY <2>1, <2>2, <3>1 DEF StepsLeft, Switches, PiecesLeft
  <2>11. CASE Reject \/ DoFails \/ CloseUnread \/ Decoded \/ ReadWhole \/ ReadText \/ EndStream
    <3>1. pc # "over" /\ pc' = "over" /\ UNCHANGED <<answer, pos, broken>>
      BY <2>11 DEF Reject, DoFails, CloseUnread, Decoded, Decoding, ReadWhole, ReadText,
         EndStream, Return
    <3> QED
      BY <2>2, <3>1
  <2> QED
    BY <2>3, <2>4, <2>5, <2>6, <2>7, <2>8, <2>9, <2>10, <2>11, <2>12
       DEF Next
<1> HIDE DEF Nearer
<1>2. Spec => [][Nearer]_vars
  BY <1>1, Invariance, PTL DEF Spec
<1> QED
  BY <1>2 DEF Nearer
=============================================================================
