-------------------------- MODULE UploadFileProofs --------------------------
(***************************************************************************)
(* Proofs about UploadFile for files of any length: what the transport has *)
(* been handed is determined by the position of the writing goroutine, and *)
(* the goroutine's one report ties that position to the caller.            *)
(***************************************************************************)
EXTENDS UploadFile, SequenceTheorems, TLAPS

\* The tokens of the body, and that only the last of them is the boundary.
LEMMA Tokens ==
  /\ FileHeader \in Token /\ Labels \in Token /\ Boundary \in Token
  /\ \A n \in Nat : Chunk(n) \in Token /\ Chunk(n) # Boundary
  /\ FileHeader # Boundary /\ Labels # Boundary
BY DEF Token, FileHeader, Labels, Boundary, Chunk

\* The file part is a sequence of n + 1 tokens that does not end the body.
LEMMA FilePartSeq ==
  ASSUME NEW n \in Nat
  PROVE  /\ FilePart(n) \in Seq(Token)
         /\ Len(FilePart(n)) = n + 1
         /\ \A i \in 1 .. n + 1 :
              /\ FilePart(n)[i] = IF i = 1 THEN FileHeader ELSE Chunk(i - 1)
              /\ FilePart(n)[i] # Boundary
<1>1. \A i \in 1 .. n + 1 : i = 1 \/ i - 1 \in Nat
  OBVIOUS
<1>2. FilePart(n) \in [1 .. n + 1 -> Token]
  BY <1>1, Tokens DEF FilePart
<1>3. \A i \in 1 .. n + 1 : FilePart(n)[i] # Boundary
  BY <1>1, Tokens DEF FilePart
<1> QED
  BY <1>2, <1>3 DEF FilePart

\* Handing over the next chunk extends the file part by that chunk.
LEMMA FilePartAppend ==
  ASSUME NEW n \in Nat
  PROVE  Append(FilePart(n), Chunk(n + 1)) = FilePart(n + 1)
<1> DEFINE s == Append(FilePart(n), Chunk(n + 1))
<1>1. n + 1 \in Nat
  OBVIOUS
<1>2. /\ s \in Seq(Token) /\ Len(s) = n + 2
      /\ \A i \in 1 .. n + 1 : s[i] = FilePart(n)[i]
      /\ s[n + 2] = Chunk(n + 1)
  <2>1. FilePart(n) \in Seq(Token) /\ Len(FilePart(n)) = n + 1
    BY FilePartSeq
  <2>2. Chunk(n + 1) \in Token
    BY <1>1, Tokens
  <2> QED
    BY <2>1, <2>2, AppendProperties
<1>3. /\ FilePart(n + 1) \in Seq(Token) /\ Len(FilePart(n + 1)) = n + 2
      /\ \A i \in 1 .. n + 2 :
           FilePart(n + 1)[i] = IF i = 1 THEN FileHeader ELSE Chunk(i - 1)
  BY <1>1, FilePartSeq
<1>4. \A i \in 1 .. n + 2 : s[i] = FilePart(n + 1)[i]
  <2> SUFFICES ASSUME NEW i \in 1 .. n + 2 PROVE s[i] = FilePart(n + 1)[i]
    OBVIOUS
  <2>1. CASE i \in 1 .. n + 1
    <3>1. FilePart(n)[i] = IF i = 1 THEN FileHeader ELSE Chunk(i - 1)
      BY <2>1, FilePartSeq
    <3>2. s[i] = FilePart(n)[i]
      BY <1>2, <2>1
    <3> QED
      BY <1>3, <3>1, <3>2
  <2>2. CASE i = n + 2
    <3>1. FilePart(n + 1)[n + 2] = Chunk(n + 1)
      BY <1>3
    <3> QED
      BY <1>2, <2>2, <3>1
  <2>3. i \in 1 .. n + 1 \/ i = n + 2
    OBVIOUS
  <2> QED
    BY <2>1, <2>2, <2>3
<1> HIDE DEF s
<1>5. s = FilePart(n + 1)
  BY <1>2, <1>3, <1>4, SeqEqual
<1> QED
  BY <1>5 DEF s

\* The header alone is the file part of no chunks.
LEMMA FilePartStart == Append(<<>>, FileHeader) = FilePart(0)
<1> DEFINE s == Append(<<>>, FileHeader)
<1>1. s \in Seq(Token) /\ Len(s) = 1 /\ s[1] = FileHeader
  BY Tokens
<1>2. /\ FilePart(0) \in Seq(Token) /\ Len(FilePart(0)) = 1
      /\ FilePart(0)[1] = FileHeader
  BY FilePartSeq DEF FilePart
<1> HIDE DEF s
<1>3. s = FilePart(0)
  BY <1>1, <1>2, SeqEqual
<1> QED
  BY <1>3 DEF s

\* Content is a sequence of tokens whose last one is not the boundary, and the
\* whole body ends in the boundary.
LEMMA ContentSeq ==
  ASSUME TypeOK
  PROVE  /\ Content \in Seq(Token) /\ Content # <<>>
         /\ Content[Len(Content)] # Boundary
         /\ WholeBody \in Seq(Token) /\ WholeBody # <<>>
         /\ WholeBody[Len(WholeBody)] = Boundary
<1>1. req.size \in Nat /\ req.labels \in BOOLEAN
  BY MaxChunksAssumption DEF TypeOK
<1> DEFINE n == req.size
<1>2. /\ FilePart(n) \in Seq(Token)
      /\ Len(FilePart(n)) = n + 1
      /\ FilePart(n)[n + 1] # Boundary
  <2>1. n + 1 \in 1 .. n + 1
    BY <1>1
  <2> QED
    BY <1>1, <2>1, FilePartSeq
<1>3. Labels \in Token /\ Boundary \in Token /\ Labels # Boundary
  BY Tokens
<1>4. /\ Content \in Seq(Token) /\ Len(Content) > 0
      /\ Content[Len(Content)] # Boundary
  BY <1>1, <1>2, <1>3 DEF Content
<1> QED
  BY <1>3, <1>4 DEF WholeBody

-----------------------------------------------------------------------------
LEMMA InitInv == Init => IInv
<1> SUFFICES ASSUME Init PROVE IInv
  OBVIOUS
<1>1. TypeOK
  <2>1. nread \in 0 .. req.size
    BY MaxChunksAssumption DEF Init
  <2>2. errChan \in Seq({"nil", "read", "write"}) /\ Len(errChan) <= 1
    BY DEF Init
  <2>3. sent \in Seq(Token)
    BY DEF Init
  <2> QED
    BY <2>1, <2>2, <2>3 DEF Init, TypeOK, UploadPCs, WriterPCs
<1>2. BodyInv /\ PipeInv /\ ReportInv
  BY DEF Init, BodyInv, PipeInv, ReportInv, Reported
<1> QED
  BY <1>1, <1>2 DEF IInv

\* Type correctness is inductive on its own except for the channel, which needs
\* ReportInv: the goroutine reports once.
LEMMA NextTypeOK == TypeOK /\ ReportInv /\ [Next]_vars => TypeOK'
<1> SUFFICES ASSUME TypeOK, ReportInv, [Next]_vars PROVE TypeOK'
  OBVIOUS
<1> USE MaxChunksAssumption DEF TypeOK, UploadPCs, WriterPCs, Defects,
        vars, caller, goroutine, pipe, external
<1>1. CASE Reject
  <2>1. rclosed' \in BOOLEAN /\ wclosed' \in BOOLEAN
    BY <1>1 DEF Reject
  <2> QED
    BY <1>1, <2>1 DEF Reject, Return
<1>2. CASE Spawn
  BY <1>2 DEF Spawn
<1>3. CASE DoReturns
  BY <1>3 DEF DoReturns
<1>4. CASE CloseReader
  BY <1>4 DEF CloseReader
<1>5. CASE Drain
  BY <1>5 DEF Drain, Return
<1>6. CASE Await
  BY <1>6 DEF Await, Return, Outcomes
<1>7. CASE WriteFails
  BY <1>7 DEF WriteFails
<1>8. CASE ReadFile
  BY <1>8 DEF ReadFile, AfterEOF
<1>9. CASE Report
  <2>1. errChan = <<>>
    BY <1>9 DEF Report, ReportInv, Reported
  <2> QED
    BY <1>9, <2>1 DEF Report
<1>10. CASE ClosePipe
  BY <1>10 DEF ClosePipe
<1>11. CASE TransportRead
  <2>1. nread \in Nat
    OBVIOUS
  <2>2. Offered \in Token /\ AfterWrite \in WriterPCs
    BY <1>11, <2>1, Tokens DEF TransportRead, Writing, Offered, AfterWrite
  <2> QED
    BY <1>11, <2>2 DEF TransportRead
<1>12. CASE TransportEOF
  BY <1>12 DEF TransportEOF
<1>13. CASE TransportAbort
  BY <1>13 DEF TransportAbort
<1>14. CASE ServerStores
  BY <1>14 DEF ServerStores
<1>15. CASE ServerResponds
  BY <1>15 DEF ServerResponds
<1>16. CASE DoFails
  <2>1. rclosed' \in BOOLEAN
    BY <1>16 DEF DoFails
  <2> QED
    BY <1>16, <2>1 DEF DoFails
<1>17. CASE UNCHANGED vars
  BY <1>17
<1> QED
  BY <1>1, <1>2, <1>3, <1>4, <1>5, <1>6, <1>7, <1>8, <1>9, <1>10, <1>11,
     <1>12, <1>13, <1>14, <1>15, <1>16, <1>17
  DEF Next, Caller, Goroutine, Transport, Answer, Terminated

\* The body handed over follows the goroutine: only TransportRead extends it.
LEMMA NextBodyInv == IInv /\ [Next]_vars => BodyInv'
<1> SUFFICES ASSUME TypeOK, BodyInv, PipeInv, ReportInv, [Next]_vars
             PROVE  BodyInv'
  BY DEF IInv
<1> USE DEF BodyInv, Reported, Content, WholeBody, vars, caller, goroutine,
        pipe, external
<1>1. CASE Reject
  BY <1>1 DEF Reject, Return
<1>2. CASE Spawn
  BY <1>2 DEF Spawn, ReportInv
<1>3. CASE DoReturns
  BY <1>3 DEF DoReturns
<1>4. CASE CloseReader
  BY <1>4 DEF CloseReader
<1>5. CASE Drain
  BY <1>5 DEF Drain, Return
<1>6. CASE Await
  BY <1>6 DEF Await, Return
<1>7. CASE WriteFails
  BY <1>7 DEF WriteFails, Writing
<1>8. CASE ReadFile
  <2>1. nread \in Nat /\ req.size \in Nat /\ req.labels \in BOOLEAN
    BY MaxChunksAssumption DEF TypeOK
  <2>2. UNCHANGED <<req, sent>> /\ wpc = "read" /\ sent = FilePart(nread)
    BY <1>8 DEF ReadFile
  <2>3. CASE nread' = nread + 1 /\ wpc' = "write"
    <3>1. nread' > 0 /\ nread' - 1 = nread
      BY <2>1, <2>3
    <3> QED
      BY <2>2, <2>3, <3>1
  <2>4. CASE nread = req.size /\ wpc' = AfterEOF
    BY <2>1, <2>2, <2>4 DEF AfterEOF
  <2>5. CASE wpc' = "report" /\ werr' = "read"
    BY <2>2, <2>5
  <2> QED
    BY <1>8, <2>3, <2>4, <2>5 DEF ReadFile
<1>9. CASE Report
  BY <1>9 DEF Report
<1>10. CASE ClosePipe
  BY <1>10 DEF ClosePipe
<1>11. CASE TransportRead
  <2>1. nread \in Nat /\ UNCHANGED <<req, nread, werr>>
    BY <1>11, MaxChunksAssumption DEF TransportRead, TypeOK
  <2>2. sent' = Append(sent, Offered) /\ wpc' = AfterWrite
    BY <1>11 DEF TransportRead
  <2>3. CASE wpc = "header"
    <3>1. wpc' = "read" /\ sent' = Append(<<>>, FileHeader)
      BY <2>2, <2>3 DEF Offered, AfterWrite
    <3>2. nread = 0
      BY <2>3 DEF ReportInv
    <3> QED
      BY <2>1, <3>1, <3>2, FilePartStart
  <2>4. CASE wpc = "write"
    <3>1. wpc' = "read" /\ sent' = Append(FilePart(nread - 1), Chunk(nread))
      BY <2>2, <2>4 DEF Offered, AfterWrite
    <3>2. nread - 1 \in Nat /\ (nread - 1) + 1 = nread
      BY <2>1, <2>4
    <3>3. Append(FilePart(nread - 1), Chunk(nread)) = FilePart(nread)
      BY <3>2, FilePartAppend
    <3> QED
      BY <2>1, <3>1, <3>3
  <2>5. CASE wpc = "labels"
    BY <2>1, <2>2, <2>5 DEF Offered, AfterWrite
  <2>6. CASE wpc = "closeWriter"
    <3>1. wpc' = "closePipe" /\ sent' = Append(sent, Boundary)
      BY <2>2, <2>6 DEF Offered, AfterWrite
    <3>2. werr = "nil" => sent = Content
      BY <2>6, ContentSeq DEF ReportInv
    <3> QED
      BY <2>1, <3>1, <3>2
  <2> QED
    BY <1>11, <2>3, <2>4, <2>5, <2>6 DEF TransportRead, Writing
<1>12. CASE TransportEOF
  BY <1>12 DEF TransportEOF
<1>13. CASE TransportAbort
  BY <1>13 DEF TransportAbort
<1>14. CASE ServerStores
  BY <1>14 DEF ServerStores
<1>15. CASE ServerResponds
  BY <1>15 DEF ServerResponds
<1>16. CASE DoFails
  BY <1>16 DEF DoFails
<1>17. CASE UNCHANGED vars
  BY <1>17
<1> QED
  BY <1>1, <1>2, <1>3, <1>4, <1>5, <1>6, <1>7, <1>8, <1>9, <1>10, <1>11,
     <1>12, <1>13, <1>14, <1>15, <1>16, <1>17
  DEF Next, Caller, Goroutine, Transport, Answer, Terminated

\* The goroutine writes the boundary, closes the pipe, exits: end of file can
\* only be read after that.
LEMMA NextPipeInv == IInv /\ [Next]_vars => PipeInv'
<1> SUFFICES ASSUME TypeOK, PipeInv, ReportInv, [Next]_vars PROVE PipeInv'
  BY DEF IInv
<1> USE DEF PipeInv, vars, caller, goroutine, pipe, external
<1>1. CASE Reject
  BY <1>1 DEF Reject, Return, ReportInv
<1>2. CASE Spawn
  BY <1>2 DEF Spawn, ReportInv
<1>3. CASE DoReturns
  BY <1>3 DEF DoReturns
<1>4. CASE CloseReader
  BY <1>4 DEF CloseReader
<1>5. CASE Drain
  BY <1>5 DEF Drain, Return
<1>6. CASE Await
  BY <1>6 DEF Await, Return, Outcomes
<1>7. CASE WriteFails
  BY <1>7 DEF WriteFails, Writing
<1>8. CASE ReadFile
  BY <1>8 DEF ReadFile, AfterEOF
<1>9. CASE Report
  BY <1>9 DEF Report
<1>10. CASE ClosePipe
  BY <1>10 DEF ClosePipe
<1>11. CASE TransportRead
  <2>1. Offered \in Token /\ sent \in Seq(Token)
    <3>1. nread \in Nat
      BY MaxChunksAssumption DEF TypeOK
    <3> QED
      BY <1>11, <3>1, Tokens DEF TransportRead, Writing, Offered, TypeOK
  <2>2. /\ sent' = Append(sent, Offered) /\ sent' # <<>>
        /\ sent'[Len(sent')] = Offered
    BY <1>11, <2>1 DEF TransportRead
  <2>3. wpc' \in {"closePipe", "exited"} => Offered = Boundary
    BY <1>11 DEF TransportRead, Writing, Offered, AfterWrite
  <2>4. wpc' # "idle" /\ ~wclosed /\ ~eof
    BY <1>11 DEF TransportRead, Writing, AfterWrite
  <2> QED
    BY <1>11, <2>2, <2>3, <2>4 DEF TransportRead
<1>12. CASE TransportEOF
  BY <1>12 DEF TransportEOF, InFlight
<1>13. CASE TransportAbort
  BY <1>13 DEF TransportAbort
<1>14. CASE ServerStores
  BY <1>14 DEF ServerStores
<1>15. CASE ServerResponds
  BY <1>15 DEF ServerResponds
<1>16. CASE DoFails
  BY <1>16 DEF DoFails
<1>17. CASE UNCHANGED vars
  BY <1>17
<1> QED
  BY <1>1, <1>2, <1>3, <1>4, <1>5, <1>6, <1>7, <1>8, <1>9, <1>10, <1>11,
     <1>12, <1>13, <1>14, <1>15, <1>16, <1>17
  DEF Next, Caller, Goroutine, Transport, Answer, Terminated

\* One report reaches the caller, and it is the goroutine's last error.
LEMMA NextReportInv == IInv /\ [Next]_vars => ReportInv'
<1> SUFFICES ASSUME TypeOK, PipeInv, ReportInv, [Next]_vars PROVE ReportInv'
  BY DEF IInv
<1> USE DEF ReportInv, Reported, vars, caller, goroutine, pipe, external
<1>1. CASE Reject
  BY <1>1 DEF Reject, Return
<1>2. CASE Spawn
  BY <1>2 DEF Spawn
<1>3. CASE DoReturns
  BY <1>3 DEF DoReturns, TypeOK
<1>4. CASE CloseReader
  BY <1>4 DEF CloseReader
<1>5. CASE Drain
  BY <1>5 DEF Drain, Return, TypeOK
<1>6. CASE Await
  BY <1>6 DEF Await, Return, Outcomes, TypeOK
<1>7. CASE WriteFails
  BY <1>7 DEF WriteFails, Writing
<1>8. CASE ReadFile
  BY <1>8 DEF ReadFile, AfterEOF
<1>9. CASE Report
  <2>1. errChan = <<>> /\ errChan' = <<werr>>
    <3>1. errChan = <<>> /\ errChan' = Append(errChan, werr)
      BY <1>9 DEF Report
    <3> QED
      BY <3>1
  <2> QED
    BY <1>9, <2>1 DEF Report
<1>10. CASE ClosePipe
  BY <1>10 DEF ClosePipe
<1>11. CASE TransportRead
  <2>1. /\ wpc # "idle" /\ wpc' \notin {"idle", "header"}
        /\ UNCHANGED <<upc, result, errChan, werr, resp, nread, wclosed>>
    BY <1>11 DEF TransportRead, Writing, AfterWrite
  <2>2. wpc \in Reported => wpc' \in Reported
    BY <1>11 DEF TransportRead, Writing, AfterWrite
  <2>3. wpc' \in {"read", "write", "labels"} => werr = "nil"
    BY <1>11 DEF TransportRead, Writing, AfterWrite
  <2> QED
    BY <1>11, <2>1, <2>2, <2>3
<1>12. CASE TransportEOF
  BY <1>12 DEF TransportEOF, InFlight
<1>13. CASE TransportAbort
  BY <1>13 DEF TransportAbort
<1>14. CASE ServerStores
  BY <1>14 DEF ServerStores
<1>15. CASE ServerResponds
  BY <1>15 DEF ServerResponds
<1>16. CASE DoFails
  BY <1>16 DEF DoFails
<1>17. CASE UNCHANGED vars
  BY <1>17
<1> QED
  BY <1>1, <1>2, <1>3, <1>4, <1>5, <1>6, <1>7, <1>8, <1>9, <1>10, <1>11,
     <1>12, <1>13, <1>14, <1>15, <1>16, <1>17
  DEF Next, Caller, Goroutine, Transport, Answer, Terminated

-----------------------------------------------------------------------------
\* The inductive invariant holds in every reachable state.
THEOREM Invariance == Spec => []IInv
<1>1. Init => IInv
  BY InitInv
<1>2. IInv /\ [Next]_vars => IInv'
  BY NextTypeOK, NextBodyInv, NextPipeInv, NextReportInv DEF IInv
<1> QED
  BY <1>1, <1>2, PTL DEF Spec

\* Type correctness of UploadFile; with it the goroutine sends at most one
\* report, so the send on errChan (file_upload.go:119) never blocks.
THEOREM TypeCorrect == Spec => []TypeOK
<1>1. IInv => TypeOK
  BY DEF IInv
<1> QED
  BY <1>1, Invariance, PTL

\* in.FileBytes is not read after UploadFile has returned.
THEOREM ReaderIsReleased == Spec => []NoReadAfterReturn
<1>1. IInv => NoReadAfterReturn
  BY DEF IInv, ReportInv, NoReadAfterReturn, Reported
<1> QED
  BY <1>1, Invariance, PTL

\* Success is reported only for a file that the server holds whole.
THEOREM SuccessIsWhole == Spec => []SuccessIsWholeFile
<1>1. IInv => SuccessIsWholeFile
  <2> SUFFICES ASSUME IInv, result = "ok" PROVE stored /\ sent = WholeBody
    BY DEF SuccessIsWholeFile
  <2>1. stored /\ eof /\ werr = "nil" /\ wpc \in Reported
    BY DEF IInv, PipeInv, ReportInv
  <2>2. sent \in {Content, WholeBody} /\ sent[Len(sent)] = Boundary
    BY <2>1 DEF IInv, BodyInv, PipeInv
  <2>3. sent # Content
    BY <2>2, ContentSeq DEF IInv
  <2> QED
    BY <2>1, <2>2, <2>3
<1> QED
  BY <1>1, Invariance, PTL

\* The transport reads end of file only after the closing boundary.
THEOREM BoundaryBeforeEof == Spec => []EofAfterBoundary
<1>1. IInv => EofAfterBoundary
  BY DEF IInv, PipeInv, EofAfterBoundary
<1> QED
  BY <1>1, Invariance, PTL

-----------------------------------------------------------------------------
\* A failed write leaves a body without end of file; a call that looked at the
\* answer had a report without an error.
ErrorInv ==
  /\ werr = "write" => rclosed /\ ~eof
  /\ result \in {"ok", "decodeError", "statusError"} => werr = "nil"

LEMMA NextErrorInv ==
  ASSUME IInv, ErrorInv, [Next]_vars
  PROVE  ErrorInv'
<1> USE DEF ErrorInv, vars, caller, goroutine, pipe, external
<1>0. /\ eof => wpc \in {"idle", "exited"}
      /\ errChan # <<>> => errChan = <<werr>>
      /\ result # "none" => upc = "returned"
      /\ werr # "nil" => wpc \in {"report"} \cup Reported
      /\ upc = "returned" /\ result # "invalid" => wpc \in Reported
  BY DEF IInv, TypeOK, PipeInv, ReportInv, WriterPCs, Reported
<1>1. CASE Await
  <2>1. /\ Head(errChan) = werr /\ UNCHANGED <<werr, rclosed, eof>>
        /\ result' \in Outcomes(Head(errChan))
    BY <1>0, <1>1 DEF Await, Return
  <2> QED
    BY <2>1 DEF Outcomes
<1>2. CASE Reject \/ Drain
  BY <1>2 DEF Reject, Drain, Return
<1>3. CASE Spawn \/ DoReturns \/ CloseReader
  BY <1>3 DEF Spawn, DoReturns, CloseReader
<1>4. CASE WriteFails \/ ReadFile
  <2>1. /\ ~eof /\ UNCHANGED <<rclosed, eof, result>>
        /\ wpc = "closeWriter" \/ wpc \notin Reported
    BY <1>0, <1>4 DEF WriteFails, ReadFile, Writing, Reported
  <2>2. wpc = "closeWriter" => werr' = werr
    BY <1>4 DEF WriteFails, ReadFile
  <2>3. wpc \notin Reported => result \in {"none", "invalid"}
    BY <1>0
  <2>4. werr' = "write" => rclosed
    BY <1>4 DEF WriteFails, ReadFile
  <2> QED
    BY <2>1, <2>2, <2>3, <2>4
<1>5. CASE Report \/ ClosePipe \/ TransportAbort \/ ServerStores \/ ServerResponds
  BY <1>5 DEF Report, ClosePipe, TransportAbort, ServerStores, ServerResponds
<1>6. CASE TransportRead \/ TransportEOF
  BY <1>6 DEF TransportRead, TransportEOF
<1>8. CASE DoFails
  <2>1. rclosed => rclosed'
    BY <1>8 DEF DoFails
  <2> QED
    BY <1>8, <2>1 DEF DoFails
<1>7. CASE UNCHANGED vars
  BY <1>7
<1> QED
  BY <1>1, <1>2, <1>3, <1>4, <1>5, <1>6, <1>7, <1>8
  DEF Next, Caller, Goroutine, Transport, Answer, Terminated

\* The only body that a server can take for a file although it is none is one that
\* FileBytes.Read has cut, and the call it belongs to never succeeds: it returns
\* the error of the goroutine, or the one of Do (file_upload.go:131-134, 153-164).
THEOREM TruncationIsReported ==
  Spec => [](stored => \/ sent = WholeBody
                       \/ werr = "read" /\ result \in {"none", "writeError", "httpError"})
<1>1. Init => IInv /\ ErrorInv
  BY InitInv DEF Init, ErrorInv
<1>2. IInv /\ ErrorInv /\ [Next]_vars => IInv' /\ ErrorInv'
  BY NextTypeOK, NextBodyInv, NextPipeInv, NextReportInv, NextErrorInv DEF IInv
<1>3. IInv /\ ErrorInv
      => (stored => \/ sent = WholeBody
                    \/ werr = "read" /\ result \in {"none", "writeError", "httpError"})
  <2> SUFFICES ASSUME IInv, ErrorInv, stored, sent # WholeBody
               PROVE  werr = "read" /\ result \in {"none", "writeError", "httpError"}
    OBVIOUS
  <2>1. eof /\ sent[Len(sent)] = Boundary /\ wpc \in Reported
    BY DEF IInv, PipeInv, Reported
  <2>2. werr # "nil"
    <3>1. sent # Content
      BY <2>1, ContentSeq DEF IInv
    <3> QED
      BY <2>1, <3>1 DEF IInv, BodyInv
  <2>3. werr = "read"
    BY <2>1, <2>2 DEF ErrorInv, IInv, TypeOK
  <2>4. result # "invalid"
    BY <2>1 DEF IInv, ReportInv, Reported
  <2> QED
    BY <2>2, <2>3, <2>4 DEF ErrorInv, IInv, TypeOK
<1> QED
  BY <1>1, <1>2, <1>3, PTL DEF Spec

-----------------------------------------------------------------------------
\* How many steps an upload can still take: of the caller, of the goroutine, and
\* the five that the transport and the server take once at most.
CallerSteps == CASE upc = "call"                -> 4
                 [] upc = "do"                  -> 3
                 [] upc = "closeReader"         -> 2
                 [] upc \in {"drain", "await"}  -> 1
                 [] upc = "returned"            -> 0
WriterSteps == CASE wpc \in {"idle", "header"}  -> 2 * req.size + 6
                 [] wpc = "write"               -> 2 * (req.size - nread) + 6
                 [] wpc = "read"                -> 2 * (req.size - nread) + 5
                 [] wpc = "labels"              -> 4
                 [] wpc = "report"              -> 3
                 [] wpc = "closeWriter"         -> 2
                 [] wpc = "closePipe"           -> 1
                 [] wpc = "exited"              -> 0
Once(happened) == IF happened THEN 0 ELSE 1
StepsLeft == CallerSteps + WriterSteps + Once(conn = "broken") + Once(rclosed)
             + Once(stored) + Once(resp # "none")

StepsAreNats == /\ CallerSteps \in Nat /\ WriterSteps \in Nat /\ StepsLeft \in Nat
                /\ req.size \in Nat /\ nread \in Nat /\ nread <= req.size

LEMMA StepsType == TypeOK => StepsAreNats
<1> SUFFICES ASSUME TypeOK PROVE StepsAreNats
  OBVIOUS
<1>1. req.size \in Nat /\ nread \in Nat /\ nread <= req.size
  BY MaxChunksAssumption DEF TypeOK
<1>2. CallerSteps \in Nat
  BY DEF TypeOK, UploadPCs, CallerSteps
<1>3. WriterSteps \in Nat
  BY <1>1 DEF TypeOK, WriterPCs, WriterSteps
<1>4. \A h : Once(h) \in {0, 1}
  BY DEF Once
<1> QED
  BY <1>1, <1>2, <1>3, <1>4 DEF StepsLeft, StepsAreNats

LEMMA StepsTypeNext == TypeOK' => StepsAreNats'
BY StepsType, PTL

LEMMA StepIsTaken ==
  ASSUME IInv, IInv', Next, vars' # vars
  PROVE  StepsLeft' < StepsLeft
<1>1. /\ CallerSteps \in Nat /\ WriterSteps \in Nat
      /\ req.size \in Nat /\ nread \in Nat /\ nread <= req.size
      /\ CallerSteps' \in Nat /\ WriterSteps' \in Nat
  BY StepsType, StepsTypeNext DEF IInv, StepsAreNats
<1>2. /\ Once(conn = "broken") \in {0, 1} /\ Once(rclosed) \in {0, 1}
      /\ Once(stored) \in {0, 1} /\ Once(resp # "none") \in {0, 1}
      /\ Once(conn = "broken")' \in {0, 1} /\ Once(rclosed)' \in {0, 1}
      /\ Once(stored)' \in {0, 1} /\ Once(resp # "none")' \in {0, 1}
  BY DEF Once
<1>3. ASSUME CallerSteps' < CallerSteps, WriterSteps' <= WriterSteps,
             rclosed => rclosed', UNCHANGED <<conn, stored, resp>>
      PROVE  StepsLeft' < StepsLeft
  <2>1. Once(rclosed)' <= Once(rclosed)
    BY <1>3 DEF Once
  <2>2. UNCHANGED <<Once(conn = "broken"), Once(stored), Once(resp # "none")>>
    BY <1>3
  <2> HIDE DEF CallerSteps, WriterSteps
  <2> QED
    BY <1>1, <1>2, <1>3, <2>1, <2>2 DEF StepsLeft
<1>4. ASSUME WriterSteps' < WriterSteps, UNCHANGED <<upc, rclosed, conn, stored, resp>>
      PROVE  StepsLeft' < StepsLeft
  <2>1. UNCHANGED <<CallerSteps, Once(conn = "broken"), Once(rclosed), Once(stored),
                    Once(resp # "none")>>
    BY <1>4 DEF CallerSteps
  <2> HIDE DEF CallerSteps, WriterSteps
  <2> QED
    BY <1>1, <1>2, <1>4, <2>1 DEF StepsLeft
<1>5. ASSUME UNCHANGED <<req, upc, wpc, nread>>,
             conn = "broken" => conn' = "broken", rclosed => rclosed',
             stored => stored', resp # "none" => resp' # "none",
             \/ conn # "broken" /\ conn' = "broken"
             \/ ~rclosed /\ rclosed'
             \/ ~stored /\ stored'
             \/ resp = "none" /\ resp' # "none"
      PROVE  StepsLeft' < StepsLeft
  <2>1. UNCHANGED <<CallerSteps, WriterSteps>>
    BY <1>5 DEF CallerSteps, WriterSteps
  <2>2. /\ Once(conn = "broken")' <= Once(conn = "broken") /\ Once(rclosed)' <= Once(rclosed)
        /\ Once(stored)' <= Once(stored) /\ Once(resp # "none")' <= Once(resp # "none")
    BY <1>5 DEF Once
  <2>3. \/ Once(conn = "broken")' < Once(conn = "broken") \/ Once(rclosed)' < Once(rclosed)
        \/ Once(stored)' < Once(stored) \/ Once(resp # "none")' < Once(resp # "none")
    BY <1>5 DEF Once
  <2> HIDE DEF CallerSteps, WriterSteps
  <2> QED
    BY <1>1, <1>2, <2>1, <2>2, <2>3 DEF StepsLeft
<1> USE DEF caller, goroutine, pipe, external
<1>6. CASE Reject \/ Spawn \/ DoReturns \/ CloseReader \/ Drain \/ Await
  <2>1. CallerSteps' < CallerSteps
    BY <1>6 DEF Reject, Spawn, DoReturns, CloseReader, Drain, Await, Return, CallerSteps
  <2>2. WriterSteps' = WriterSteps
    <3>1. UNCHANGED <<req, nread>> /\ (UNCHANGED wpc \/ (wpc = "idle" /\ wpc' = "header"))
      BY <1>6 DEF Reject, Spawn, DoReturns, CloseReader, Drain, Await, IInv, ReportInv
    <3> QED
      BY <3>1 DEF WriterSteps
  <2>3. (rclosed => rclosed') /\ UNCHANGED <<conn, stored, resp>>
    BY <1>6 DEF Reject, Spawn, DoReturns, CloseReader, Drain, Await
  <2> QED
    BY <1>1, <1>3, <2>1, <2>2, <2>3
<1>7. CASE WriteFails \/ ReadFile \/ Report \/ ClosePipe \/ TransportRead
  <2>1. UNCHANGED <<req, upc, rclosed, conn, stored, resp>>
    BY <1>7 DEF WriteFails, ReadFile, Report, ClosePipe, TransportRead
  <2>2. WriterSteps' < WriterSteps
    <3>1. CASE WriteFails
      BY <1>1, <2>1, <3>1 DEF WriteFails, Writing, WriterSteps
    <3>2. CASE ReadFile
      BY <1>1, <2>1, <3>2 DEF ReadFile, AfterEOF, WriterSteps
    <3>3. CASE Report \/ ClosePipe
      BY <3>3 DEF Report, ClosePipe, WriterSteps
    <3>4. CASE TransportRead
      <4>1. nread' = nread /\ Writing /\ wpc' = AfterWrite
        BY <3>4 DEF TransportRead
      <4>2. wpc = "header" => nread = 0
        BY DEF IInv, ReportInv
      <4> QED
        BY <1>1, <2>1, <4>1, <4>2 DEF Writing, AfterWrite, WriterSteps
    <3> QED
      BY <1>7, <3>1, <3>2, <3>3, <3>4
  <2> QED
    BY <1>4, <2>1, <2>2
<1>8. CASE TransportEOF \/ TransportAbort \/ ServerStores \/ ServerResponds \/ DoFails
  BY <1>5, <1>8 DEF TransportEOF, TransportAbort, ServerStores, ServerResponds, DoFails,
     InFlight, IInv, TypeOK
<1> QED
  BY <1>6, <1>7, <1>8 DEF Next, Caller, Goroutine, Transport, Answer, Terminated

\* No upload goes round in circles: every step of the caller, the goroutine, the
\* transport and the server brings the end nearer, so an upload of n chunks takes
\* fewer than 2n + 15 of them (file_upload.go:92-176).
THEOREM StepsAreBounded == Spec => [][StepsLeft' \in Nat /\ StepsLeft' < StepsLeft]_vars
<1>1. IInv /\ IInv' /\ [Next]_vars => [StepsLeft' \in Nat /\ StepsLeft' < StepsLeft]_vars
  BY StepIsTaken, StepsTypeNext DEF IInv, StepsAreNats
<1> QED
  BY <1>1, Invariance, PTL DEF Spec
=============================================================================
