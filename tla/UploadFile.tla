------------------------------ MODULE UploadFile ------------------------------
(***************************************************************************)
(* Client.UploadFile (src/file_upload.go): a caller, the goroutine it      *)
(* spawns to write the multipart body into an io.Pipe, the HTTP transport  *)
(* that reads the other end of the pipe, and the server.  The transport    *)
(* and the server are not part of the repository: they are modelled by the *)
(* net/http contract the code relies on.                                   *)
(***************************************************************************)
EXTENDS Naturals, Sequences

CONSTANT MaxChunks   \* largest number of chunks io.Copy reads from FileBytes

ASSUME MaxChunksAssumption == MaxChunks \in Nat

VARIABLES
  req,      \* the request: defect of its arguments, size in chunks, labels or not
  upc,      \* where UploadFile is
  wpc,      \* where the writing goroutine is
  nread,    \* chunks the goroutine has read from in.FileBytes
  werr,     \* the error the goroutine is about to send on errChan
  errChan,  \* the buffered channel: at most one error
  rclosed,  \* the read end of the pipe is closed
  wclosed,  \* the write end of the pipe is closed
  sent,     \* what the transport has read from the pipe, in order
  conn,     \* the transport still carries the request body: "open" or "broken"
  eof,      \* the transport has read end-of-file from the pipe
  stored,   \* the server has accepted the complete body it was sent
  resp,     \* what Do produced: "none", "ok", "error" (status other than 200), "fail"
  result    \* what UploadFile returned

caller    == <<upc, result>>
goroutine == <<wpc, nread, werr>>
pipe      == <<rclosed, wclosed>>
external  == <<conn, eof, stored, resp>>
vars == <<req, caller, goroutine, errChan, pipe, sent, external>>

-----------------------------------------------------------------------------
(* The multipart body, as the tokens one pipe write hands over.  A token   *)
(* the transport has taken only in part counts as not taken.               *)
FileHeader == <<"header", 0>>
Chunk(i)   == <<"chunk", i>>
Labels     == <<"labels", 0>>
Boundary   == <<"boundary", 0>>      \* the closing boundary of writer.Close
Token == {"header", "chunk", "labels", "boundary"} \X Nat

\* The header and the first n chunks of the file.
FilePart(n) == [i \in 1 .. n + 1 |-> IF i = 1 THEN FileHeader ELSE Chunk(i - 1)]

\* Everything the request carries, without and with the closing boundary.
Content == IF req.labels THEN Append(FilePart(req.size), Labels)
                         ELSE FilePart(req.size)
WholeBody == Append(Content, Boundary)

Defects == {"none", "fileName", "fileBytes", "url"}

Init ==
  /\ req \in [defect: Defects, size: 0 .. MaxChunks, labels: BOOLEAN]
  /\ upc = "call"   /\ result = "none"
  /\ wpc = "idle"   /\ nread = 0 /\ werr = "nil"
  /\ errChan = <<>> /\ rclosed = FALSE /\ wclosed = FALSE
  /\ sent = <<>>    /\ conn = "open"   /\ eof = FALSE
  /\ stored = FALSE /\ resp = "none"

-----------------------------------------------------------------------------
(* UploadFile itself.                                                      *)

Return(r) == upc' = "returned" /\ result' = r

\* Argument checks and http.NewRequestWithContext: no goroutine exists yet.
Reject ==
  /\ upc = "call" /\ req.defect # "none"
  /\ Return("invalid")
  /\ IF req.defect = "url" THEN rclosed' = TRUE /\ wclosed' = TRUE
                           ELSE UNCHANGED pipe
  /\ UNCHANGED <<req, goroutine, errChan, sent, external>>

\* The goroutine is spawned and httpClient.Do is called.
Spawn ==
  /\ upc = "call" /\ req.defect = "none"
  /\ upc' = "do" /\ wpc' = "header"
  /\ UNCHANGED <<req, result, nread, werr, errChan, pipe, sent, external>>

DoReturns ==
  /\ upc = "do" /\ resp # "none"
  /\ upc' = IF resp = "fail" THEN "closeReader" ELSE "await"
  /\ UNCHANGED <<req, result, goroutine, errChan, pipe, sent, external>>

MutCloseReaderForgotten ==
  /\ upc = "closeReader"
  /\ upc' = "drain"
  /\ UNCHANGED <<req, result, goroutine, errChan, pipe, sent, external>>

\* Do failed: unblock the goroutine.
CloseReader ==
  /\ upc = "closeReader"
  /\ rclosed' = TRUE /\ upc' = "drain"
  /\ UNCHANGED <<req, result, goroutine, errChan, wclosed, sent, external>>

MutDrainWithoutWaiting ==
  /\ upc = "drain"
  /\ Return("httpError")
  /\ UNCHANGED <<req, goroutine, errChan, pipe, sent, external>>

\* Do failed: wait for the goroutine's report, then return Do's error.
Drain ==
  /\ upc = "drain" /\ errChan # <<>>
  /\ errChan' = Tail(errChan)
  /\ Return("httpError")
  /\ UNCHANGED <<req, goroutine, pipe, sent, external>>

MutOutcomesStatusOnly(err) ==
  IF resp # "ok" THEN {"statusError"} ELSE {"ok", "decodeError"}

\* The order of the checks once a response and the goroutine's report are in.
Outcomes(err) ==
  IF err # "nil" THEN {"writeError"}
  ELSE IF resp # "ok" THEN {"statusError"} ELSE {"ok", "decodeError"}

\* Do answered: receive the goroutine's report, then look at the response.
Await ==
  /\ upc = "await" /\ errChan # <<>>
  /\ errChan' = Tail(errChan)
  /\ \E r \in Outcomes(Head(errChan)) : Return(r)
  /\ UNCHANGED <<req, goroutine, pipe, sent, external>>

-----------------------------------------------------------------------------
(* The goroutine.  A write to the pipe blocks until the transport takes    *)
(* the token (TransportRead) or the read end is closed (WriteFails).       *)

Writing == wpc \in {"header", "write", "labels", "closeWriter"}

Offered == CASE wpc = "header"      -> FileHeader
             [] wpc = "write"       -> Chunk(nread)
             [] wpc = "labels"      -> Labels
             [] wpc = "closeWriter" -> Boundary

AfterWrite == CASE wpc = "header"      -> "read"
                [] wpc = "write"       -> "read"
                [] wpc = "labels"      -> "report"
                [] wpc = "closeWriter" -> "closePipe"

\* The write returned io.ErrClosedPipe.  writer.Close ignores it.
WriteFails ==
  /\ Writing /\ rclosed
  /\ IF wpc = "closeWriter"
     THEN wpc' = "closePipe" /\ UNCHANGED werr
     ELSE wpc' = "report" /\ werr' = "write"
  /\ UNCHANGED <<req, caller, nread, errChan, pipe, sent, external>>

\* After the last chunk: the labels if there are any.
AfterEOF == IF req.labels THEN "labels" ELSE "report"

\* io.Copy calls FileBytes.Read: a chunk, end of file, or a read error.
ReadFile ==
  /\ wpc = "read"
  /\ \/ /\ nread < req.size
        /\ nread' = nread + 1 /\ wpc' = "write" /\ UNCHANGED werr
     \/ /\ nread = req.size
        /\ wpc' = AfterEOF /\ UNCHANGED <<nread, werr>>
     \/ /\ wpc' = "report" /\ werr' = "read" /\ UNCHANGED nread
  /\ UNCHANGED <<req, caller, errChan, pipe, sent, external>>

MutReportClosesPipeFirst ==
  /\ wpc = "report"
  /\ errChan' = Append(errChan, werr) /\ wclosed' = TRUE /\ wpc' = "closeWriter"
  /\ UNCHANGED <<req, caller, nread, werr, rclosed, sent, external>>

MutReportWithoutReturn ==
  /\ wpc = "report"
  /\ errChan' = Append(errChan, werr)
  /\ wpc' = IF werr = "read" THEN AfterEOF ELSE "closeWriter"
  /\ UNCHANGED <<req, caller, nread, werr, pipe, sent, external>>

\* errChan <- err; the deferred writer.Close and pipeWriter.Close run after it.
Report ==
  /\ wpc = "report"
  /\ errChan' = Append(errChan, werr) /\ wpc' = "closeWriter"
  /\ UNCHANGED <<req, caller, nread, werr, pipe, sent, external>>

ClosePipe ==
  /\ wpc = "closePipe"
  /\ wclosed' = TRUE /\ wpc' = "exited"
  /\ UNCHANGED <<req, caller, nread, werr, errChan, rclosed, sent, external>>

-----------------------------------------------------------------------------
(* The transport and the server (external).                                *)

InFlight == upc \in {"do", "await", "returned"} /\ wpc # "idle" /\ conn = "open"

\* The transport reads the pipe: the pending write returns.
TransportRead ==
  /\ InFlight /\ Writing /\ ~rclosed /\ ~wclosed
  /\ sent' = Append(sent, Offered) /\ wpc' = AfterWrite
  /\ UNCHANGED <<req, caller, nread, werr, errChan, pipe, external>>

\* The transport reads end of file and closes the request body.
TransportEOF ==
  /\ InFlight /\ wclosed /\ ~rclosed
  /\ eof' = TRUE /\ rclosed' = TRUE
  /\ UNCHANGED <<req, caller, goroutine, errChan, wclosed, sent, conn, stored, resp>>

\* The connection breaks, or the transport gives up sending after an early
\* answer or a cancelled context: it closes the request body.
TransportAbort ==
  /\ InFlight /\ ~eof
  /\ conn' = "broken" /\ rclosed' = TRUE
  /\ UNCHANGED <<req, caller, goroutine, errChan, wclosed, sent, eof, stored, resp>>

\* The server has a well-formed multipart body and keeps the file.
ServerStores ==
  /\ eof /\ resp = "none" /\ ~stored /\ sent[Len(sent)] = Boundary
  /\ stored' = TRUE
  /\ UNCHANGED <<req, caller, goroutine, errChan, pipe, sent, conn, eof, resp>>

\* The server answers: 200 for a stored file, another status at any time.
ServerResponds ==
  /\ upc = "do" /\ resp = "none"
  /\ resp' = IF stored THEN "ok" ELSE "error"
  /\ UNCHANGED <<req, caller, goroutine, errChan, pipe, sent, conn, eof, stored>>

\* Do fails: no connection, a broken one, a cancelled context.  A custom
\* RoundTripper need not close the request body.
DoFails ==
  /\ upc = "do" /\ resp = "none"
  /\ resp' = "fail" /\ conn' = "broken"
  /\ rclosed' \in {rclosed, TRUE}
  /\ UNCHANGED <<req, caller, goroutine, errChan, wclosed, sent, eof, stored>>

-----------------------------------------------------------------------------
Finished == upc = "returned" /\ wpc \in {"idle", "exited"}
Terminated == Finished /\ UNCHANGED vars

Caller    == Reject \/ Spawn \/ DoReturns \/ CloseReader \/ Drain \/ Await
Goroutine == WriteFails \/ ReadFile \/ Report \/ ClosePipe
Transport == TransportRead \/ TransportEOF \/ TransportAbort
Answer    == ServerResponds \/ DoFails

Next == Caller \/ Goroutine \/ Transport \/ ServerStores \/ Answer \/ Terminated

Spec == Init /\ [][Next]_vars

\* Runnable Go code runs; FileBytes.Read returns; the transport drains or
\* closes the body it was given; Do ends (an answer, an error or the
\* caller's context).
Fairness == /\ WF_vars(Caller) /\ WF_vars(Goroutine)
            /\ WF_vars(Transport) /\ WF_vars(Answer)
FairSpec == Spec /\ Fairness

-----------------------------------------------------------------------------
UploadPCs == {"call", "do", "closeReader", "drain", "await", "returned"}
WriterPCs == {"idle", "header", "read", "write", "labels", "report",
              "closeWriter", "closePipe", "exited"}
Reported  == {"closeWriter", "closePipe", "exited"}

TypeOK ==
  /\ req \in [defect: Defects, size: 0 .. MaxChunks, labels: BOOLEAN]
  /\ upc \in UploadPCs /\ wpc \in WriterPCs
  /\ nread \in 0 .. req.size
  /\ werr \in {"nil", "read", "write"}
  /\ errChan \in Seq({"nil", "read", "write"}) /\ Len(errChan) <= 1
  /\ rclosed \in BOOLEAN /\ wclosed \in BOOLEAN
  /\ sent \in Seq(Token)
  /\ conn \in {"open", "broken"} /\ eof \in BOOLEAN /\ stored \in BOOLEAN
  /\ resp \in {"none", "ok", "error", "fail"}
  /\ result \in {"none", "invalid", "httpError", "writeError", "statusError",
                 "decodeError", "ok"}

\* The parts of the inductive invariant.  What has been sent follows from
\* where the goroutine is (file_upload.go:125-149).
BodyInv ==
  /\ wpc \in {"idle", "header"} => sent = <<>>
  /\ wpc = "read"   => sent = FilePart(nread)
  /\ wpc = "write"  => nread > 0 /\ sent = FilePart(nread - 1)
  /\ wpc = "labels" => req.labels /\ sent = FilePart(req.size)
  /\ wpc = "report" /\ werr = "nil" => sent = Content
  /\ wpc = "closeWriter" /\ werr = "nil" => sent = Content
  /\ wpc \in Reported /\ werr = "nil" => sent \in {Content, WholeBody}

\* The pipe is written to its end in the order boundary, close, end of file.
PipeInv ==
  /\ wpc \in {"closePipe", "exited"} =>
        rclosed \/ (sent # <<>> /\ sent[Len(sent)] = Boundary)
  /\ wclosed => wpc \in {"idle", "exited"}
  /\ wpc = "idle" => errChan = <<>> /\ ~eof
  /\ eof => wclosed /\ sent # <<>> /\ sent[Len(sent)] = Boundary
  /\ stored => eof
  /\ resp = "ok" => stored

\* One report per goroutine, received before UploadFile returns.
ReportInv ==
  /\ wpc \in {"idle", "header"} => nread = 0
  /\ wpc \in {"idle", "header", "read", "write", "labels"} => werr = "nil"
  /\ errChan # <<>> => wpc \in Reported /\ errChan = <<werr>>
  /\ upc = "call" => wpc = "idle" /\ ~wclosed
  /\ upc = "returned" /\ result # "invalid" => wpc \in Reported
  /\ upc = "returned" /\ result = "invalid" => wpc = "idle"
  /\ upc \notin {"call", "returned"} => wpc # "idle"
  /\ upc = "await" => resp \in {"ok", "error"}
  /\ result # "none" => upc = "returned"
  /\ result = "ok" => resp = "ok" /\ werr = "nil"

\* The inductive invariant of UploadFileProofs: body, pipe and report agree at
\* every step of caller, goroutine and transport (file_upload.go:119-164).
IInv == TypeOK /\ BodyInv /\ PipeInv /\ ReportInv

\* Once UploadFile has returned, its goroutine never reads in.FileBytes again,
\* so the caller may close the file (file_upload.go:156 and 162 wait for it).
NoReadAfterReturn == upc = "returned" => wpc \in {"idle"} \cup Reported

\* UploadFile reports success only for a file the server holds whole: header,
\* every chunk in order, the labels, the closing boundary (file_upload.go:162).
SuccessIsWholeFile == result = "ok" => stored /\ sent = WholeBody

\* The transport never sees end of file before the closing boundary: the
\* deferred Closes run in the right order (file_upload.go:121-122).
EofAfterBoundary == eof => sent # <<>> /\ sent[Len(sent)] = Boundary

\* Every call returns and its goroutine exits, also when Do fails, when the
\* server answers early and when the read end is never drained.
Terminates == <>Finished

\* UploadFile uploads the file it was given (file_upload.go:57): a body the
\* server accepts is that file.  Violated when FileBytes.Read fails.
StoredIsWholeFile == stored => sent = WholeBody
=============================================================================
