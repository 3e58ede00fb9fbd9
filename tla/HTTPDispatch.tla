---------------------------- MODULE HTTPDispatch ----------------------------
(***************************************************************************)
(* One call of the library: its checks, http.Client.Do, the dispatcher     *)
(* that classifies the answer (do in client.go, doSandbox in sandbox.go,   *)
(* doSandboxAPI in sandbox_api.go), the reading of the body and its Close. *)
(* A call is a row of a table: the dispatcher it goes through, its method, *)
(* what it checks and sends, what it does with an answer it accepts.       *)
(*                                                                         *)
(* Do follows redirections: a 301, 302 or 303 turns a request that changes *)
(* something into a GET without a body, a 307 or 308 sends it again.       *)
(*                                                                         *)
(* A body is read in pieces and may be cut after any of them.  A Decoder   *)
(* stops at the end of the value, or at the first piece that is not JSON:  *)
(* what it has taken is gone for a later ReadAll.                          *)
(***************************************************************************)
EXTENDS Naturals

CONSTANTS
  MaxSize,   \* pieces of a body
  Limit      \* pieces an error text is limited to (1 MB)

ASSUME DispatchAssumption == MaxSize \in Nat /\ Limit \in Nat

-----------------------------------------------------------------------------
(* The calls: what a call sends, and what it does with the body of its      *)
(* answer.  It sends "nothing", the "json" of its request, that JSON with   *)
(* the error of the encoder "unchecked", or what an io.Reader gives; it     *)
(* leaves the answer's body alone ("nothing"), decodes it ("json"), reads   *)
(* it whole ("all") or scans it as a stream of events ("stream").           *)

Row(via, method, sends, reads) ==
  [via |-> via, method |-> method, sends |-> sends, reads |-> reads,
   needs |-> {}, closes |-> "not"]

\* A call of doSandbox, which leaves the body of an answer it accepts to its
\* caller: the call defers the Close, then reads, or closes it unread ("now").
SandboxRow(method, sends, reads, closes) ==
  [Row("doSandbox", method, sends, reads) EXCEPT !.closes = closes]

\* A call that checks its request first.
Needing(needs, row) == [row EXCEPT !.needs = needs]

CreateSandbox        == Row("doSandboxAPI", "POST", "json", "json")
GetSandbox           == Row("doSandboxAPI", "GET", "nothing", "json")
ListSandboxes        == Row("doSandboxAPI", "GET", "nothing", "json")
UpdateSandbox        == Row("doSandboxAPI", "PATCH", "json", "json")
SnapshotSandbox      == Row("doSandboxAPI", "POST", "json", "json")
DeleteSandbox        == Row("doSandboxAPI", "DELETE", "nothing", "nothing")
SuspendSandbox       == Row("doSandboxAPI", "POST", "nothing", "nothing")
ResumeSandbox        == Row("doSandboxAPI", "POST", "nothing", "nothing")

MutReadSandboxFile   == SandboxRow("GET", "nothing", "all", "not")
ReadSandboxFile      == SandboxRow("GET", "nothing", "all", "defer")
WriteSandboxFile     == SandboxRow("PUT", "reader", "nothing", "now")
ListSandboxDirectory == SandboxRow("GET", "nothing", "json", "defer")
DeleteSandboxFile    == SandboxRow("DELETE", "nothing", "nothing", "now")

StartProcess         == SandboxRow("POST", "json", "json", "defer")
GetProcess           == SandboxRow("GET", "nothing", "json", "defer")
ListProcesses        == SandboxRow("GET", "nothing", "json", "defer")
GetProcessStdout     == SandboxRow("GET", "nothing", "json", "defer")
GetProcessStderr     == SandboxRow("GET", "nothing", "json", "defer")
GetProcessOutput     == SandboxRow("GET", "nothing", "json", "defer")
KillProcess          == SandboxRow("DELETE", "nothing", "nothing", "now")
SignalProcess        == SandboxRow("POST", "json", "nothing", "now")
WriteProcessStdin    == SandboxRow("POST", "reader", "nothing", "now")
CloseProcessStdin    == SandboxRow("POST", "nothing", "nothing", "now")
FollowProcess        == SandboxRow("GET", "nothing", "stream", "defer")

CreatePTY            == SandboxRow("POST", "json", "json", "defer")
GetPTY               == SandboxRow("GET", "nothing", "json", "defer")
ListPTY              == SandboxRow("GET", "nothing", "json", "defer")
ResizePTY            == SandboxRow("POST", "json", "nothing", "now")
KillPTY              == SandboxRow("DELETE", "nothing", "nothing", "now")

ParseDocument        == Needing({"source"}, Row("do", "POST", "unchecked", "json"))
ReadDocument         == Needing({"source"}, Row("do", "POST", "json", "json"))
ExtractDocument      == Needing({"source", "options"}, Row("do", "POST", "json", "json"))
ClassifyDocument     == Needing({"source", "options"}, Row("do", "POST", "json", "json"))
GetParseResult       == Row("do", "GET", "nothing", "json")
ListParseJobs        == Row("do", "GET", "nothing", "json")
DeleteParseJob       == Row("do", "DELETE", "nothing", "nothing")

CreateDataset        == Row("do", "POST", "json", "json")
GetDataset           == Row("do", "GET", "nothing", "json")
UpdateDataset        == Row("do", "PUT", "json", "json")
ListDatasets         == Row("do", "GET", "nothing", "json")
ListDatasetData      == Row("do", "GET", "nothing", "json")
ParseDataset         == Needing({"source"}, Row("do", "POST", "unchecked", "json"))
DeleteDataset        == Row("do", "DELETE", "nothing", "nothing")

ListFiles            == Row("do", "GET", "nothing", "json")
GetFileMetadata      == Row("do", "GET", "nothing", "json")
DeleteFile           == Row("do", "DELETE", "nothing", "nothing")

Calls ==
  {CreateSandbox, GetSandbox, ListSandboxes, UpdateSandbox, SnapshotSandbox,
   DeleteSandbox, SuspendSandbox, ResumeSandbox,
   ReadSandboxFile, WriteSandboxFile, ListSandboxDirectory, DeleteSandboxFile,
   StartProcess, GetProcess, ListProcesses, GetProcessStdout, GetProcessStderr,
   GetProcessOutput, KillProcess, SignalProcess, WriteProcessStdin,
   CloseProcessStdin, FollowProcess,
   CreatePTY, GetPTY, ListPTY, ResizePTY, KillPTY,
   ParseDocument, ReadDocument, ExtractDocument, ClassifyDocument,
   GetParseResult, ListParseJobs, DeleteParseJob,
   CreateDataset, GetDataset, UpdateDataset, ListDatasets, ListDatasetData,
   ParseDataset, DeleteDataset,
   ListFiles, GetFileMetadata, DeleteFile}

-----------------------------------------------------------------------------
VARIABLES
  call,     \* the row of the call that is made
  input,    \* the caller's request
  pc,       \* where it is
  sent,     \* the method Do sends it with now
  done,     \* the service has carried the request out
  answer,   \* its answer, as Do returns it
  body,     \* the answer's body: "none", "open", "closed"
  deferred, \* the function that runs has deferred its Close
  pos,      \* pieces of it that have been read
  from,     \* pieces read before the text of an error was
  broken,   \* a read of the body has failed
  result    \* what the call returned

vars == <<call, input, pc, sent, done, answer, body, deferred, pos, from, broken, result>>

\* An answer: the class of its status ("other" is below 200 or 3xx), whether
\* its body is a JSON value of the expected type, and its length.
Answers == {a \in [status : {"ok", "other", "error"}, json : BOOLEAN, size : 0 .. MaxSize] :
              a.json => a.size > 0}
NoAnswer == [status |-> "none", json |-> FALSE, size |-> 0]

\* A request: the sources of the document it names, whether it has the
\* options its call is about, can be encoded, and makes a URL that parses.
Sources == {"file_id", "file_url", "raw_text"}
Inputs == [sources : SUBSET Sources, options : BOOLEAN, encodes : BOOLEAN, url : BOOLEAN]

Init ==
  /\ call \in Calls /\ input \in Inputs
  /\ call.needs = {} => input.sources = {} /\ ~input.options
  /\ call.sends \in {"nothing", "reader"} => input.encodes
  /\ pc = "new" /\ sent = call.method /\ done = FALSE
  /\ answer = NoAnswer /\ body = "none" /\ deferred = FALSE /\ pos = 0 /\ from = 0
  /\ broken = FALSE /\ result = "none"

\* The call is over: the deferred Close runs, if there is one.
Return(r) ==
  /\ pc' = "over" /\ result' = r
  /\ deferred' = FALSE /\ body' = IF deferred THEN "closed" ELSE body

\* Exactly one source.
SourceProvided(sources) == \E only \in sources : sources = {only}

\* The request passes the checks of its call.
Sendable ==
  /\ "source" \in call.needs => SourceProvided(input.sources)
  /\ "options" \in call.needs => input.options
  /\ call.sends = "json" => input.encodes
  /\ input.url

Reject ==
  /\ pc = "new" /\ ~Sendable /\ Return("rejected")
  /\ UNCHANGED <<call, input, sent, done, answer, pos, from, broken>>

Execute ==
  /\ pc = "new" /\ Sendable /\ pc' = "do"
  /\ UNCHANGED <<call, input, sent, done, answer, body, deferred, pos, from, broken, result>>

-----------------------------------------------------------------------------
(* The service and net/http (external).                                    *)

\* The service carries a request out that comes with the method of its call
\* and, where it has one, its JSON: an encoder that failed left it empty.
CarryOut ==
  /\ pc = "do" /\ ~done /\ sent = call.method /\ input.encodes
  /\ done' = TRUE
  /\ UNCHANGED <<call, input, pc, sent, answer, body, deferred, pos, from, broken, result>>

\* Do follows a 301, 302 or 303, whether or not the service has carried the
\* request out.  (A 307 or 308 it follows changes nothing here.)
Redirect ==
  /\ pc = "do" /\ sent # "GET" /\ sent' = "GET"
  /\ UNCHANGED <<call, input, pc, done, answer, body, deferred, pos, from, broken, result>>

\* The status is ok only for a request that was carried out, or for the GET that
\* took its place.  A 3xx reaches the caller when Do does not follow it: no
\* Location, or a 307 for a body, an io.Reader, that cannot be sent again.  do and
\* doSandboxAPI defer the Close of its body at once, doSandbox does not.
Answer ==
  /\ pc = "do" /\ pc' = "switch"
  /\ answer' \in Answers
  /\ answer'.status = "ok" => done \/ sent # call.method
  /\ body' = "open" /\ deferred' = (call.via # "doSandbox")
  /\ UNCHANGED <<call, input, sent, done, pos, from, broken, result>>

\* Do returns an error: the answer is lost, or there never was one.
DoFails ==
  /\ pc = "do" /\ Return("failed")
  /\ UNCHANGED <<call, input, sent, done, answer, pos, from, broken>>

-----------------------------------------------------------------------------
(* The dispatchers.                                                        *)

MutAcceptedBelow400 == answer.status # "error"

MutAccepted ==
  IF call.via = "doSandbox" THEN TRUE ELSE answer.status = "ok"

\* do and doSandboxAPI accept 2xx, doSandbox everything below 400.
Accepted ==
  IF call.via = "doSandbox" THEN answer.status # "error" ELSE answer.status = "ok"

\* do and doSandboxAPI: the success handler, if there is one.
Handle ==
  /\ pc = "switch" /\ Accepted /\ call.via # "doSandbox"
  /\ IF call.reads = "json"
     THEN pc' = "json" /\ UNCHANGED <<body, deferred, result>>
     ELSE Return("ok")
  /\ UNCHANGED <<call, input, sent, done, answer, pos, from, broken>>

\* doSandbox returns the response with its body open.
HandOver ==
  /\ pc = "switch" /\ Accepted /\ call.via = "doSandbox"
  /\ pc' = "caller"
  /\ UNCHANGED <<call, input, sent, done, answer, body, deferred, pos, from, broken, result>>

\* Its caller closes the body and is done with it.
CloseUnread ==
  /\ pc = "caller" /\ call.reads = "nothing"
  /\ pc' = "over" /\ result' = "ok"
  /\ body' = IF call.closes = "now" THEN "closed" ELSE body
  /\ UNCHANGED <<call, input, sent, done, answer, deferred, pos, from, broken>>

\* Its caller sees to the Close and reads.
TakeBody ==
  /\ pc = "caller" /\ call.reads # "nothing"
  /\ pc' = call.reads
  /\ body' = IF call.closes = "now" THEN "closed" ELSE body
  /\ deferred' = (call.closes = "defer")
  /\ UNCHANGED <<call, input, sent, done, answer, pos, from, broken, result>>

\* do and doSandbox decode the body of an error; any other answer is text.  Only
\* here does doSandbox defer the Close.
HandleError ==
  /\ pc = "switch" /\ ~Accepted
  /\ pc' = IF call.via # "doSandboxAPI" /\ answer.status = "error" THEN "error" ELSE "text"
  /\ deferred' = TRUE
  /\ UNCHANGED <<call, input, sent, done, answer, body, pos, from, broken, result>>

Decoding == pc \in {"json", "error"}

\* A read is wanted: a Decoder has neither a value nor a syntax error, a
\* ReadAll or a scanner is not at the end of the body or at its limit.
Wanted ==
  /\ pos < answer.size /\ ~broken
  /\ Decoding => answer.json \/ pos = 0
  /\ pc = "text" => pos - from < Limit

Reading == pc \in {"json", "error", "all", "text", "stream"}

Read ==
  /\ Reading /\ Wanted
  /\ pos' = pos + 1
  /\ UNCHANGED <<call, input, pc, sent, done, answer, body, deferred, from, broken, result>>

\* The connection is lost, or the context cancelled.
ReadFails ==
  /\ Reading /\ Wanted
  /\ broken' = TRUE
  /\ UNCHANGED <<call, input, pc, sent, done, answer, body, deferred, pos, from, result>>

\* The Decoder has a value.
Decoded ==
  /\ Decoding /\ ~Wanted /\ ~broken /\ answer.json
  /\ Return(CASE pc = "json"            -> "ok"
              [] call.via = "do"        -> "ErrorResponse"
              [] call.via = "doSandbox" -> "SandboxProxyError")
  /\ UNCHANGED <<call, input, sent, done, answer, pos, from, broken>>

\* It has none: an error, but doSandbox makes a text of the rest.
NotDecoded ==
  /\ Decoding /\ ~Wanted /\ (broken \/ ~answer.json)
  /\ IF pc = "error" /\ call.via = "doSandbox"
     THEN pc' = "text" /\ from' = pos /\ UNCHANGED <<body, deferred, result>>
     ELSE Return("error") /\ UNCHANGED from
  /\ UNCHANGED <<call, input, sent, done, answer, pos, broken>>

MutReadWhole ==
  /\ pc = "all" /\ ~Wanted
  /\ Return("ok")
  /\ UNCHANGED <<call, input, sent, done, answer, pos, from, broken>>

\* ReadSandboxFile has the body, or an error.
ReadWhole ==
  /\ pc = "all" /\ ~Wanted
  /\ Return(IF broken THEN "error" ELSE "ok")
  /\ UNCHANGED <<call, input, sent, done, answer, pos, from, broken>>

\* The text of an error; a failed read only makes it shorter.
ReadText ==
  /\ pc = "text" /\ ~Wanted
  /\ Return("error")
  /\ UNCHANGED <<call, input, sent, done, answer, pos, from, broken>>

\* The iterator over the stream ends: it has read what it wants, its consumer
\* leaves it, or it reports an error.  What it yields is in FollowStream.
EndStream ==
  /\ pc = "stream" /\ (pos > 0 \/ ~Wanted)
  /\ \E r \in {"ok", "error"} : Return(r)
  /\ UNCHANGED <<call, input, sent, done, answer, pos, from, broken>>

Next == \/ Reject \/ Execute \/ CarryOut \/ Redirect \/ Answer \/ DoFails
        \/ Handle \/ HandOver \/ CloseUnread \/ TakeBody \/ HandleError
        \/ Read \/ ReadFails
        \/ Decoded \/ NotDecoded \/ ReadWhole \/ ReadText \/ EndStream
        \/ pc = "over" /\ UNCHANGED vars

Spec == Init /\ [][Next]_vars

-----------------------------------------------------------------------------
Results == {"none", "ok", "rejected", "failed", "error", "ErrorResponse",
            "SandboxProxyError"}

Methods == {"GET", "POST", "PUT", "PATCH", "DELETE"}

TypeOK ==
  /\ call \in Calls /\ input \in Inputs /\ sent \in Methods /\ done \in BOOLEAN /\ broken \in BOOLEAN
  /\ pc \in {"new", "do", "switch", "caller", "json", "error", "all", "text",
             "stream", "over"}
  /\ answer \in Answers \cup {NoAnswer} /\ result \in Results
  /\ body \in {"none", "open", "closed"} /\ deferred \in BOOLEAN
  /\ pos \in 0 .. answer.size /\ from \in 0 .. pos

\* Whoever has the body, no way out leaves it open, which would hold its connection
\* for ever, and nobody reads it closed: not a dispatcher that fails or succeeds
\* (client.go:111, sandbox.go:109, sandbox_api.go:134), not a caller that doSandbox
\* has handed it to (e.g. sandbox_file_read.go:48, sandbox_file_delete.go:45), not
\* an iterator (sandbox_process_follow_output.go:49).
BodyIsReleased == /\ pc = "over" => body # "open"
                  /\ Reading => body = "open"

\* What a call returns as a success is what the service sent, whole: a body that
\* is cut is an error (e.g. sandbox_file_read.go:50-54).
SuccessIsWhole ==
  result = "ok" /\ call.reads \in {"json", "all"} => pos = answer.size /\ ~broken

\* A refusal is never a success, and has the kind the documents promise: the
\* typed error of do and doSandbox when the service sent one, the whole text,
\* up to the limit, of doSandboxAPI (docs/sandbox-apis.md:303-315, README.md:361).
RefusalIsReported ==
  pc = "over" /\ answer.status = "error" =>
    LET whole == answer.json /\ ~broken IN
    /\ call.via = "do" /\ whole        => result = "ErrorResponse"
    /\ call.via = "doSandbox" /\ whole => result = "SandboxProxyError"
    /\ call.via = "doSandboxAPI" =>
         result = "error" /\ (broken \/ pos = answer.size \/ pos = Limit)
    /\ ~whole => result = "error"

\* What a call reports as done was done, with two exceptions: a file, process or
\* PTY call takes a 3xx that Do does not follow for a success (sandbox.go:108),
\* and a redirection answered with the page it leads to passes for the answer to
\* the request itself (client.go:107).
SuccessIsCarriedOut ==
  result = "ok" => \/ done
                   \/ call.via = "doSandbox" /\ answer.status = "other"
                   \/ sent = "GET" /\ call.method # "GET"

\* The inductive invariant of HTTPDispatchProofs: a body is read while it is
\* open and before the call has a result, each way of reading has its reason,
\* and the result follows from how the reading ended.
DispatchInv ==
  /\ pc \in {"new", "do"} => answer = NoAnswer /\ body = "none" /\ ~deferred
  /\ pc \in {"switch", "caller"} \/ Reading => body = "open" /\ answer.status # "none"
  /\ pc = "switch" => deferred = (call.via # "doSandbox")
  /\ pc = "caller" => ~deferred /\ call.via = "doSandbox" /\ Accepted
  /\ Reading => deferred
  /\ pc # "over" => result = "none"
  /\ pc \in {"new", "do", "switch", "caller"} => pos = 0 /\ from = 0 /\ ~broken
  /\ pc \in {"json", "all", "stream"} => Accepted /\ pc = call.reads
  /\ pc \in {"error", "text"} => ~Accepted
  /\ pc = "error" => answer.status = "error" /\ call.via # "doSandboxAPI"
  /\ pc = "text" /\ call.via # "doSandboxAPI" /\ answer.status = "error"
        => call.via = "doSandbox" /\ (broken \/ ~answer.json)
  /\ call.via = "doSandboxAPI" => from = 0
  /\ pc = "text" => pos - from <= Limit
  /\ sent \in {call.method, "GET"}
  /\ answer.status = "ok" => done \/ sent # call.method
  /\ result = "ok" => Accepted /\ answer.status # "none"
  /\ BodyIsReleased /\ SuccessIsWhole /\ RefusalIsReported /\ SuccessIsCarriedOut
=============================================================================
