# Verification of tensorlake-go

TLA+ models, TLC runs and TLAPS proofs for the Go client of Tensorlake
(`github.com/sixt/tensorlake-go`).  The client is a library over HTTP: most
calls are one request and one answer, and what is hard about it is where a call
is more than that: an upload written by a goroutine into a pipe, event streams
that are decoded while they arrive and may be cut anywhere, iterators nested in
iterators, lists that change between two pages, terminal sessions over a
WebSocket.  The project starts there.

All line numbers are those of the source tree; `map` in `PROJECT.json` names the
lines every definition stands for.

## 1. The system

| Component | Source | State it keeps | Operations |
|---|---|---|---|
| File upload | `file_upload.go` | pipe, error channel, multipart writer | `UploadFile` and its goroutine |
| SSE scanner | `internal/sse/iter.go` | record and run of data lines being decoded | `ScanEvents` |
| Parse result stream | `parse_get.go` | number of events, last event | `GetParseResult` (`WithSSE`, `WithOnUpdate`) |
| Process output follow | `sandbox_process_follow_*.go` | response body, position in the stream | `FollowProcessOutput`, `-Stdout`, `-Stderr` |
| List iterators | `file_list.go`, `parse_list.go`, `dataset_list.go` | cursor, page | `IterFiles`, `IterParseJobs`, `IterDatasets`, `IterDatasetData` |
| PTY WebSocket | `sandbox_pty_websocket.go` | connection, write mutex | `ConnectPTY`, `Ready`, `Write`, `Resize`, `Read`, `Close` |
| Terminal example | `examples/sandbox-terminal` | sandbox, session, connection, terminal mode, three goroutines | `run` |
| Benchmark example | `examples/sandbox-benchmark` | results per sandbox, statistics | `runLevel`, `bench`, percentiles |
| HTTP dispatch | `client.go`, `errors.go`, `sandbox.go`, `sandbox_api.go` | none (configuration) | `do`, `doSandbox`, `doSandboxAPI` |
| Sandbox lifecycle | `sandbox_create.go` ... `sandbox_snapshot.go` | none; the service keeps a status | create, get, list, update, delete, suspend, resume, snapshot |
| Sandbox files | `sandbox_file_*.go` | none | read, write, list, delete |
| Sandbox processes | `sandbox_process*.go` | none | start, get, list, kill, signal, stdin, stdout, stderr, output |
| PTY sessions (REST) | `sandbox_pty_{create,get,list,resize,kill}.go` | none | create, get, list, resize, kill |
| Parse jobs | `parse_{parse,read,extract,classify,delete}.go` | none | submit, delete |
| Datasets | `dataset_{create,get,update,delete,parse}.go` | none | create, get, update, delete, parse |
| File metadata | `file_metadata.go`, `file_delete.go` | none | get, delete |
| Data types | `types.go`, `enum.go`, `opt.go` | none | JSON encoding, `SourceProvided` |

How they interact.

* Every call ends in `http.Client.Do`.  A plain call goes through one of the
  three dispatchers, which classify the status and close the body.  `Do` follows
  redirections, which may turn a call into a GET.  `UploadFile` and the stream of
  `GetParseResult` call `Do` themselves.
* `UploadFile` hands the read end of a pipe to the transport as request body.
  The goroutine at the write end, the transport and the calling goroutine share
  the pipe and a channel of capacity one.
* `GetParseResult` and the follow iterators are consumers of `ScanEvents`, a
  push iterator: the scanner calls the loop body, and the loop body of a follow
  iterator calls the body of *its* consumer.  One goroutine, three frames that
  alternate.
* The list iterators call a list operation per page; between two pages nothing
  holds the list still.
* The terminal example composes the sandbox lifecycle, the PTY sessions and the
  PTY WebSocket; the benchmark runs many lifecycles at once.

What is hard, and what makes each component correct.

* **File upload**: three goroutines and a server; `Do` may fail before, while or
  after the body is read, the server may answer before it has read the body, the
  caller's reader may fail half-way.  Correct when the caller's file is not
  touched after the call returned, success means the server has the whole file,
  the body never ends early without looking incomplete, and every call returns.
* **SSE scanner**: state kept between lines, records cut by the end of the
  stream.  Correct when the events yielded are exactly those in the lines read,
  at most one error is reported, the end of the stream is the end of the
  iteration, and nothing is yielded to a consumer that has left.
* **Parse result stream**: correct when the callback sees the job's events in
  order, none skipped or repeated, and an outcome is only ever the one the
  service sent whole.
* **Process output follow**: correct when lines arrive in order, whole and once,
  and an iteration that saw eof has yielded everything.
* **List iterators**: correct when items come in order and once, nothing that was
  listed all the time is skipped, and iteration ends.
* **PTY WebSocket**: correct when frames of concurrent writers are not mixed, Ready
  comes first, what `Read` returns is what the process wrote, in order and with its
  exit code after all of it, whatever unknown frames come between, and `Close`
  ends pending calls.
* **Examples**: correct when on every way out whatever was acquired is given up,
  in reverse order, statistics describe exactly the runs that succeeded, and every
  figure of the summary stands below its own header.
* **HTTP dispatch**: correct when each status becomes the right kind of error,
  success means that the service did what was asked, and every body is closed on
  every way out, by the dispatcher or by the caller it was handed to.

`hazards` in `PROJECT.json` lists the hazards one by one, at their lines, with
the properties that cover them; a hazard without a property has a note.

## 2. The modules

```
UploadFile <-- UploadFileProofs

SSEScan  <-- SSEStream <-- SSEReference  <-- MCSSE, SSEStreamProofs
   ^
SSEService <-- ParseStream   --refines--> ParseWatch      <-- MCParseStream, StreamConsumerProofs
   ^---------- FollowStream  --refines--> LineFeed        <-- MCFollowStream, StreamConsumerProofs

ListIter  <-- ListIterProofs

PTYFrame
   ^
PTYConn  <-- PTYClient  <-- MCPTYClient
   ^  ^
   |  +-- PTYConnProofs  (has an instance of PTYClient)
   |            ^
   +-- SandboxTerminal  <-- SandboxTerminalProofs (extends PTYConnProofs too)

HTTPDispatch  <-- HTTPDispatchProofs

SandboxBenchmark  <-- MCSandboxBenchmark
        ^------------ SandboxBenchmarkProofs
```
(`A <-- B`: B extends A.)  `StreamConsumerProofs` extends both `ParseStream` and
`FollowStream`, which have the scanner and the service in common; this is why the
definitions of `FollowStream` have names of their own (`FollowInit`, `FollowSpec`,
`FollowTypeOK`).

### UploadFile

`UploadFile` (lines 93-176), the goroutine (119-150), the transport and the server.

* `upc` is the caller's program counter: the argument checks and the request
  (`Reject`, `Spawn`), `Do` (`DoReturns`), the error path `pipeReader.Close();
  <-errChan` (`CloseReader`, `Drain`) and the normal path (`Await`).
* `wpc` is the goroutine's: `CreateFormFile`, `io.Copy` (`ReadFile` and the write
  of a chunk), the labels, `errChan <- err` (`Report`), then the deferred
  `writer.Close` and `pipeWriter.Close`, in this order.  A write to the pipe is
  one step with the transport's read (`TransportRead`), or fails once the read
  end is closed (`WriteFails`), as `io.Pipe` does.
* A write is a token: header, numbered chunk, labels, boundary.  A token read in
  part counts as not read.
* External, by the contract of `net/http` that the code relies on: the transport
  may stop reading and close the body at any time (`TransportAbort`), the server
  may answer with an error at any time and with 200 only after it has stored a
  body that ends with its closing boundary, `Do` may fail at any time and need
  not close the body.  The transport may go on reading after `Do` has answered.
* Not distinguished: errors of `CreateFormFile` and `WriteField` are write errors;
  `json.Marshal` of a map of strings does not fail.

### SSEScan, SSEStream, SSEReference

`SSEScan` has the actions of `ScanEvents`, one per way through the loop body and
one per step after it, without a specification: three components use it.  A
line is a record of field and trimmed value; comments and unknown fields are
`other`, which is how the code treats them.  A buffer of data lines is the
sequence of their values, `<<>>` for nil.  `spc` tells which `yield` the iterator
is in, `Continue` and `Stop` are the consumer's two answers.

`SSEStream` closes it with any stream and any consumer.  `SSEReference` says what
the lines mean without a scanner.  A record is a set of positions: the lines no blank
line parts from its end (`Part`).  Its last event, id and retry lines count, and its
last run of adjacent data lines.  `Listed` puts the records that are not empty in their
order, by counting (`Nth`).

### SSEService, ParseStream, ParseWatch

`SSEService` (external) writes an event as lines, in four layouts, and cuts the
stream after or within any line that is still on its way, ended by end of file,
a read error or an over-long line.  A cut line leaves a piece: no colon, an
empty value, or a value that is not the whole.  A piece of an event's data does
not decode as JSON (`Decodes`); this is what makes a cut record detectable at
all, and it is true of the JSON objects the service sends.  For the same reason no
payload is the beginning of another (`PayloadsAssumption`).  `text` is a history
variable: every line the service has written.  `read = text` says that nothing of
the stream was lost, which the first halves of `WholeStreamIsReported` and
`WholeStreamIsFollowed` suppose.  Their second halves suppose nothing: an event
is read whole once the blank line behind it is, so `ReadWhole(n)` counts the blank
lines of `read`, and every event read whole has reached the callback, the outcome or
the consumer, wherever the stream is cut.

`ParseStream` is `GetParseResult`: `Request` is everything before the stream
(every error path, the JSON fallback, the call without `WithSSE`), then one
action per branch of the loop.

`ParseWatch` is what the call promises, without a stream: events of the job are
reported in order, success comes from the event that ended the job or from a
snapshot taken before any update, and nothing happens after the return.
`ParseStream` is checked to implement it (`Watch!Spec`; the refinement mapping is
the identity on `job`, `callback`, `updates`, `result`).

### FollowStream, LineFeed

`followProcessOutput`: the outer iterator around the inner one.  While its own
consumer has a line (`fpc = "line"`), the scanner sits inside its `yield`;
`ConsumerLeaves` returns from both at once and closes the body.

`LineFeed` is what the consumer is promised, without a stream, a scanner or a body:
lines in order from the first one, at most one error and nothing after it, the end
of the process only after its last line, nothing once the consumer has left.
It has a fifth end, `lost`: the iterators do not promise to tell a stream that was
cut from one that ended (`EndsOnlyWithEof`).  The refinement maps `given` to the lines
and the error the consumer got, and `status` to where the iterator is.

### ListIter

One loop for the four iterators, which are copies of each other up to the type
of an item.  An item is its position in the list's order, a cursor the position
of the last item of a page.  Other clients insert and delete between any two
steps.  The page a query gets is the service's (external): the first items
after the cursor, at most `limit` of them.  The query is built as
`ListFiles` builds it, leaving out parameters with a zero value.  `map` ties each
action to one of the four copies.

### PTYFrame, PTYConn, PTYClient

`PTYConn` has the operations of a connection without a specification: two
modules use it.  A call is what a caller is in the middle of, with its place:
waiting for `pc.mu` (`lock`), inside `conn.Write` with it (`send`), inside
`conn.Read` (`receive`) or `conn.Close` (`closing`).  `Lock` is the only step no
context interrupts, as in the code; the deferred `Unlock` belongs to the step that
returns.

A frame is a sequence of bytes.  `PTYFrame` has the opcodes, the frames `Ready`, `Write`
and `Resize` build, and what `Read` makes of the frames it gets (`Kind`, `Content`): the
four bytes of an exit code are put together and converted to a signed number as
`binary.BigEndian.Uint32` and `int32` do.  `Base`, the number of values of a byte, is
a parameter; what a process prints is one element of a frame.

External, by the contract of the WebSocket library and of the service as the
code and its comments state it: a write blocks while the network is full, a
call whose context is cancelled fails and may close the connection, `Close`
ends after its handshake or its timeout, the server sends nothing before Ready
and drops a client whose output it cannot keep, may send frames of an unknown opcode
or an exit frame that is too short, and after the exit frame it closes the
connection.  The connection may be lost at any time with all that is
on its way.

`PTYClient` closes it with callers that use it as they like, each with a context
of its own, `Read` as often as they like, but one at a time: the WebSocket library
(external) lets its methods run together except `Read` with itself, and nothing in
`PTYConn` keeps two readers apart.

### SandboxTerminal

`run` of `examples/sandbox-terminal` on top of `PTYConn`.  `mpc` is where `run` is,
`defers` the stack of its deferred calls; every return goes through
`mpc = "return"`, and `NextDeferred` takes the call deferred last.  The three
goroutines are callers of the connection beside `main`; they keep running while
`run` executes its deferred calls.  The signal cancels the one context of all
calls but the deferred ones, which have contexts of their own.  The service may
change the status of the sandbox at any time; a create call that fails may have
created what it was asked for.

The sizes of the window and the sleeps between tries are left out.

### SandboxBenchmark

`main`, `runLevel` and `bench` of `examples/sandbox-benchmark`.  `mpc` goes from the
flags, which it may refuse (`Init`, `mpc = "exit"`), over the
loops of `main` (`Launch`, `NextLevel`) through a run (`Wait` is `wg.Wait`, `Collect`
is `cleanWg.Wait` and what follows) to the summary.  Each goroutine has a place
in `bench` and a `result`; the clean-up has one goroutine per sandbox that is
still in `clean`.  The service answers every `GetSandbox` as it likes, so that
its sandboxes need no state but their existence (`created`).

Durations are inputs, small numbers.  A percentile is the element the code
selects, with the ceiling of `p * n` in thousandths; for the six values of `p`
and lists of up to 5000 elements the floating-point product has the same ceiling.
A mean is rounded down, as the division of durations does, and so is a standard
deviation: `Root` of the mean square distance, from the mean rounded down within a run
(`Stddev`, as `stddevDur` has it) and from the real mean between runs (`stddevF`).
`IsDeviation` says the same without a root or a quotient.
Sorting is an arrangement of the runs in which none stands before one of a smaller
duration (`Arranged`).  It is not the community modules' `SortSeq` with an order: by
its TLA+ definition an order with ties describes no arrangement at all.  The
comparison `int(a - b)` has 64 bits; on a 32-bit platform it would wrap around for
differences above two seconds.

The summary is its `Header`, the levels that have a column (`Columns`) and what a cell
shows: the statistics of the only run, or their mean over the runs that were made
(`Cell`) with their deviation behind a `±` (`Spread`).  A run keeps the
counts of its successes and failures with its statistics.  The layout, the wall time of a
run and the rounding to milliseconds of what is printed are left out.

### HTTPDispatch

One call from its checks to its return, for every plain call of the library.  A
call is a row of a table: the dispatcher it goes through (`do`, `doSandbox`,
`doSandboxAPI`), its method, what it checks (`Needing`), what it sends (nothing, the
JSON of its request with or without a look at the encoder's error, an `io.Reader`)
and what it does with an answer it accepts (leave the body, decode it, read it
whole, hand it to an iterator).

* `input` is the caller's request: which sources of a document it names, whether the
  options of the call are there, whether it can be encoded and its URL parsed.
  `Reject` and `Execute` are the two ways through the checks (`Sendable`).
* `sent` is the method the request goes out with.  `Redirect` (external) is `Do`
  following a 301, 302 or 303 with a GET.  `CarryOut`, the service's step, is
  possible only for the method of the call and a request that was encoded.

* `pc = "switch"` is the classification of the status: `Accepted` and `Handle` for
  the answers that reach the success handler or the caller of `doSandbox`,
  `HandleError` for the rest, with its two ways of reading an error (`"error"`
  decodes it, `"text"` reads at most `Limit` pieces of it).
* A body is a number of pieces, and is or is not JSON.  `Read` takes one, `ReadFails`
  is a lost connection or a cancelled context.  A Decoder that has met something
  that is not JSON has consumed it: `from` is where a later `ReadAll` starts.
* Who closes the body.  `do` and `doSandboxAPI` defer its `Close` as soon as they have it
  (`deferred`); `doSandbox` does so for an error only and hands any other answer over
  open (`HandOver`).  What its caller does is a column of the table, read off each of
  the twenty callers: it defers the `Close` and then reads (`TakeBody`), or closes
  the body unread (`CloseUnread`).  The follow iterators are one such caller, whose
  deferred `Close` waits for the end of the iteration (`EndStream`).  `Return`
  is every way out of the function that runs, with what it has deferred.
  The streaming way of `GetParseResult` (`parse_get.go:130`) and `UploadFile`
  (`file_upload.go:159`) call `Do` themselves and defer the `Close` there; they are not in the
  table.
* External: `Do` and the service.  2xx means that the request as it was sent last was
  carried out; a 3xx reaches the caller when `Do` does not follow it.

The fields of requests and answers are left out.

## 3. What the runs check

| Run | Question | Properties |
|---|---|---|
| `upload` | does an upload keep its promises under every interleaving? | `TypeOK`, `NoReadAfterReturn`, `SuccessIsWholeFile`, `EofAfterBoundary`, `Terminates` |
| `sse` | does the scanner yield exactly the events of any stream, say how it broke, and end with it? | `TypeOK`, `BrokenIsReported`, `YieldsTheEvents`, `NoYieldAfterStop`, `EndsWithStream` |
| `parse_stream` | does a cut stream ever give a wrong outcome or callback? | `WholeStreamIsReported`, `ImplementsParseWatch`, `ReturnsWhenStreamEnds` |
| `follow_stream` | does a consumer see the feed it is promised, and all of it when nothing is lost? | `WholeStreamIsFollowed`, `ImplementsLineFeed`, `EndsWithStream` |
| `list_iter` | what does an iteration see of a list that changes? | `TypeOK`, `InOrderOnce`, `NothingSkipped`, `Ends` |
| `pty_client` | are writers kept apart, are output and exit code what the process gave, and does whoever waits get away? | `OneWriter`, `OutputInOrder`, `ExitCodeIsTheProcess`, `ReleasedByClose`, `ReleasedByCancel` |
| `terminal` | is everything given up, in order, whichever step fails and whenever the signal comes, and do the goroutines, the session and the clean-up go together? | `TypeOK`, `GivenUpOnExit`, `GivenUpInOrder`, `ReadyIsFirst`, `OutputIsComplete`, `Ends` |
| `benchmark` | does the benchmark clean up after every failure, and report what it measured? | `TypeOK`, `SandboxesAreDeleted`, `StatsDescribeRun`, `SummaryShowsTheRuns`, `EndsWhenInterrupted` |
| `http_dispatch` | does every call report what the service did and answered, and release the body? | `BodyIsReleased`, `SuccessIsWhole`, `RefusalIsReported`, `SuccessIsCarriedOut` |

Three runs show that what a comment or document says is not what the code does
(`findings` in `PROJECT.json` quotes the lines):

| Run | Violated | What happens |
|---|---|---|
| `upload_read_error` | `StoredIsWholeFile` | `FileBytes.Read` fails; the deferred `writer.Close` still ends the body properly and the server keeps a truncated file, while the call returns the error |
| `sse_comments` | `CommentsAreIgnored` | a comment between two data lines makes the event lose the first |
| `follow_eof` | `EndsOnlyWithEof` | a stream closed before eof ends the iteration without an error |

More of this kind was met, and no run states it:

* when the server refuses an upload before it has read the body, the caller gets
  the goroutine's write error and not the status (`file_upload.go:162`);
* after a read error the scanner yields the unfinished record to a consumer that
  goes on, although its comment calls the error terminal (`iter.go:62`, `:146`;
  `BrokenIsReported` says nothing of what comes behind the report);
* when the answer of the terminal example's `CreateSandbox` is lost, nobody deletes
  the sandbox (`main.go:82`); when that of a `CreatePTY` is lost, the call is
  repeated and the first session is never killed (`main.go:133`);
* after its last poll the example creates a session in a sandbox that is not
  running (`main.go:109`);
* the text of an error of the sandbox proxy that is not JSON is lost: the Decoder
  has taken it before `ReadAll` (`sandbox.go:111-112`);
* `doSandbox` accepts a 3xx that `Do` does not follow, e.g. a 307 for a body that
  cannot be sent again: `WriteSandboxFile` reports success and nothing was written
  (`sandbox.go:108`; the other two dispatchers accept 2xx only);
* when a call that changes something is answered with a 301, 302 or 303, `Do` sends a
  GET to the place it names, and the page found there passes for the answer of the
  call (`client.go:107`);
* `ParseDocument` and `ParseDataset` do not look at the error of the encoder and send
  an empty body: only the service can notice (`parse_parse.go:95`);
* the benchmark indexes the first of no levels with `-con "" -repeat 2`
  (`main.go:324`, `mpc = "panic"` in the model), and after a signal its repeated
  summary has columns for levels its header leaves out (`main.go:318-341`; this is why
  `SummaryShowsTheRuns` asks for a header above every column only when no signal came);
* the benchmark's `-max-wait` is looked at between polls only: a `GetSandbox` that
  gets no answer is not bounded by it (`main.go:253-261`).

Every property of a passing run has a mutant: an operator beside the mapped
definition (`Mut...`) that changes it as a plausible bug would, under which the
run's property fails.

### Bounds, and why they are enough

* `upload`: files of 0 to 3 chunks, with and without labels.  Two chunks already
  give a first, a last and a repeated write; the third separates "between" from
  both.  The proofs hold for every number of chunks.
* `sse`: every stream of up to 4 lines over 11 lines (all fields; two values
  where the last one or the order counts; empty values where an event may be
  empty).  Four lines are enough for a record after a record, a run of data
  after a run of data, and an error after either.  `sse_comments`: 5 lines
  over blank, comment and two data lines.  The consumer may leave at any item,
  the stream end at any point, in any way.
* `parse_stream`: 3 events, one with data on two lines, and every job those three
  can form (updates before an end, unknown names).  A cut may fall after or in
  any line.  `count` needs no bound of its own: it is at most the number of
  events.
* `follow_stream`: three output lines, the second on two data lines, and eof.
* `list_iter`: 5 positions, page sizes 1, 2 (the default) and 3, so that there are
  up to five pages, exact and partial last pages, and a cursor whose item is
  deleted.  A position is created once: the order of a list is by creation.
  The proofs hold for every length and every page size.
* `pty_client`: two callers with any number of reads and three other calls in all: one
  frame fills the network, a second writer blocks in it and a third waits for the mutex
  behind it, or `Ready` is followed by a write and a `Close` while the output is read.
  Three pieces of output, the second in a frame `Read` does not know or an empty one,
  and room for one of them before Ready: `Read` returns up to two pieces in order, the
  frame between them an error, and then the exit.  `Resize` is not called here, only in
  `terminal` (it is a write like `Write`).  A byte has six values: four of them hold
  -648 to 647, and the exit codes -1 and 300 need the sign bit and two bytes.  Exit
  frames are of five bytes or one short.  The proofs hold for a byte of any size
  and every exit code.
* `terminal`: with and without `-sandbox`; two polls and two tries, so that there is
  a last one and one before it; one piece of output, one read of stdin and one
  resize, so that all three goroutines and `main` meet on a network that holds one
  frame.  `-keep` is off, as it only drops a deferred call.  The server keeps no
  output before Ready (`BufferLimit = 0`).  The proofs hold for both flags and
  every number of polls, tries, inputs and outputs.
* `benchmark`: eight command lines, two of them refused: three sandboxes at once, two levels
  of two and one, two levels of one run twice, a level that is never run, and no
  level with and without repetitions; durations of 1 and 3.  Three results give a
  first, a middle and a last element, equal or not, with any of them failed; two
  levels are the fewest of which a signal can cut off one.
* `http_dispatch`: bodies of 0 to 3 pieces and a limit of 2, so that an error text
  is shorter than, as long as and longer than the limit, and a cut is at the
  beginning, within or before the end.  A request names any of the three sources of
  a document.

### Fairness, and why the code justifies it

* `upload`: the caller and the goroutine are goroutines that Go schedules; each
  step assumed fair is one that is not blocked.  `FileBytes.Read` returns (the
  caller's reader; nothing in the code bounds it).  The transport drains or
  closes the body it was given, and `Do` ends, if only by the caller's context.
  `ServerStores` is not fair: nothing is assumed of the server.
* Streams: the iterator and its consumer run in one goroutine and always move
  when they can.  Nothing is assumed of the service or the network: a stream
  may be silent for ever, so the liveness properties all start from its end.
* `list_iter`: the list call returns, with a page or an error, and the consumer
  answers.  Other clients may do nothing or anything.

* `pty_client`: each caller's goroutine runs and the mutex is handed on (weak
  fairness per caller is enough: a caller waits for it only while another holds
  it, and with a finite number of calls that ends).  The server may
  stop reading and sending, so the liveness properties start from a closed
  connection or from contexts that are all cancelled.  A call that nothing serves
  waits for ever, so deadlock is not an error in this run.
* `terminal`: `run` and its goroutines run, API calls
  return, if only with an error (their context is cancelled by the signal, the
  deferred ones have timeouts of 5 and 10 seconds).  The user and the server owe
  nothing: a session whose process does not end has no end either, so `Ends` starts
  from a signal, a lost connection or the end of the process.
* `benchmark`: `main` and its goroutines run and their calls return.  The property
  starts from the signal, after which every call but `DeleteSandbox` has a
  cancelled context, and that one has a timeout of ten seconds.  Neither the
  deadline nor an answer is needed.
* `http_dispatch` states no liveness.

## 4. What is proved

The proofs are checked by TLAPS for every value of the constants that satisfies
the named assumptions of the modules (`MaxChunksAssumption`; `LinesAssumption`,
`MaxLinesAssumption`; `PayloadsAssumption`, `NamesAssumption`; `BaseAssumption`,
`PTYAssumption`, `MaxCallsAssumption`, `TerminalAssumption`; `DispatchAssumption`;
`BenchmarkAssumption`; `ListAssumption`).  Every safety property of every passing run
and both refinements are proved.

Few of the properties are inductive.  The inductive invariants they follow from have
no run of their own: the runs check the properties, the proofs the invariants.

Of liveness the prover reaches the safety half, and the theorems state it for every
value of the constants: a measure that every step of an actor lowers and nobody else
raises (`StepsAreBounded`, `EndIsBounded`, `CallEndIsBounded`, `IterationEndIsBounded`,
`CallsAreShort`, `RunIsBounded`, `MainIsBounded`, `SignalEndsPolling`), and that an actor
which must go on finds a step possible (`SignalFindsRunFree`, `NobodyIsStuck`).  `ENABLED`
is out of the prover's reach, so these two name the guards of the steps (`Free`, `CanGo`).
That the steps are then taken is fairness, and TLC's.

| Module | Inductive invariant |
|---|---|
| `UploadFileProofs` | `IInv`, `ErrorInv` |
| `SSEStreamProofs` | `TypeOK`, `ScanInv`, `DecoderInv`, `ReportInv` |
| `StreamConsumerProofs` | `CallInv`, `WholeInv`, `CountedInv`, `BlamesEnded`; `FollowInv`, `FollowedInv`, `FollowCounted`, `FailsEnded` |
| `ListIterProofs` | `TypeOK`, `ListInv`, `CursorInv` |
| `PTYConnProofs` | `MutexInv`, `PTYTypeInv`, `IdleInv`, `StreamInv` |
| `SandboxTerminalProofs` | `DeferInv`, `TerminalInv`, `StartInv` |
| `HTTPDispatchProofs` | `TypeOK`, `DispatchInv` |
| `SandboxBenchmarkProofs` | `BenchInv`, `TypeOK`, `RunsInv`, `LastInv` |

**`UploadFileProofs`** (all theorems from `Spec`, without fairness).  None of the
safety properties is inductive: that `UploadFile` succeeds only for a whole file
depends on where the goroutine was when it reported.  `IInv` is the conjunction of

* `BodyInv`: what the transport has read follows from where the goroutine is, as
  long as there was no error.  (While it waits to write chunk *n*, exactly the
  header and *n*-1 chunks have been read, and so on to the closing boundary.)
* `PipeInv`: boundary, close of the write end, end of file, stored, 200 come in
  this order.
* `ReportInv`: one report per goroutine, sent after its last read of the file,
  and received before `UploadFile` returns.

`NextTypeOK`, `NextBodyInv`, `NextPipeInv` and `NextReportInv` show for each part
that every action preserves it, one step per action; `FilePartAppend` and
`ContentSeq` are the facts on bodies they need.  `Invariance` combines them.
Then `TypeCorrect`, `ReaderIsReleased`, `SuccessIsWhole` and `BoundaryBeforeEof`
follow.  Part of `TypeOK` is that the channel never holds two reports: the
goroutine is never blocked in a send and cannot leak there.  `TruncationIsReported`
is what remains true where `StoredIsWholeFile` is violated (section 3): the truncated body
is one whose reading failed, and its call returns an error.  `StepsAreBounded`: an upload
of *n* chunks takes fewer than 2*n* + 15 steps.

**`SSEStreamProofs`**.  `ScanInv` adds to the properties where the errors are for
each place the iterator can be in: none while it scans, exactly the last item
while it yields one, at most the last item before the final record.
`Invariance`, then `TypeCorrect`, `NoEmptyEvent`; the action
property `SilentAfterStop` uses that a stopped iterator is done.  `BrokenReported` follows from
`ReportInv`, which ties the error reported to the line without a colon, if one was read
(`ScanReads`, `YieldReports`), or to the way the stream ended.  `ScanLeft` counts the steps an iteration has left behind the end of its stream, two for
a line and five (`EndIsBounded`).

`EventsYielded` is that the items are the events of the lines, for streams of any
length.  It needs no induction over the stream, as `DecoderInv` follows the lines
while they are read: between two of them the decoder, once its data is flushed, holds
the record that has not ended (`SSEReference` computes that from all the lines so far),
and it is collecting data exactly if the last line was data.  The lemmas say what one more
line does to the reference.  `Counts`, `NthGrows` and `ListedGrows` are about positions
of a set in their order; `LineAdded`, `BlankAdded`, `FieldOfLast` and `RunAdded` give the
record with a line more, the hard one being the last run of data (`RunStays`, `RunGrows`:
it grows, starts anew or stays what it was); `ClosedGrows` and `EventsGrow` the two lists that
`YieldsTheEvents` compares.

**`StreamConsumerProofs`**.  What a consumer makes of an item depends on where the lines
of it came from.  The first half of the module says so for any service, given as a record
(`Services`) so that a job and a process share it.

* `Carries`: what is still to be read is the text from line *r* of event *n* on, as far as it
  was written, or up to a cut with at most a piece of a line at its end.
  (`CarriesTail`, `CarriesMore`, `CarriesCut`: a line is read, an event written, the
  stream cut.)
* `Decoder`: what the scanner holds before line *r* of event *n*.  `Decoded`, `Partial`: what it
  holds behind a cut, whose name and data are those of event *n* or of no event.  This is where
  `PayloadsAssumption` is needed.
* `Scans` combines them for each place of the iterator; `ScanKeeps`, `ContinueKeeps`,
  `CutKeeps` and `WriteKeeps` show that every step of scanner and service keeps it.

`CallInv` and `FollowInv` tie `n` to what the consumer has counted.  From them every
step of `ParseStream` is a step of `ParseWatch` or a stutter, and every step of
`FollowStream` one of `LineFeed`: `ParseImplementsWatch`, `FollowImplementsLineFeed`.
`NoErrorInventedOfJob` and `NoErrorInventedOfProcess` say that an open stream is blamed for
nothing.

That nothing of a whole stream is missing needs the account of the lines: those read and those
to be read are at most those written, and if they are as many nothing is cut
and the scanner ends behind the last event (`Accounts`, `Lossless`; `ScanAccounts`,
`ContinueAccounts`, `CutAccounts`, `WriteAccounts`).  `WholeInv` and `FollowedInv` keep it
until the end.  For a stream that is cut, `Counted` ties the blank lines read to the events
the scanner has handed over (`ScanCounts`, `ContinueCounts`, `CutCounts`, `WriteCounts`): at a
cut one of them is missing, which is the event that was not read whole.
`WholeJobReported` and `WholeProcessFollowed` follow from both.

How a stream ends: `MissingEventsAreOfCleanEnd` and `LostEofIsOfCleanEnd` bound what the library
cannot tell from a regular end, and `CallEndIsBounded` and `IterationEndIsBounded` carry
`ScanLeft` to the two consumers (`CallLeft`, `IterLeft`).

**`PTYConnProofs`**.  `OneWriter` alone is not inductive: a call
must not be pending on a connection that does not exist.  `MutexInv` adds that and
the type of calls.  `PTYConnProofs` shows once and for all clients that the
initial state has it and that `Begin`, every step of a call and every step of the
server keep it.  `PTYTypeInv`, the types of the connection, is treated in the same way.
The theorems about `PTYClient` are at the end, through an instance of it (`SameFrames`,
`SameCalls`, `SameServer`: what it is made of is what the lemmas are about):
`ClientsExclude`, `ClientsTypeCorrect`.

That `Read` returns what the process wrote needs to follow the frames on their way.
`StreamInv` says that what has been got, what is under way, what the server keeps and
what the process has written continue one another, and that an exit frame is the
last.  `ExitRoundTrip` is the arithmetic: the four bytes of `ExitFrame` are read back
as the code they were made of, for every `Base` and every code of that width (`Digit`
and `Int32RoundTrip` are its two halves, division with remainder and two's
complement), `OutputRoundTrip` that of an output frame.  `OutputOrdered` and
`ClientsReadExitCode` follow.

`NobodyIsStuck` combines `MutexInv` with `IdleInv`: once the connection is closed or every context
cancelled, whoever waits for the mutex waits for a holder inside `conn.Write`, which fails.
A call takes two steps at most (`CallsAreShort`).

**`ListIterProofs`**.  That nothing is skipped depends on where the cursor is, and this
on what the last page held.  `ListInv` says, for each place of the loop, that what is
left of a page lies beyond what was yielded, the cursor to come beyond both, and
that no item listed all the time is missing below it.  `LeastExists`, `MinIsLeast` and
`MaxIsGreatest` give the bounds of finite sets of numbers, `PageIsFirstPart` and
`FetchedPage` what a page is for the query as it was built (`QueryParams`), `YieldOne` what
one item changes.  Then `TypeCorrect`, `OrderedOnce` and `Complete`, for lists and pages of
any length.  `CursorMovesOn` and `StepsAreBounded` are why an iteration ends: each page lies
beyond the one before, and a list of *N* positions takes at most 3*N* + 2 steps.

**`SandboxTerminalProofs`**.  What the program promises at its exit depends on what
it had deferred at every step before.  `DeferInv` says, for each place of `run`,
which calls may be on the stack, that the stack is ordered by `Rank`, and that
whatever has been acquired (raw mode, connection, session, sandbox) is on it or has
been given back.  `Push` and `Pop` are the two facts about stacks; `Moves`,
`AcquireInv`, `ReleaseInv` and `OthersInv` show that every step keeps `DeferInv`,
the last one because goroutines, user and service can only close the
connection (`Quiet`, `CallStepCloses`).  `TerminalMutex` reuses the lemmas of
`PTYConnProofs`.  Then `Deferred`, `WritersExclude`, `GivenUp` and
`GivenUpReversed`.

`TerminalInv` is about the session, beside the clean-up.

* `CallersInv`: which call each of the four callers can be in, and `main` at which place.
* `ReadyInv`: as long as nothing has gone to the server, `run` has not got past its `Ready`, no
  goroutine exists and nobody else is in a call; so the first frame is Ready
  (`ReadyFirst`).
* `OutputInv`: the reader has written what `Read` returned to it, but for the answer at
  hand, and what is on its way continues it.  With `StreamInv` of the connection
  `OutputComplete` follows: whoever has seen the exit has printed everything.
* `TerminalTypeInv`: the number of tries, polls and sessions by the place of `run`
  (`TypeCorrect`).

`ExitCodeArrives` is `StreamInv` once more.

How `run` ends.  `StartInv`: before it has the terminal no goroutine of it runs, so its `Ready`
meets a free mutex, and whatever it has to close exists.  With it `SignalFindsRunFree`: wherever
a signal finds `run`, a step of it is possible.  `RunLeft` counts the steps that
are left, polls and tries included and three for every deferred call
(`RunIsBounded`).

**`HTTPDispatchProofs`**.  What a call returns depends on how its reading ended, and
that on why it was read.  `DispatchInv` adds to the four properties, for each
place of a call, whether the body is open and its `Close` deferred, which dispatcher and class of status
can have led there, how much may have been read, and that an answer of 2xx belongs to
a request that was carried out or to the GET that took its place.  `CallRows` is the
only use of the table: for `Released`, that every caller of `doSandbox` closes what it gets,
and defers this if it reads.  `NextTypeOK` and `NextDispatchInv` go through the actions;
`TypeCorrect`, `Released`, `WholeSuccess`, `Reported` and `CarriedOut` follow, for bodies of any
length and any limit.  `StepsAreBounded`: `Do` may follow one redirection to a GET, and a body
is read at most twice.

**`SandboxBenchmarkProofs`**.  That the clean-up forgets no sandbox depends on each
way out of `bench` keeping the id.  `BenchInv` says that a created sandbox has its
id in the result or the error of `CreateSandbox`, and follows the ids from the
results to `clean` and `deleted`.  `BenchStep` is a goroutine's step, `BenchNext` the
others, `Deleted` the theorem, for any number of sandboxes.

The figures, for any number of runs and any durations.

* `SumExists`, `SumBounds`, `ArrangementExists`, `RootFacts`: sums, arrangements and roots, which
  are defined by `CHOOSE`, exist and are what their names say.  Existence is by the least
  counterexample.
* `PercentileIsNearestRank` is the percentile of the code, from `NearestPlace` (its index, with the
  ceiling, is in range and the nearest rank) and `RankOfSorted`.  `MeanIsFloor`: the mean is
  the real one, rounded down.  `RootOfQuotient`: rounding before and after the root
  is rounding once, from which `StddevFacts` and `StddevFFacts` give both
  deviations exactly.
* `LastInv`: the statistics made last are those of the results at hand, of as many sandboxes as
  the level has; `Described` follows.
* `RunsInv`: no level above the current one has a run, those below it have all theirs unless
  a signal came, and after a signal none begins; so the levels with runs are the first ones, and
  the header stands above the columns of its own levels, and without a signal above all
  of them (`HeaderFacts`, `Summarised`).
* `MainLeft`, the steps `main` has left: a level is worth more (`LevelSize`) than its
  repetitions take (`LevelInv`).  `MainIsBounded` needs no signal; `SignalEndsPolling` does,
  as until then a goroutine may poll for as long as the service keeps it waiting.

### What is only model-checked

* Liveness (`Terminates`, `EndsWithStream`, `ReturnsWhenStreamEnds`, `Ends`,
  `ReleasedByClose`, `ReleasedByCancel`, `EndsWhenInterrupted`): the
  prover has no rules for fairness and `ENABLED`.  What is proved towards them is
  listed above.
* The violations of the three runs that expect one: a counterexample needs no proof.
* That the floating-point product has the ceiling of the model (section 2) was computed
  for each of those lengths, outside of TLA+.

## 5. What is not modelled, and why

* The contents of requests and results: formatting of URLs, JSON encodings, error
  texts.  They are plain data that go through the standard library.
* The transport, the servers and the network, except as external actors with the
  freedom the code must live with.
* Bytes: splitting of lines and trimming is done by `bufio` and `bytes`; the line
  limit is a way for a stream to end.
* Calling an iterator's function twice (a second range over the same `ScanEvents`
  value shares the scanner): nothing in the repository does.
* The life of a sandbox, of a process or of a dataset: the library keeps no status of
  any of them and makes no decision on one, so a model of several clients would be a
  model of the service.  The examples, which do decide on a status, are modelled.
* The data types: declarations and their encoding by `encoding/json`.  `UnionValues`
  decodes a value alone to a list of it and `null` to a list of one zero value (so
  that no value at all does not survive being encoded and decoded); no other code of
  the repository reads its result.
* The fields of requests.  One of them is changed under the caller's hands:
  `ReadDocument` clears the file name of the request it is given unless the document
  is named by its id (`parse_read.go:82`).
* The options of `NewClient`, base URLs and their schemes: set once, before any call.

## 6. Plan

Done: 1. `UploadFile` and its proofs; 2. the scanner and its proofs; 3. `ParseStream`
and `ParseWatch`; 4. `FollowStream` and `LineFeed`; 5. `ListIter` and its proofs; 6. `PTYFrame`,
`PTYConn`, `PTYClient`, `SandboxTerminal` and their proofs; 7. `HTTPDispatch` with requests
and redirections, `SandboxBenchmark` with its summary, and their proofs; 8. the
proofs of the events the scanner yields, of the refinements of `ParseWatch` and
`LineFeed`, of whole streams, of the terminal's session and of the benchmark's figures;
9. what is read whole of a stream that is cut, how streams end, and the bounds on the
steps of every component.

What is left is what no module of this kind can settle: whether the contracts assumed of
`net/http`, of the WebSocket library and of the service (section 2) are theirs.
