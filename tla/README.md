# A TLA+ model of tpt-proto

tpt-proto is a Protocol Buffers stack in Rust: a wire-format core, a schema
compiler, dynamic messages, JSON and text formats, code generation, and a gRPC
runtime over HTTP/2. These modules model the parts in which order, failure and
concurrency decide whether the program is right, and the parts in which two
implementations have to agree: what one program writes and another reads, what
a schema means before and after an edit.

Every definition is translated from the source. `PROJECT.json` names, for each
of them, the lines it stands for (`map`), and for each property a plausible bug
of the mapped code that the property's run catches (`mutants`).

Paths of the gRPC sections are relative to `crates/tpt-proto-grpc/src/`, the
others to the root of the repository.

## How to run

    tlc -workers 2 -config Framing.cfg MCFraming     # one run
    tlapm FramingProofs.tla                          # the proofs of one module

All runs together take some ten minutes; the longest, `schemas`, `messages` and
`server`, take two to three minutes each.

## Inventory

### gRPC runtime (`crates/tpt-proto-grpc`)

| Part | State it keeps | Operations | What is hard, and what makes it right |
|---|---|---|---|
| cancellation token (`cancellation.rs`) | an `AtomicBool`, a `Notify`, a condvar | `cancel`, `is_cancelled`, `cancelled().await`, `wait` | load and registration, store and wake-up are not atomic; nobody is released early, nobody misses a cancel, cancellation is permanent |
| server (`server.rs`) | the accept loop, a `JoinSet` of connection tasks, a detached task per RPC, the semaphore of `max_concurrent_rpcs`, the shutdown token, the keepalive task | `serve`, `shutdown`, accept, handshake, dispatch, unary and streamed responses, drain and abort | permits on every exit path, one well-formed response per RPC, one recorded status, deadline and shutdown racing the handler, reset streams, lost connections, drain |
| health (`health.rs`) | map of statuses, broadcast sender, one receiver per Watch | `set_status`, `get_status`, `check`, `watch` | insert and broadcast under different locks, subscribe-then-read, lagging receivers; a watcher must end up with the status Check answers |
| framing (`framed.rs`, `codec.rs`, `compression.rs`; the same loop in `client.rs`) | the buffer, the end-of-stream flag | `poll_next` over h2 `poll_data`, `read_single_message` | chunks cut anywhere, truncation, limits, flow control |
| client (`client.rs`) | a cached connection, retry policy and backoff | four call shapes, retries, reading of responses and trailers | stale connection, two first calls, retry of an executed call, request stream failing midway |
| one-shot transport (`transport.rs`, `transport_http2.rs`) | one connection per call | `exchange` | a request error drops the body |
| reflection (`reflection.rs`) | one task, a bounded channel | requests answered in order | order, back pressure, unknown symbols |
| observability (`observability.rs`) | counters and histograms by label, one `CallInstrumentor` per call | start, finish once, drop | exactly one status per call; started and closed under the same labels |
| security, metadata, status, timeout, context, method, interceptor, service | none beyond a call | conversions and verdicts | bounds, a denial ahead of what the registry knows |
| TLS, `bin/tpt-grpc.rs` | key material; none | handshake; argument parsing | I/O |

The parts interact so: the accept loop hands a socket to a connection task;
that task runs h2 and spawns one task per request, which queues for a permit,
asks the security policy, reads the request through `DeframeStream`, and runs
the handler in a `select!` with the deadline and the shutdown token; the result
is written to the h2 stream and handed once to `CallInstrumentor`. Health and
reflection are services behind that path. The client is the mirror image, with
`GrpcResponseBody` in place of `DeframeStream`.

### The rest

| Part | State | What is hard, and what makes it right |
|---|---|---|
| core: reader, limits, packed fields, varint, scalars (`crates/tpt-proto-core/src/`) | position, depth, bytes and fields counted so far; nested readers | limits over nested messages, groups and map entries; decode inverts encode |
| core: unknown fields (`unknown.rs`) | entries, running length | the running length is the recomputed one, within the limit, after every insert |
| reflect (`crates/tpt-proto-reflect/src/lib.rs`) | fields by number, extensions, unknown fields | presence, oneofs, packing and maps on the way to the wire and back |
| code generator (`crates/tpt-proto-codegen-rust/src/lib.rs`) | none; the structs it writes | it has to agree with reflect on every byte |
| JSON and text (`crates/tpt-proto-json/src/`, `crates/tpt-proto-text/src/lib.rs`) | depth | what is printed is read back, under every set of options |
| language (`crates/tpt-proto-language/src/`) | position, errors, nesting | recovery always advances; what is accepted is in the tree |
| fmt (`crates/tpt-proto-fmt/src/lib.rs`) | indentation, where the line stands | tokens and comments stay, formatting comes to rest |
| compiler (`crates/tpt-proto-compiler/src/`) | visit stacks, the memo of re-exported files, symbols | every cycle is found; a name means the innermost visible declaration whatever file comes first |
| lint (`crates/tpt-proto-lint/src/lib.rs`, `lint_files` of the command line) | none | a history of releases that pass it keeps old bytes readable |
| build integration (`crates/tpt-proto-build/src/lib.rs`) | generated code, stamps and index on disk | edits, kills and reverts between builds; the code is that of the tree |
| wkt, descriptor, rest of the command line | none or files | conversions and printing |
| conformance runner, benchmarks, fuzz targets | test tooling | not the program |

The parts interact so: the build integration and the command line resolve the
imports of an entry file, parse each file, compile the set into descriptors,
and hand these to lint, to the code generator, or to the pool of reflect.
Generated code and reflect meet on the wire, both through the core's reader;
JSON and text print and build dynamic messages.

`PROJECT.json` lists each of these with its status, and every hazard of the
code at the line where it bites.

## The modules

### `Cancellation`: the token

`cancelled` is the flag, `waiter[w]` is where a caller of `cancelled()` or
`wait()` stands, `canceller[k]` where a caller of `cancel()` stands. One action
per atomic step: the load (`Check`; `EnterWait` and `CheckInWait` for the
blocking form, which loads twice), the creation of the `Notified` future
(`Register`), dropping or resolving it (`Leave`), the store (`Store`) and
`notify_waiters()` (`Notify`). `Notify` is tokio's: it releases the futures
that exist and leaves nothing for later ones.

### `GrpcServer`: the server runtime

One instance of `Cancellation` is the server's shutdown token; its waiters are
the accept loop, the connection loops and the RPC tasks, one per `select!` over
`shutdown.cancelled()`. A round of a loop drops the future and creates another
(`NewRound`), which cannot happen between the load and the registration,
because that is one poll. Whoever else waits on the token, a thread blocked in
`wait()` say, is one of `Blockers`.

| Variable | Code |
|---|---|
| `listener` | `serve_with_acceptor`: accepting, draining its `JoinSet`, returned |
| `conn` | `handle_connection` of each connection |
| `task`, `req` | the spawned task of each RPC and the request it got |
| `body`, `frames`, `flushed`, `dead` | the two halves of its h2 stream: what the peer delivered, what was written, how much of it was sent, whether the stream is gone |
| `permits`, `permitQueue` | the tokio semaphore, FIFO |
| `recorded` | the status handed to `CallInstrumentor::finish_with_status` and the call log |

Each action is a handler or a branch of a `select!`, up to its next await, with
all it does: `Deny`, `SeeDeadline`, `ReturnMessage` and the other ends of
`handle_request` record, write the response, and return the permit in one step,
since none of these calls awaits. The response stream of a streaming call is
awaited item by item outside of the `select!`, as in the code (`StreamItem`,
`StreamEnd`).

Abstractions: a request is its kind, whether it has a deadline, whether the
policy denies it (`denied`), and whether the registry has its method (`known`):
two facts of their own, looked up and used in different places, so that a
request may be both denied and for an unknown method (the registry is looked at
first, the denial is answered first, and an unknown method is taken for a unary
one until it is refused). A request body read whole by `read_single_message` is
one of `Deliveries`: a message, nothing, or bytes that do not deframe (module
`Framing` says how these come about); a handler answers, fails, panics, or never
returns. The keepalive task is the step `LoseConn`, which it shares with a peer
that goes away.

### `HealthWatch`: the health registry

`map` is the table of statuses, `sent` everything ever broadcast, `pos[w]` how
far the receiver of a Watch is, `pending[t]` what a `set_status()` has inserted
and not yet broadcast (the two run under different locks). `Subscribe`,
`ReadCurrent`, `ReportCurrent` and `Receive` are the steps of `watch()` and of
the stream it returns; `Lag` is the receiver that fell more than `Capacity`
behind. `Check` and `Aggregate` translate `check` and `get_status("")`.

### `Framing` and `FrameReader`: bodies of length-prefixed messages

`DeframeStream::poll_next` and the same loop in the client's
`GrpcResponseBody`, which goes on to the trailers. A byte is its frame and its
place in it, so that "whole, in order, without a gap" can be said without
contents. The peer sends pieces of frames (`PeerSend`) as far as the receive
window allows, and ends or resets the stream at any point. The loop has one
action per turn: refuse a length (`Oversize`), take a frame that decodes or does
not (`TakeFrame`), append a chunk (`PollChunk`), or meet the end, a reset, a
partial frame, an error status, or the clean end. Whether a header is refused
before its payload arrives, whether bytes are consumed with an error, and what
is repeated at the next poll are as in the code.

`FrameReader` is what `framed.rs:24-25` promises, without bytes and buffers: the
frames one by one, then at most one error, which is terminal, and an end that
hides no error status. `Framing` implements it for a consumer that stops at its
first error (`DeliversFrames`); the mapping gives it the frames of the body with
their bytes, and for what was answered the items up to the first error
(`Heard`). For a consumer that polls on it does not: the same error is repeated
for ever, and the stream goes on behind a frame that does not decode (see the
disagreements below).

The window is never given back: `release_capacity()`, the only way to reopen an
h2 receive window, is called nowhere in the repository. A body that is longer
stalls, so `BodyIsReadOrStalls` says of an acceptable body that it is read or
that the window is used up; that it is read is refuted by a run of its own.

### `GrpcClient`, `OneShot` and `CallPromise`: the two clients

`GrpcClient` is `client.rs`: the cached connection and who replaces it
(`LookUp`, `AnotherCaller`); connecting to one endpoint after the other and
shaking hands with it, both of them as long as the peer likes (`Dial`,
`NextEndpoint`, `Handshake`); the retries of a unary call with their
backoff (`Fail`, `BackedOff`, `Begin`), the four call shapes up to the response
head, the writer task of a streamed request (`WriterSends`, `SourceEnds`,
`SourceFails`), and the reading of messages and trailers. `pc[c]` is where a
call stands, `stream[c][a]` the stream of each attempt with its two halves. h2
and the peer are external: the peer runs a request, answers, refuses, resets,
and finishes with a status in the trailers or with no trailers at all (`BARE`),
with or without messages before; connections break.

`OneShot` adds `transport_http2.rs`: a connection per call, a request driver,
the response collected whole and cut into frames afterwards. One state holds
calls of either kind.

`CallPromise` is what a caller may rely on whichever transport carries the
call: one outcome that stays, at most so many executions as attempts are
allowed, and no reply without an execution. `OneShot` (which contains
`GrpcClient`) implements it: `outcome` maps to what the call has told its
caller, `runs` to the streams the server has run (`KeepsPromise`).

### `WireValues`, `Wire`, `DynamicMessages`, `Generated`, `Exchange`: messages on the wire

`WireValues` and `Wire` are the core: bytes are `0..255`, a reader is its bytes,
depth, counts and limits, and each read returns a value or the error with the
reader behind it. `WireValues` has what concerns one value: varints, zigzag,
fixed numbers, tags, scalars, the counts and limits of the reader, and the store
of unknown fields. The powers of two and what is gathered of some bytes are
recursive functions (`Power2`, `Gathered`), so that the module can be proved
about. `Wire` has what goes through several values: skipping, packed fields, map
entries, groups and the encoding of the store. `DynamicMessages` is reflect on
top of it: a message is its type, a function from numbers to values, its
extensions and its unknown fields. `Generated` is what the generated Rust code
does: a struct by presence of its fields, `encode_struct`, `merge_from`,
`decode_struct`. A file with a type that contains itself by value has no code,
since the generator never boxes (`HasCode`). The descriptor pool is a variable,
`pool`, that `from_set` builds at the start and every action keeps. A float is
its sign and its size: nothing, a fraction, a whole number within or beyond the
integers, infinity, or not a number.

`Exchange` is a program that sets and clears fields and extensions, sends the
message, a peer that writes forms of its own in its place (packed fields
unpacked, fields out of order, unknown fields, entries without a key), a relay
with generated code in between, and the receiver.

### `TextFormat`, `JsonMapping`, `Formats`: messages as text and JSON

Text is a sequence of lexemes, JSON a value of one kind, both with what the
other side makes of them: `Token` is what tokenising a printed value gives, so
that a float printed whole is the integer it looks like, and none if that does
not fit; `Reread` is the same of a string, `Rounded` what an f64 leaves of a
whole number. `JsonMapping` has the well-known types with their own forms; a
string is what the reader that is to take it makes of it (a time, base64, a
number). `Formats` adds documents to `Exchange`: printed under each set of
options, written by hand, and read back.

### `Parser`, `Formatter`, `Sources`: proto files

`Parser` has one operator for each production, under the name of its function,
on a state of tokens, position, number of diagnostics and whether it hangs;
recovery and the early returns are those of the code. The syntax tree is
records and sequences. `Formatter` lays out tokens and comments with the line
breaks before each; `Relex` is what the lexer sees of the result. `Sources` is
the author: statements of every kind of block one after another, then a token
left out or mistaken, or comments and blank lines put in. Parser and formatter
are run on every state.

### `Compiler`, `Pipeline`, `ProtoFiles`, `SourceTree`, `MessageLint`, `Lint`, `Releases`, `Schemas`, `BuildSteps`, `Builds`: schemas

`Compiler` turns a syntax tree into a descriptor, `Pipeline` resolves imports
from a disk and compiles the set: cycles, visibility with its memo, symbols,
references, options. `MessageLint` compares two versions of one message, field
by field and range by range; `Lint` walks nested messages, enums and services.
The walk of `lint_messages()` into nested messages is a function of the depth
(`Compared`: the pairs of lists that are compared at each depth, down to
`MaxNesting`), which finds what the recursion of the code finds. `ProtoFiles` is
the disk with whoever edits it, one version of each file at a time; in
`SourceTree` versions are tokens, parsed by `Parser`.

`Releases` is a team that edits files and releases the entry file whenever
`lint_files()` finds nothing breaking; `shipped` remembers what the numbers in
use have meant since they came into use, and forgets a number when it goes out
of use; `kept` is what was ever reserved, and `moved` the numbers whose
reference had another target when lint compiled the old file with the new
imports. What the compiler makes of the tree is its parameter `Compiled`, so
that it can be proved about for every compiler that keeps `CompilerAssumption`.
`Schemas` gives it the parser and the compiler, for which TLC evaluates that
assumption on every state of the tree, and adds the references. `BuildSteps` is
`compile_protos()`, a step for each thing it reads or writes (`Fingerprint`,
`Compile`, `WriteOut`, `WriteStamp`, `WriteIndex`), with edits at any moment and
`Kill` at any step; what one compilation makes of a file is its parameter
`CompileOne`, so that it can be proved about for every compiler. `Builds` gives
it the compiler of `Pipeline`.

The `MC...` modules give the model checker the requests, setters, bodies,
descriptors, documents, statements and versions of files. Operators whose names
end in `Bug`, or that are commented "Faulty variant", are the mutants; no
behaviour uses them.

## The runs

Runs that must pass:

| Run | What it shows | Bounds |
|---|---|---|
| `server` | the token releases nobody before the flag is up, and nothing that begins to wait after it parks; every permit is free or held by one task, and nobody queues while one is free; responses are well formed; a failure in the sinks is the one on the wire; a denied call reaches no handler and looks the same whether or not its method exists; a status is recorded once, when the call leaves the `select!` | two RPCs, one permit, one connection, one shutdown, one thread blocked on the token: the second RPC always queues, and every way of ending the first hands it the permit; the requests are denied or not and for a known or an unknown method in every combination, read whole or streamed. RPCs are interchangeable, hence the symmetry (no liveness in this run) |
| `server_ends` | a shutdown that finds the accept loop parked ends `serve()` and every connection, one stuck in its handshake included; with deadlines on all calls and no streamed responses, every accepted RPC ends and the permit comes round, whatever peers and handlers do | two RPCs, one permit, one connection, a shutdown at any time or none, peers that fall silent at any point |
| `health` | no update is lost between subscription, first read and receive loop; a Watch that does not lag ends up showing the final status | two services with an owner each, four calls of `set_status`, a channel of two so that lagging happens |
| `framing` | frames come out whole, in order, once; a consumer that stops at its first error hears frames, then one error, then nothing (`FrameReader` is implemented); the buffer is bounded; no clean end hides a truncation or an error status; an acceptable body is read to the end, or to the last frame that the window lets in | every body of up to three frames out of an empty, a maximal, an oversize and an undecodable one; a header of two bytes, chunks of up to three: headers and payloads are cut in every way and one chunk spans frames. The window is ten bytes and acceptable bodies have up to twelve: some of them stall |
| `client` | an attempt that may have had an effect is repeated only after a status the policy names; a request that was cut is never whole to the server, except where bidirectional streams end it so; a reply is what the server answered, in a run that it finished with OK or without trailers; `CallPromise` is implemented; every call ends, but those that go on waiting for a connection to be made, for the peer or for the caller's request stream, and those that hang by themselves in the two ways of `HangsItself` | one call of each shape over each transport, two endpoints, one retry, one other caller that may replace the connection; responses of up to two messages, one of them too large, with and without trailers |
| `messages` | messages come back from the wire, from text and from JSON as they were, but for those that `Survives`, `TextSurvives` and `JsonSurvives` leave out; nothing nested deeper than the limit comes back; unknown fields are accounted for; generated code passes on what a message means | a pool with two messages that have every kind of field between them, submessages, maps, the well-known types and extensions; two fields set at once (`MaxFields`), wires of nine bytes for relays (`MaxWire`); depth limits of two to ten, reached; words of 16 bits for the 64 of the code, 100 nanoseconds to the second, 12 bits of mantissa; floats of each sign, whole, broken, beyond the integers and not finite; three sets of options for each format |
| `sources` | the parser ends, but for one loop; a file it accepts is whole in the tree, but for the listed omissions; formatting keeps every token and comment, but for comments in the middle of a line; formatting again moves nothing but block comments, and a third time nothing, but for comments of several lines that are indented | three statements out of a form of each production, one slip in a source of two, one comment or blank line, nesting up to two (200 in the code): a slip meets every pair of productions |
| `schemas` | references mean the innermost visible declaration, cycles are found; over three releases no number changes its meaning and no reserved number comes free, but for the listed escapes; a file has no findings against itself; the compiler keeps `CompilerAssumption` | three files with seventeen, eight and five versions: public, plain and weak imports, self- and mutual cycles, shadowed names, moved types, ranges cut and grown, a nested name declared twice, references that move inside of the file; three releases (`MaxReleases`) so that a middle one can lose what the first had; field numbers up to 6 with one reserved to the implementation, reserved numbers up to 9 (`MaxNumber`), deeper nesting than any version has (`MaxNesting`) |
| `builds` | the code of a finished build is what its tree compiles to | an entry with an import that is edited, removed, renamed; two files of one stem; an incremental and a full configuration; three builds, three edits, kills anywhere |

Three runs in which the code does what a document of the repository says it does
not:

| Run | Statement | What happens |
|---|---|---|
| `server_shutdown_drops` | "drain in-flight RPCs" (`server.rs:332-333`) | on shutdown a connection loop breaks and drops the connection with RPCs unanswered |
| `framing_window` | "Maximum size of a single gRPC message" (`server.rs:95`) | a message of that size is longer than the receive window (4 MiB and 256 KiB by default), which is never given back (`framed.rs:94`): peer and reader wait for each other |
| `messages_packed` | "decoders accept both packed and unpacked forms" (`docs/wire-format.md:42-43`) | a repeated enum is written packed and read as a single enum (`crates/tpt-proto-reflect/src/lib.rs:725`) |

Bounds named in the modules and not in the code: `MaxItems` (response messages
of one stream, or items a consumer takes), `MaxSets` (calls of `set_status`).
They are guards of the steps they count, as are `MaxResponses`, `MaxRequests`,
`MaxOthers`, `MaxFields`, `MaxWire`, `MaxStatements`, `MaxBroken`, `MaxSlips`,
`MaxNotes`, `MaxReleases`, `MaxBuilds` and `MaxEdits`. In `Framing` an error
that repeats at each poll would repeat for ever; five items leave room for three
frames and the repetition. A body in the premise of `BodyIsReadOrStalls` has no
errors, so the bound does not reach it.

Deadlock checking is off where the system really stops: a server that returned,
a stream that ended, a peer that is done, a message that was read, an author who
has used up the bound.

The properties of `messages`, `sources` and `schemas` have the form "what
survives comes back", or "unless": what survives and what is excepted
(`Survives`, `TextSurvives`, `JsonSurvives`, `Unsaid`, `MidLine`) is a definition
of its own, written from what the formats and the language mean and not by
running the model, and says where the code falls short. Nothing is claimed of
what they leave out, where several of the disagreements below are: a code that
did better there would keep the properties.

## Fairness

Fairness is given to steps the runtime takes by itself, and to nothing a peer, a
handler or a caller may leave undone.

* `Cancellation`: whoever entered `cancel()` or `wait()` or polls `cancelled()`
  goes on. Nobody has to call them. No run uses it by itself; `GrpcServer` has
  the fairness of the token's steps within its own.
* `GrpcServer`: a task whose future is ready is polled, and timers elapse
  (weak fairness of the steps of a task and of `Return`, which the drain
  timeout bounds). `StopAccepting` and `StopConn` are branches of a `select!`
  that competes with further connections or requests: tokio polls branches in
  random order, so a branch that is ready again and again is taken (strong
  fairness). `AbortConn` is `abort_all` or the drop of the `JoinSet`: the task
  ends at its next yield, between steps of its own (strong fairness). No
  fairness for handlers, streams returned by handlers, request bodies or calls
  of `shutdown()`.
* `HealthWatch`: a `set_status()` that began ends, and the server polls the
  stream of a Watch.
* `Framing`: the consumer polls while it holds the stream, and the peer sends
  what the window allows and ends the stream when all is sent. The property
  excepts a peer that stops early, a consumer that drops the stream, and a body
  that is longer than the window.
* `OneShot`: a call that can take its next step takes it, and backoff ends (weak
  fairness of `ClientStep` and `OneShotStep`, which the runtime polls).
  None for the peer, the network and the caller's own request stream, and none
  for a connection in the making: `connect_timeout` covers the TCP connection
  only (`client.rs:254-258`), so the handshake, and all of `exchange()`'s
  connecting, take as long as the peer likes. `CallsEnd` says a call ends or
  stands where it waits for one of them.

The other modules state safety only: their programs run to the end by
themselves, and their authors and peers owe nothing.

## What is proved

All proofs hold for every value of the constants that satisfies the module's
assumption (finite set of RPCs, at least one permit, a header of at least one
byte, and the like); two theorems have a hypothesis of their own, named below.
No fairness is used. Every inductive invariant below was an invariant of its
run first; that of the release history (`Standing` and `Carries`), which is slow
to evaluate, was checked on those states of `schemas` only that TLC reaches
in five minutes, nearly two thousand.

| Module | Theorems (property of a run in parentheses where the name differs) |
|---|---|
| `CancellationProofs` | `TypeCorrect`, `NoSpuriousRelease`, `Permanent` (of the token by itself, for any waiters) |
| `GrpcServerProofs` | `TypeCorrect`, `UsesTheToken`, `NoEarlyShutdown` (`ReleasedOnlyWhenCancelled`), `ShutdownIsPermanent` (`LateWaiterNeverParks`), `PermitsAccountedFor` (`PermitAccounting`), `ConcurrencyBound`, `ResponsesAreWellFormed`, `RecordingIsFinal` (`RecordedOnce`), `ReportedErrorsAreSent`, `DenialsHold` (`DeniedNeverServed`) |
| `HealthWatchProofs` | `TypeCorrect`, `NoLostUpdate` (`ServiceWatcherIsCurrent`) |
| `FramingProofs` | `TypeCorrect`, `FramesIntact` (`WholeFramesInOrder`), `BufferIsBounded`, `CompleteEnd` (`CleanEndIsComplete`), `ReaderKeepsThePromise` (`DeliversFrames`) |
| `OneShotProofs` | `TypeCorrect`, `CutRequestsAlwaysShow`, `RepliesAreAlwaysFinal`, `NothingSettledIsRepeated` (`SettledIsNotRepeated`), `TransportsKeepThePromise` (`KeepsPromise`) |
| `BuildStepsProofs` | `BuildsAreFresh` (`FreshOutput`) |
| `ReleasesProofs` | `NumbersKeepTheirMeaning` (`NumbersKeepMeaning`), `ReservedNumbersStay` (`ReservedStays`), `UnchangedVersionsAreSilent` (`UnchangedIsSilent`); of one message `FieldsKeepMeaning`, `RemovedFieldsAreReserved`, `ReservedStaysReserved`, `UnchangedHasNoFindings` |
| `WireValuesProofs` | `VarintRoundTrip`, `ZigzagRoundTrip`, `ScalarRoundTrip`, `BytesRoundTrip`, `TagRoundTrip`, `UnknownLengthIsExact`, `UnknownRoundTrip`, `ReadsStayInBounds`, `UnknownStaysInBounds` (of single values, below the properties of the run `messages`) |

`CancellationProofs`. The inductive invariant is the type and "stored or
released implies the flag". "Stored" is needed: `Notify` releases waiters
without looking at the flag.

`GrpcServerProofs`. Whatever the server does with the futures of its token is a
step of `Cancellation` or none (`TokenStep`, `UsesTheToken`), because a task only
ever awaits (`TasksOnlyAwait`); the two promises of the token follow for the
server. The invariant of the permits joins the type, their count, the
queue as the parked tasks without repetition (`SemaphoreInv`), and "an RPC that
has a task has a request". The queue is tokio's and is no result of its own, but
the count needs it. Count and queue need each other: a permit goes
to the head of the queue, so the count stays right only if the head is parked;
and the head leaves the queue as it leaves the parked tasks, which is right only
if it is there once. The finite-set lemmas say how `Holders` changes when one
task enters, leaves, or passes its permit on.

For the responses, `StepOfAnRpc` says what any step of the whole server can
be for one RPC: it stays or moves without writing, arrives, starts its response
stream, sends an item, or ends with one of the outcomes of `handle_request`;
loss of a connection, shutdown and the steps of other RPCs are "stays", but for
a stream that dies. Everything else is proved from that list. `ResponseInv` says
of each state of a task what it has written and recorded: nothing before the
end of the `select!`, headers and messages while it streams, one terminal last
when it is done and alive. Well-formedness alone is not inductive: an item may
follow only because a streaming task has written no terminal.

`HealthWatchProofs`. `NoLostUpdate` has the hypothesis `SingleOwners`: a
service is set by one task, and nobody sets the overall status. Without it the
property is false in the code (see the table below). `WatchInv` says that a
pending event holds what the table holds (`PendingIsCurrent`), that the last
event sent for a service agrees with the table unless its setter stands between
insert and broadcast (`LatestIsCurrent`), and that a watcher with no event for
its service ahead of it, on the channel or pending, shows what Check answers
(`WatcherFollows`). That the watcher subscribed before it read is what carries
the last: an update in between is ahead of it, so it is seen twice and never
missed.

`FramingProofs`. The invariant describes the bytes between the peer and the
reader, those buffered, then those queued, then the one sent next: the first
is the start of frame K + 1 when K frames were yielded, and from any byte to
the start of the next frame the bytes are the ones that follow it in the body
(`Placed`). Stated for every pair of places, and not only for neighbours, it
needs no induction along a frame: taking a frame reads it off. `Stopped` says
that no frame can follow an error that is not about a frame, so that the K-th
item is the K-th frame; `AtEof` ties the end-of-stream flag to the peer and to
the trailers. `Shift` is the lemma for steps that take bytes from the front,
`SendPlaced` for those that add them at the end. `BufferIsBounded` needs
`Placed` because the length at the head of the buffer is one the peer wrote
only if a frame starts there. For `FrameReader` the proof is about what a
consumer hears that stops at its first error: without one it hears all items
(`AllHeard`), the first one is heard and nothing behind it (`HeardMore`), each
step yields one item or none (`ItemStep`), and whoever is told of an end after
an error has heard the error (`Told`), so that an end hides no error status.

`OneShotProofs`. Calls do not touch each other but for the connections they
share, so each lemma is about the step of one call (`StepOfACall`) and the
others are the same (`OthersSame`). `CallInv(c)` joins what each step of a call
implies of its streams: attempts not made have none (`Fresh`), nothing of a
response is read before its head (`HeadFirst`), `client_streaming()` has waited
for its writer before it reads (`WriterFirst`), what was read is the beginning
of what came (`ReadSoFar`), messages come from a run and an ended request is a
whole one (`Streamed`), and the caller is told at the end (`ToldLast`).
`RepliesAreFinal` needs the parts up to it at every step; `KeepsPromise` needs
that runs are among the attempts, and so at most `MaxRetries + 1`
(`RunsAreAttempts`). `NothingSettledIsRepeated` has the hypothesis that INTERNAL
is not retried: a connection that breaks behind the head is INTERNAL to the
client, so a policy with INTERNAL repeats a call the server may have settled,
and TLC shows it with such a policy. The default policy retries UNAVAILABLE and
RESOURCE_EXHAUSTED (`client.rs:63`).

`BuildStepsProofs`. `FreshInv`: a stamp beside code that is not torn vouches
that the code is what compiling some tree with that fingerprint gives
(`StampsVouch`); the fingerprint and the code in hand are of the tree the build
looks at, unless an edit came between (`InHand`); the files already passed are
fresh while nothing is edited (`FreshSoFar`). The compiler is any function of
the file, the tree and the configuration.

`ReleasesProofs`. First one message: what a comparison without a breaking
finding guarantees for any two versions of it. A number given to one field keeps
it; a number that goes out of use is reserved, or the name of its field is;
reserved numbers stay reserved however ranges are cut anew; a message has no
findings against itself. Then two files, by induction over the depth of
nesting: a message that is the first of its name, and whose parents are, is
compared with the message that has its path in the new file (`Matched`), which
is still there (`StillThere`). The induction is over a set of depths
(`InductionOver`, from the well-foundedness of `<`), which needs no operator as
a parameter; the equations of the recursive functions (`ComparedLevels`,
`MessageLevels`) are proved from their definition as a choice. Then the
history. `ReservedStays` is inductive with the type of the state (`Standing`).
`NumbersKeepMeaning` is not: lint compares with the release before, and not with
what the number first meant. `Carries` adds that the last release's meanings
are among `shipped` and that it uses the same numbers, for some state of the
imports; so what lint compares is the counterpart of something shipped, equal
to it but for its references (`Counterpart`), and where the reference differs
the number is in `moved`. The theorems hold for files nested as deep as
`MaxNesting`, any number.

The attempt to prove them corrected the properties: with the compiler as it is
they were false outside of the versions that were checked. Two messages inside
of another may have one name, which the compiler accepts, and lint looks at the
first of each name: the second one's numbers are not protected. A reference can
move between two types that are both in the file, when an import brings a name
that is nearer (formerly only imported targets were excepted). And a version
that gives a name twice has findings against itself. The run has a version for
each of these now.

`WireValuesProofs`. There is no behaviour here, only what the operators return
for every value, every byte string and each of the four widths that
`WordBitsAssumption` allows, 64 among them. That the recursive functions are
what their equations say is proved from their definition as a choice, by showing
that some function satisfies them (`Unfolds`); induction is over a set of
numbers up to a bound (`InductionUpTo`, from a least counterexample). On these
rest the laws of powers (`PowersMultiply`, `PowersGrow`), the digits of a number
(`NextDigit`), and that the digits gathered again are the number, its high ones
missing (`GatheredDigits`). An encoded varint is then its digits in base 128
with the high bit set on all but the last (`EncodedVarint`), which is the only
byte where the decoder can stop. `ScalarRoundTrip` is for all fourteen types: a
value of the type comes back, and the reader is moved by exactly the bytes that
were written, wherever they stand in the input (`StandsAt`, `After`);
`BytesRoundTrip` and `TagRoundTrip` are the same for strings, byte strings and
tags. `UnknownLengthIsExact` is one step of the accounting: a field of any
number and value adds to the running length the bytes that writing it takes.

The other direction is for input that nobody wrote. From a reader within its
limits (`InBounds`), as a new one is (`NewReaderInBounds`), every operation on
one value leaves a reader within them whether it succeeds or fails, with each
byte it passed counted (`Reads`); a number is in the width of its type, bytes
are within their limits, what succeeds has moved on, and unknown fields are
never kept beyond `max_unknown_bytes`. For the gathered numbers this needs that
n digits stay below the n-th power (`GatheredBelow`).

The proofs changed the modules in seven places. Two alternatives of a `CASE` of
`OneShot` overlapped, which TLC resolves by order and the language does not:
they are now disjoint. `UNION S \cup T` is parenthesised where the checker and
the prover read it differently. The steps of a build are a module without a
compiler, and so is the history of releases. The comparison of messages is a
module without recursion, and tests a removed number as the code does in that
place, not as it tests ranges; nested messages are reached by depth. What
concerns one value on the wire is apart from the recursion over messages.

Only model-checked:

* Liveness, which is out of the prover's reach, as is ENABLED:
  `ParkedListenerReturns`, `BoundedCallsEnd`, `EventuallyCurrent`,
  `BodyIsReadOrStalls`, `CallsEnd`.
* The properties of `messages` and `sources`, and `ReferencesResolve`: readers,
  parsers, printers and the search for names are operators that call each other
  over messages, tokens and files, and the prover does not take RECURSIVE
  operators. Of `WireRoundTrip` and `UnknownAccounted` the single values are
  proved (`ScalarRoundTrip`, `TagRoundTrip`, `UnknownLengthIsExact`); that
  a message is a whole of them, and nested ones inside of it, is what TLC checks.
  Recursive functions the prover takes, by the inductions above, which is the
  way further if these are rewritten.

## Disagreements between code and documentation without a run

Noticed while modelling, and visible in the modules. Those with a name are
stated in their module: TLC refutes them within seconds when they are listed in
the configuration named.

| Statement | Where the code stands | Stated as |
|---|---|---|
| "all async waiters are released" (`cancellation.rs:4-5`) | `cancel()` can run whole between a waiter's load and its registration (`cancellation.rs:52`): the waiter parks for good | `AllWaitersReleased` of `Cancellation`, under its `FairSpec` with one async waiter and one canceller |
| "cancelled streams release resources promptly" (`docs/grpc.md:112-114`) | nothing in the `select!` watches the stream (`server.rs:660`) | `CancelledStreamsRelease`, `GrpcServerEnds.cfg` with one RPC and `Requests <- Unbounded` |
| "timeout enforcement" (`docs/grpc.md:70-71,115,123`) | the response stream is awaited outside of the `select!` (`server.rs:701`) | `DeadlineEndsCall`, the same with `Requests <- Streams` and `MaxItems = 1` |
| "a response whenever the service's status changes" (`health.rs:265-267`) | two concurrent `set_status()` of one service insert in one order and broadcast in the other (`health.rs:157`) | `ServiceWatcherIsCurrent`, `HealthWatch.cfg` with one service and `MaySet <- Rivals` |
| messages of a stream are delivered one by one (`transport.rs`) | the end of a frame is taken from its length and not its place (`transport_http2.rs:231`): every response of two or more | `StreamsArriveWhole`, `OneShot.cfg` |
| "oneof fields are mutually exclusive ... the last value wins" (`docs/wire-format.md:66`) | `insert_field()` clears no other member on decode | `OneofExclusive`, `Formats.cfg` |

gRPC runtime:

* `shutdown()` between the accept loop's flag load and its registration is
  seen only when another connection arrives (`server.rs:376`): the token's lost
  wake-up in its most prominent use.
* The status is recorded before the response is written (`server.rs:672`): a
  missing request message and an `Err` item of a response stream are errors on
  the wire and Ok in metrics and logs (`ReportedErrorIsSent` states the
  direction that holds).
* A service watcher is told of an overall status as if it were its service's,
  and a watcher of the overall status is not told of services that change the
  aggregate (`health.rs:284`); with UNKNOWN entries only, the aggregate is
  UNKNOWN, where `health.rs:160-163` says SERVING; a watcher that lags has its
  stream ended (`health.rs:288`), where `health.rs:267` says it ends with the
  registry.
* `framed.rs:24-25` says a frame that does not decode is a terminal error; to a
  consumer that polls on, the stream goes on behind it, and oversize and partial
  frames repeat their error (`Heard` in `Framing`).
* A response without trailers, with or without messages, is a success to the
  client (`client.rs:359`). `client_streaming()` whose request stream fails
  leaves the request open and waits for a response that a server which waits for
  the rest will not give (`client.rs:576`; `HangsItself`). `connect_timeout` does
  not cover the handshake, which has no bound at all (`client.rs:254-258`).
* The client never reads a status in the headers of a trailers-only response
  (`docs/grpc.md:62-65`), does not enforce the deadline (`docs/grpc.md:70-71`),
  and hands out a dead cached connection (`client.rs:217`, `docs/grpc.md:128`).
  `bidi_streaming()` ends a failed request stream as if it were whole
  (`client.rs:631`). The one-shot transport takes no notice of the status in
  the trailers of streams, and leaves its request open when its driver fails.

Wire, dynamic messages and generated code:

* Fields and bytes are counted per nested reader (`docs/security.md:18-22`),
  any end-group tag closes a group (`docs/security.md:37`), the high bits of an
  overlong varint are dropped (`crates/tpt-proto-core/src/varint.rs:28`).
* A list of messages cannot be written; singular
  submessages are replaced and not merged; a map entry without key or value has
  a zero of int64 in its place; repeated extensions that are not packed keep
  their last element.
* Generated code takes message fields of proto3 for implicit, so that an empty
  submessage is lost; a type that contains itself has no code that compiles; a
  map entry without a value is refused where reflect takes it.

Text and JSON:

* bytes are printed as `0x...`, which is read as a number; a whole float is
  printed without a point and read as an integer, which fails from 2^64 on and
  loses the sign of minus zero (`crates/tpt-proto-text/src/lib.rs:259`,
  `453-500`); output under `use_field_numbers` and `-inf` are not read back;
  control characters are printed as `\u{..}`; `true` and `inf` are taken for any
  scalar field.
* JSON arrays for repeated messages and enums are refused, scalars for repeated
  fields taken; `always_print` sets what was not set; null for a `Value` is
  absence; the wrappers of unsigned integers are misspelt (`Uint64Value`) and so
  get no form of their own; `DoubleValue` and `FloatValue` neither print nor
  read what is not finite, and the wrappers of booleans, strings and bytes take
  a number and store it as an integer
  (`crates/tpt-proto-json/src/well_known.rs:319-340`); whole numbers pass
  through an f64.

Language, formatter and compiler:

* A list constant with a token that begins no constant loops for ever
  (`crates/tpt-proto-language/src/parser.rs:399`), and constants nest without
  bound beside the bound for messages (`parser.rs:78`).
* A second `reserved` or `extensions` statement of ranges replaces the first;
  `json_name` and `default` of oneof members are dropped; `edition`, `json_name`
  and `to` without a value, the first token of an option of a method, and a
  keyword at the end of the file pass without a diagnostic (`Unsaid` lists them
  all).
* A comment behind a token that does not end its statement swallows the rest of
  the line when formatted; a block comment on a line of its own gains an empty
  line before it at the first and may gain another at the second formatting
  (`crates/tpt-proto-fmt/src/lib.rs:159-165`); block comments of several lines
  gain indentation at every formatting (`crates/tpt-proto-fmt/src/lib.rs:3-5`
  says comments are preserved and formatting is idempotent).
* Duplicate field numbers and the use of reserved numbers are not diagnosed
  (`crates/tpt-proto-compiler/src/lib.rs:4-6`); a type that a message declares
  is not in scope of its own fields; an imported enum becomes a message; `max`
  is stored as -1, so that a range `to max` contains nothing and is reported as
  shrunk when nothing changed; a weak import that is missing is tolerated by
  `compile_set` and refused by `resolve_and_parse`.

Lint and build:

* A number that went out of use and is reserved may be given to another field
  later, with the reservation in place; a number given to two fields and then
  halved, a type that moved with the imports (the old file is compiled with the
  new ones), a change of the second of two nested messages of one name, and a
  move into a oneof pass lint; the command line exits with 0 on breaking
  findings (`crates/tpt-proto-cli/src/main.rs:295`).
* The fingerprint of a build leaves out the names of files
  (`crates/tpt-proto-build/src/lib.rs:73` says "everything that affects a
  generated file"), is taken before the file is compiled, and is stored after
  the code: see the exceptions of `FreshOutput`. Two files whose names differ in
  `-`, `.` or their directory write one module.

## The plan

The components that carry the program's logic are modelled. What is left, in
this order:

1. Messages as recursive functions of their depth, as in `Releases`, so that
   `WireRoundTrip` and `UnknownAccounted` follow from the theorems about values.
2. `Keepalive` in place of `LoseConn`, and the counters of `observability.rs`
   under their labels.
3. Groups in `Generated`, and a service's generated stubs over `GrpcClient`.

## Not modelled

* The keepalive task (its effect, a lost connection, is `LoseConn`), the labels
  of metrics, the authenticators, interceptors and metadata parsing, TLS, the
  reflection service, the command-line client: conversions and I/O around the
  steps that are modelled, or, for reflection, lookups behind a channel.
* The types of `tpt-proto-descriptor` and `tpt-proto-wkt`: their codecs are
  written by hand in the style of generated code, field by field.
* The characters of source, text and JSON (numbers, escapes, positions), and
  the layout of generated code.
* Configuration, argument parsing and rendering of the command line, and with
  them the severities a configuration gives to lint's findings
  (`apply_severity_overrides`, `crates/tpt-proto-cli/src/lib.rs:377`): a release
  passes when lint as it is finds nothing breaking.
* `UnknownFieldSet::merge_from()`, which neither reflect nor generated code calls.
* The conformance runner, benchmarks and fuzz targets.
