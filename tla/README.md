# A verification of grpc-webnext in TLA+

grpc-webnext lets browsers speak gRPC. This directory holds TLA+ models of its
servers and of its TypeScript and Rust clients, the TLC configurations that check them on
small instances, and TLAPS proofs of what matters most for every instance.
Paths below are relative to the repository.

## 1. The system and its parts

A server accepts four kinds of traffic on one port.

| Surface | Code | What it is |
|---|---|---|
| native gRPC | `fetch.rs` `passthrough`, `server.go` | handed to the backend as it is |
| h2ts | `h2ts.rs`, `h2ts.go` | HTTP/2 inside a WebSocket: real gRPC for browsers |
| Fetch unary | `fetch.rs`, `fetch.go` | `+proto`, `+json` and REST over one HTTP request |
| custom Frame | `ws.rs`, `ws.go` | one streaming RPC per WebSocket, binary or JSON frames |

The backend is an in-process gRPC service or, for the Rust proxy, an upstream. JSON
and REST need descriptors, which the Rust proxy may have to fetch by reflection
(`schema.rs`, `reflect.rs`). Both servers drain on shutdown. The TypeScript client
(`node/packages/client`) has a transport for each surface and, above them, calls with
deadlines, retries and backpressure. The WASM client (`grpc-webnext-client`) is a
second client, for Rust: calls and streams of its own over an h2ts tunnel, and an
adapter that lets tonic's generated clients use it.

| Part | Modules | State |
|---|---|---|
| Rust custom-Frame socket (`ws.rs`, `json_frame.rs`) | `WsFrames`, `RustWs`, `RustWsProofs` | modelled, proved |
| Go custom-Frame socket (`ws.go`, `jsonframe.go`) | `WsFrames`, `GoWs` | modelled |
| Rust shutdown (`drain.rs`, `lib.rs`, upgrades of `fetch.rs`, `h2ts.rs`) | `DrainServer`, `DrainServerProofs` | modelled, proved |
| Rust Fetch and schema cache (`fetch.rs`, `schema.rs`, `reflect.rs`) | `UnaryAnswer`, `RustFetch`, `RustFetchProofs` | modelled, answer proved; of `reflect.rs` the steps of a load |
| Go Fetch, dispatch and shutdown (`fetch.go`, `dispatch.go`, `server.go`) | `UnaryAnswer`, `GoFetch`, `GoServer`, `GoFetchProofs`, `GoServerProofs` | modelled, answer and shutdown proved |
| REST routing (`httprule.rs`, `httprule.go`) | `RestText`, `RustHttpRule`, `GoHttpRule`, `Rest` | modelled; message encoding is external |
| TS unary calls on h2ts (`h2ts-transport.ts`, `client.ts`, `retry.ts`, `context.ts`, `connectivity.ts`) | `H2tsChannel`, `H2tsChannelProofs` | modelled, proved |
| TS server streams (`client.ts`, `call.ts`, `h2ts-transport.ts`, `ws-transport.ts`) | `TsServerStream` | the receiving half |
| Rust h2ts tunnel (`h2ts.rs`), `grpc-timeout` (`metadata.rs`) | `GrpcFraming`, `H2tsCall`, `H2tsCallProofs` | modelled with the client, status proved |
| WASM client: channel (`client.rs`, `state.rs`, `web.rs`) | `WasmChannel`, `WasmChannelProofs` | modelled, proved |
| WASM client: calls (`client.rs`, `codec.rs`, `status.rs`, `tonic_service.rs`) | `GrpcFraming`, `H2tsCall`, `H2tsCallProofs` | modelled with the server, status proved |
| Go h2ts tunnel (`h2ts.go`) | none | planned |
| TS client streams, Fetch transport, promise client | none | planned, or wrappers without state |
| command line, type declarations, adapters | none | no state |

`PROJECT.json` has the same list with the source files, the map from definitions to
lines, and the hazards with the properties that watch them.

## 2. The models

An action is what one thread of control does between two points where another may
run: between two awaits in Rust and TypeScript, between two uses of shared state in
Go. Payloads, metadata and texts are abstracted; sizes are kept where a limit or a
header depends on them. `MC*` modules only hold constants. Operators whose comment begins with
"Mutation" or "Mutant" are plausible slips of the operator that follows; each
shows that a property can fail.

**WsFrames** is what travels on a custom-Frame socket and how each codec decodes it
(`json_frame.rs`, and the decoding in both read loops).

**RustWs** is one connection of `ws.rs`. `outq[1..flushed]` is what the socket has
carried and the rest what the outbound channel holds. `pc`, `todo`, `codec`, `opened`,
`cur`, `sending` and `draining` are the locals of the read loop in `serve`; `writer`
is the writer task; `tpc[s]`, `aborted[s]`, `timed[s]`, `req[s]`, `rx[s]`, `fate[s]`
are stream task `s`, numbered as streams open. The actions are the arms of the loop's
`select!` (frames, drain, keepalive, close grace), the frame handlers, the blocking
sends, the writer, and each step of `run_stream` and its pump. Backpressure is the
guard on the channel's capacity.

**GoWs** is the same for `ws.go`. It differs where the code does. The drain is watched
by a goroutine that sees the stream through one atomic flag. An abort is a flag and
a cancelled context. The wait for the peer's close is the read deadline that
keepalive sets too. Each stream has a second goroutine that feeds its pipe.

**DrainServer** is the shutdown of the Rust server. The signal is a tokio watch
channel with its versions; the end is a set of liveness tokens. `phase` is where
`serve_graceful!` is on each hyper connection (a TCP one, or the one inside a tunnel);
`task` is what outlives a request after an upgrade. A custom-Frame socket is an
abstraction of RustWs: `idle` and `live` have no stream and one, `spared` and `stranded`
likewise once the drain arm, which fires once, is spent.

**UnaryAnswer** is the abstract promise of a Fetch surface to its caller. An answer
ends once. How it ends is true of the RPC: OK only for an RPC that ended OK and
with the whole message, a deadline only if it passed, a cut answer only if the backend
failed or the deadline passed. A status never stands behind a partial block. Two
exceptions, which are the code's, are written into it rather than mapped away. A response
that ends without a readable `grpc-status` (`mute`) is answered OK by both servers. The
Rust server leaves the message of an OK JSON answer out if it has no bytes (`unrendered`);
the Go server instantiates the promise with FALSE there.

**RustFetch** is one request in `fetch.rs` with the schema cache of `schema.rs` beside
it: refresh task, forced reload, an upstream that is redeployed. A load takes the steps
of `load_all`: list the services, over v1alpha when v1 is not there, then fetch or skip
the service's files, then build a pool or fail. `routes` says what
the URL is under each version of the descriptors, so a request may be routed before,
during or after a change. **GoFetch** is one request in the Go server with its four
goroutines: handler, request feeder, backend with its response writer, deadline timer.
**GoServer** composes it with `liveConns`, `Shutdown` and other handlers. Both
implement UnaryAnswer; the refinement mapping is `CallerBody` and the instance
`Promise`.

**RestText, RustHttpRule, GoHttpRule, Rest.** Text is a sequence of tokens, the
separators among them. The Rust and the Go router are translated separately, each from
its own source. `Rest` gives rules as structures, writes them out as text for the two
routers, and says a second time, on the structure, what a template means.

**H2tsChannel** is any number of unary calls of the TypeScript client that share one
tunnel: the cache and `die`, dial and redial, transparent replay, retry policy, token
bucket, abort, `close()` and the published connectivity. **TsServerStream** is one
server-streaming call from either transport to the application, with retries, the
commit rule, the queue of `ClientReadableStream`, pause, resume and iteration. The flush
inside `resume()` calls the listener, which may pause, or pause and resume: `Flushes` gives
its outcomes, and `nested` records that one flush ran inside another.

**WasmChannel** is any number of calls of the Rust/WASM client on one `Inner`: the
cached tunnel, the one dial slot and the shared future in it, the watched state,
`forget`, and a deadline that drops a call wherever it is. A Rust future runs only when
polled, so a call may resume long after its dial has settled, and meet a newer dial or
tunnel there; `late` records that this has happened.

**GrpcFraming** is the wire of a gRPC body, as bytes in a small base, with the two
programs that parse it: the client's `Deframer` and the server's `GrpcSizeLimit`, both
incremental, over chunks that split a header anywhere. **H2tsCall** composes the two: one
call from the client's API (unary, streaming, or through the tonic adapter) through the
tunnel to the handler and back. `limit`, `arrived`, `passed` are the request on its way
in, `avail`, `head`, `link` the response on its way out, `buffer`, `ready`, `out` the
client's `Streaming`. The handler is external and may do whatever gRPC allows, and break
off besides. The timeout is converted as the code does it, to the header and back, with
the width of the integers. tonic is external: the adapter hands it head, frames and end as
they are, and `TonicStatus` is what tonic makes of them.

## 3. The runs

Every property of a run has a mutant that breaks it.

| Run | Shows |
|---|---|
| `rust_ws_reopen` | Open, cancel, reopen and oversize on one Rust socket, with loss of the connection. Nothing follows a close, a close follows a status, a stream has one status (`WireWellFormed`); no orphaned RPC (`LiveTaskIsCurrent`); a 1001 cuts no stream (`GoingAwayOnlyIdle`). |
| `rust_ws_live` | The inferred codec, under fairness. A close on the wire ends the connection, answered or not; a drain ends every connection whose client sends no Reset. |
| `go_ws_reopen` | The wire order and orphan questions for Go (`WireWellFormed`, `LiveTaskIsCurrent`). |
| `go_ws_infer` | `StatusBeforeClose`, and `NoGoroutineLeak`: once the read loop has ended, every goroutine of the connection ends. |
| `drain` | When the server's future resolves nothing is served (`DoneMeansQuiet`); the drain completes unless, again and again, a client strands a socket by a Reset after its drain arm (`DrainCompletes`). |
| `rust_fetch` | Requests of every kind under every schema source: the answer implements UnaryAnswer, its two exceptions included; a deadline is kept though the backend is silent, and the snapshot settles on what the upstream serves although loads overlap and a redeploy may fall between list and fetch, unless a service is skipped for ever. |
| `go_server` | The Go answer implements UnaryAnswer, with every message rendered; no goroutine of a finished call is left; `Shutdown` returns nil only after the handlers that ran have returned (`ShutdownWaits`), closes its channel once, and returns when nothing runs (`ShutdownReturns`). |
| `http_rule` | The first declared rule that means the path wins; escaped values come back whole; path variables stand against query and body; both servers make the same call of every request, except that one may refuse a value which the two libraries read differently: they never build two different messages (`GoAgrees`). |
| `ts_channel` | One tunnel, a true connectivity state, a retry budget that concurrent failures cannot overdraw, nothing begun after an abort, and an abort ends its call. |
| `ts_stream` | Messages once and in order over retries and pauses, none out of order if the listener resumes inside a flush, well-formed events with `end` last on h2ts (`InOrder`); a bounded queue and no lost wake-up (`Backpressure`); an abort ends a stream nobody reads. |
| `wasm_channel` | A watcher never sees Connecting straight after Ready (`DropIsSeen`); concurrent calls open one socket (`OneSocket`) and a failing call never evicts a living tunnel (`LiveTunnelKept`), both until a straggler has resumed; a shared dial outlives the call that began it (`WaitersServed`); deadlines are kept (`TimedCallsEnd`). |
| `h2ts_call` | The status is true (`StatusIsTrue`), but for a tonic stub that is told OK by a 200 which ends between messages without a `grpc-status`; the messages are exactly those that are whole in the bytes read (`DeliveryIsExact`), the limit trips in the chunk that completes the first oversize header (`LimitIsExact`), whatever the chunks; a timed call ends (`TimedCallEnds`), and the handler of an ended call stops (`HandlerStops`). |

`TypeOK`, `TokensHeld` and `ReadyThenIdle` are not run properties: where a proof uses
them they are proved (section 4), elsewhere `TypeOK` documents the domains of the variables.

### Bounds, and why they are enough

The sockets have an outbound channel of one frame and a request channel of two, so
that both fill; three client messages, which is open, cancel, open; streams are named
generously (`2 * MaxStreams >= MaxFrames + 1`), so the names limit nothing. Response
messages stop at `MaxOut`; one in the channel and one on the wire is every
order with a terminal frame. The drain has two connections with two requests each:
the token argument is about one connection against the rest, and is proved for any
number. `ts_channel` has two calls (sharing needs two), three dials (fail, die,
replace), two attempts and a bucket of two tokens, the smallest that can be
overdrawn. The last dial of the bound neither fails nor breaks, so that no call waits
for a dial the bound forbids. `ts_stream` has three attempts, five messages and a
mark of two, so that the queue passes the mark and refills, and flushes nested two deep: the
inner one repeats a message, the outer ones drop another. Fetch lengths are one
or two bytes of prefix and at most two of message, so that a block can be out
in part; limits are hit from both sides. There are two schema versions and one forced
reload beside the refresh, which is enough for loads to overtake each other; every request
is tried with descriptors that do not change, and the shortest of each kind that looks at
them beside the loads. Go's
shutdown has one caller and one other handler beside the request in full.
`wasm_channel` has three calls, one with a deadline, and three dials: one to begin, one to
replace it, one to straggle from. `h2ts_call` has lengths of two binary digits, so that a
size can reach the high byte and a chunk can split it; bodies of up to two messages, below,
at and past a limit of one; every request against one reply and every reply against one
request, and every timeout against one of each; `MaxU64` is small enough for the
timeouts to overflow. A streaming and a tonic call have an endless reply.
`http_rule` takes all pairs of rules of six forms, additional bindings of the GET
forms, and paths, queries and bodies that hit and miss them. Among the values are a plus sign,
a number past 32 bits, a float out of range and one in hexadecimal, an escape that is not
UTF-8, and a query that spells a path variable by its other name. A request has every query
without a body and every body with the queries that meet it; a WebSocket's frames, which build
their messages with the same code, have every query with every body.

### Fairness

Safety runs assume none. Liveness runs assume what the runtime gives:

- tokio polls every ready task, `select!` chooses at random among ready arms, armed
  timers fire; a backend behind a WebSocket answers and ends its body. Nothing is
  asked of the peer, of the shutdown signal, or of keepalive against a live peer.
- Go runs every goroutine that can run and its timers fire; a backend that finds its
  call cancelled returns. In `GoServer` a backend that is not cancelled need not.
- In `drain`, requests end, a stream that nobody resets ends, and peers answer a GOAWAY: a
  drain without timeout cannot end otherwise. No socket is assumed to close by itself.
- In `rust_fetch` nothing is asked of the backend. The refresh load's list, fetch and
  landing are strongly fair: an upstream that is asked again and again is heard in the end.
- The WASM client's executor polls what was woken and its timers fire. Only
  `WaitersServed` asks that a dial settles. In `h2ts_call` nothing is asked of server or
  network; hyper drops the handler of a stream that was reset, and a caller lets go
  of a call that is over.
- The JavaScript event loop runs callbacks that are due and a dial settles. The
  server may never answer. That a dial settles is the network's doing: nothing in the client
  bounds it, and an abort does not interrupt it, so `AbortEndsCall` and `AbortEndsStream`
  rest on it for a call that is dialling.

## 4. What is proved

TLAPS checks these for every value of the constants that satisfies the named
assumptions of the modules.

**RustWsProofs** (from `RustWsAssumption`, `ClientFramesAssumption`,
`CodecsAssumption`): `Types`, `WireInOrder`, `NoOrphanTask`,
`GoingAwayIsIdle`, for all capacities, frame sets, codecs and bounds. None of the
properties is inductive. The invariant `IInv` adds three parts. `ControlInv` says what
the read loop may be in the middle of sending; without it a close could be half of
anything. `OwnInv` says that streams are numbered as they open and that each was
aborted unless it is the loop's own. `WireInv` ties the frames queued so far to the
state of whoever queued them: a stream with its status queued is closing or done, one that
is closing has its status queued unless the writer had stopped, and a writer that has sent a
close is done. Each kind of step has a lemma per part.

**DrainServerProofs**: `TokensInvariant`, `DrainWaitsForAll`, for any sets of
connections and requests. That `finish` sees no token says something only because every
serving task holds one; `TypeOK /\ TokensHeld` is inductive.

**H2tsChannelProofs** (from `ChannelAssumption`, a bucket of two tokens or more): `Types`,
`OneChannel`, `TrueConnectivity`, `ReconnectIsVisible`, `BoundedRetries`,
`NothingAfterAbort`, for any number of calls, dials and attempts. The state falls into
three parts with an invariant each. `ChannelInv`: tunnels that were not dialled have
no connection, the cached one is not yet seen to be dead, nothing is shut before
`close()`. `BudgetInv`: what is left and what retries took never exceed the bucket
and what successes put back. `CallInv`: a call that sleeps has attempts left. Two
abstractions of a call's step, `Handout` and `Bucket`, let each part be
proved without the others.

**RustFetchProofs** (from `FetchAssumption`): `AnswersTruthfully`, that RustFetch
implements UnaryAnswer, for all message lengths, limits, routes and schema sources, and with
its exceptions: `Unrendered` is a JSON request whose reply has no bytes, a constant of the
behaviour, and a mute RPC may end the answer OK. The
promise speaks of the answer; the invariant `FetchInv` speaks of the request while it is
open: no RPC before the call, no end of block before the end of the answer, an RPC
that ended OK has delivered every byte, and on the streaming path the bytes sent are the bytes
received without the flag byte. `BodyCases` says what part of a block the caller has seen;
every step then either leaves that as it is and stutters (`GoesOn`) or ends the answer
as UnaryAnswer allows (`EndsWell`). Schema loads touch none of this (`SchemaStep`).

**GoFetchProofs** (from `GoFetchAssumption`): `AnswersTruthfully` for GoServer, by the same
argument with four goroutines in it and `unrendered` FALSE. `CallInv` holds the point of it: before the handler
leaves only the timer closes the call, and it sets `timedOut` first; the trailers are
those of the RPC from the harvest on; the end of the body is seen only after the harvest. A
read that ended without `timedOut` has therefore seen the RPC's own status. `ByteInv` counts
what was read and sent.

**GoServerProofs** (from `GoServerAssumption`: finitely many handlers):
`ShutdownCutsNothing`, that the idle channel is closed once included. `n` is the number of running handlers (`CountInv`); the idle channel
is closed only at zero, by which time every handler `Shutdown` found running has returned,
and one that has returned does not start again (`DrainInv`).

**WasmChannelProofs** (from `ChannelAssumption`): `ReconnectIsTold`, `DialIsShared`,
`TunnelIsKept`, for any set of calls and any number of dials. The properties speak of the cache
and of dials under way; the invariant adds that the slot holds the newest dial or nothing,
that Ready means a cached tunnel, and that until a straggler has resumed the cache too
holds the newest connection or nothing and no dial is under way outside the slot.

**H2tsCallProofs** (from `CallAssumption`, `FramingAssumption`): `StatusTold`, for every set of calls and every pair
of limits. `IInv` adds what the client's reading relies on: a call with an answer reads no
more, nothing is written before the head, a trailers-only head comes with the end of the call,
and the server's deadline is the call's own. The theorem has the exception of `StatusIsTrue`:
for the client's own calls OK means that the server ended the call OK, for a tonic stub it may
also be a response that ended silently. What the two parsers compute is left to
TLC; the proof needs only the names of the errors they give.

Only model-checked: all liveness, which is out of the prover's reach; the safety of GoWs
(planned, section 7); the safety of TsServerStream, whose flush is a recursive operator;
`DeliveryIsExact` and `LimitIsExact`, which are about what
recursive parsers compute for every input, and REST, because `Rest` and what it extends use
recursive operators and induction over text: the prover can do neither.

## 5. Where code and documentation disagree

These behaviours contradict what the repository says most plainly. The models have them,
and each takes one formula to see in TLC.

- A unary call of the TypeScript client is replayed whenever the tunnel it was handed to is
  dead by the time of the error, also if the request was sent while it lived and the server
  has executed it (`h2ts-transport.ts:137`). The comment at line 110 and the client's README
  (line 146) say that a replayed call never reached the server. In H2tsChannel the action
  property "`replay` is not set in a step from `executed`" is violated.
- A JSON answer of the Rust server is rendered only if the message has bytes
  (`fetch.rs:410`). With every field at its default the OK answer has an empty body, against
  `spec/PROTOCOL.md:87` and, for `response_body`, `:158-160`; the Go server renders it. In
  RustFetch the invariant "an OK answer to a JSON request has a JSON block" is violated, and
  RustFetch implements UnaryAnswer only with `unrendered` for such requests.
- The tonic adapter says of a body that ends without trailers that it "is a protocol violation,
  and tonic says so" (`tonic_service.rs:322-323`). It passes the bare end on, and tonic reads a
  200 without a `grpc-status` as a clean end. In H2tsCall `StatusIsTrue` without
  `EndedSilently` is violated.

## 6. What reading the code and the models showed besides

The models have these behaviours, and the properties leave room for each or name it as an
exception.

- *Both sockets.* A status and close that a stream had queued before it was aborted still go
  out, and may cut the stream that the client has opened since; a Reset that the loop
  sends may stand beside the trailer of the task it aborts.
- *Rust socket.* A Reset after the drain arm has fired leaves a socket nothing closes
  (`ws.rs:152-154`, `268-272`), which holds the whole drain until the peer leaves or opens a
  stream again: the exception in `DrainCompletes`. On keepalive expiry the loop waits for a writer that may hang in
  a write to the dead peer (`ws.rs:189`). A response body that breaks off is reported
  as a Trailer with status 0 (`ws.rs:356`, against `PROTOCOL.md:289`).
- *Go socket.* The 1001 of a drain may cut a stream opened between the look at
  `streamOpen` and the send (`ws.go:295`; its comment accepts this). A peer that keeps
  sending extends the close grace (`ws.go:254`). A stream that has ended by itself leaves its
  context alive, and a full request channel then blocks the read loop (`ws.go:448`,
  against the comment at 446).
- *Fetch.* Both servers take a response without a readable `grpc-status` for OK, also
  one that broke off inside its message (`metadata.rs:165-171`, `metadata.go:214-228`). Rust applies the unary deadline to the call and again to the body
  (`fetch.rs:219`, `242`). Inside h2ts it covers the response head only
  (`h2ts.rs:72`). `+proto` requests and WebSocket upgrades wait for the
  first reflection load (`schema.rs:6` says the binary path never touches it). An older,
  slow load may replace a newer snapshot until the next refresh. A redeploy during a load may
  put files of two versions into one snapshot (`schema.rs` calls it consistent), and a
  reflection stream that ends early leaves a closure with files missing, which fails the whole
  pool although `reflect.rs:51` says such a service is skipped. In Go the
  DEADLINE_EXCEEDED answer waits for a backend that ignores its context (`fetch.go:72`).
- *Go shutdown.* `Shutdown` may return nil while an HTTP/2 stream runs that arrived before
  the asynchronous GOAWAY; `ShutdownWaits` is about the handlers that ran at the call.
- *TypeScript.* `stream.cancel()` during a backoff does not stop the next attempt
  (`client.ts:323`, against `transport.ts:51`). Headers of a retried attempt may be
  emitted as those of a later one without headers (`client.ts:278`). On the ws transport a paused
  consumer gets `end` before its queued messages. `close()` during a dial lets a call redial a
  tunnel nobody closes. An abort while dialling waits for the dial. A listener that pauses and
  resumes inside the flush of `resume()` gets a message twice and may lose another
  (`call.ts:92-94` shifts after the emit). One message more is delivered if an abort finds it
  read already (`h2ts-transport.ts:191-201`). `RetryBudget` is for a bucket of two tokens or
  more, which `retry.ts` does not enforce.
- *WASM client.* A call that resumes late from a dial takes whatever newer dial is in the slot
  out of it (`client.rs:208`), so the next call opens a second socket, although the comment on
  the field says that concurrent calls open one; it may also publish TransientFailure
  over a living tunnel or cache an older connection again. `OneSocket` and
  `LiveTunnelKept` say what holds until then. `select` in `Streaming::message` prefers the
  body, so a stream that always has something to read outlives its deadline; the tonic
  adapter asks its timer first. Trailers in the head with status OK are Internal to
  the client's unary call and OK through tonic. A bad HTTP status is Unavailable to the client,
  while the adapter passes it on and tonic chooses the code by it. An error of the `Deframer` loses the messages that
  were completed in the same chunk (`codec.rs:31` says every complete one is returned).
- *Timeouts.* A client timeout of more milliseconds than fit 64 bits sends a header that the
  server cannot read (`metadata.rs:132`): the client is bounded and the server is not.
- *REST.* `?userId=` overrides the path variable `{user_id}` (`httprule.rs:440`, against
  `PROTOCOL.md:379-380`), which is why `PathVarsStand` excludes respelled queries.
  The servers differ, against `httprule.go:9-10` ("same coercion table"), on a plus sign before an
  unsigned number (Rust takes it), a float out of range (Rust makes it infinite) or in
  hexadecimal (Go takes it), and an escape that is not UTF-8 (Rust replaces it, Go refuses the
  string): `ReadDifferently`, the exception in `GoAgrees`. A JSON body of blanks is
  refused by both REST routers; on the plain `+json` path Go takes it for empty
  (`transcode.go:113`) and Rust refuses it.

## 7. Not modelled, and the plan

Not modelled for good: command-line parsing, type declarations, browser bindings,
byte layouts, and message encoding by descriptor libraries. The HTTP/2, TLS and
WebSocket libraries are external and behave as the code uses them.

Of `reflect.rs`, the order of files (`topo_sort`), the closure over imports and the bytes of
the descriptor set are left out: the schema is a version number in RustFetch, and which
files make a version is not something its properties tell apart. Metadata conversions
(`metadata.rs`) and the transcoding of messages are per-value conversions without state.

Next, in this order:

1. The Go h2ts server: its size limit over `Read`s, as H2tsCall has the Rust one.
2. The sending half of the TypeScript ws transport, composed with RustWs and GoWs.
3. The TypeScript h2ts streams with client messages, composed as in H2tsCall.
4. Proofs: the wire invariants of GoWs along the lines of RustWsProofs.
