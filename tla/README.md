# A TLA+ model of go-mcpserver

go-mcpserver is a Go library that runs a Model Context Protocol server: it puts
a stack of HTTP and MCP middleware around the consumer's tools, authenticates
requests against a key file that reloads itself, bounds and times tool calls,
offers the tools over REST as well, shuts the process down in order, and ships a
small client (`mcpclient`) for calling such servers. Little of this keeps state,
but the parts that do are concurrent, mostly without locks, and live with files,
clients, servers and tools that fail at any moment. Those parts are modelled
here in TLA+, model-checked with TLC and proved with TLAPS.

Paths and line numbers refer to `src/`.

## 1. Inventory

| Component | State it keeps | Operations | Who it talks to |
|---|---|---|---|
| Key file store, reload (`keyfile/reload.go`, `keyfile.go:143-191, 251-279`) | three atomics: snapshot, reloading flag, last stat time | `Open`, `verify` (`maybeReload`, `statFailed`, `attempt`, `finish`, `recoverDenyAll`), the retry goroutine | the bearer middleware calls `verify` once per request, in the request's goroutine; file system; wall clock; `slog` handler |
| Key file parsing (`keyfile/load.go`) | none | `parse`, `entries`, `validate`, the consumer's `ValidateKey` | called by `attempt` |
| Key file enforcement (`keyfile/keyfile.go:224-323`) | none of its own; the `TokenInfo` of the request | `Install`, `ToolFilter`, `Middleware`, `allow` | hooks into `Config`; asked per tools/list and tools/call |
| Token format (`keyfile/token.go`) | none | mint, `wellFormed` | `verify` |
| Status counters (`keyfile/keyfile.go`) | independent counters and warn gates | count, report | logging only |
| Tool timeout, limit and disconnect (`hooks.go`, `disconnect.go`) | the semaphore; per call a context, a timer, a keepalive goroutine, an `AfterFunc`, a worker goroutine and a one-slot channel | `ToolTimeoutMiddleware`, `trackClientDisconnect`, the watchdog | inside the MCP middleware stack; the SDK hands it requests and cancellations |
| Hooks and tool filter (`hooks.go`, `auth.go:135-178`, `config.go:285-331`) | none | `OnToolCall`, `OnToolResult`, `filterToolList`, `filterToolCall` | around the timeout |
| REST bridge, sessions and handlers (`rest.go:49-264`) | two in-memory sessions, a `sync.Once` for closing them | register, list, get, call, close | `Run` owns its cleanup and the context its safety net waits for; the MCP server, through the sessions |
| REST bridge, tools cache (`rest.go:273-325`) | list, index, error and time, under a mutex | `getTools`, `getTool`, `listAllTools` | the handlers; an in-memory MCP session |
| REST bridge, OpenAPI (`rest.go:327-471`) | none | generation | |
| Server lifecycle (`mcpserver.go:66-180`) | listener, signal and error channels, contexts, cleanup | `Run` | all of the above |
| Bearer authentication and loopback (`mcpserver.go:281-370`, `auth.go`) | none | per-request decision | `verify` |
| MCP client (`mcpclient/client.go`) | cached session under a mutex, semaphore of background calls; per call a recorded HTTP status | `CallText`, `Call`, `Fire`, `Close` | a remote MCP server, through the SDK |
| HTTP middleware, access log (`middleware.go`, `response_writer.go`) | per response: status and an atomic flag | request id, CORS, recovery, logging | every HTTP request |
| Health (`health.go`) | none | consumer checks | |
| Coercion, portable schemas (`lenient.go`, `schema_portable.go`) | none | pure rewriting of JSON | tool registration and calls |
| Configuration (`config.go`, `const.go`, `server.go`) | none after start | defaults, validation, wiring | |

What is hard about them:

* **Key file store.** No lock anywhere: several requests race over three atomics
  that together mean something, a failed load hands the single-flight flag to a
  goroutine that sleeps and retries, a stat failure writes the snapshot without
  the flag, consumer code may panic inside a cycle, the file may change between
  `lstat` and the read, and the wall clock may be set back. Correct means: keys
  come from one version of the file and versions never go back; nothing survives
  a failed read; a request is answered from a state no older than its own stat;
  nobody waits; after the disturbance ends the snapshot settles on the file.
* **Tool timeout.** Five parties act on one call, and the handler leaves while
  its worker may run for ever. Correct means: the limit counts exactly the calls
  admitted and unanswered; one answer, which names the true cause; an abandoned
  tool has been told to stop; every call is answered although its tool is not
  cooperative; nothing is left behind.
* **MCP client.** One cached session for all goroutines, a mutex held across a
  network connect, and failures that are noticed late. Correct means: no open
  session is forgotten; a failed one is not used again; an error tells a refusal
  from an unreachable server; slots of background calls come back; calls end.
* **Server lifecycle.** A signal, a listen error, a shutdown that times out, and
  two closers of the sessions that requests in flight still use. Correct means:
  no request loses its session while `Run` is leaving in order; when `Run`
  returns nil everything is over; the sessions are closed once and always; a
  signal ends `Run`.
* **REST tools cache.** Two critical sections that should see one refresh, a
  fetch of several pages while tools come and go, failures that are cached, one
  cache for callers with different rights. Correct means: an answer is right
  about what has not changed since its refresh began; nobody is shown what the
  filter hides; one refresh serves all that wait; all are answered; new tools
  come to be seen.
* **Access log.** A response written from two goroutines, informational statuses,
  flushes past the wrapper, panics between the wrapper and the log line. Correct
  means: the client gets what it would get without the wrapper; the line says
  what the client got; a panic leaves one trace.
* **Entries and enforcement.** Many reasons to drop a line, an identity that is
  snapshotted while the file is edited, sessions that outlive requests, and
  wiring in any order. Correct means: a tool runs, and is shown, exactly for the
  tokens one version of the file grants it; one bad line takes nothing from good
  ones; who acts is who holds the token of this request.
* **Arguments and schemas.** Conversions with edges: the widths of `float64` and
  `int64`, quotes, booleans as schemas. Correct means: a tool gets what was
  meant; what is advertised can be read by every client and accepts what the
  handler accepts.

## 2. Modules

| Module | Models | Proofs |
|---|---|---|
| `KeyAuthority` | abstract: what a key store promises about a file others edit | |
| `KeyfileStore` | the reload protocol and `verify` | `KeyfileStore_proofs` |
| `ToolGate` | abstract: what the concurrency limit promises its callers | |
| `ToolTimeout` | a tools/call through the middleware | `ToolTimeout_proofs` |
| `McpClient` | `mcpclient.Client` | `McpClient_proofs` |
| `ServerRun` | `Run`, with the REST bridge's sessions | `ServerRun_proofs` |
| `ToolsCache` | the REST handlers and their cache of tools/list | `ToolsCache_proofs` |
| `AccessLog` | a request through the HTTP middleware chain | `AccessLog_proofs` |
| `KeyEntries` | which lines of a key file load | with the next |
| `Enforcement` | from the key file to the tool: wiring, verification, filters | `Enforcement_proofs` |
| `Schemas` | JSON schemas: the portable rewriting, and what schemas accept | with the next |
| `LenientTools` | `AddTool`, coercion of arguments, tools/list | `LenientTools_proofs` |
| `MC_*` | values and symmetry for TLC | |

Definitions carry the names of the code. In each module a definition that starts
with "Mutant of" in its comment is the next definition with a plausible mistake;
nothing uses it but the mutation checks of `PROJECT.json`.

### KeyfileStore

Every read or write of `s.snap`, `s.reloading` and `s.lastStatNS` is a step of
its own, at the point where the code makes it, and so is every system call.

| Code | Actions |
|---|---|
| `verify` begins, `statDue` (reload.go:37-53) | `Begin`, `LoadLastStat`, `SwapLastStat` |
| `maybeReload` to the flag (80-96) | `StatPath`, `CompareSig`, `TakeFlag` |
| `statFailed` (128-137) | `CheckDenied`, `StoreDenied` |
| `attempt`, `safeAttempt` (162-229) | `AttemptStat`, `AttemptRead` |
| hand-over and retry (96-126, 139-151) | `WarnRetry`, `Wake` |
| `finish` (172-186) | `FinishFailed`, `FinishLoaded` |
| deferred recovery and release (96-102, 153-160) | `Recover`, `Unwind`, `Release` |
| the rest of `verify` (keyfile.go:253-279) | `RejectMalformed`, `LookUp` |

A file version is an index into `files` and stands for one (inode, mtime, ctime,
size); 0 is the zero signature, -1 the "missing" one. Every change of the path
gives it a fresh signature: what happens when a file system's timestamps are too
coarse for that is not modelled. `installed`, `load[l].ver` and what `sig[p]`
carries to the lookup are ghosts that no guard of the code reads. The
environment edits and removes the file, changes the directory's mode, makes
system calls fail and the logger panic, and moves the clock.

Left out: torn reads (the read is one step, at which the file is as it is),
reject counters and the one-time warnings, a logger that panics outside a reload
cycle; the expiry check is one step with the map lookup.

Seen while modelling, and part of the model: `statFailed` stores deny-all
without the flag, so it may undo a load that has just succeeded (the next due
stat repairs it); a directory made writable after a good load is noticed only
when the file itself changes; a request that passes the stat gate and then finds
the flag taken delays the pickup of a change by another `statTTL`; a logger that
panics in `finish` and once more in `recoverDenyAll` ends the process when that
happens in the retry goroutine (`Unwind`, `alive`).

`KeyAuthority` is the promise without the protocol: publish a version, install a
version no older than the last one with some of its keys, or deny. The refinement
maps `live` to `snap.keys` and keeps `files` and `installed`.

### ToolTimeout

A call is an identity used once; the calls share the semaphore.

| Code | Actions |
|---|---|
| hook, filter, result hooks (hooks.go, auth.go:158-178) | `Receive`, `OnToolCall`, `FilterCall`, `OnToolResult` |
| timeout resolution and semaphore (hooks.go:104-135, 289-316) | `Acquire`, `ResolveTimeout` |
| context, `AfterFunc`, keepalive, worker (136-170, 224-262) | `Launch` |
| the select (171-180) | `TakeResult`, `CtxDone`, `AbortText` |
| the deferred calls, in reverse order | `StopKeepalive`, `StopAfter`, `Cancel`, `Release` |
| worker and watchdog (150-169) | `ToolReturns`, `SendResult`, `Watch` |
| runtime: timer, `AfterFunc`, keepalive goroutine | `Deadline`, `CancelOnClientGone`, `KeepaliveExits`, `Tick` |
| the other end | `ClientGone`, `Withdraw` |

`config.go:285-331` adds the timeout as the first receiving middleware and the
SDK makes the last one added the outermost, so the timeout is innermost; the
program counters have that order.

`transport` separates the requests whose HTTP context `trackClientDisconnect`
hands to the middleware ("post") from those where the SDK propagates the
cancellation and from all others. The client may leave, or withdraw the request,
only while a slot is held: nothing looks at it at other times. `elapsed` counts
per call and saturates at `Horizon`. `ArgTimeouts` contains 0 for an argument
that is absent, not a number, not positive, or too large for a `time.Duration`.

Left out: the contents of results and progress notifications (the keepalive
goroutine is there, its messages are not), logging apart from the watchdog's
warning (`warned`), and a tool that panics: it does so in a goroutine nothing
recovers, which ends the process.

`ToolGate` is the limit as its callers see it: each call is new, admitted,
refused or done; refused only while the limit is full, admitted only while it is
not. `Status(c)` maps the program counter and the answer to it.

### McpClient

| Code | Actions |
|---|---|
| `Call`, `CallText`, `Fire` up to the session (client.go:134-149, 175-197) | `Call`, `Fire`, `Start` |
| `session_`, `connect` (220-272) | `Lock`, `Connected`, `ConnectFails` |
| `CallTool` and its outcome (160-172) | `Answered`, `CallFails` |
| `dropSession` (274-287) | `DropSession`, `CloseDropped` |
| classification (289-379) | `Failure`, `Classify`, `Outcome` |
| the deferred calls | `Leave` |
| `Close` (207-218) | `TakeSession`, `CloseTaken` |
| server, contexts | `ServerFails`, `ServerReturns`, `Expire` |

`mu` is a variable only because `session_` keeps the mutex across `Connect`;
everywhere else the critical section is one step and needs `mu = Nobody`. Without
session reuse a call connects for itself and the mutex is not used. The server's
replies are the set `Replies`: a result, a tool error, a JSON-RPC error, a refused
request (a 4xx the classification knows), a transient one. Sessions are names
out of a finite set and a name is used again when nothing refers to it.

Left out: arguments, headers, contents, logging. The SDK also opens a standing
GET stream whose status would go through the same recorder; it is not modelled.
A session's `Close` is assumed to return.

### ServerRun

| Code | Actions |
|---|---|
| `buildHandler`, `startRESTBridge`, the listener goroutine (mcpserver.go:122-147, rest.go:54-133) | `Built`, `BuildFails`, `Listen`, `ListenFails` |
| the select (mcpserver.go:149-156) | `TakeSignal`, `TakeListenErr` |
| hook, `srv.Shutdown`, cleanup (157-180) | `OnShutdown`, `Shutdown`, `Drained`, `ShutdownFails`, `CleanedUp` |
| `doClose`, from the cleanup and from the safety net (rest.go:104-127) | `EnterOnce`, `CloseClient`, `CloseServer` |
| a request in flight (rest.go:207-251) | `Arrive`, `UseBridge`, `Replied`, `LoseSession`, `Finish` |

net/http is external: connections are accepted until `Shutdown`, which waits for
the requests in flight. `hooked` is a ghost. Left out: validation, stdio mode (it
hands over to the SDK), `Build` for embedders, what the sessions carry.

Seen while modelling: when the shutdown times out or the listener fails, `Run`
returns an error without the cleanup, and the safety net closes the sessions
under the requests still in flight. It runs in a goroutine that `Run` does not
wait for, so nothing is closed when the process exits right after `Run` returns.
After a listen error `OnShutdown` is not called either, also when a signal was
there as well and the select took the error.

### ToolsCache

| Code | Actions |
|---|---|
| the handlers (rest.go:135-264) | `Arrive`, `CallTool`, `Finish`, and `Reply` in the rest |
| `getTools` (278-295) | `Hit`, `Miss`, `Install` |
| `listAllTools` (308-325) | `Page`, `Refreshed`, `RefreshFails` |
| `getTool`'s second lock, `toolPermitted` (197, 298-305) | `Lookup` |
| the server's tools, the clock | `ChangeTool`, `Tick` |

`cacheMu` is a variable because a refresh keeps the mutex across its calls to the
server. Tools are their places in the server's order, which cursors refer to; a
page ends anywhere. The server filters what the bridge's session sees as for a
request without `TokenInfo` (`Permits[Nobody]`), the handlers filter again for
their caller. `cachedAge` stops counting at one more than the TTL, since the code
only asks whether it is exceeded. `changed`, `during` and `steady` are ghosts: the
tools that came or went since the refresh in the cache began, since the running
one began, and those a request may be judged by.

Seen while modelling, and part of the model: a refresh uses the context of the
request that happens to run it, so one client that goes away puts an error into
the cache that everybody is answered for a whole TTL; `cachedAt` is taken after
the fetch, so a list is served for the TTL and for as long as its fetch took;
and requests wait for the mutex without regard to their own contexts.

Left out: the syntax of names, bodies, JSON and OpenAPI.

### AccessLog

| Code | Actions |
|---|---|
| `WriteHeader`, `Write`: the swap, the status, the header, the body, the count (response_writer.go:22-42) | `Enter`, `StoreStatus`, `PassHeader`, `PassBody`, `CountBytes` |
| `Flush` (response_writer.go:44-54) | `PassFlush` |
| `RequestLogWithSkip` after the handler (middleware.go:117-130) | `Return`, `LogLine` |
| a panic, `Recovery` (middleware.go:40-62) | `Panic`, `Recover`, `RecoverHeader` |
| net/http ends the response | `Finish` |

The handler is a CORS preflight answer, one of the health handlers, call by call,
or the application's, which makes any calls from its own goroutine and from
others it has started. `asked` and `history` are ghosts: what the calls would put
on the wire of a bare `http.ResponseWriter`. net/http is external: its calls are
atomic, its first final status wins, an informational one does not count. The
handler is taken to wait for its goroutines before it returns, since net/http
allows no call after that.

Seen while modelling, and the reason `LineIsTrue` says `Plain` or `Agreed`: a 103
wins the flag, so the line shows 103 although a 200 was sent; a `Flush` before any
header sends a 200 without the flag, so the line may show a status that was set
later and never sent; with two writers, one can reach the wire between the
other's flag and its header. A panic skips the line (there is no `defer`), and
`Recovery`'s 500 goes past the wrapper; after a header has been sent the client
keeps that status.

Left out: header fields other than the status, ids and origins beyond whether
they match, hijacked connections, the time in the line.

### KeyEntries and Enforcement

| Code | Definitions and actions |
|---|---|
| `entries`, `validate`, `checkTools`, `runValidator` (load.go:123-248) | `Entries`, `Duplicate`, `Validate`, `CheckTools`, `RunValidator` |
| `Install`, `BearerAuth` and the consumer's `Config` (keyfile.go:209-237) | `Install`, `BearerAuth`, `EnableRESTBridge`, `LoopbackBypass`, `Serve` |
| `applyBearerAuth`, `loopbackChain` (mcpserver.go:281-371) | `Arrive`, `LoopbackChain` |
| `verify` (keyfile.go:251-279), the SDK's bearer check | `LookUp`, `CheckExpiry`, `Admit` |
| `Store.Middleware` (keyfile.go:300-323) | `Middleware` |
| `toolFilterMiddleware` (auth.go:120-185) | `FilterToolCall`, `ListTools`, `FilterToolList`, `PassOn` |
| the file and its reload | `Publish`, `Load`, `DenyAll`, `Tick` |

`Grants` is the reference: what one line among others grants a token, said
without the order in which the code looks at lines. Of the reload only what
`KeyAuthority` promises is used. `since`, `ver`, `at` and `checked` are ghosts.
The session has the identity of the request that opened it, which is what the
SDK keeps; the code under test must not use it.

Seen while modelling: `BearerAuth` without `Middleware` filters tools and leaves
every other method to any valid token, as its documentation says; calls over the
REST bridge carry nobody, so with a key file all of them are denied; a key
revoked while a request runs keeps that request's tools, and no later one's;
`LoopbackBypass` without `LoopbackIdentity` lets a local request in as nobody, who
has no tools.

Left out: name, digest and date syntax (constants say what the patterns accept),
the metadata route, how addresses and proxy headers are recognised.

### Schemas and LenientTools

| Code | Definitions and actions |
|---|---|
| `normSchema` and its helpers (schema_portable.go:68-172) | `NormSchemaStep`, `NormSchemaObject`, `NormSingleDropTrue` |
| `AddTool`, `registerOpenSchema` (lenient.go:29-50, 179-184) | `AddTool`, `RegisterOpenSchema` |
| their handlers (lenient.go:50-83, 184-200) | `CallTool` by `Handle`, `HandleOpen` |
| coercion (lenient.go:98-175) | `CoerceStringTypes`, `CoerceValueStep`, `CoerceScalarString` |
| `portableToolsListMiddleware` (schema_portable.go:185-209) | `ListTools` |

One keyword stands for each group of the code's tables. `Valid` and `Evaluated`
are jsonschema's business and say what a schema accepts; `Meant` is the reference
for arguments: the value with the quotes around tokens of other types ignored.

What recurs over schemas, values or types is a constant operator, and a definition
of its own says what one step of it does: `NormSchema(s) = NormSchemaStep(s)`,
where the step applies `NormSchema` to the subschemas, and so on. These equations
are the `ASSUME`s of the two modules, with the statements that a schema, a value
and a type are finite trees (`Height`, `Depth`, `Nesting` decrease) whose parts are
in `Docs`, `Values` and `GoTypes` again. On a finite tree an equation of this kind
has one solution, so nothing is left open; the code's recursion is written down
without `RECURSIVE`, and a proof can follow the tree. For TLC the configuration
closes the recursion with the steps themselves (`NormSchema <- MCNormSchema`), and
TLC evaluates every `ASSUME` on the instance before it starts.

The other assumptions say that the arguments of a call are a JSON object (a number
there is never NaN; no arguments at all are taken as `{}`), and how wide the two
number formats are.

Seen while modelling:

* the rewriting drops `additionalProperties: true` because "absent means true"
  (schema_portable.go:26), which an `unevaluatedProperties` beside or above it does
  not think: `{"additionalProperties": true, "unevaluatedProperties": false}`
  accepts every object and its portable form only `{}`. Schemas that `AddTool`
  infers have no such keyword; ones a consumer registers may. `LosesAnnotation`
  names exactly these in `PortableAndEqual`.
* arguments become `float64` before they are validated, so a bare whole number
  beyond 2^53 is rounded on its way to an `int64` field, while the same number in
  quotes arrives exactly (with an open schema both are as written). A `uint64`
  above 2^63 - 1 is refused in quotes.
* `5.0` is a whole number bare and not in quotes; the values of a map are not
  coerced; an `any` is not.

Left out: `omitempty`, several fields, `null` or a non-object as the whole of the
arguments, `$ref`, and what the SDK does with tools registered through it.

## 3. Runs

| Run | Instance | States | Checks |
|---|---|---|---|
| `store_safety` | 2 requests, 1 retry goroutine, 1 key that expires, stat failures and panics, 2 versions | 2.45 M | `TypeOK`, `SingleFlight`, `SigPinsContent`, `FreshAfterStat`, `CycleOutcome`, refinement `Authority` |
| `store_recovers` | 1 request and a retry, 2 versions, failing stats, refused directories, clock both ways | 299 k | `Converges` |
| `tool_safety` | 2 calls, limit 1, the tracked transport | 1.69 M | `TypeOK`, `SlotAccounting`, `AbandonedIsTold`, `AnswerIsFinal`, refinement `BoundedAdmission` |
| `tool_deadlines` | 1 call, two tools, three arguments, all transports | 95 k | `AnswerCause`, `EveryCallAnswered`, `NothingLeftBehind` |
| `tool_workers` | 2 calls, limit 1 | - | `BoundedWorkers` is violated |
| `client_calls` | 2 goroutines, both modes, tolerant, all replies | 136 k | `TypeOK`, `FireAccounting`, `NoSessionLost`, `FailedSessionIsDropped`, `RejectedMeansRefused`, `EveryCallEnds` |
| `client_drop` | 3 goroutines | - | `OthersSessionsKept` is violated |
| `server_run` | 3 requests, with and without the bridge | 977 | `TypeOK`, `SessionKept`, `CleanReturn`, `SignalEndsRun`, `SessionsEndClosed` |
| `tools_cache` | 2 handlers, 2 tools, a caller the filter hides one from and one without token, TTL 1 | 98 k | `TypeOK`, `ServedAccurately`, `OnlyPermitted`, `EveryRequestAnswered`, `BecomesVisible` |
| `access_log` | 2 writing goroutines with 2 calls each, 4 requests, 3 configurations | 693 k | `TypeOK`, `WireUnchanged`, `LineIsTrue`, `PanicReported` |
| `enforcement` | 1 request reused, 9 files with every kind of bad line, 2 versions, 7 things to ask | 3.2 M | `TypeOK`, `GrantedExactly`, `OwnIdentity` |
| `lenient_tools` | 25 field types, 1 512 schemas, 111 arguments | 8.7 k | `PortableAndEqual`, `MeantIsServed` |

### Bounds, and why they are enough

* *Two requests and a retry goroutine.* The races over the atomics are between a
  goroutine that read something and one that changed it; a third party is the
  retry. Two loads at once are already impossible, so a second retry adds
  nothing to them.
* *`MaxVersion = 2`, `MaxClock <= 2`.* One change of the path
  during a load gives an old and a new version, and a step back and forwards of
  the clock moves a reading to either side of the TTL. The theorems hold for
  every number of versions and readings.
* *`store_recovers`* has one request beside the retry and neither panics nor separate
  read faults: liveness over everything together is too large. A refused directory
  is a failed read too; what a panic could leave behind that nothing repairs is the
  flag, and `SingleFlight` excludes that; a second request that finds the flag taken
  writes nothing but a denial, which the one beside the retry does too. `Converges` is about what comes
  after the last disturbance, and before it the faults can leave the store in any of
  its states. Instances with other parts of it were checked once: two requests
  with panics and refused directories, under a clock that goes only forwards (251 k
  states) or without an edit (383 k).
* *`Horizon`* exceeds twice the longest timeout plus one, so a deadline, a late
  return and the watchdog's threshold are told apart. In `tool_safety` the
  deadline is one tick: the order of events matters and not its length.
* *`MaxConcurrentTools = 1`, two calls*: the limit is reached and refused.
* *Three session names*: two goroutines refer to at most three sessions at once
  (each call's own or dropped one, the cached one, the one `Close` has taken); a
  connection needs a free name and, when there is none, waits for one of those to
  be closed. Four names reach nothing new in kind.
* *Three requests in `server_run`*: one may be in flight, one lose its session
  and one arrive late at the same time.
* *Two tools, two handlers in `tools_cache`*: a fetch of two pages during which
  either tool changes, and a lookup between whose locks another refresh begins,
  succeeds or fails. `MCAsks` holds a request of each handler, and the call is for the
  tool that is hidden from its caller. Three tools with all requests were checked once for the
  invariants (16.5 M states); liveness needs the smaller instance.
* *Two calls per goroutine in `access_log`*: a header and what goes past it, or an
  informational and a final status; the second goroutine may come between any two
  steps of the first. More calls repeat these.
* *One request in `enforcement`*, which is reused: requests meet only in the store,
  which changes at any step here, and in the session, which the next use of the
  same request finds. The theorems are for any number.
* *`FloatMax = 8`, `IntMax = 15` in `lenient_tools`* stand for 2^53 and 2^63 - 1: a
  `float64` that loses its last bit, one that is rounded past the end of `int64`,
  and a number beyond both. Schemas nest two deep; what a keyword does to its
  subschemas does not depend on how deep it is. `Docs` and `Values` hold what the
  operators reach from there, so the theorems' assumptions are checked on it.
* `CHECK_DEADLOCK FALSE` is used for `ToolTimeout`, whose calls are one-shot and
  which stops when all are answered, and for `ServerRun`, `AccessLog` and
  `LenientTools`, whose run, request or call ends.

### Fairness, and what justifies it

* *KeyfileStore.* A goroutine inside the store goes on (`GateFairness`,
  `LoadFairness`): it never waits for another, it only makes system calls,
  assumed to return. `Traffic`: requests keep coming, also at times when the gate
  is due, since nothing else makes the store look at its file. Nothing is assumed
  of the file, the faults or the clock; `Converges` is conditional on the faults
  ending.
* *ToolTimeout.* Handler, worker, timer and helper goroutines go on; hooks and
  filter return. No fairness for `ToolReturns`, `ClientGone` or `Withdraw`.
* *McpClient.* A call's own steps, the end of its context at its timeout, and the
  SDK's notice of it (`GivenUp`) are weakly fair. `Lock` and `DropSession` are
  strongly fair: the mutex is released again and again, and Go's mutex hands
  itself to a waiter that has starved for a millisecond. The server need not
  answer or come back.
* *ServerRun.* `Run` and the two closers go on; `OnShutdown` and the sessions'
  `Close` return. `Drained` or `ShutdownFails` happens because `Shutdown` has a
  deadline. No request need finish, no signal need come.
* *ToolsCache.* Handlers go on, so the server answers a page or fails it, and time
  passes. Getting the mutex is strongly fair, as for the client. No request need
  arrive and no refresh need succeed; `BecomesVisible` is conditional on lists
  being served again and again.
* *AccessLog, Enforcement, LenientTools.* No fairness is stated: their
  properties are safety properties only.

### What the violations show

* `client_drop` (code): `dropSession` closes the session that is cached when it
  gets the mutex, not the one its call failed on. Two calls fail on one session;
  the first drops it; a third call reconnects and works over a healthy server; the
  second drop closes that new session under it. The same can happen to the call
  that reconnects after that.
* `tool_workers` (comment against code): `MaxConcurrentTools` bounds the calls
  that wait for an answer and not the tool goroutines.

Two smaller ones need no run. The watchdog counts `leakWarnFactor` times the
timeout from the start of the call, not "after the deadline" (hooks.go:98, 162).
`statDue` reads the clock before `lastStatNS`, so a request that is overtaken in
between sees a negative delta, which counts as due: two stats can be less than
`statTTL` apart although reload.go:36 says at most one.

## 4. Proofs

All theorems are about `Spec`, for every value of the constants that satisfies
the `ASSUME`s of the module: any number of requests, calls, callers, keys and
versions, `Calls` and `Callers` infinite included. No fairness is used.

**KeyfileStore.** The invariant is `TypeOK /\ SingleFlight /\ LoadInv /\ SnapInv
/\ GateInv /\ FreshAfterStat`. `SingleFlight` is inductive with the hand-over:
the flag passes to the retry goroutine in the step that moves it into the cycle.
`LoadInv` ties each place of a cycle to what its `load` holds and to the version
it was read from; since only the one loader installs, `installed` never goes
back. `SnapInv` says that the signature of the current snapshot was taken no
later than its content, which gives `SigPinsContent`. `GateInv` carries the
request's own stat to its lookup. From it follow `TypeCorrect`,
`SingleFlightHolds`, `SigPinsContentHolds`, `FreshAfterStatHolds`,
`CycleOutcomeHolds` and the refinement `AuthorityHolds`: each step is a
`Publish`, an `Install`, a `Deny` or a stutter of `KeyAuthority`. The action
property `RevokedIsRejected` is proved and not run: an accepted key is in a version
of the file no older than the request's own stat, however many others denied or
installed in between. `RevokedIsRejectedHolds` uses `GateInv` and `SnapInv` together.

**ToolTimeout.** The invariant is `TypeOK /\ CallInv /\ SlotInv`. `CallInv` says
per call how the place of the handler, the worker, the context and the answer
belong together (`Progress`, `Launched`, `Caused`, `Truthful`); `SlotInv` that the
holders are finitely many and counted by `slots`. From it follow `TypeCorrect`,
`SlotAccountingHolds`, `AnswerCauseHolds`, `DetachedIsCancelledHolds`,
`GoneClientCancelsHolds`, `AbandonedIsToldHolds`, `AnswerIsFinalHolds` and the refinement
`BoundedAdmissionHolds`. `TimeoutCapped` is about `ResolveTimeout` alone.

**McpClient.** The invariant is `TypeOK /\ FireInv /\ MutexInv /\ CallInv /\
NoSessionLost`. `MutexInv` is the heart of `NoSessionLost`: while a goroutine
connects, it has the mutex and no session is cached, so none is overwritten.
`CallInv` says what a call holds at each place, what it remembers of the
server's answer, and that the session it failed on is not cached once it is past
`dropSession`; the last is kept because a new session has a name nobody refers
to. From it follow `TypeCorrect`, `FireAccountingHolds`, `NoSessionLostHolds`,
`FailedSessionIsDroppedHolds` and `RejectedMeansRefusedHolds`.

**ServerRun.** The invariant is `TypeOK /\ RunInv /\ CloseInv /\ SessionKept`.
`RunInv` says what has happened at each place of `Run`, among it that nothing is
in flight nor can arrive once the drain is over; `CloseInv` that only the closer
inside the `Once` closes, and how far it has come from the sessions' states. From
it follow `TypeCorrect`, `SessionKeptHolds`, `CleanReturnHolds` and
`ClosedOnceHolds`.

**ToolsCache.** The invariant is `TypeOK /\ RequestInv /\ CacheInv /\
ServedAccurately /\ OnlyPermitted`. The one that refreshes holds the mutex, and
the cache stays too old meanwhile (`MutexInv`); its pages are right about every
tool up to the cursor that has not changed (`FetchInv`), which makes the new cache
right (`CacheInv`). `LookupInv` is the argument for `getTool`: the map is right
about the name that is looked up, and what a refresh begun between the two locks
saw change is not among what the lookup is judged by, so replacing the map keeps
it right. From it follow `TypeCorrect`, `ServedAccuratelyHolds`,
`OnlyPermittedHolds` and `RefreshesApartHolds`.

**AccessLog.** The invariant is `TypeOK` with eight parts. `CallInv` says what each
place of a call on the wrapper has behind it; `TraceInv` what `history`, `wire` and
`asked` have to do with each other; `BytesInv` that chunks accepted and not yet
counted are the difference between `sent` and `bytes`, summed over the
goroutines; `WireInv` is transparency at every step of a sole writer, with what
its call in progress is still to send; `PlainInv` and `Sources` say where the
status came from, `InFlight` who may still change the wire, `LineInv` carries the
line to the end. From it follow `TypeCorrect`, `WireUnchangedHolds`,
`LineIsTrueHolds` and `PanicReportedHolds`, for any number of goroutines and calls.

**Enforcement.** The invariant is `TypeOK /\ StoreInv /\ BindInv /\ PlaceInv /\
AnswerInv`. `StoreInv`: what is loaded comes from the entries of its version.
`BindInv`: what a request holds is a key of the version it says, of its own token,
no older than its arrival. `PlaceInv`: what each place of a request has checked.
The lemma `EntriesGrant` is about `KeyEntries` alone: a loaded entry says exactly
what `Grants` says of its token, duplicates and bad lines included, and
`FilterGrants` carries that through `ToolFilter`. From these follow `TypeCorrect`,
`GrantedExactlyHolds` and `OwnIdentityHolds`.

**Schemas and LenientTools.** The state is simple: `Held` says which schema and type
belong to the registered tool and that the result is the handler's. What there is
to prove is about the operators, for trees of any depth. The library's induction
theorems take an operator as parameter and cannot be instantiated, so induction is
done by least counterexample: `LeastSchema`, `LeastValue` and `LeastType` say that
a non-empty set of schemas (values, types) has a member none of whose parts is in
it, which follows from the library's theorem on well-founded relations (`LeastNat`). A
lemma then takes the set of everything at which it fails and finds its least
member impossible.
- `SameEvaluated` and `SameValid` show that the rewriting accepts the same values, keyword
  by keyword, and `NormHasNoBooleans`, `NormLosesNothing` that the result is portable
  and stable: together `RewritingIsPortable`, hence `PortableAndEqualHolds`. The step
  for `NormSingleDropTrue` needs that an absent keyword means `true`, which is where
  `LosesAnnotation` comes in; with the mutant of that definition the proof fails.
- `UnmarshalKeeps` (decoding changes no `Plain` and no `Quoted` value), `MeantKeeps`,
  `SameOutcome` (what is sent and what is meant are coerced to the same, or the
  schema takes neither), `TakenAsItIs` (what the schema accepts is coerced and decoded
  to itself) and `QuotedServed` (a quoted number is rounded once or never) are each by
  induction over the type or the value. Together `MeantIsServedHolds`.

Only model-checked: every liveness property, since fairness and `ENABLED` are out of
the prover's reach (`Converges`, `EveryCallAnswered`, `NothingLeftBehind`,
`EveryCallEnds`, `SignalEndsRun`, `SessionsEndClosed`, `EveryRequestAnswered`,
`BecomesVisible`). Every safety property of a passing run is a theorem.

## 5. Plan

Left, in this order:

1. `ServerRun` composed with `ToolsCache`: a refresh under way when the sessions
   are closed; stdio mode and embedders of `Build`.
2. How an address, an origin and the headers of a proxy make a request local
   (mcpserver.go:305-336, auth.go), as an algorithm against a reference.
3. `StoreDenied` against a running load as a bounded number of steps of
   `KeyAuthority`; an abstract cache that `ToolsCache` implements; `KeyfileStore`
   and `Enforcement` as one specification instead of through the promise.

## 6. Not modelled

OpenAPI generation, token formatting, counters and test helpers keep no state
another part reads, or only shape text. Defaults and validation of `Config` happen
before anything runs. The metadata route and the routes a consumer adds do not
meet the rest. In stdio mode `Run` hands over to the SDK.
