# Verification of the CMM Router's core

The CMM Router is a Node.js process that offers one HTTP API (OpenAI chat
completions, OpenAI responses, Anthropic messages) over subscription-backed
providers: the Codex app-server, the Claude agent SDK, the Antigravity CLI (`agy`),
Command Code and Cavoti. Its hard part is tool calling. A provider asks for a
tool in the middle of a turn; the Router ends the HTTP reply with the call,
keeps the provider's turn alive ("parked"), and resumes it when a later HTTP
request brings the result. Between the two requests anything may happen: the
client hangs up, sends the result twice or never, the provider dies, a deadline
passes, another turn runs on the same connection, another Router process shares
the same directory.

This directory holds TLA+ models of those parts, TLC configurations that check
them on small instances, and TLAPS proofs of what matters most for every
instance. Source paths below are relative to `src/src/`.

## 1. Inventory

| Component | Source | State | Operations |
| --- | --- | --- | --- |
| Deferred tool broker | `core/deferred-tool-broker.ts` | live entries, public index, two bounded terminal maps, one timer and possibly one abort listener per call, promises of `awaitCall` | create, await, claim by public id, claim/resolve by composite id, cancel a scope, expire, abort |
| Codex app-server client | `providers/codex/app-server-client.ts` | buffer of unclaimed notifications, notification waiters, tool-call waiters, pending requests, a sticky protocol error | handle a line, wait for any notification, wait for a tool call, discard a scope, fail |
| Codex adapter | `providers/codex/adapter.ts` | client or null, active turns, parked turns, remembered tool declarations, one pump per running reply | run, continue, pump, park, cancel, process exit |
| Claude adapter | `providers/claude/*.ts` | sessions by public id and by request, active requests; per session an SDK stream, a gate, a queue of calls, a deadline | run, continue, drain, park, close, cancel |
| Bridge control channel | `bridge/control-ipc.ts`, `core/bounded-queue.ts` | connections, pending frames with a deadline each, closed flag | call, resolve, reject, expire, disconnect, close |
| MCP bridge process | `bridge/mcp-bridge-process.ts` | in-flight calls, terminated flag, parser state | line, result, terminate |
| Bridge session registry | `bridge/session-registry.ts`, `bridge/mcp-bridge-launcher.ts` | a directory shared by processes: a lock file, descriptors, temp files; in memory the runs held | register, reconcile, publish, release, look up |
| Antigravity adapter | `providers/antigravity/*.ts` | sessions, event queue, `agy` processes, deadlines, registration lease | run, continue, overflow, close, cancel |
| Command Code, Cavoti | `providers/command-code/*.ts`, `providers/cavoti/*.ts` | the acknowledgement on disk, the listed models, pending runs by request, one composed deadline per run | discover, acknowledge, run on either wire, cancel |
| Provider registry | `registry/provider-registry.ts` | discovery cache | resolve, refresh |
| HTTP exchange | `http/*.ts`, `observability/usage-store.ts` | one exchange: headers sent, completed, aborted; the usage record | stream a reply, tear down, record usage |
| Tool access policy | `core/tool-access-policy.ts`, `core/tool-policy.ts`, `core/scoped-actions.ts` | none | decide which tools a request may declare and call |

`PROJECT.json` lists the remaining ones (wire types, schemas, configuration,
identity and diagnostics, test doubles, scripts); they keep no state of their own.
What they decide (credentials, request controls, published capabilities, argument
validation, the bound on tool results) is part of `ToolAccess` and `HttpExchange`.

**How they interact.** The HTTP exchange calls an adapter's `run` (an async
generator) and, on a hang-up, aborts its signal and calls `cancel`. Every adapter
keeps its parked calls in the *one* broker, under a composite id
(profile, provider, session, turn, call) and a fresh public id that is the only
name the client sees. Codex is driven over JSON-RPC lines; Claude and Antigravity
ask for tools through an MCP bridge process that reaches the Router by a control
socket; Antigravity's bridge finds its Router by the registry's directory.

**What is hard**, and what each component must get right:

* *Broker*: four maps describe one call and each way of settling it must update
  all of them; a claim, the deadline, an abort and a scope's cancellation race; a
  late result must get a truthful answer; a call of one profile must be invisible
  to the other; memory is bounded. (Correct: settled at most once, and always in the
  end; maps agree; truthful answers; isolation; bounds.)
* *Codex client and adapter*: a data event delivers several lines before any
  promise callback runs; a line may match a waiter, the buffer, or nothing; pump,
  timers, cancel and process exit interleave at every await. (Correct: no text lost,
  duplicated or crossed; each wire call answered at most once; a blocked pump
  listens; a hang-up leaves nothing; a stalled turn ends; a declaration is kept.)
* *Claude and Antigravity*: a call is parked behind a gate while the SDK's stream
  goes on; three deadlines (frame, broker, session) run for one parked call; a
  session is closed by many parties. (Correct: text once and in order; every
  frame answered once; nothing left after close; one parked call.)
* *Registry*: processes share a directory with a lock file that may be left behind
  by a crash. (Correct: the bound on live descriptors holds globally; a writer is
  undisturbed; a held run stays findable; a registration ends.)
* *Command Code and Cavoti*: two timers, the caller's abort and the end of the body race;
  a tool call comes in fragments that may contradict one another; both metadata and
  acknowledgement may change between discovery and run. (Correct: one terminal event, or
  silence for a caller that left; nothing held afterwards; nothing sent that was not
  acknowledged; every run ends.)
* *Provider registry, HTTP exchange, usage*: completion races the hang-up; calls are
  buffered and validated at the end; the usage record is written by a generator that may
  be abandoned. (Correct: a finished reply tears nothing down; only whole calls; frames
  in order; one record per run.)
* *Policy*: three surfaces parse and check one request in different orders. (Correct:
  they agree; no grant is widened; no constraint is dropped; what is published is what is
  enforced.)

`PROJECT.json` lists every hazard at its line with the property that would catch it.

## 2. Modules

| Module | Models | Checked by |
| --- | --- | --- |
| `ToolCallLedger` | abstract: what the broker promises its callers | refinement in `MCBroker` |
| `DeferredToolBroker` | the broker's maps, timers, listeners, promises | `MCBroker`, `DeferredToolBrokerProofs` |
| `CodexClient` | buffer and waiters of the JSON-RPC client (operators and variables) | through `CodexAdapter` |
| `CodexAdapter` | requests, pumps, parking, cancel, timers, lines, exit | `MCCodex`, `CodexAdapterProofs` |
| `BridgeControl` | pending frames of the control channel and the hand-off queue (operators and variables) | through `ClaudeAdapter` and `AntigravityAdapter` |
| `ClaudeAdapter` | requests, pumps, parking, close, deadlines, frames, the SDK's query | `MCClaude`, `ClaudeAdapterProofs` |
| `AntigravityAdapter` | requests, the drain, the event queue, parking, close, deadlines, frames, the `agy` process | `MCAntigravity`, `AntigravityAdapterProofs` |
| `UpstreamChat` | discovery, acknowledgement, one run of Command Code (both wires) or Cavoti | `MCUpstream`, `UpstreamChatProofs` |
| `HttpExchange` | the three completion handlers, the discovery cache, the usage store | `MCHttp`, `HttpExchangeProofs` |
| `ToolAccess` | credential, parsers, guard, tool-access decision, provider policy | `MCAccess`, `ToolAccessProofs` |
| `SessionRegistry` | several Routers, launchers and agy processes on one directory | `MCRegistry`, `SessionRegistryProofs` |

Each adapter is composed with `BridgeControl` or `CodexClient` by `EXTENDS`, and with the
broker through `ToolCallLedger` by `INSTANCE`, the abstract specification that
`DeferredToolBroker` is shown, and proved, to implement.

### 2.1 Broker

A JavaScript method runs to completion, so each method call, timer callback and abort
event is one action (`CreateParked`, `CreateRefused`, `CreateBornCancelled`,
`AwaitCall`, `Claim`, `TakeByKey`, `Expire`, `Abort`, `CancelScope`). `entries`,
`publicIndex`, `terminal`, `publicTerminal` are the class's four maps; the terminal maps
are sequences because they are trimmed in insertion order. A public id is a
fresh UUID in the code; here the n-th creation has public id n, which lets the
history variables `calls` and `settled` say what became of each creation. A
composite id may be created again after it was settled, as `createPendingCall`
allows, although the adapters put a fresh UUID in it; the abort listener that is
never removed is kept, so an old signal reaches a new call of the same id. `awaitCall`,
`claimCall` and `resolveCall` are used by the tests only, and modelled all the same.

`Settle` is the one place all four maps, the timer and the promises change (`failEntry`
and `take` followed by `rememberTerminal`).

`ToolCallLedger` is the promise to callers: a call is unborn, pending, or settled for
good in one of three ways, and at most MaxPending are pending. `DeferredToolBroker`
implements it under the mapping `statusBar`; `CodexAdapter` then uses the ledger in
the broker's place. What the ledger hides (profiles, truthful answers to late
results) is checked on the broker itself.

### 2.2 Codex

`CodexClient` holds the client's buffer, waiters and protocol error, and operators for
who gets a line. `CodexAdapter` has one record per request (its generator), the
adapter's maps, the ledger, and an external app-server.

*Event loop.* A data event hands over all its lines before any promise callback runs;
callbacks then run until every pump is blocked; only then comes another timer, request,
close or data event. A line is one action; `Quiet` says no pump can run, and
`draining` that pumps have started, so that no further line belongs to the data event.
A pump's step is the code between two awaits: `Begin`, `Await` (arms the waiter,
races it against the tool promise), then one of `ToolReleased`, `NoteFailed`,
`TakeText`, `TakeTurnEnd`, `RefuseCall`, `CallOverflows`, `ParkCall`. A
promise that had settled earlier wins the race, as `Promise.race` decides by order.

*External.* The app-server may say anything the adapter has code for, in any
grouping into data events, and may fall silent, write a malformed line (`ReceiveGarbage`)
or exit. A thread that waits for a tool result says no text, which is what the protocol
means by a request.

*Declarations.* `threadToolAcl` is trimmed in insertion order, as in the code; `later` counts, for each
thread, those with tools that began after it, so that `DeclarationHolds` can say how long a
declaration must be known: until MAX_TRACKED_THREADS others have begun.

*Simplifications.* `ensureStarted` is one step (its own race is not modelled, see
section 7); a thread has one turn; usage is one notification without content; a lost client's leftover
waiters, which nothing can reach, are dropped.

### 2.3 Claude

A query is named after the request that opens it. `sess[s]` is its `LiveClaudeSession`
(gate, parked frame, public id, owner, deadline, the two flags that survive a park);
`sessions`, `byRequest` are the adapter's maps, `ledger` is the broker. A public id is the call
it was made for. `run[r]` is a request's generator: `listening` (awaits the channel), `race`
(in drainSession's or drainPlain's loop), `failed` and `refused` (awaits closeSession on the way of
an error), `done`.

*Close in two steps.* `Closing` is closeSession up to its await of the SDK's iterator, `Returned`
what follows; between them the session is `returning`: its channel still takes frames and its pump
may still wake. A session that is terminated closes no further, as in the code.

*Event loop.* As for Codex, pumps run until they wait (`Quiet`) before the next request, close,
frame or timer. The SDK may produce messages meanwhile, and when both a message and a call are
there, either is taken: `Promise.race` prefers the message, but how many microtasks the SDK's own
iterator needs is unknown.

*External.* A query streams all of its text or none: items come in parts and then in full, or only in
full. An aborted query stops in the end; any other may stay silent. Other adapters may fill the
broker (`OthersPark`). The bridge may park calls one by one, also while another is
parked, and may die with a frame.

*Deadlines.* The broker's and the session's deadline of a park have one duration and start together:
they are one action. A frame's own deadline has the same duration by default; `long` is the
configuration in which sessionTtlMs exceeds it, and the one in which two properties are not claimed:
a result that comes between the two deadlines reaches no frame, and the session's deadline goes on.

### 2.4 Registry

Routers, launchers and agy processes are separate processes, so each file system call
is a step. `register` is a program counter: `open` (openSync with `wx`), `stat` and
`reclaim` (a stale lock), `list` and `visit` (reconciliation), the capacity check, `sweep`
(temp files), `write`, `rename`, `unlock`. `Release`, the launchers' sweeps and
`CloseControl` happen without the lock, as in the code. A visit reads, judges and removes in
one step: a run once dead stays dead and a descriptor has one writer, so nothing that
happens in between changes the outcome. A Router may crash anywhere and leave its lock,
temp file, descriptors and sockets. Ages and deadlines are flags that a clock action
may set; `SlowHolder` is a lock that goes stale under a holder that is still
working. `stolen` is a history variable: a lock was removed while its maker relied on it.
Process ids are not re-used within a behaviour.

### 2.5 Antigravity

As in Claude, a session is named after the request that opens it. `sess[s]` is the
`AgyToolSession` (gate, parked frame, public id, owner, the number of session timers
that run, `terminalSeen`, the protocol error), `queue[s]` its `StreamEventQueue`,
`child[s]` the `agy` process with what its runner and line parser know of it, `sessions`
and `byRequest` are `toolSessions` and `sessionsByRequest`, `held` the sessions whose
directory and descriptor exist.

*Actions.* `Open` (a plain run spawns at once, one with tools makes its channel first),
`Start`, `StartFails`, `PublishFails` and `EndFailed` (what follows the channel), `Continue`,
`Turned` (requests refused before anything is allocated), `HangUp`; the drain's steps
`TakeEvent`, `TakeEnd`, `RefuseCall`, `ParkCall`; the timers `Deadline`, `FrameExpires`,
`TimesOut`; the bridge's `ReceiveCall`, `LoseFrame`; the process's `Line`, `Exit`. Closing a
session is one step, because nothing it awaits depends on the process, unlike Claude's.

*Queue.* `Fed` pushes what a line gives and, at the bound, replaces it by the protocol
error, closes the queue and aborts the run, also while the session is parked and nobody
reads. `Outcome` is the end of the drain: overflow before abort before verdict; `Verdict`
needs a good exit *and* the terminal event.

*Line parser.* A line is one of the shapes the parser tells apart (text, a step that repeats,
the result with or without a text of its own, an error, a line that is too long); `saw` is the parser's memory
that a text was streamed, by which the result's own text is passed on or not.

*Deadlines.* A continuation does not clear the session's timer (`Resumed`), and the next
park starts another: `deadlines` counts those that run. Only the last can be cleared.

*After the close.* `close()` of the control channel destroys the sockets of pending frames only, and nobody
asks afterwards whether it is closed: over a connection made before, a call still comes (`ReceiveCall` needs no
open session, only that the bridge has found the channel, `Published`). If the drain is still in its
race, it parks the call on the closed session (`ParkCall`; finding 12). `belated` has the calls
that came so, and `LateDeadline` is the session's timer when it fires for one: the broker's call expires, and
closeToolSession returns at once.

### 2.6 Command Code and Cavoti

`UpstreamChat` follows one run, since two share only the acknowledgement and the listing. The wire
(`chat`, `messages`, `cavoti`) is decided by `Wire`, the code's reading of a catalog entry.
`Start` is the run up to its `fetch`: the guards in their order, the converted history,
the composed deadline. `Headers`, `ErrorBody`, `Read`, `Oversize`, `End`, `Break` are what the
provider or the connection does next; `Deadline`, `BodyDeadline`, `HangUp` (the caller's
abort) and `Abort` (its arrival at the reader) may come between any two. `OnChatRecord`
and `OnMessagesRecord` are the adapters' loop bodies with their order of checks; `Resolved` and
`Contradicts` the calls kept by upstream index. The timers and listeners that the cleanup takes back are
booleans of `run`, so that `HoldsNothing` can say what is left of them. Two listeners are never removed (`callerEdge`,
`client.ts:161`; `abortEdge`, one per frame, `client.ts:899`); they sit on signals that are the run's own and go with it, and
are not modelled.

*Simplifications.* A record arrives whole; how bytes are split into records is left out.
Discovery's own fetch is one step that answers or fails. Argument text is not kept.
There are no retries, in the code either.

### 2.7 HTTP exchange

One record per exchange: its phase, what its client has received (`frames`), the calls buffered so
far, the item that is open, `aborted`, `cancelled`, `completed`. `Arrive` and `Discovered` are
`ProviderRegistry.resolve` with its cache and the negative answers it keeps, `Age` the
passing of its lifetime; two exchanges may ask at once, and the later answer is the one
kept. `HangUp` and `Close` are the reply's close event before and after its end; the request's own
close event has come before the handler listens, and is not modelled. The provider (`EmitText`, `EmitCall`,
`Completed`, `Failed`, `Threw`, `Ended`) is the environment: any adapter, behaving as the
type of its events allows, not only as today's five do. Handling one event is one step,
with tracking (`usage-tracking.ts`) and what the surface writes.

*Data.* Arguments are pieces: a call is usable when it has none or all of them
(`Usable`), malformed in between. `UsageStore` keeps its order and its bound.

### 2.8 Tool access

A request is what its client means; `ChatHandler`, `ResponsesHandler` and `AnthropicHandler`
are the three handlers' own order of parser, guard, bound, controls and decision, up to what
reaches the adapter (`to = "provider"` with the forwarded tools, choice and parallelism) or
the code of the refusal. `Decision` is `resolveToolAccess`, `Represents` and `Representable`
the provider policy, `Upstream` what the providers tell upstream, `Published` the
capability descriptor. `Serve` puts the same request to all three, so that they can be
compared: there is no state to interleave, and the module says so by having one step per request.
A client presents its secret as bearer token or as API key, or one of each; an API key counts on the Messages
surface only (`Presented`), so a request may be known on one surface and not on another, and
`SurfacesAgree` compares those that know it.

*Left out.* The calls of a conversation's history are well formed; of a malformed one, Chat skips it
(`openai-chat.ts:129-131`) where Responses (`openai-responses.ts:48`) and Messages (`anthropic-messages.ts:261`) answer
400, and `SurfacesAgree` says nothing of it. A tool-call part under a user's role is ignored by the history's
inspection and dropped upstream; it is not among the model's `calls`. Whether a provider that is told max_tokens
keeps to it is not covered: `PublishedIsEnforced` is about the handlers' decisions.

## 3. Runs

| Run | Instance | Shows |
| --- | --- | --- |
| `broker` | 3 composite ids (two differ only in profile, one in another session), 2 profiles, 1 signal, 1 waiter, MaxPending 2, 3 creations | maps, timers, one settlement, truthful answers, to the other profile as well, the ledger refinement; every call settles |
| `codex_turn` | a thread and one continuation, tools {} or {a}, wire tools a, b, 2 items, 2 calls, 1 usage, 2 faults, buffer 3 | one parked call, answering, text, listening, cancellation; turns without tools end |
| `codex_threads` | two threads and a continuation of either, tools {} or {a}, room for 1 declaration, 1 item and 1 call each, no faults | threads sharing one client do not mix; a declaration is kept, and evicted no earlier than it must |
| `codex_crash` | one request, one exit | **violated**: `CrashedTurnsEnd` |
| `registry` | 2 Routers, 2 runs, bound 1, 1 crash | writers, bound, findability; every registration ends |
| `claude` | one query, up to 2 continuations, 2 calls, 2 items, SDK 2 messages ahead, 2 faults, queue 1, bounds 1 | text, usage, deadlines, results; a hang-up ends all |
| `claude_silent` | the same, one continuation | **violated**: `FailuresTold` |
| `access` | 2 names of which one is registered, 3 grants, 2 secrets as bearer token or key or both, every provider, wire and capability, requests in which two aspects differ from a plain one | surfaces agree, grants, constraints, published capabilities |
| `http` | one exchange on each surface, streamed or not, another beside it; 2 calls, 3 events, a usage store of 1 | tear-down, whole calls, frames, usage |
| `upstream` | 5 catalogs, 5 conversations, 2 declared names and an undeclared one, 2 ids, 2 indexes, 4 records | one terminal event, calls, nothing held, what is sent; every run ends |
| `antigravity` | one conversation, up to 2 continuations, 2 calls, 2 texts, queue of 2 events, bounds 1, 1 fault | text, failures, what is left after a close; everything ends |
| `agy_deadline` | the same | **violated**: `OnlyParkedExpire` |

**Further configurations**, run by hand (`tlc -config X.cfg M`), that are beside these because they
repeat an instance above, or show one more divergence. Eight check invariants and pass: `MCBrokerFurther`
(types; bounds; a profile claims only its own calls; what the terminal maps remember; waiters follow their call),
`MCCodexFurther` (types; one pump per thread), `MCCodexTwoFaults` (`codex_threads` with a hang-up, timeout, malformed line or exit),
`MCCodexDeclared` (three threads, one of them continued, with room for two declarations: what `codex_threads` says of declarations), `MCClaudeFurther` (types; deadlines
retired; frames accounted for), `MCRegistryFurther` (types), `MCAntigravityFurther` (types; an undriven
session is guarded), `MCUpstreamFurther` (what is sent upstream keeps all tool
calls and results of the conversation, in order). Nine find the further divergences listed below:
`MCCodexLost`, `MCCodexStall`, `MCCodexAcl`, `MCRegistryBound`, `MCClaudeLeak`, `MCHttpSurfaced`,
`MCUpstreamSilent`, `MCAntigravityOrphan`, `MCAntigravityLeak`.

**Why the bounds are enough.** In the broker, three creations against a bound of two reach
refusal, eviction from both terminal maps, re-use of a composite id, and a claim by the wrong
profile. In Codex, two items and two calls in one data event reach every order of
text, call and turn end in the buffer and waiters; a second request reaches the
continuation, its duplicate and a hang-up during either. `codex_threads` has the thread whose declaration is
watched begin before the other or after it, with room for one: the last is kept, the first pushed out; `MCCodexDeclared` has
room for two, and a thread before and one after. `codex_threads` has no faults: `codex_turn` has two of them on one thread, and
`MCCodexTwoFaults`, too large for a regular run, one on two threads. In the
registry, two Routers and a crash reach the double
reclaim, and a second run the refusal of the capacity check; the safety properties are proved for
every number of both. `RegisterEnds` does not reach the retries that skip the deadline's check (a lock that is gone when
it is looked at or reclaimed, `session-registry.ts:396`, `420`) again and again: that needs other Routers taking and leaving
the lock without end, and here registrations are finitely many. In Claude, two calls and two continuations reach a call after a call, a duplicate
result and a result for a closed session; two items reach text on both sides of a park. One
query is enough because queries share only the bounds on `sessions` and on the broker, and
`OthersPark` stands for the others there. At most two frames are ever pending, so MaxFrames is not reached.
Antigravity is the same with a queue of two events, which overflows while parked and while
driven, and one fault, so that every failure is met with everything else going well. In
`upstream`, four records are a call begun, continued, contradicted or finished, with its usage; a
fifth repeats one of them. In `http`, three events are text before and after a call, or a
whole call and a malformed one; the second exchange is only needed for the cache and the
store, whose bound of one it exceeds. In `access`, every condition of the code reads at most
two aspects of a request beyond the configuration, which is varied in full; the requests vary
every two.

**Deadlock** is checked for the broker (a signal may always fire again, a claim may
always be made). The other models may stop: when all requests are over, nothing is left to do.

### Findings

1. `codex_crash` (`providers/codex/adapter.ts:590`). After an exit, a timed-out tool waiter
   is not re-armed, but its settled promise is raced again and again, in microtasks only.
   The run has fairness for pump steps and timers, so this is a real spin and not a stop.
2. `claude_silent` (`providers/claude/adapter.ts:1014`). A query with tools dies; drainSession's
   cleanup aborts the request's own abort controller before the error reaches run's
   handler, which then takes it for a cancellation. The client gets neither an error nor a completion.
   Queries without tools, and continuations, report the same failure.
3. `agy_deadline` (`providers/antigravity/adapter.ts:1545`). A continuation leaves the session's
   timer armed. When it fires, the resumed reply is cut off and ends without a word; and the next
   park overwrites its handle. `FailuresTold` and `EverythingEnds` hold in spite of it: the session is
   closed properly, and `FailuresTold` excepts the sessions in `stale`.

Further divergences, each shown by a configuration kept beside the runs:

4. `MCCodexLost` (`providers/codex/adapter.ts:580`). Text taken from the buffer in the
   same step in which a tool call had already arrived is in no reply: the race is won by the tool's
   promise. The buffer's comment promises the opposite.
5. `MCCodexStall` (`providers/codex/adapter.ts:585`). With declared tools, the tool waiter's timer
   fires just before the notification waiter's; the pump re-arms, and starts its
   wait anew, for as long as the app-server is silent. No `provider_timeout`.
6. `MCCodexAcl` (`providers/codex/adapter.ts:375`). When 64 other threads have pushed out a thread's
   declaration, a continuation may declare, and the app-server then call, more tools. `DeclarationHolds` says that
   nothing less than 64 does.
7. `MCRegistryBound` (`bridge/session-registry.ts:418`). Two Routers see the same stale lock;
   the second removes the first's fresh one. Both count, both publish. It excludes
   slow holders, so no critical section overran its thirty seconds. `BoundedUnlessStolen`
   excepts it by `stolen`.
8. `MCClaudeLeak` (`providers/claude/adapter.ts:608`). A call that arrives while a hang-up's
   closeSession awaits the SDK is parked on the closed session. Its entry in `sessions` is never removed,
   since the deadline's closeSession returns at once, and counts against maxLiveSessions. The
   property waits for that deadline to be over before it calls the entry a leak.
9. `MCHttpSurfaced` (`http/anthropic-messages.ts:735`). The loop that validates buffered calls
   writes each before it looks at the next: a well-formed call is shown, then a malformed one fails the
   reply. Line 734 says all are validated before any is surfaced. A malformed one is never shown
   (`OnlyWholeCalls`).
10. `MCUpstreamSilent` (`providers/command-code/client.ts:766`). While an error body is read, the
    composed deadline and the body's own are due together; the former was armed first, and its abort
    reaches the adapter as no `RouterError`: the run ends without a word. `OneTerminal` excepts this one case
    by `LostDeadline`.
11. `MCAntigravityOrphan` (`providers/antigravity/adapter.ts:1380`). A client that hangs up while the channel is
    made aborts a signal nobody listens to yet; `agy` is spawned all the same, and runs until its print
    timeout. `ClosedLeavesNothing` excepts this one case by `Orphan`.
12. `MCAntigravityLeak` (`providers/antigravity/adapter.ts:1284`). A call that comes over an idle connection after
    closeToolSession finds a drain that looked at the abort before its race and not since, and is parked on the
    closed session. Its entry in `toolSessions` is never removed, since closeToolSession returns at once from then on, and
    counts against maxLiveSessions. `ClosedLeavesNothing` holds beside it: nothing else is left, and
    the broker's call has its deadline.

Seen while modelling and not claimed as findings, because nothing in the repository says otherwise: a spawn of
`agy` that throws at once (its prompt is an argument, so it may be too long) rejects a promise
without a handler, and `index.ts` installs none for the process; a `tool_use` block without input deltas
ends a Messages run with finish reason `tool_calls` and no call; Command Code stops reading at a finish reason
and leaves the connection to the provider to close; of two discoveries at once, the later answer is kept
even if it is the older.

## 4. Fairness

* Broker: `WF(Expire(p))`. An armed `setTimeout` fires. Claims, aborts and cancellations are
  never assumed.
* Codex: weak fairness of the pumps' steps taken together (the event loop runs
  what can run) and of `WaiterExpires`. Nothing is assumed of the app-server or of clients:
  no line ever has to come, no request has to be made.
* Claude: weak fairness of pumps, of a channel's start, of deadlines and of closeSession's
  continuation, and that an SDK query stops once it was aborted (the SDK's contract for its
  abort controller). Nothing else is assumed of SDK, bridge or clients.
* Antigravity: weak fairness of the drain's steps, of a channel's start, of the session's and the
  print timeout, and that a process told to terminate exits (it is killed after a grace period).
  An `agy` that was not told to stop may be silent until its print timeout.
* Upstream: weak fairness of the two deadlines and of an abort's arrival. The provider may be
  silent for ever.
* Registry: weak fairness of a Router's next step inside `register` and of its deadline's
  passing. Nobody must start, end or crash, and no lock need ever look stale.

## 5. What is proved

TLAPS checks these for all values of the constants that satisfy the assumptions (finite
sets of names, positive bounds, reserved names outside the sets). The bounds that cap a run for TLC
(`MaxCalls`, `MaxItems`, `MaxEvents`, `MaxFrames`, `MaxFaults`, `MaxCrashes`) are any numbers, so what is proved holds
of runs of every length. `PROJECT.json` says of each theorem what it establishes and which run shows it on an instance.
Every inductive invariant was first checked by TLC on its run's instance.

**`DeferredToolBrokerProofs`.** `Invariance` proves the inductive invariant `IInv`. The
properties are not inductive on their own: that a creation is settled once needs
that a live entry's creation is pending in the history (`IndexConsistent`), that no timer
survives its call (`DeadlinesMatchCalls`; an old timer would settle a new call), and that terminal
maps only gain what they lack (so that trimming is dropping the oldest). All ways of
settling go through one lemma, `SettleInv`, on `Settle` applied to any set of live
ids in any order. Then `TypeCorrect`, `SettledAtMostOnce`, `ProfilesIsolated`, `IndexAgrees`,
`DeadlinesAgree`, `MemoryBounded`, and `BrokerImplementsLedger`, the refinement, step by step
under `IInv`. Late answers rest on `RemembersTheLatest`: the public terminal map is the end of the
history of settlements, with the fates of that history (`TrimKeepsNewest` and `MemoryGrows`: appending k
settlements to both keeps them together, whatever is trimmed). `AnswersAreTrue` follows from it, and
`WaitersAreFaithful` from `IInv`. `RecordsAreLatest`, that what is remembered of a composite id is the end of its *latest*
call although ids come back, rests on `KeysInv`: an id is remembered once, so deleting it at its next creation forgets
it, and the live entry of an id is its latest creation.

**`SessionRegistryProofs`.** Two arguments that do not depend on each other. `LockInv`: while no
lock was taken from its holder, at most one Router is inside, hence what it has counted stays an
upper bound of the directory until it publishes (`CountHolds`: during the visit, files are
within what is visited and yet to visit; afterwards, within the survivors). It gives
`WritersSafe` and `BoundKept`. `RunInv`: a run is wanted or held by at most one Router,
and is not ending; that alone gives `HeldRunsFindable`, *also* when locks are stolen.

**`ToolAccessProofs`.** The invariant only says that the answers are the handlers' answers to the
question; the work is in what the handlers compute. `First`, the first check that refuses, is unrolled for the lengths the
handlers have, each handler's refusals are shown to be the same conditions in another order (`RefusalCode`), and
what passes them to be allowed (`Allowed`). Where two surfaces know the client, it is the same client (`SameClient`). The theorems `SurfacesDecideAlike`, `GrantsAreNotWidened`,
`ConstraintsAreKept`, `DescriptorIsKept` hold for *every* request, where `access` enumerates those with two aspects
that differ from a plain one.

**`UpstreamChatProofs`.** `IInv` is a condition `Good` on the run's record, with a part for each property
and what it needs: `Resources` (a running request has its deadline or an abort on the way; the body's own deadline only
while an error body is read), `Told` (nothing terminal has been told before the end, or after an abort; `Lost` is
finding 10), `Faith` (each told call agrees with the call kept at its index, and two at one index with each other), `Usage`
and `CompletesAsOne` (on the Messages wire, where both come with the end). Each way of telling something has a
lemma on `Good`, used by all records that tell it. It gives `NothingIsHeld`, `EndIsToldOnce`, `CallsStayTrue`, and
`OnlyAllowedIsSent` as an action property.

**`HttpExchangeProofs`.** `Life` says of each exchange what its frames must look like at its phase: while it
runs, `Flow` (the items opened so far are 0, 1, 2, ..., all but the open one are shut, and buffered calls sit on
items of their own); once it is over, `Shown` (what was listed, and then one of the tails in `Tails`; a finish
only after all calls were shown). `Store` ties the usage store to the exchanges (a record per run that reached its provider
or an active entry, until the bound drops it). The surfaces write loops' worth of frames in a step: `Flattens`
describes those by their prefixes, and `Induction`, over the length of the prefix, what they add up to. Then
`CompletionIsNotCancelled`, `CallsAreWhole`, `TheWireIsInOrder`, `UsageIsAccounted`.

**`AntigravityAdapterProofs`.** `IInv` has a part for each session and one for each request:

* `Session(s)`: `Steady` (which requests may be at a session in which state; a live session has its directory),
  `Called` (only a session that nobody drives has a call in `sessions` or the broker, and that one is its `public`; at a closed
  session it is `belated`, and has a deadline while the broker has it),
  `Guarded` (an open one has a deadline, a gate and that call), `Framed` (a pending frame of an open session is the one parked,
  or the one its driver was promised, or its queue has overflowed and the drain is about to find out; one of a closed session
  is `belated`, and so is the call its driver may still be promised, unless the queue is shut, so that it is never parked), `Ending`
  (a session is aborted, its queue closed, its process told to stop, for a reason that is still there),
  `Heard` and `Queued` (the texts told are 1, 2, ..., k; as long as somebody may hear them, those queued are the rest of
  what was said, in order).
* `Client(r)`: `Steered` (an active request owns the session it is at), `Explained` (a request that ends
  without a word has a reason: its client left, or finding 3), `Complete` (a completed reply has all that was said, by a process that
  ended well), `Promised` (a reply that told of a call parked it, and if the session was closed before, a deadline has
  closed it), `Metered` (usage is told to one request of a session).

None of `RepliesFaithful`, `FailuresTold`, `ClosedLeavesNothing` is inductive: that no text is told twice needs
where each of them is queued, and that a closed session leaves nothing but what came later needs that
its driver parks nothing it was promised before the close. A step
changes one session and its driver; `Apart` says so, and `Elsewhere`, `OtherClients` and `Lift` carry the invariant over to
all the others once and for all. What is left of a step is its own session, in one lemma per action (`KeepOpen` to
`KeepTimesOut`), and those that close it share `ClosingShape`, `OpenCloses` and `PumpReleases`. Then
`RepliesAreFaithful`, `FailuresAreTold`, `UndrivenRunsAreGuarded`, `ClosedSessionsLeaveNothing`. `QueuesAndTimersBounded` adds to
`Shapes` how much there is of everything (`Limits`): a stream's queue keeps its bound, and a session has at most one timer per call
it asked (`Born`), however often it is resumed without clearing one; `Typed` follows.

**`ClaudeAdapterProofs`.** The same argument, with the same names for its parts, for an adapter that differs in three places.

* A closed session with tools is `returning` first, until the SDK's iterator is back, and its pump may still wake in that state: it
  may take a text, a result or a call, and even park one. Hence `Called` and `Framed` speak of `returning` and
  `closed` sessions too, and a session on which a call was parked after it was closed is in `revived` (finding 8), which
  the broker forgets by its own deadline. What a request that is out of the race (`failed`, `refused`) still has to do
  is `Steered`'s.
* In the queue's place is the SDK's channel. `Streamed` says that some number `read` of the messages with text was read, that the
  unread ones are the rest of what was said, in order and before whatever ends the query (`Unread`), and that what was heard
  is each item begun in those `read`, once (`Follows`). An item that is streamed comes twice, in parts and in full,
  so `seen` has to say whether the parts were told: that is why `read` counts messages and `heard` items.
* A frame may have a deadline of its own that is shorter than the session's (`long`); `Retires` and `Delivered` are about the
  other case, as the properties are.

Here `RepliesFaithful`, `UndrivenIsGuarded` and `ResultsDelivered` are each far from inductive: a result is delivered because a
pending call is the parked one and its frame is pending (`Delivered` with `Framed`). `Apart`, `Elsewhere` and `Lift` carry the
invariant over to other sessions; each way to close a session goes through `OpenCloses`, `ClosedSession` and `DriverCloses`. Then
`TextsAreFaithful`, `UndrivenQueriesAreGuarded`, `DeadlinesAreRetired`, `AcceptedResultsArrive`, `NoFrameIsForgotten`. `Typed` is what
`Shapes` leaves open, by `Queues`: the frames waiting for a pump and the messages it has not read keep their bounds.

**`CodexAdapterProofs`.** The other adapters have a session per conversation and one driver for it; here every pump listens on
the same client, so the invariant has to say who may take what. `IInv` is `Shapes` and:

* *Threads.* `Steered` and `Alone`: an active request is alone on its thread, no call of which is parked then, and after a
  hang-up nobody comes to the thread any more. `Allowed`: what a pump may declare is what its thread declared, while remembered.
* *Promises.* `Awaiting` says what a pump's two promises (`note`, `tool`) may be at each of its awaits, and that one which is
  `waiting` has a waiter (`Listens`); `Waits` and `Serves`, the converse, that each waiter belongs to a pump that waits for it, so no line
  goes to a waiter nobody reads. The exception is in `Serves`: a waiter of a settled race may be left, if tools are declared.
* *Calls.* `Counted`: an unasked call has no answer, a resolved one at most one, a parked one none. `Single`: one parked call
  per thread, which is what lets `RefuseCall` and `ParkCall` speak of *the* call.
* *Text.* `Buffers` (buffered texts of a thread are in order, were said, and are of no lost thread), `Speech` (what the app-server has
  said), `InOrder` (`Past` and `Later`: what was told is behind what is noted, and that is before what is buffered;
  a pump that waits has nothing buffered, `Quieted`), and `Whole`, for threads without tools: all that was said is told, noted
  or buffered, unless the thread is lost or the client's protocol failed.

`BlockedPumpsListen` and `CancelLeavesNothing` are about waiters only, `TextFaithful` about the buffer and the reply, but none is inductive without
the others: a waiter takes the first line that matches it, past others that stay in the buffer, and a text keeps its place only because
the thread has one pump and one waiter of each kind. A step belongs to one request or to one line. `Keeps` carries
the invariant over to all other requests; `KeepCloses` is every way a reply ends (turn end, failure, call parked, hang-up, exit), `KeepProceeds`
a pump's step that stays in its loop, `KeepHears` the arrival of a line, which goes to a waiter or to the buffer or is dropped.
Then `Typed`, `OneParked`, `OnePump`, `NoDoubleAnswer`, `FaithfulText`, `CompletePlainReplies`, `PumpsListen`,
`CancelIsClean`.

`DeclarationHeld` has an invariant of its own, `Memory`, proved beside `IInv` (`DeclarationsKept`): the i-th of the remembered
declarations is of a thread after which at least as many began as are remembered behind it (`Aged`); a thread with a parked
call is remembered or has seen `MaxTracked` of them begin since its own (`Kept`); and a pump either has what its opener declared or has seen as
many (`Original`). Eviction takes the first of the list, and by `Aged` that thread's count has reached the bound.

**Induction.** The library's induction rules take a predicate as a parameter, which the
provers cannot instantiate. `LeastNumber` (a set of numbers that is not empty has a least one) follows from the
well-foundedness of `<` without it, and `Induction` over a *set* of numbers from that; the lemmas on
prefixes, gaps and first places use it. Functions of sequences whose definition is recursive in the library
(`FlattenSeq`, `SelectSeq`, `SortSeq`) still are beyond the provers. `CodexClient` removes waiters and lines by a recursive function
of its own, `Without`; `Withouts` proves by that induction what it returns: the elements kept, in their order.

**What the proofs changed in the models.** Several `CASE`s had guards that overlap and relied on TLC's taking the
first; TLA+ does not say which is taken. They are `IF` chains now, as in the source (`ToolAccess`,
`DeferredToolBroker`, `HttpExchange`, `UpstreamChat`, `ClaudeAdapter`, `CodexAdapter`, `AntigravityAdapter`,
`BridgeControl`). In `HttpExchange`, "no open item" was 100, a number that an item may have; it is -1. `CodexClient` and `CodexAdapter` use `Without` where they had `SelectSeq`, with the same states. No property
had to be weakened.

**Only model-checked.**

* Liveness (`EveryCallSettles`, `PlainTurnsEnd`, `RegisterEnds`, `HungUpEnds`, `EverythingEnds`, `RunEnds`) and all
  violations: fairness and `ENABLED` are out of the prover's reach.
* `CarriesExchange` of `UpstreamChat`: it compares two sequences made by `SelectSeq` and a sorting step, whose
  definitions the provers cannot expand.

`TypeCorrect`, `ProfilesIsolated`, `MemoryBounded`, `RegistryTyped`, `RemembersTheLatest`, `RecordsAreLatest`, `WaitersAreFaithful`,
`UndrivenRunsAreGuarded`, `DeadlinesAreRetired`, `NoFrameIsForgotten`, `QueuesAndTimersBounded`, `OnePump` and the adapters' `Typed` prove
invariants that only the further configurations repeat on an instance.

## 6. Plan

Done: broker, ledger, Codex, registry, Claude with its control channel, Antigravity on the same
channel, Command Code and Cavoti, the HTTP exchange with registry cache and usage store, the tool-access
policy; and a theorem for every invariant and action property of their passing runs. What a team would add next: `ensureStarted`
with a client per process (below), and the refinement of the three adapters' parking by one abstract "parked turn".

## 7. Not modelled

* *MCP bridge process* (`bridge/mcp-bridge-process.ts`). It checks JSON-RPC lines one by one and forwards each
  `tools/call` on a socket of its own; two calls share nothing but a flag that ends the process. What the
  Router sees of it (a frame arrives, is answered, or its socket dies) is `BridgeControl`'s.
* *Codex `ensureStarted`*: two first requests at once spawn two app-servers. Modelling it needs a client per
  process, where `CodexClient` has one; `PROJECT.json` keeps the hazard.
* *Discovery, health and model lists* of Claude, Antigravity and Codex: one request, one answer, no
  state but what `HttpExchange` has as the cache. Antigravity's registration with `agy` (`mcp-registration.ts`) is
  one configuration file, written before a run.
* *Text*: wire formats, JSON schemas and their translation, building prompts, classifying stderr and error
  texts, the framing of bytes into lines and records, redaction and diagnostics.
* *Configuration and assembly*, read once at start; *test doubles*; *scripts*.
