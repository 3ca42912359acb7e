# TLA+ models of mcp-gateway

This directory holds the TLA+ specifications, TLC model-checking configurations
and TLAPS proofs kept beside the Python sources of mcp-gateway
(`src/src/mcp_gateway/`). They cover the concurrency core of the gateway: the
lifecycle of a backend adapter, its transport, the request router, the idle
checker, the configuration loader and the process's start and shutdown.

## The system

| Part | Source | State it owns | Operations that change state |
|---|---|---|---|
| Backend adapter (`MCPBackend`) | `backend.py` | `process`, `restart_count`, `last_used`, `_initialized`, `_tools_cache`, `_http_session_id`, `_sse_message_url`, `_lock` | `start`, `_start_stdio`, `_mcp_handshake_stdio`, `_fetch_tools_stdio`, `_init_streamable_http`, `_init_sse_session`, `_fetch_tools_http`, `stop`, `send_request`, `_send_stdio_request`, `_send_http_request` |
| Stdio child process | environment | its stdin and stdout pipes | answers lines, exits |
| Router (`Gateway._handle_mcp`) | `gateway.py` | one handler per HTTP request | `start()`, await body, `send_request` |
| Meta facade (`_handle_meta_mcp`, `gateway_*` tools) | `gateway.py` | none of its own; drives adapters | list servers, list tools (start + cache read), search (start each backend in turn), invoke (`send_request`) |
| Idle checker and lifecycle | `gateway.py` | `_running` | `start`, one `_idle_checker` pass, `stop` |
| Health endpoint | `gateway.py` | none | reads only |
| Configuration (`GatewayConfig`, `BackendConfig`) | `config.py` | built once before start | `from_dict`, the field validators, `validate_transport` |
| CLI (`main`) | `cli.py` | the event loop, the signal handlers | load the config, run the gateway, `signal_handler`, the `finally` clause, the exit status |

How they interact. Everything runs on one asyncio event loop. A handler of
`/mcp/<name>` calls `backend.start()`, suspends in `await request.json()` and
then calls `backend.send_request()`. The stdio transport does its pipe I/O with
blocking `select`/`readline`. From the write to the child until `select`
returns, the whole event loop is blocked: no other handler and not the idle
checker take a step. The child is a separate OS process and keeps running.
`_lock` is held only inside `_start_stdio` and the stdio branch of `stop()`.
Neither of them yields to the loop while holding it. The HTTP transports take
no lock at all, and every aiohttp call is a suspension point. Those two facts
decide which interleavings are possible.

The hard behaviours:

- A request races the idle checker's hibernation in the window between
  `start()` and `send_request`.
- A child crashes between `is_running` and the write.
- A `select()` times out while the child still owes a line, and a late reply
  then desynchronises the pipe.
- The tools cache survives `stop()`.
- HTTP handlers run with no lock, so `start()` can run twice, and `stop()` can
  race an in-flight POST that sets the session id again.
- The search over backends has a limit and stops early.
- A signal stops the loop without cancelling anything: `Gateway.stop` runs
  while the site still accepts requests and old handlers can still resume.

## Modules

### `StdioBackend.tla`: one stdio adapter, its child, its handlers

This module models one stdio adapter, the child process behind it, the handlers
of `/mcp/<name>` that call it, the idle checker and gateway shutdown.
`MC_StdioBackend.tla` gives the clients as model values.

State:

- `process`: the incarnation number of the current child (0 is `None`). A child
  is numbered by `restart_count` at its spawn.
- `exited`: the children whose `poll()` is not `None`.
- `restart_count`, `initialized`, `last_used`: the fields of the same names.
- `tools_cache`: the cached line (its id tag) and the child it came from.
- `now`: `time.time()`.
- `childIn` and `childOut`: the lines on the child's stdin and stdout.
- `running`: `Gateway._running`.
- Per handler: `pc`, `method`, `sent`, `reply`, and `cont`, which records
  whether `start()` was called from `_handle_mcp` or from
  `_send_stdio_request`.
- `abandoned`: a history variable. It holds the children on which a `select()`
  gave up while they were still alive.

A JSON-RPC message is abstracted to its id tag `<<client, n>>`, or
`<<"hs", 0>>` and `<<"hs", 1>>` for the handshake's `initialize` and
`tools/list`. That is what the properties tell apart.

Actions, one per handler step between two points where control can change
hands:

- `HandleMcp`: a request arrives and `start()` runs. The definition includes
  `StartStdio`, which either returns early because the child is alive, fails
  to Popen, or spawns a child and writes `initialize`.
- `McpHandshakeInit`: the 5 s select on the `initialize` reply. On a read it
  writes `tools/list`; on a timeout or EOF it continues.
- `FetchToolsStdio`: the 5 s select on the `tools/list` reply, caching the line
  iff it has a `result`.
- `ReadBody`: the body arrives, then all of `send_request`:
  - the cached short cut;
  - or `_send_stdio_request`: start if needed, then the write, with the
    BrokenPipe error and the notification cases.
- `ReadResponse`: the 30 s select. It either reads one line, or times out or
  hits EOF.
- `IdleChecker`: one pass of `_idle_checker`.
- `GatewayStop`: `Gateway.stop`, run on cleanup after the handlers finish.
- Environment: `Tick` (the clock), `ChildRespond` (the child answers the
  oldest line), `ChildExit`, and `Terminated` (stutter after shutdown).

`StopBackend` (`stop()` for stdio) is part of `IdleChecker` and `GatewayStop`.
`Blocked` expresses that the loop is blocked in a handler's `select()`: while
it holds, no handler step that needs the loop is enabled, and the idle checker
is not either.

Bounds:

- `MaxReq` requests per client.
- `MaxStarts` spawns: crashes and hibernations are allowed only while
  `restart_count < MaxStarts`.
- `MaxTime` ticks of the clock.

### Properties checked (`StdioBackend.cfg`, run `stdio_main`)

Constants: 2 clients, 2 requests each, 2 spawns, 1 tick, `IdleTimeout = 0` (so
any tick makes the backend idle). TLC explores 1,171,793 distinct states to
depth 27 in about a minute.

The bounds are enough for every interesting case:

- two requests of one client, one after the other, meet a stale line;
- the other client's request runs between `start()` and `send_request`;
- a crash and a hibernation each cause a respawn;
- the cache is filled by one child and read after another.

| Property | Kind | What it says |
|---|---|---|
| `TypeOK` | invariant | types |
| `RepliesCorrelated` | invariant | A reply relayed from the child or the cache carries its request's id, unless an earlier read on the same child was abandoned while the child was alive. Only a timeout can desynchronise the pipe. |
| `CacheHoldsToolsReply` | invariant | `_tools_cache` only holds a reply to the handshake's `tools/list`, never the `initialize` reply (which also has a `result`). |
| `NoOrphanChild` | invariant | Every spawned child that is alive is `self.process` ("one subprocess per enabled stdio backend at most"). |
| `NoChildAfterShutdown` | invariant | After `Gateway.stop`, no child is alive. |
| `IInv` | invariant | The inductive invariant used by the proofs, checked here first. |
| `RequestsComplete` | liveness | Every request to `/mcp/<name>` is answered. |

Fairness is weak fairness on the handler steps `McpHandshakeInit`,
`FetchToolsStdio`, `ReadBody` and `ReadResponse`. This is justified by the
code: each `select()` returns within its timeout, and the loop runs a
runnable handler. Fairness on `ReadBody` assumes that a client that has
sent a request sends its body, so that aiohttp's `await request.json()`
returns. No fairness is assumed for new requests, the clock, the child or
the idle checker.

Every property has a mutant in `PROJECT.json`: a plausible bug in the modelled
code under which TLC finds that property violated. The mutants are:

- the aliveness check of `_start_stdio` dropped;
- `readline()` of the `initialize` reply skipped;
- the cached reply keeping its old id;
- `readline()` without `select()`;
- `stop()` without `if self.process`;
- `Gateway.stop` not stopping its backends.

### Disagreements found (violation runs)

- **`stdio_response_id` (`ResponseIdMatches`), a code bug.** The spec
  (section 8) says every response's id equals the request's id. TLC finds this
  trace:
  1. A request's `start()` spawns the child and writes `initialize`.
  2. The handshake's 5 s `select()` times out (`backend.py:156`).
     `start()` still returns True, the backend is not initialized, and the
     `initialize` reply is owed.
  3. The handler reads its body. `send_request` finds the child running and
     writes the request.
  4. The child answers `initialize`.
  5. The request's `select()` reads that line, with the handshake's id 0, as
     its own response.

  The same happens after any 30 s timeout of `_send_stdio_request`
  (`backend.py:460`): the child is left running with the request still owed.
- **`stdio_cache_current` (`CachedToolsCurrent`), the code diverges from the
  spec.** The spec (sections 3 and 9) says `stop()` discards `tools_cache`. The
  code (`backend.py:349-366`) never clears it. TLC finds a `tools/list`
  answered from the cache of a child that the idle checker stopped while the
  handler was awaiting its body.

### `AdapterLifecycle.tla`: what an adapter promises, and the refinement

This module is an abstract specification of the adapter lifecycle, taken from
the spec (sections 3, 4.1, 4.2 and 4.5). Its state is `alive`, `phase`,
`initialized` and `restarts`. It has five actions:

- `Spawn`: only when no child is alive and no handshake runs. It counts a
  restart and clears `initialized`.
- `Initialize`: only inside a handshake.
- `Handshaken`: the handshake ends.
- `Stop`: never inside a handshake. It clears `initialized`.
- `Crash`: at any time.

The specification has weak fairness on `Handshaken`, so every handshake ends.

`StdioBackend` maps onto it with `Lifecycle == INSTANCE AdapterLifecycle`:

- `alive` is `IsRunning`;
- `phase` is `"handshake"` while a handler is in `hs_init` or `hs_tools`;
- `restarts` is `restart_count`.

The run `stdio_main` also checks `ImplementsLifecycle == Lifecycle!Spec`,
liveness included, over its 1,171,793 states. With the aliveness check of
`_start_stdio` removed, TLC finds a `Spawn` over a live child.

### `HttpBackend.tla`: one HTTP or SSE adapter and its handlers

This module models one adapter with an `http_url`, the `/mcp/<name>` handlers
that call it, the idle checker and shutdown. The variable `sse` picks the
transport: `_init_sse_session` for a URL ending in `/sse`, otherwise
`_init_streamable_http`. It is chosen in `Init` and never changes, since the
configuration is fixed before the gateway starts, so one run covers both
transports. `MC_HttpBackend.tla` gives the clients as model
values.

State:

- `initialized`, `tools_cache` (whether a cache is set), `last_used`, `now`
  and `running`: the fields of the same names.
- `session` and `msg_url`: `_http_session_id` and `_sse_message_url`. A
  session id or message URL is the number of the initialization that obtained
  it, and 0 stands for `None`.
- Per handler: `pc` (the aiohttp call it awaits), `url` and `ses` (what that
  call was sent with), `answered` (whether the server has answered it yet),
  `init` (the initialization it runs), `cont`, `method`, `sent` and `reply`.
- History variables: `inits` counts initializations and `stops` counts calls
  of `stop()`.

Actions. Every aiohttp call is a suspension point with no lock held, so each
handler step ends at the next call:

- `HandleMcp`: a request arrives, then `start()` runs (`StartHttp`).
- `ServerAnswer`: the server answers an outstanding call.
- `InitPostDone`, `SseGetDone` and `SsePostDone`: the initialization steps.
- `FetchDone`: `_fetch_tools_http`.
- `ReadBody`: the body arrives, then `send_request`.
- `PostDone`: the request's POST completes.
- `IdleChecker` and `GatewayStop` include `StopHttp`, the HTTP branch of
  `stop()`, which is atomic.

A call completes with the server's answer, or at any time with an exception.
That covers a refused connection and the 10 s or 30 s `ClientTimeout`.

Runs:

- `http_main` (`HttpBackend.cfg`) passes `TypeOK`, `HInv` and
  `HttpRequestsComplete` on both transports. `HInv` is the inductive
  invariant behind `TypeOK`'s bounds (see `HttpBackendProofs.tla` below).
  `HttpRequestsComplete` says every request gets an answer. The fairness is weak fairness on
  each handler step that ends an aiohttp call, which the client timeouts
  justify.
- The constants are 2 clients, 1 request each, 1 tick and idle timeout 0.
  The run explores 364,074 states, both transports together, in 20 seconds. Two requests per
  client do not finish within minutes. One request each already gives two
  concurrent initializations, a hibernation between `start()` and the body,
  and a restart from `_send_http_request`.
- Mutants:
  - the idle checker without its `is_running` test, which breaks `TypeOK`
    and `HInv` because stops then outnumber initializations;
  - a POST without a timeout, which breaks `HttpRequestsComplete`.

Disagreements found (violation runs):

- **`http_serialized` (`AdapterSerialized`): the code diverges from the
  spec.** The spec (section 5) says an adapter has at most one outstanding
  operation. The HTTP path takes no lock, so two handlers initialize the same
  backend at once.
- **`http_sse_url` (`PostsToMessageUrl`): a code bug.** TLC finds this trace:
  1. A hibernated SSE backend is asked for a request.
  2. The re-negotiating GET fails.
  3. `_send_http_request` ignores `start()`'s result (`backend.py:394`) and
     posts to `http_url`, the `/sse` stream URL.

### `MetaGateway.tla`: the search over all backends

This module models `gateway_search_tools` (`Gateway._call_search_tools`).

- The backends are `1..NB`, in registration order.
- What `get_cached_tools()` returns after `start()` is an input. It is a list
  of up to `MaxTools` tools, each one matching the query or not. The code
  reads the cache whatever `start()` returned, so the success of `start()`
  does not matter here.
- `SearchStep` is one iteration of the outer loop:
  - the `await backend.start()`, recorded in `started`;
  - the inner loop, with no await. `Scan` is a recursive function that
    appends each match and tests the limit after every tool;
  - the outer break test.
- `Finished` is the returned result.

The reference definition is declarative. `RefMatches` ranks the matches by
(backend, position) and keeps the first `limit` of them. `RefStarted` is the
backends up to the first one by which `limit` matches exist, and none for a
limit of 0. `SearchResult` states what the code returns for every limit:
the reference result for a limit of 1 or more, and for 0 or less
`ZeroLimitMatches`, the first backend's first tool if it matches, with only
the first backend started.

Runs:

- **`meta_search` (`MetaGateway.cfg`).** It checks `SearchResult`: when
  the call returns, for a limit of 1 or more `matches = RefMatches` and
  `started = RefStarted`, and for 0 or less `matches = ZeroLimitMatches`
  and `started = {1}`. It also checks `SearchInv`, the loop invariant the
  proof of `SearchResult` rests on (see `MetaGatewayProofs.tla` below).
  - The inputs are all tool lists of up to 2 tools on 3 backends, and limits
    -1 to 3: 1,715 inputs and 4,760 states. The tool schema sets no minimum
    and the arguments are not validated, so 0 and negative limits reach the
    code.
  - These bounds give a limit reached in the middle of a backend, at its end,
    and never, and a limit that the code tests only after the first tool.
  - Mutant: the outer break removed. It breaks `SearchResult` and
    `SearchInv`.
- **`meta_limit_zero` (`MetaGateway_LimitZero.cfg`): the code diverges from
  the spec.** It checks `SearchAsSpecified`, the spec's rule, with limit 0.
  The spec (section 9) says 0 returns zero matches without starting any
  backend. The code tests the limit only after starting the first backend
  and scanning a tool (`gateway.py:462`). TLC finds the first backend
  started, and its first tool returned when it matches.

### `EnvExpansion.tla`: environment references in the configuration

This module models `expand_env_vars` (`config.py:19-30`), which the
`expand_env` and `expand_dict_values` validators apply to `command`,
`http_url`, `cwd` and every value of `env` and `headers`. The regex
substitution is modelled by what it does:

- `re.sub` scans from the left. At each `$` it tries the braced alternative
  (`BraceAt`, ending at the first `}`: `CloseAt`), then the bare one (`BareAt`,
  a greedy run of name characters: `IdEnd`).
- `Replace` is `replacer`: the variable's value, or the whole match when it is
  unset.
- `ExpandFrom` continues after the match and never rescans inserted text.

Strings use a six-character alphabet: `$`, the braces, a letter, a digit, and
one character standing for all others. The environment maps two names to
values, one of which itself contains `$A`.

The reference is the spec's rule (section 6), written independently. A string
is built from pieces: plain characters, lone dollars, `${NAME}` and `$NAME`.
`Resolve` replaces each reference of a set variable by its value and keeps
everything else. `Intended` keeps only the readings a reader of the string
would give it, for example a `$NAME` followed by more name characters is not a
reading.

- **`env_expansion` (`EnvExpansion.cfg`).** It checks `ExpansionAsSpecified`
  for every input of up to 4 pieces and every environment: 619,648 states.
  Four pieces are enough for two adjacent references, a reference next to a
  lone `$`, and a `${` with no closing brace.
  - Mutant: `Replace` returns the empty string for an unset variable.

### `ConfigLoad.tla`: loading the backends and building the adapters

This module models the loop of `GatewayConfig.from_dict` over the backends
mapping (`config.py:161-172`) and `BackendConfig.validate_transport`. It then
models `get_enabled_backends` and `Gateway.__init__`. It also models the two
later readings of an entry's transport: `transport_type`/`command_list`, and
`MCPBackend.is_http` with the branch of `start()`.

An entry's fields are abstracted to the cases the tests tell apart:

- `command`: `None`, `""`, blank, or a command line;
- `http_url`: `None`, `""`, a URL, or a URL ending in `/sse`;
- `enabled`.

A non-mapping entry is `Null`.

Actions:

- `LoadEntry`: one iteration of the loop. A `Null` entry is skipped, a valid
  one is added, and an invalid one raises and ends the load (`failed`).
- `Construct`: builds an adapter for each enabled entry.

Runs:

- `LoadAllOrNothing` and the inductive invariant `LoadInv` of the proof below
  are checked in the run `cli_main`, whose module `CliMain` extends
  `ConfigLoad` and runs the loader as the first stage of `main`. Two entries
  give every combination of a skipped, a valid and an invalid entry, in both
  orders.
  - Mutant: an invalid entry is skipped rather than failing the load.
- **`config_transport` (`ConfigLoad_Transport.cfg`, 1 entry): the code
  diverges from the spec.** It checks `ExactlyOneTransport`, the spec's rule
  (sections 3 and 10) that exactly one transport is set and that
  `transport_type` reports the one used. TLC finds it violated.
  `validate_transport` tests `is not None` and rejects only an entry with
  neither field. Two kinds of entry get through:
  - An entry with both fields is reported as `stdio` but spoken to over HTTP.
  - An entry with `command: ""` (an empty environment value) is reported as
    `http`, but is a stdio adapter whose `start()` always fails with "No
    command configured".

### `CliMain.tla`: the process, from loading to exit

`CliMain` extends `ConfigLoad`. Its variables:

- `stage`: where `main` is (`main`, `load`, `serve`, `finally`, `exit`);
- `cfgArg`: `--config` absent, naming a missing file, or naming a file;
- `loop`: the event loop (`idle`, `running`, `stopping`, `closed`);
- `gwRunning`: `Gateway._running`;
- `alive`: the backends whose child process is alive;
- `pc` and `tgt`: the `/mcp/<name>` handlers of the constant set `Clients`,
  and the backend each one names;
- `signalled`, `stopped`, `exc`, `status`: whether a signal arrived, whether
  `Gateway.stop` ran, the exception in flight, and the exit status.

Actions:

- `ReadArgs`: a missing file returns 1; no `--config` serves an empty
  gateway; otherwise `Load` takes `ConfigLoad`'s `LoadEntry` steps.
- `LoadFailed`: the uncaught `ValidationError`, status 1.
- `Serve`: `Construct`, then the gateway runs.
- `HandleMcp`, `ReadBody`: `_handle_mcp`. A stdio `start()` is one step,
  because its pipe I/O blocks the loop (`StartStdio`). It may spawn a child.
  A `send_request` to a stdio backend with no child starts one.
- `ChildGone`: a pass of the idle checker stops a child, or it exits.
- `Signal`: `signal_handler` calls `loop.stop`.
- `RunInterrupted`: `run_until_complete` raises `RuntimeError`, and the
  `finally` clause runs the loop again.
- `FinallyStop`: `Gateway.stop`, which does not yield.
- `Close`: the loop closes. The status is 1 when an exception is in flight,
  and on the signal path one always is.

Python's default `KeyboardInterrupt` is replaced by the handler, so
`except KeyboardInterrupt` never matches. `gateway.run()` is never
cancelled, so `runner.cleanup` never runs. Handlers take steps whenever the
loop runs (`loop \in Active`), including the `finally` clause's run of the
loop, both before and after `Gateway.stop`.

Fairness: weak fairness of `RunInterrupted`, `FinallyStop` and `Close`. These
are the loop's own callbacks: the `stop` task and `run_until_complete`'s done
callback. Clients, children and the idle checker are not assumed to act.

Runs:

- **`cli_main` (`CliMain.cfg`, 2 entries, 2 clients).** It checks:
  - `LoadAllOrNothing` and `LoadInv`;
  - `ShutdownCompletes`: after a signal `main` always reaches its exit,
    whatever the handlers in flight do.

  It reaches 63,515 states. `CHECK_DEADLOCK FALSE`, because the process
  stops at its exit.
  - Mutants: `Gateway.stop` waits for the handlers awaiting a body, and a
    silent client then blocks shutdown.
- **`cli_child_at_exit` (`CliMain_ChildAtExit.cfg`): the code diverges from
  the spec.** It checks `NoChildAtExit`: no child is alive when the process
  exits. The spec (sections 3 and 7) says shutdown stops every adapter and
  sends its child SIGTERM. TLC finds it violated. After `Gateway.stop`, in the
  same run of the loop, a handler takes a request for a stdio backend and
  spawns a child. Nothing stops that child. The same trace ends with exit
  status 1, where the spec's CLI surface says 0 on a clean shutdown.

## What is proved (`StdioBackendProofs.tla`)

`THEOREM TypeCorrect == Spec => []TypeOK` holds for every value of the
constants allowed by `StdioAssumption`: positive `MaxReq` and `MaxStarts`,
natural `MaxTime` and `IdleTimeout`, and the tag `"hs"` not being a client.

`TypeOK` is not inductive on its own, so the proof uses the strengthening
`TypeInv`, which adds:

- `BusyRunning`: a busy handler implies `running`;
- `SpawnBound`: while running with no live child, `restart_count < MaxStarts`,
  so a spawn keeps `process` in range;
- `BusySent`: a busy handler has counted its request, so its id is a valid tag;
- `ProcLatest`: `process` is 0 or the last child, and `exited` and `abandoned`
  are among the spawned children;
- `OneBlocked`: at most one handler is blocked in `select()`, and it is blocked
  on an existing child. This is what lets a timeout add a real incarnation to
  `abandoned`.

TLC checks `IInv`, which contains `TypeInv`, on the run above.

The proof has these parts:

- `InitIInv`: `Init` implies `IInv`.
- One lemma per action, showing that it preserves `TypeInv`.
- Shared lemmas for the pieces the actions are built from: `RespondOK`,
  `GatewayReplyOK`, `WriteRequestOK` and `StartedOK`.
- Two frame lemmas. `BlockedStep` covers a step of the one blocked handler.
  `FreeStep` covers a step of a handler while none is blocked.
- `SpawnOK`, for a spawn.
- `NextTypeInv`, which combines the action lemmas.
- The temporal step, closed with PTL.

The safety invariants themselves are proved in `StdioInvariantProofs.tla`,
described next. The liveness property `RequestsComplete` is only
model-checked: liveness under fairness, and `ENABLED`, are outside what TLAPS
checks here.

## The safety invariants (`StdioInvariantProofs.tla`)

`THEOREM InvariantHolds == Spec => []IInv` is proved for every value of the
constants. Corollaries state the invariants the run `stdio_main` checks:
`RepliesCorrelatedHolds`, `CacheHoldsToolsReplyHolds`, `NoOrphanChildHolds`
and `NoChildAfterShutdownHolds`.

`RepliesCorrelated` is not inductive by itself. A line read from stdout is
the right reply only because of what is still in the pipes. The
strengthening adds:

- `PipeFraming`: while no read of the current child has been given up, the
  child owes at most one line (`Owes(t)`: on its stdin, on its stdout, or
  lost when it exited). That line is the reply the one blocked handler waits
  for. With no handler blocked, both pipes are empty.
- `HandshakeFresh`: a handshake runs on a child nothing was abandoned on. A
  spawn makes a new incarnation, which is never in `abandoned`.
- `ExitedNoInput`: an exited child has no pending input.

With these, each read either returns the owed line, whose id is the one the
handler wrote, or happens after a timeout that put the child in `abandoned`.
That is the escape clause of `RepliesCorrelated`. `CacheHoldsToolsReply`
follows because `_fetch_tools_stdio` reads while `ToolsTag` is owed.
`NoOrphanChild` and `NoChildAfterShutdown` follow from `ProcLatest` and from
the guards that a spawn needs no live child and `stop()` terminates
`self.process`.

The proof is `NextIInv`: `TypeInv` comes from `NextTypeInv`, and the rest of
`IInv` from one lemma per action. They share these lemmas:

- `OwesRespond`, `OwesExit` and `OwesRead`: what the child's steps and a read
  do to `Owes`.
- `QuietRest`, for a step of a handler while none is blocked, and
  `SpawnRest` and `WriteRest` for the spawn and the write it may make.
- `LeaveRest`, for the blocked handler ending its `select()`, and
  `ContinueRest`, for the end of a handshake followed by what `Started` does.
- `StopRest`, shared by the idle checker and `Gateway.stop`.

## The refinement proof (`StdioLifecycleProofs.tla`)

`THEOREM StdioRefinesLifecycle == Spec => Lifecycle!AInit /\
[][Lifecycle!ANext]_Lifecycle!avars` is the safety part of
`ImplementsLifecycle`. It is proved for every value of the constants.

The proof has one lemma per action. Each shows that the step is a lifecycle
step or leaves the mapped state unchanged:

- `HandleMcpStep` and `ReadBodyStep` go through `StartStdioStep`, which gives
  a stutter or a `Spawn`.
- `McpHandshakeInitStep` is an `Initialize`, or a `Handshaken` when the
  handler leaves the handshake.
- `FetchToolsStdioStep` is a `Handshaken`.
- `IdleCheckerStep` and `GatewayStopStep` go through `StopBackendStep`, which
  gives a `Stop` or, with no child, a stutter.
- `ChildExitStep` is a `Crash`.
- The rest are stutters.

The facts it uses come from `TypeInv`:

- `OneBlocked`: when the handshaking handler leaves the handshake, no other
  handler is in it (`PhaseEnds`).
- `ProcLatest`: a spawned child is not already marked exited, so the spawn
  makes `alive` true.

The guards `~Blocked` of `HandleMcp`, `ReadBody` and `IdleChecker`, and
"every handler idle" of `GatewayStop`, put the phase at `"idle"` wherever a
`Spawn` or `Stop` happens. The fairness part, that every handshake ends, is
checked by TLC only.

## The configuration loader (`ConfigLoadProofs.tla`)

`LoadAllOrNothingHolds` proves `Spec => []LoadAllOrNothing` for every number
`NB` of backend entries, from `NBAssumption` (`NB \in Nat`) alone.

`LoadAllOrNothing` is not inductive as it stands, because it says nothing
until the gateway is built. The strengthening `LoadInv` says what the loop
has done so far:

- the loaded configs are exactly the mapping entries before `next`, unchanged;
- unless the load failed, each of those entries has a transport;
- a built gateway has run the whole loop, and its adapters are the enabled
  loaded entries.

`LoadInvHolds` proves it inductive. There is one lemma for `Init`, one for
`LoadEntry` (with one case for each of its three disjuncts), one for
`Construct` and one for a stutter. `LoadAllOrNothing` then follows from
`LoadInv` in one step.

## The HTTP adapter's bounds (`HttpBackendProofs.tla`)

`HttpTypeCorrect` proves `Spec => []TypeOK` for the HTTP adapter, for every
finite set of clients and every `MaxReq`. It assumes only `HttpAssumption`.
The hard part of `TypeOK` is two bounds:

- `inits <= MaxInits = 2 * MaxReq * |Clients|` for the initializations;
- `stops <= MaxInits + 1` for the calls of `stop()`.

Neither is inductive. No lock guards `start()`, so any handler may begin an
initialization whenever `_initialized` is False. The bounds rest on a count
summed over all handlers. `HInv` (in `HttpBackend.tla`, checked by TLC in
`http_main`) states that count:

- `InitsBound`: initializations never outnumber `UsedSlots`, the `start()`
  call sites the requests have passed. Each request has two:
  `_handle_mcp`'s (`"route"`) and `_send_http_request`'s (`"send"`).
  `UsedSlots` is computed from `sent` and `cont`; there is no ghost variable.
  Every initialization is begun at a call site not yet passed, so it uses
  that site up;
- `StopsBound`: `stops + [_initialized] + |Pending| <= inits + [~_running]`.
  `Pending` is the handlers in the middle of an initialization. A stop must
  be paid for by an initialization that has finished and whose
  `_initialized` it clears, or by the final `Gateway.stop`;
- `BusySent` and `BodyRoute`: a busy handler has counted its request, and a
  handler awaiting its body came from `_handle_mcp`. These say which call
  site a `start()` uses.

`HInvHolds` proves `Spec => []HInv` with one lemma per action:

- `QuietStep` covers every handler step that begins no initialization. It
  needs `[_initialized] + [the handler initializes]` not to grow. Ending an
  initialization may set `_initialized` because it leaves `Pending`;
- `HandleMcp` and `send_request`'s `start()` (in `ReadBody`) each use up a
  call site (`UsedRoute`, `UsedSend`), so both sides of `InitsBound` grow;
- the idle checker and `Gateway.stop` add a stop. The first is paid for by
  the `_initialized` it clears, the second by `_running`. No handler is busy
  then, so `Pending` is empty.

The lemmas about cardinalities come from `FiniteSetTheorems`:
`|Slots| = MaxInits` (`FS_Product`), growth by one new element (`CardGrows`),
and the change of `|Pending|` when one handler moves (`PendingStep`).

## The process (`CliMainProofs.tla`)

For every number of entries `NB` and every set of clients:

- `CliRefinesLoad` proves `CliSpec => Spec`. `cli.main` implements
  `ConfigLoad`'s specification of the loader: `Load` is `LoadEntry`, `Serve`
  is `Construct`, and every other step leaves the configuration variables
  unchanged. The refinement mapping is the identity on those variables;
- `CliLoadInvHolds` and `CliLoadAllOrNothingHolds` then carry the loader's
  theorems over to the whole process. These are the invariants `cli_main`
  checks;

## The search (`MetaGatewayProofs.tla`)

This module proves the search correct for every number of backends, every
content of the caches and every limit, from `MetaAssumption` alone
(`Limits \subseteq Int`). Three theorems:

- `MetaTypeCorrect`: `Spec => []TypeOK`.
- `SearchInvHolds`: `Spec => []SearchInv`.
- `SearchCorrect`: `Spec => []SearchResult`. For a limit of 1 or more this
  is the spec's result. For 0 or less it is what the code does instead
  (`gateway.py:462`): the first backend started, and its first tool
  returned if it matches.

How the recursion is handled:

- `Scan`'s inner loop is a recursive function, which the provers see as a
  `CHOOSE`. `ScanExists` builds a solution of its equation one index at a
  time, so the `CHOOSE` picks a fixpoint (`ScanFix`).
- The library's induction theorems take an operator parameter, which the
  provers cannot instantiate. `WFMin` and `NatLessThanWellFounded` take none.
  They give `LeastNat`: every non-empty set of naturals has a least element.
  Each induction is then a least-counterexample argument over a set named
  in the proof.

The argument:

- **Counting.** `Rank` and `Upto` are cardinalities. `RankAt` says a
  matching tool's rank is the matches of the earlier backends, plus those
  of its own backend at earlier positions, plus one. `UptoStep` says
  `Upto` grows by each backend's matches. `RankInjective` says no two
  matches share a rank.
- **The inner loop (`ScanSpec`).** Entered below the limit, with the
  earlier backends' matches in rank order, the scan of backend `b` returns
  a list in rank order of length `min(limit, Upto(b))`.
- **A limit of 0 or less (`ScanZero`, `NonPositiveStepInv`).** The scan
  of the first backend keeps its first tool if it matches and then breaks,
  whatever follows; the outer break then ends the loop.
- **The outer loop (`SearchInv`).** `started` is the backends passed. For a
  limit of 0 or less, the loop has not begun or has ended after the first
  backend (`NonPositiveLimitInv`). For 1 or more (`PositiveLimitInv`), the
  list is in rank order. Every backend passed but the last left
  the count below the limit. While the loop runs, the list holds all
  matches of those backends. Once it has ended, it holds them up to the
  limit, and the loop ended because the limit was reached or the backends
  ran out. `SearchInv` is needed because `SearchResult` says nothing
  until `done` and so is not inductive.
- **Conclusion.** When `done`, injectivity of `Rank` makes each `CHOOSE` of
  `RefMatches` pick the list's entry. `RefStarted`'s `CHOOSE` picks the last
  backend passed, the only one that meets its condition.

## Only model-checked

- **Liveness.** `RequestsComplete`, `HttpRequestsComplete`,
  `ShutdownCompletes` and the fairness
  part of `ImplementsLifecycle` are checked by TLC only. Liveness under
  fairness, and `ENABLED`, are outside what TLAPS checks here.
- **`ExpansionAsSpecified`.** It states what `ExpandFrom` computes over a
  string. `ExpandFrom` is a `RECURSIVE` operator, and tlapm cannot use a
  module that reaches one. `Scan` was written as a recursive function, and
  that is why the search could be proved.

## Not modelled

- **Not modelled:**
  - of the meta facade, everything but the search: `gateway_list_tools` and
    `gateway_invoke` are a `start()` and a cache read, or a `send_request`,
    whose state changes are those of the backend modules. The other tools and
    the dispatch change no state;
  - of the configuration, `from_yaml`'s file reading, `merge_configs` (used
    only by tests), pydantic's checks of the numeric fields and the gateway-level
    settings, all data conversion with no state of their own;
  - of the CLI, `parse_args`, the command-line overrides and `setup_logging`
    (data and output only), and a signal that arrives before the handlers
    are installed;
  - the health endpoint, which is read-only;
  - logging and JSON formatting.
