---------------------------- MODULE StdioBackend ----------------------------
(***************************************************************************)
(* One stdio MCP backend (MCPBackend in backend.py with config.command     *)
(* set), the child process behind it, the HTTP handlers of /mcp/<name>     *)
(* that call it (Gateway._handle_mcp) and the gateway's idle checker and   *)
(* shutdown (Gateway._idle_checker, Gateway.stop).                         *)
(*                                                                         *)
(* The gateway runs on one asyncio event loop.  A stdio request does its   *)
(* pipe I/O with blocking select/readline, so from the moment a handler    *)
(* writes to the child until its select returns the whole loop is blocked: *)
(* no other handler, and not the idle checker, takes a step.  The child is *)
(* a separate OS process and keeps running meanwhile.  The only suspension *)
(* point of a handler is 'await request.json()' between backend.start()   *)
(* and backend.send_request().                                             *)
(*                                                                         *)
(* The data is abstracted to what the properties tell apart: a JSON-RPC    *)
(* message is its tag (who sent it and which of its requests it is); a     *)
(* child process is its incarnation number, restart_count at its spawn;    *)
(* the tools cache is the incarnation whose tools/list reply it holds.     *)
(***************************************************************************)
EXTENDS Naturals, Sequences

CONSTANTS
    Clients,      \* the concurrent HTTP requests to /mcp/<name>
    MaxReq,       \* requests each client sends
    MaxStarts,    \* bound on spawns: crashes and hibernations stop here
    MaxTime,      \* bound on the clock, in idle-checker ticks
    IdleTimeout   \* config.idle_timeout, in the same unit

ASSUME StdioAssumption ==
    /\ MaxReq \in Nat \ {0}
    /\ MaxStarts \in Nat \ {0}
    /\ MaxTime \in Nat
    /\ IdleTimeout \in Nat
    /\ "hs" \notin Clients

VARIABLES
    process,        \* self.process: 0 is None, i the i-th spawned child
    exited,         \* children whose poll() is not None
    restart_count,  \* self.restart_count
    initialized,    \* self._initialized
    tools_cache,    \* self._tools_cache: the line cached and its child
    last_used,      \* self.last_used
    now,            \* time.time()
    childIn,        \* lines on the child's stdin it has still to answer
    childOut,       \* lines on the child's stdout not read yet
    running,        \* Gateway._running
    pc,             \* where each client's handler is
    cont,           \* what a handler does when start() returns
    method,         \* the method of each client's current request
    sent,           \* how many requests each client has sent
    reply,          \* the reply its current request got
    abandoned       \* history: children on which a read gave up while
                    \* the child was still alive to answer it

vars == <<process, exited, restart_count, initialized, tools_cache,
          last_used, now, childIn, childOut, running, pc, cont, method,
          sent, reply, abandoned>>

-----------------------------------------------------------------------------
Methods == {"tools/list", "tools/call", "notification"}

\* The two requests of the handshake carry ids 0 and 1, every client
\* request its own id.
InitTag  == <<"hs", 0>>
ToolsTag == <<"hs", 1>>
Tags == {InitTag, ToolsTag} \cup (Clients \X (1..MaxReq))
Tag(c) == <<c, sent[c]>>

Incarnations == 1..MaxStarts

\* A reply: where it came from, the request it answers, the id it carries
\* and the child that was current when it was made.
NoReply == [src |-> "none", req |-> InitTag, tag |-> InitTag, inc |-> 0]
Replies == [src : {"none", "pipe", "cache", "gateway"},
            req : Tags, tag : Tags, inc : 0..MaxStarts]

\* _tools_cache: None, or the tools/list line read from child inc.
NoCache == [inc |-> 0, tag |-> InitTag]
Caches == [inc : 0..MaxStarts, tag : Tags]

\* is_running for a stdio backend: process is not None and poll() is None.
IsRunning == process # 0 /\ process \notin exited

\* The event loop is blocked in a select() of some handler.
Blocked == \E c \in Clients : pc[c] \in {"hs_init", "hs_tools", "read"}

\* A handler answers its client and is done.
Respond(c, src, tag) ==
    /\ reply' = [reply EXCEPT ![c] = [src |-> src, req |-> <<c, sent'[c]>>,
                                      tag |-> tag, inc |-> process]]
    /\ pc' = [pc EXCEPT ![c] = "idle"]

\* A reply the gateway makes itself, with the id of the request it serves.
GatewayReply(c) == Respond(c, "gateway", <<c, sent'[c]>>)

-----------------------------------------------------------------------------
(* _send_stdio_request after start: write the request line to stdin.  A    *)
(* write to a child that has exited raises BrokenPipeError, answered as a  *)
(* -32000 error; a notification is answered at once without a read.        *)
WriteRequest(c) ==
    \/ /\ process \in exited
       /\ GatewayReply(c)
       /\ UNCHANGED childIn
    \/ /\ process \notin exited
       /\ method[c] = "notification"
       /\ GatewayReply(c)
       /\ UNCHANGED childIn
    \/ /\ process \notin exited
       /\ method[c] # "notification"
       /\ childIn' = Append(childIn, Tag(c))
       /\ pc' = [pc EXCEPT ![c] = "read"]
       /\ UNCHANGED reply

\* Where a handler goes when start() returned True: _handle_mcp awaits the
\* body, _send_stdio_request writes at once.
Started(c) ==
    IF cont'[c] = "route"
    THEN /\ pc' = [pc EXCEPT ![c] = "body"]
         /\ UNCHANGED <<childIn, reply>>
    ELSE WriteRequest(c)

\* start() returned False: 503 from _handle_mcp, "Backend unavailable" from
\* _send_stdio_request.
StartFailed(c) == GatewayReply(c)

\* send_request sets last_used before it calls start(); _handle_mcp does not.
Touched(k) == IF k = "send" THEN now ELSE last_used

\* Mutant of StartStdio: the "process alive" early return is missing, so a
\* new child is spawned over a live one.
StartStdio_NoAliveCheck(c, k) ==
    /\ cont' = [cont EXCEPT ![c] = k]
    /\ \/ /\ StartFailed(c)
          /\ last_used' = Touched(k)
          /\ UNCHANGED <<process, restart_count, initialized, childIn,
                         childOut>>
       \/ /\ restart_count' = restart_count + 1
          /\ process' = restart_count + 1
          /\ last_used' = now
          /\ initialized' = FALSE
          /\ childIn' = <<InitTag>>
          /\ childOut' = <<>>
          /\ pc' = [pc EXCEPT ![c] = "hs_init"]
          /\ UNCHANGED reply

(* _start_stdio: under the lock, return True if the child is alive; else   *)
(* Popen a new child (restart_count += 1, last_used = now, _initialized =   *)
(* False) and write the initialize request of _mcp_handshake_stdio, or     *)
(* return False if Popen raises.  The new child has fresh pipes.           *)
StartStdio(c, k) ==
    /\ cont' = [cont EXCEPT ![c] = k]
    /\ \/ /\ IsRunning
          /\ Started(c)
          /\ last_used' = Touched(k)
          /\ UNCHANGED <<process, restart_count, initialized, childOut>>
       \/ /\ ~IsRunning
          /\ StartFailed(c)
          /\ last_used' = Touched(k)
          /\ UNCHANGED <<process, restart_count, initialized, childIn,
                         childOut>>
       \/ /\ ~IsRunning
          /\ restart_count' = restart_count + 1
          /\ process' = restart_count + 1
          /\ last_used' = now
          /\ initialized' = FALSE
          /\ childIn' = <<InitTag>>
          /\ childOut' = <<>>
          /\ pc' = [pc EXCEPT ![c] = "hs_init"]
          /\ UNCHANGED reply

-----------------------------------------------------------------------------
(* Gateway._handle_mcp for a known backend: a new request arrives, and the *)
(* handler calls backend.start() before reading the body.                  *)
HandleMcp(c) ==
    /\ running
    /\ ~Blocked
    /\ pc[c] = "idle"
    /\ sent[c] < MaxReq
    /\ \E m \in Methods : method' = [method EXCEPT ![c] = m]
    /\ sent' = [sent EXCEPT ![c] = @ + 1]
    /\ StartStdio(c, "route")
    /\ UNCHANGED <<exited, tools_cache, now, running, abandoned>>

\* Mutant of McpHandshakeInit: the initialize reply is taken as read
\* without readline(), so it stays on the pipe.
McpHandshakeInit_NoReadline(c) ==
    /\ pc[c] = "hs_init"
    /\ UNCHANGED <<process, exited, restart_count, tools_cache, last_used,
                   now, running, cont, method, sent>>
    /\ \/ /\ childOut # <<>>
          /\ initialized' = TRUE
          /\ UNCHANGED childOut
          /\ \/ /\ process \notin exited
                /\ childIn' = Append(childIn, ToolsTag)
                /\ pc' = [pc EXCEPT ![c] = "hs_tools"]
                /\ UNCHANGED reply
             \/ /\ process \in exited
                /\ Started(c)
          /\ UNCHANGED abandoned
       \/ /\ childOut = <<>>
          /\ Started(c)
          /\ abandoned' = IF process \in exited THEN abandoned
                          ELSE abandoned \cup {process}
          /\ UNCHANGED <<childOut, initialized>>

(* _mcp_handshake_stdio: select() on stdout for 5 s.  A line read marks    *)
(* the backend initialized and writes tools/list (_fetch_tools_stdio); a   *)
(* write to an exited child raises and is swallowed.  A timeout, or EOF    *)
(* from an exited child, ends the handshake uninitialized.  start()        *)
(* returns True either way.                                                *)
McpHandshakeInit(c) ==
    /\ pc[c] = "hs_init"
    /\ UNCHANGED <<process, exited, restart_count, tools_cache, last_used,
                   now, running, cont, method, sent>>
    /\ \/ /\ childOut # <<>>
          /\ childOut' = Tail(childOut)
          /\ initialized' = TRUE
          /\ \/ /\ process \notin exited
                /\ childIn' = Append(childIn, ToolsTag)
                /\ pc' = [pc EXCEPT ![c] = "hs_tools"]
                /\ UNCHANGED reply
             \/ /\ process \in exited
                /\ Started(c)
          /\ UNCHANGED abandoned
       \/ /\ childOut = <<>>
          /\ Started(c)
          /\ abandoned' = IF process \in exited THEN abandoned
                          ELSE abandoned \cup {process}
          /\ UNCHANGED <<childOut, initialized>>

(* _fetch_tools_stdio: select() for 5 s, read one line and cache it iff   *)
(* it has a "result" (the child decides which).                            *)
FetchToolsStdio(c) ==
    /\ pc[c] = "hs_tools"
    /\ UNCHANGED <<process, exited, restart_count, initialized, last_used,
                   now, running, cont, method, sent>>
    /\ \/ /\ childOut # <<>>
          /\ childOut' = Tail(childOut)
          /\ \E hasResult \in BOOLEAN :
                tools_cache' = IF hasResult
                               THEN [inc |-> process, tag |-> Head(childOut)]
                               ELSE tools_cache
          /\ UNCHANGED abandoned
       \/ /\ childOut = <<>>
          /\ abandoned' = IF process \in exited THEN abandoned
                          ELSE abandoned \cup {process}
          /\ UNCHANGED <<childOut, tools_cache>>
    /\ Started(c)

\* Mutant of ServeCached: the cached reply keeps the id it was read with.
ServeCached_KeepsCachedId(c) ==
    /\ reply' = [reply EXCEPT ![c] = [src |-> "cache", req |-> Tag(c),
                                      tag |-> tools_cache.tag,
                                      inc |-> tools_cache.inc]]
    /\ pc' = [pc EXCEPT ![c] = "idle"]

(* send_request's short cut: a copy of the cached tools/list reply with   *)
(* "id" overwritten by the request's id; the child is not asked.  The      *)
(* reply still records which child the cached line came from.             *)
ServeCached(c) ==
    /\ reply' = [reply EXCEPT ![c] = [src |-> "cache", req |-> Tag(c),
                                      tag |-> Tag(c), inc |-> tools_cache.inc]]
    /\ pc' = [pc EXCEPT ![c] = "idle"]

(* MCPBackend.send_request: last_used = now; a tools/list with a cache is *)
(* answered from the cache; else _send_stdio_request starts the child if  *)
(* it is not running and writes the request.                               *)
SendRequest(c) ==
    \/ /\ method[c] = "tools/list"
       /\ tools_cache # NoCache
       /\ last_used' = now
       /\ ServeCached(c)
       /\ UNCHANGED <<process, restart_count, initialized, childIn,
                      childOut, cont>>
    \/ /\ ~(method[c] = "tools/list" /\ tools_cache # NoCache)
       /\ IsRunning
       /\ last_used' = now
       /\ WriteRequest(c)
       /\ UNCHANGED <<process, restart_count, initialized, childOut, cont>>
    \/ /\ ~(method[c] = "tools/list" /\ tools_cache # NoCache)
       /\ ~IsRunning
       /\ StartStdio(c, "send")

(* The handler resumes from 'await request.json()': a body that is not    *)
(* JSON gets -32700, any other is passed to send_request.                  *)
ReadBody(c) ==
    /\ ~Blocked
    /\ pc[c] = "body"
    /\ UNCHANGED <<exited, tools_cache, now, running, method, sent, abandoned>>
    /\ \/ /\ GatewayReply(c)
          /\ UNCHANGED <<process, restart_count, last_used, initialized,
                         childIn, childOut, cont>>
       \/ SendRequest(c)

\* Mutant of ReadResponse: readline() without select(), so only a line or
\* EOF ends the wait.
ReadResponse_NoTimeout(c) ==
    /\ pc[c] = "read"
    /\ UNCHANGED <<process, exited, restart_count, initialized, tools_cache,
                   last_used, now, childIn, running, cont, method, sent>>
    /\ \/ /\ childOut # <<>>
          /\ Respond(c, "pipe", Head(childOut))
          /\ childOut' = Tail(childOut)
          /\ UNCHANGED abandoned
       \/ /\ childOut = <<>>
          /\ process \in exited
          /\ GatewayReply(c)
          /\ UNCHANGED <<childOut, abandoned>>

(* _send_stdio_request after the write: select() on stdout for 30 s and    *)
(* return whatever line comes first; on timeout, or EOF from an exited     *)
(* child, answer -32000 "Timeout waiting for response".                    *)
ReadResponse(c) ==
    /\ pc[c] = "read"
    /\ UNCHANGED <<process, exited, restart_count, initialized, tools_cache,
                   last_used, now, childIn, running, cont, method, sent>>
    /\ \/ /\ childOut # <<>>
          /\ Respond(c, "pipe", Head(childOut))
          /\ childOut' = Tail(childOut)
          /\ UNCHANGED abandoned
       \/ /\ childOut = <<>>
          /\ GatewayReply(c)
          /\ abandoned' = IF process \in exited THEN abandoned
                          ELSE abandoned \cup {process}
          /\ UNCHANGED childOut

-----------------------------------------------------------------------------
\* Mutant of StopBackend: 'if self.process:' is missing, so stop() also
\* "terminates" a backend that has no child.
StopBackend_NoProcessCheck ==
    /\ exited' = exited \cup {process}
    /\ process' = 0
    /\ initialized' = FALSE
    /\ childIn' = <<>>
    /\ childOut' = <<>>

(* MCPBackend.stop for stdio: terminate the child, wait (kill after 5 s),  *)
(* process = None, _initialized = False.  _tools_cache is left as it is.   *)
StopBackend ==
    /\ exited' = IF process = 0 THEN exited ELSE exited \cup {process}
    /\ process' = 0
    /\ initialized' = IF process = 0 THEN initialized ELSE FALSE
    /\ childIn' = <<>>
    /\ childOut' = <<>>

(* One pass of Gateway._idle_checker: hibernate the backend if it is       *)
(* running and idle for more than idle_timeout.                            *)
IdleChecker ==
    /\ running
    /\ ~Blocked
    /\ IsRunning
    /\ now - last_used > IdleTimeout
    /\ restart_count < MaxStarts
    /\ StopBackend
    /\ UNCHANGED <<restart_count, tools_cache, last_used, now, running, pc,
                   cont, method, sent, reply, abandoned>>

\* Mutant of GatewayStop: the loop over the backends is skipped.
GatewayStop_NoBackendStop ==
    /\ running
    /\ \A c \in Clients : pc[c] = "idle"
    /\ running' = FALSE
    /\ UNCHANGED <<process, exited, initialized, childIn, childOut,
                   restart_count, tools_cache, last_used, now, pc, cont,
                   method, sent, reply, abandoned>>

(* Gateway.stop, run by the app's on_cleanup once the server has finished  *)
(* its handlers: _running = False and every backend stopped.               *)
GatewayStop ==
    /\ running
    /\ \A c \in Clients : pc[c] = "idle"
    /\ running' = FALSE
    /\ StopBackend
    /\ UNCHANGED <<restart_count, tools_cache, last_used, now, pc, cont,
                   method, sent, reply, abandoned>>

\* The clock advances.
Tick ==
    /\ now < MaxTime
    /\ now' = now + 1
    /\ UNCHANGED <<process, exited, restart_count, initialized, tools_cache,
                   last_used, childIn, childOut, running, pc, cont, method,
                   sent, reply, abandoned>>

\* The child answers the oldest line on its stdin.
ChildRespond ==
    /\ IsRunning
    /\ childIn # <<>>
    /\ childOut' = Append(childOut, Head(childIn))
    /\ childIn' = Tail(childIn)
    /\ UNCHANGED <<process, exited, restart_count, initialized, tools_cache,
                   last_used, now, running, pc, cont, method, sent, reply,
                   abandoned>>

\* The child exits on its own; what it wrote stays readable, then EOF.
ChildExit ==
    /\ IsRunning
    /\ restart_count < MaxStarts
    /\ exited' = exited \cup {process}
    /\ childIn' = <<>>
    /\ UNCHANGED <<process, restart_count, initialized, tools_cache,
                   last_used, now, childOut, running, pc, cont, method, sent,
                   reply, abandoned>>

\* After Gateway.stop the process exits: nothing more happens.
Terminated ==
    /\ ~running
    /\ UNCHANGED vars

-----------------------------------------------------------------------------
Init ==
    /\ process = 0
    /\ exited = {}
    /\ restart_count = 0
    /\ initialized = FALSE
    /\ tools_cache = NoCache
    /\ last_used = 0
    /\ now = 0
    /\ childIn = <<>>
    /\ childOut = <<>>
    /\ running = TRUE
    /\ pc = [c \in Clients |-> "idle"]
    /\ cont = [c \in Clients |-> "route"]
    /\ method = [c \in Clients |-> "tools/call"]
    /\ sent = [c \in Clients |-> 0]
    /\ reply = [c \in Clients |-> NoReply]
    /\ abandoned = {}

Next ==
    \/ \E c \in Clients :
          \/ HandleMcp(c)
          \/ McpHandshakeInit(c)
          \/ FetchToolsStdio(c)
          \/ ReadBody(c)
          \/ ReadResponse(c)
    \/ IdleChecker
    \/ GatewayStop
    \/ Tick
    \/ ChildRespond
    \/ ChildExit
    \/ Terminated

(* The event loop runs every handler that can run: each select() returns   *)
(* within its timeout and request bodies arrive.  The idle checker wakes   *)
(* every 60 s.  Clients, the clock and the child are not assumed to act.   *)
Fairness ==
    /\ \A c \in Clients :
          /\ WF_vars(McpHandshakeInit(c))
          /\ WF_vars(FetchToolsStdio(c))
          /\ WF_vars(ReadBody(c))
          /\ WF_vars(ReadResponse(c))

Spec == Init /\ [][Next]_vars /\ Fairness


-----------------------------------------------------------------------------
(***************************************************************************)
(* Properties.                                                             *)
(***************************************************************************)
States == {"idle", "hs_init", "hs_tools", "body", "read"}

\* Every variable holds a value of its type.
TypeOK ==
    /\ process \in 0..MaxStarts
    /\ exited \subseteq Incarnations
    /\ restart_count \in 0..MaxStarts
    /\ initialized \in BOOLEAN
    /\ tools_cache \in Caches
    /\ last_used \in 0..MaxTime
    /\ now \in 0..MaxTime
    /\ childIn \in Seq(Tags)
    /\ childOut \in Seq(Tags)
    /\ running \in BOOLEAN
    /\ pc \in [Clients -> States]
    /\ cont \in [Clients -> {"route", "send"}]
    /\ method \in [Clients -> Methods]
    /\ sent \in [Clients -> 0..MaxReq]
    /\ reply \in [Clients -> Replies]
    /\ abandoned \subseteq Incarnations

(* Reply correlation.  Every reply relayed from the backend (read from the *)
(* child's stdout by _send_stdio_request, or served from _tools_cache by   *)
(* send_request) carries the id of the request it answers, unless an      *)
(* earlier select() on the same child gave up while that child was still  *)
(* alive to answer: only a timeout can put a stale line in front of a      *)
(* request's own reply.                                                    *)
RepliesCorrelated ==
    \A c \in Clients :
        reply[c].src \in {"pipe", "cache"} =>
            \/ reply[c].tag = reply[c].req
            \/ reply[c].src = "pipe" /\ reply[c].inc \in abandoned

(* The tools cache only ever holds a reply to the handshake's tools/list:  *)
(* _fetch_tools_stdio caches any line with a "result", and an initialize   *)
(* reply has one, so this rests on the handshake reading its initialize   *)
(* reply before it writes tools/list.                                      *)
CacheHoldsToolsReply ==
    tools_cache # NoCache => tools_cache.tag = ToolsTag

(* No orphaned child: every child spawned by _start_stdio that is still    *)
(* alive is the one self.process refers to, so the gateway never loses     *)
(* track of a process it would have to terminate ("one subprocess per      *)
(* enabled stdio backend at most").                                        *)
NoOrphanChild ==
    \A i \in 1..restart_count : i \notin exited => i = process

(* Once the gateway has stopped no child it spawned is alive.              *)
NoChildAfterShutdown ==
    ~running => \A i \in 1..restart_count : i \in exited

(* Every request to /mcp/<name> is eventually answered: each select() is   *)
(* bounded, so no handler waits forever on a silent or dead child.         *)
RequestsComplete ==
    \A c \in Clients : (pc[c] # "idle") ~> (pc[c] = "idle")

(* The spec (section 8): every response's id equals the request's id.      *)
(* Checked to fail: a reply the child sends after its select() timed out   *)
(* is read by the next request.                                            *)
ResponseIdMatches ==
    \A c \in Clients : reply[c].src \in {"pipe", "cache"} =>
                           reply[c].tag = reply[c].req

(* The spec (sections 3 and 9): the tools cache is cleared only by stop() *)
(* and stop() discards it, so a restarted backend refreshes its view.      *)
(* Checked to fail: a tools/list served from the cache comes from the      *)
(* child self.process refers to, not from one stopped before it.          *)
CachedToolsCurrent ==
    [][\A c \in Clients :
         (reply'[c] # reply[c] /\ reply'[c].src = "cache")
            => reply'[c].inc = process]_vars


-----------------------------------------------------------------------------
(***************************************************************************)
(* The inductive invariant behind RepliesCorrelated, CacheHoldsToolsReply, *)
(* NoOrphanChild and TypeOK, proved in StdioBackendProofs.                  *)
(***************************************************************************)
BlockedStates == {"hs_init", "hs_tools", "read"}

\* The child owes at most the one line t: still on its stdin, already on
\* its stdout, or nothing (it exited before answering).
Owes(t) ==
    \/ childIn = <<t>> /\ childOut = <<>>
    \/ childIn = <<>> /\ childOut = <<t>>
    \/ childIn = <<>> /\ childOut = <<>>

(* Pipe framing: as long as no read on the current child has been given    *)
(* up, the child owes exactly the reply the blocked handler waits for, and *)
(* nothing when no handler is blocked.                                     *)
PipeFraming ==
    process \notin abandoned =>
        /\ (\A c \in Clients : pc[c] \notin BlockedStates) =>
               childIn = <<>> /\ childOut = <<>>
        /\ \A c \in Clients : pc[c] = "hs_init" => Owes(InitTag)
        /\ \A c \in Clients : pc[c] = "hs_tools" => Owes(ToolsTag)
        /\ \A c \in Clients : pc[c] = "read" => Owes(Tag(c))

(* The strengthening of the checked invariants that every step preserves. *)
\* A handler is busy only while the gateway runs ...
BusyRunning == (\E c \in Clients : pc[c] # "idle") => running
\* ... and then a spawn stays within MaxStarts.
SpawnBound == running /\ ~IsRunning => restart_count < MaxStarts
\* A busy handler serves a request it has counted.
BusySent == \A c \in Clients : pc[c] # "idle" => sent[c] >= 1
\* self.process is None or the last child spawned.
ProcLatest ==
    /\ process \in {0, restart_count}
    /\ exited \subseteq 1..restart_count
    /\ abandoned \subseteq 1..restart_count
\* One handler at most is blocked in select(), on a child that exists.
OneBlocked ==
    /\ \A c, d \in Clients :
           pc[c] \in BlockedStates /\ pc[d] \in BlockedStates => c = d
    /\ \A c \in Clients : pc[c] \in BlockedStates => process # 0
\* The handshake runs on a child no read was abandoned on.
HandshakeFresh ==
    \A c \in Clients :
        pc[c] \in {"hs_init", "hs_tools"} => process \notin abandoned
\* An exited child reads no more input.
ExitedNoInput == process \in exited => childIn = <<>>

\* The part of IInv that TypeOK needs.
TypeInv ==
    TypeOK /\ BusyRunning /\ SpawnBound /\ BusySent /\ ProcLatest /\ OneBlocked

IInv ==
    /\ TypeInv
    /\ HandshakeFresh
    /\ ExitedNoInput
    /\ NoOrphanChild
    /\ NoChildAfterShutdown
    /\ PipeFraming
    /\ RepliesCorrelated
    /\ CacheHoldsToolsReply

-----------------------------------------------------------------------------
(* The adapter's lifecycle as AdapterLifecycle states it: a child is alive  *)
(* when is_running holds, and a handshake is under way while a handler is  *)
(* in _mcp_handshake_stdio or _fetch_tools_stdio.                           *)
HandshakePhase ==
    IF \E c \in Clients : pc[c] \in {"hs_init", "hs_tools"}
    THEN "handshake" ELSE "idle"

Lifecycle == INSTANCE AdapterLifecycle
                 WITH alive <- IsRunning, phase <- HandshakePhase,
                      restarts <- restart_count

(* The stdio adapter implements the lifecycle: _start_stdio spawns only    *)
(* when no child is alive and no handshake runs, counting the spawn in     *)
(* restart_count; only the handshake sets _initialized; stop(), from the   *)
(* idle checker or Gateway.stop, never cuts into a handshake; and every    *)
(* handshake ends.                                                         *)
ImplementsLifecycle == Lifecycle!Spec

=============================================================================
