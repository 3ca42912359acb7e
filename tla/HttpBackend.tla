----------------------------- MODULE HttpBackend -----------------------------
(***************************************************************************)
(* One HTTP backend (MCPBackend with config.http_url set): streamable HTTP *)
(* when the URL does not end in /sse, SSE when it does.  The handlers of   *)
(* /mcp/<name> that call it, the idle checker and gateway shutdown.        *)
(*                                                                         *)
(* Unlike the stdio transport, every exchange with the server is an        *)
(* aiohttp call the handler awaits, and no HTTP path takes _lock: any      *)
(* number of handlers can be in the middle of start() or of a POST, and    *)
(* stop() (the idle checker, Gateway.stop) can run between any two of      *)
(* their steps.  A handler's state is read when it issues a request (the   *)
(* headers and URL it sends) and written when the answer comes back.       *)
(*                                                                         *)
(* A session id or an SSE message URL is the number of the initialization  *)
(* that obtained it; 0 is None.  The server's answers are chosen freely.   *)
(***************************************************************************)
EXTENDS Naturals, FiniteSets

CONSTANTS
    Clients,      \* the concurrent HTTP requests to /mcp/<name>
    MaxReq,       \* requests each client sends
    MaxTime,      \* bound on the clock, in idle-checker ticks
    IdleTimeout   \* config.idle_timeout, in the same unit

ASSUME HttpAssumption ==
    /\ MaxReq \in Nat \ {0}
    /\ MaxTime \in Nat
    /\ IdleTimeout \in Nat
    /\ IsFiniteSet(Clients)

\* Each request calls start() at most twice (in _handle_mcp and in
\* _send_http_request), so this bounds the initializations.
MaxInits == 2 * MaxReq * Cardinality(Clients)
Ids == 1..MaxInits

VARIABLES
    sse,          \* config.http_url ends with "/sse" (fixed by the config)
    initialized,  \* self._initialized
    session,      \* self._http_session_id: 0 or the init that issued it
    msg_url,      \* self._sse_message_url: 0 or the GET that announced it
    tools_cache,  \* self._tools_cache is not None
    last_used,    \* self.last_used
    now,          \* time.time()
    running,      \* Gateway._running
    pc,           \* where each handler is
    cont,         \* what a handler does when start() returns
    method,       \* the method of each handler's current request
    sent,         \* how many requests each client has sent
    init,         \* the initialization a handler is running
    url,          \* the URL of the handler's request in flight (0: http_url)
    ses,          \* the session header of that request (0: none)
    answered,     \* the server has answered that request
    reply,        \* the reply the handler's last request got
    inits,        \* initializations started so far
    stops         \* history: stop() calls so far

vars == <<sse, initialized, session, msg_url, tools_cache, last_used, now,
          running, pc, cont, method, sent, init, url, ses, answered, reply,
          inits, stops>>

-----------------------------------------------------------------------------
Methods == {"tools/list", "tools/call"}

\* A reply: who made it, and the URL and session header of the POST that
\* produced it.
NoReply == [src |-> "none", url |-> 0, ses |-> 0]
Replies == [src : {"none", "gateway", "cache", "backend"},
            url : 0..MaxInits, ses : 0..MaxInits]

\* The await points of a handler: a request to the server is in flight.
InFlight == {"init_post", "sse_get", "sse_post", "fetch", "post"}

\* A handler issues a request to the server: its URL and session header
\* are fixed now, its answer comes later.
Issue(c, st, u, s) ==
    /\ pc' = [pc EXCEPT ![c] = st]
    /\ url' = [url EXCEPT ![c] = u]
    /\ ses' = [ses EXCEPT ![c] = s]
    /\ answered' = [answered EXCEPT ![c] = FALSE]

\* The handler answers its client and is done.
Respond(c, src) ==
    /\ reply' = [reply EXCEPT ![c] = [src |-> src, url |-> url[c],
                                      ses |-> ses[c]]]
    /\ pc' = [pc EXCEPT ![c] = "idle"]
    /\ UNCHANGED <<url, ses, answered>>

(* _send_http_request after start(): headers carry _http_session_id if set *)
(* and the POST goes to _sse_message_url or else to http_url.               *)
IssuePost(c) == Issue(c, "post", msg_url, session)

\* start() returned True: _handle_mcp awaits the body, _send_http_request
\* posts at once.
Started(c) ==
    IF cont'[c] = "route"
    THEN /\ pc' = [pc EXCEPT ![c] = "body"]
         /\ UNCHANGED <<url, ses, answered, reply>>
    ELSE /\ IssuePost(c) /\ UNCHANGED reply

\* start() returned False: 503 from _handle_mcp; _send_http_request does
\* not look at the result and posts anyway.
StartFailed(c) ==
    IF cont'[c] = "route"
    THEN Respond(c, "gateway")
    ELSE /\ IssuePost(c) /\ UNCHANGED reply

(* start() for HTTP: True at once if _initialized, else _init_http_session: *)
(* a GET of the SSE stream, or a POST of initialize to http_url.            *)
StartHttp(c) ==
    IF initialized
    THEN /\ Started(c)
         /\ UNCHANGED <<init, inits>>
    ELSE /\ inits' = inits + 1
         /\ init' = [init EXCEPT ![c] = inits + 1]
         /\ Issue(c, IF sse THEN "sse_get" ELSE "init_post", 0, 0)
         /\ UNCHANGED reply

-----------------------------------------------------------------------------
(* Gateway._handle_mcp for a known backend: a request arrives and the      *)
(* handler calls backend.start() before reading the body.                  *)
HandleMcp(c) ==
    /\ running
    /\ pc[c] = "idle"
    /\ sent[c] < MaxReq
    /\ \E m \in Methods : method' = [method EXCEPT ![c] = m]
    /\ sent' = [sent EXCEPT ![c] = @ + 1]
    /\ cont' = [cont EXCEPT ![c] = "route"]
    /\ UNCHANGED <<sse, initialized, session, msg_url, tools_cache, last_used,
                   now, running, stops>>
    /\ StartHttp(c)

\* The server answers a request in flight (or never does).
ServerAnswer(c) ==
    /\ pc[c] \in InFlight
    /\ ~answered[c]
    /\ answered' = [answered EXCEPT ![c] = TRUE]
    /\ UNCHANGED <<sse, initialized, session, msg_url, tools_cache, last_used,
                   now, running, pc, cont, method, sent, init, url, ses, reply,
                   inits, stops>>

(* _init_streamable_http after its POST of initialize: a 200 stores the    *)
(* mcp-session-id header if there is one and fetches tools/list; any other *)
(* status, and any exception (the 10 s timeout included), still sets      *)
(* _initialized and returns True.                                          *)
InitPostDone(c) ==
    /\ pc[c] = "init_post"
    /\ UNCHANGED <<sse, msg_url, last_used, now, running, cont, method, sent,
                   init, inits, stops>>
    /\ \/ /\ answered[c]
          /\ \E hdr \in BOOLEAN : session' = IF hdr THEN init[c] ELSE session
          /\ Issue(c, "fetch", msg_url, session')
          /\ UNCHANGED <<initialized, tools_cache, reply>>
       \/ /\ initialized' = TRUE
          /\ Started(c)
          /\ UNCHANGED <<session, tools_cache>>

(* _fetch_tools_http after its POST of tools/list: a 200 with a "result"   *)
(* is cached; anything else, an exception included, is swallowed.  Then   *)
(* the initialization it belongs to sets _initialized and returns True.    *)
FetchDone(c) ==
    /\ pc[c] = "fetch"
    /\ UNCHANGED <<sse, session, msg_url, last_used, now, running, cont,
                   method, sent, init, inits, stops>>
    /\ \/ answered[c] /\ tools_cache' = TRUE
       \/ UNCHANGED tools_cache
    /\ initialized' = TRUE
    /\ Started(c)

(* _init_sse_session after its GET: on a 200 the stream is read up to the  *)
(* first endpoint event, which sets _sse_message_url.  If no endpoint came *)
(* but an earlier URL is still set, the check 'if not                      *)
(* self._sse_message_url' passes and that URL is used.  Then initialize is *)
(* POSTed to it.  A non-200, a missing URL or an exception returns False.  *)
SseGetDone(c) ==
    /\ pc[c] = "sse_get"
    /\ UNCHANGED <<sse, initialized, session, tools_cache, last_used, now,
                   running, cont, method, sent, init, inits, stops>>
    /\ \/ /\ answered[c]
          /\ msg_url' = init[c]
          /\ Issue(c, "sse_post", init[c], 0)
          /\ UNCHANGED reply
       \/ /\ answered[c]
          /\ msg_url # 0
          /\ Issue(c, "sse_post", msg_url, 0)
          /\ UNCHANGED <<msg_url, reply>>
       \/ /\ StartFailed(c)
          /\ UNCHANGED msg_url

(* _init_sse_session after its POST of initialize: a 200 fetches the tools *)
(* (to _sse_message_url, or http_url if it is gone by now) and then sets   *)
(* _initialized; anything else returns False.                              *)
SsePostDone(c) ==
    /\ pc[c] = "sse_post"
    /\ UNCHANGED <<sse, initialized, session, msg_url, tools_cache, last_used,
                   now, running, cont, method, sent, init, inits, stops>>
    /\ \/ /\ answered[c]
          /\ Issue(c, "fetch", msg_url, session)
          /\ UNCHANGED reply
       \/ StartFailed(c)

\* Mutant of PostDone: the POST has no ClientTimeout, so only an answer
\* of the server ends the wait.
PostDone_NoTimeout(c) ==
    /\ pc[c] = "post"
    /\ UNCHANGED <<sse, initialized, msg_url, tools_cache, last_used, now,
                   running, cont, method, sent, init, inits, stops>>
    /\ answered[c]
    /\ \/ /\ \E hdr \in BOOLEAN :
                session' = IF hdr /\ ses[c] # 0 THEN ses[c] ELSE session
          /\ Respond(c, "backend")
       \/ /\ Respond(c, "gateway")
          /\ UNCHANGED session

(* _send_http_request after its POST: an mcp-session-id header on the      *)
(* answer is stored (the server echoes the session the request carried);  *)
(* the body, JSON or one SSE event, is the reply.  An exception, the 30 s  *)
(* timeout included, becomes a -32000 reply.                               *)
PostDone(c) ==
    /\ pc[c] = "post"
    /\ UNCHANGED <<sse, initialized, msg_url, tools_cache, last_used, now,
                   running, cont, method, sent, init, inits, stops>>
    /\ \/ /\ answered[c]
          /\ \E hdr \in BOOLEAN :
                session' = IF hdr /\ ses[c] # 0 THEN ses[c] ELSE session
          /\ Respond(c, "backend")
       \/ /\ Respond(c, "gateway")
          /\ UNCHANGED session

\* send_request's short cut: the cached tools/list with the request's id.
ServeCached(c) ==
    /\ reply' = [reply EXCEPT ![c] = [src |-> "cache", url |-> 0, ses |-> 0]]
    /\ pc' = [pc EXCEPT ![c] = "idle"]
    /\ UNCHANGED <<url, ses, answered>>

(* MCPBackend.send_request: last_used = now; a tools/list with a cache is  *)
(* answered from it; else _send_http_request calls start() if              *)
(* _initialized is False and posts whatever start() returned.              *)
SendRequest(c) ==
    \/ /\ method[c] = "tools/list" /\ tools_cache
       /\ ServeCached(c)
       /\ UNCHANGED <<initialized, cont, init, inits>>
    \/ /\ ~(method[c] = "tools/list" /\ tools_cache)
       /\ ~initialized
       /\ cont' = [cont EXCEPT ![c] = "send"]
       /\ StartHttp(c)
       /\ UNCHANGED initialized
    \/ /\ ~(method[c] = "tools/list" /\ tools_cache)
       /\ initialized
       /\ IssuePost(c)
       /\ UNCHANGED <<reply, initialized, cont, init, inits>>

(* The handler resumes from 'await request.json()': a body that is not    *)
(* JSON gets -32700, any other goes to send_request.                       *)
ReadBody(c) ==
    /\ pc[c] = "body"
    /\ UNCHANGED <<sse, session, msg_url, tools_cache, now, running, method,
                   sent, stops>>
    /\ \/ /\ Respond(c, "gateway")
          /\ UNCHANGED <<initialized, last_used, cont, init, inits>>
       \/ /\ last_used' = now
          /\ SendRequest(c)

-----------------------------------------------------------------------------
(* MCPBackend.stop for HTTP: no lock, no await; _initialized, the session *)
(* id and the message URL are cleared.  _tools_cache is left as it is.     *)
StopHttp ==
    /\ initialized' = FALSE
    /\ session' = 0
    /\ msg_url' = 0
    /\ stops' = stops + 1

\* Mutant of IdleChecker: the 'if backend.is_running' test is dropped, so
\* every pass stops the backend.
IdleChecker_NoRunningCheck ==
    /\ running
    /\ now - last_used > IdleTimeout
    /\ StopHttp
    /\ UNCHANGED <<sse, tools_cache, last_used, now, running, pc, cont, method,
                   sent, init, url, ses, answered, reply, inits>>

\* One pass of Gateway._idle_checker over this backend.
IdleChecker ==
    /\ running
    /\ initialized
    /\ now - last_used > IdleTimeout
    /\ StopHttp
    /\ UNCHANGED <<sse, tools_cache, last_used, now, running, pc, cont, method,
                   sent, init, url, ses, answered, reply, inits>>

\* Gateway.stop, once the server has finished its handlers.
GatewayStop ==
    /\ running
    /\ \A c \in Clients : pc[c] = "idle"
    /\ running' = FALSE
    /\ StopHttp
    /\ UNCHANGED <<sse, tools_cache, last_used, now, pc, cont, method, sent,
                   init, url, ses, answered, reply, inits>>

\* The clock advances.
Tick ==
    /\ now < MaxTime
    /\ now' = now + 1
    /\ UNCHANGED <<sse, initialized, session, msg_url, tools_cache, last_used,
                   running, pc, cont, method, sent, init, url, ses, answered,
                   reply, inits, stops>>

\* After Gateway.stop the process exits: nothing more happens.
Terminated ==
    /\ ~running
    /\ UNCHANGED vars

-----------------------------------------------------------------------------
Init ==
    /\ sse \in BOOLEAN
    /\ initialized = FALSE
    /\ session = 0
    /\ msg_url = 0
    /\ tools_cache = FALSE
    /\ last_used = 0
    /\ now = 0
    /\ running = TRUE
    /\ pc = [c \in Clients |-> "idle"]
    /\ cont = [c \in Clients |-> "route"]
    /\ method = [c \in Clients |-> "tools/call"]
    /\ sent = [c \in Clients |-> 0]
    /\ init = [c \in Clients |-> 0]
    /\ url = [c \in Clients |-> 0]
    /\ ses = [c \in Clients |-> 0]
    /\ answered = [c \in Clients |-> FALSE]
    /\ reply = [c \in Clients |-> NoReply]
    /\ inits = 0
    /\ stops = 0

Next ==
    \/ \E c \in Clients :
          \/ HandleMcp(c)
          \/ ServerAnswer(c)
          \/ InitPostDone(c)
          \/ FetchDone(c)
          \/ SseGetDone(c)
          \/ SsePostDone(c)
          \/ PostDone(c)
          \/ ReadBody(c)
    \/ IdleChecker
    \/ GatewayStop
    \/ Tick
    \/ Terminated

(* Every aiohttp call has a ClientTimeout (10 s, 30 s), so each await of a *)
(* handler ends; request bodies arrive.  The server, the clients, the      *)
(* clock and the idle checker are not assumed to act.                      *)
Fairness ==
    \A c \in Clients :
        /\ WF_vars(InitPostDone(c))
        /\ WF_vars(FetchDone(c))
        /\ WF_vars(SseGetDone(c))
        /\ WF_vars(SsePostDone(c))
        /\ WF_vars(PostDone(c))
        /\ WF_vars(ReadBody(c))

Spec == Init /\ [][Next]_vars /\ Fairness

-----------------------------------------------------------------------------
(***************************************************************************)
(* Properties.                                                             *)
(***************************************************************************)
States == {"idle", "body"} \cup InFlight

\* Every variable holds a value of its type.
TypeOK ==
    /\ initialized \in BOOLEAN
    /\ session \in 0..MaxInits
    /\ msg_url \in 0..MaxInits
    /\ tools_cache \in BOOLEAN
    /\ last_used \in 0..MaxTime
    /\ now \in 0..MaxTime
    /\ running \in BOOLEAN
    /\ pc \in [Clients -> States]
    /\ cont \in [Clients -> {"route", "send"}]
    /\ method \in [Clients -> Methods]
    /\ sent \in [Clients -> 0..MaxReq]
    /\ init \in [Clients -> 0..MaxInits]
    /\ url \in [Clients -> 0..MaxInits]
    /\ ses \in [Clients -> 0..MaxInits]
    /\ answered \in [Clients -> BOOLEAN]
    /\ reply \in [Clients -> Replies]
    /\ inits \in 0..MaxInits
    /\ stops \in 0..MaxInits + 1

\* 1 for TRUE, 0 for FALSE.
Ind(b) == IF b THEN 1 ELSE 0

(* The places where a request can call start(): <<<<client, request        *)
(* number>>, call site>>, the call in _handle_mcp ("route") and the one in  *)
(* _send_http_request ("send"); there are MaxInits of them.  UsedSlots are *)
(* the ones a handler has already passed.                                  *)
Slots == (Clients \X (1..MaxReq)) \X {"route", "send"}
UsedSlots ==
    {x \in Slots : LET c == x[1][1]  k == x[1][2]
                   IN  k < sent[c] \/ (k = sent[c] /\ (x[2] = "route"
                                                      \/ cont[c] = "send"))}

\* The handlers in the middle of an initialization.
InitStates == {"init_post", "sse_get", "sse_post", "fetch"}
Pending == {c \in Clients : pc[c] \in InitStates}

\* A handler at work has counted its request, and one awaiting its body
\* came from _handle_mcp.
BusySent == \A c \in Clients : pc[c] # "idle" => sent[c] >= 1
BodyRoute == \A c \in Clients : pc[c] = "body" => cont[c] = "route"

\* Each start() call site of a request begins at most one initialization.
InitsBound == inits <= Cardinality(UsedSlots)

(* Every stop() clears an _initialized that an initialization set, except *)
(* Gateway.stop, which runs once: the stops, the current _initialized and  *)
(* the initializations still running are at most the initializations      *)
(* begun, plus one once the gateway has stopped.                           *)
StopsBound ==
    stops + Ind(initialized) + Cardinality(Pending) <= inits + Ind(~running)

\* The inductive invariant behind TypeOK's bounds on inits and stops.
HInv == TypeOK /\ BusySent /\ BodyRoute /\ InitsBound /\ StopsBound

(* Every request to /mcp/<name> is eventually answered: every aiohttp call *)
(* has a timeout, so no handler waits forever on a silent server.          *)
HttpRequestsComplete ==
    \A c \in Clients : (pc[c] # "idle") ~> (pc[c] = "idle")

(* The spec (section 5): each adapter's mutex serializes start, stop and  *)
(* send, so two requests to one backend never have transport I/O in       *)
(* flight at once.  Checked to fail: the HTTP paths take no lock.          *)
AdapterSerialized ==
    \A c, d \in Clients : c # d => ~(pc[c] \in InFlight /\ pc[d] \in InFlight)

(* The spec (section 4.4): after the SSE negotiation, requests are POSTed  *)
(* to the announced message URL.  Checked to fail: a request is POSTed to  *)
(* http_url, the SSE stream's own URL.                                     *)
PostsToMessageUrl ==
    sse => \A c \in Clients : pc[c] = "post" => url[c] # 0

=============================================================================
