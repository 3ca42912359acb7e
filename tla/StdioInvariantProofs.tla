------------------------ MODULE StdioInvariantProofs ------------------------
(***************************************************************************)
(* IInv is an inductive invariant of the stdio backend model, so its       *)
(* conjuncts RepliesCorrelated, CacheHoldsToolsReply, NoOrphanChild and    *)
(* NoChildAfterShutdown hold in every reachable state, for every value of  *)
(* the constants.  TypeInv, the part about types, is proved inductive in   *)
(* StdioBackendProofs; this module proves that every step also keeps the   *)
(* rest of IInv.                                                           *)
(***************************************************************************)
EXTENDS StdioBackendProofs

\* IInv without TypeInv.
Rest ==
    /\ HandshakeFresh
    /\ ExitedNoInput
    /\ NoOrphanChild
    /\ NoChildAfterShutdown
    /\ PipeFraming
    /\ RepliesCorrelated
    /\ CacheHoldsToolsReply

-----------------------------------------------------------------------------
(* Lemmas about what the child owes.                                       *)

\* The child moving a line from its stdin to its stdout still owes it.
LEMMA OwesRespond ==
  ASSUME NEW t, Owes(t), childIn # <<>>,
         childOut' = Append(childOut, Head(childIn)), childIn' = Tail(childIn)
  PROVE  Owes(t)'
<1>1. childIn = <<t>> /\ childOut = <<>>
  BY DEF Owes
<1>2. Tail(<<t>>) = <<>> /\ Append(<<>>, Head(<<t>>)) = <<t>>
  OBVIOUS
<1>3. childIn' = <<>> /\ childOut' = <<t>>
  BY <1>1, <1>2
<1>4. QED
  BY <1>3 DEF Owes

\* The child exiting, so that its stdin is dropped, still owes at most t.
LEMMA OwesExit ==
  ASSUME NEW t, Owes(t), childIn' = <<>>, childOut' = childOut
  PROVE  Owes(t)'
  BY DEF Owes

\* A child that owes t and has written a line has written t, and nothing
\* else is left in either pipe once it is read.
LEMMA OwesRead ==
  ASSUME NEW t, Owes(t), childOut # <<>>
  PROVE  /\ childIn = <<>> /\ childOut = <<t>>
         /\ Head(childOut) = t /\ Tail(childOut) = <<>>
<1>1. childIn = <<>> /\ childOut = <<t>>
  BY DEF Owes
<1>2. QED
  BY <1>1

-----------------------------------------------------------------------------
(* The steps of the environment.                                           *)

\* A clock tick changes nothing the invariant is about.
LEMMA TickRest ==
  ASSUME IInv, Tick
  PROVE  Rest'
  BY DEF Tick, IInv, Rest, HandshakeFresh, ExitedNoInput, NoOrphanChild,
         NoChildAfterShutdown, PipeFraming, Owes, Tag, RepliesCorrelated,
         CacheHoldsToolsReply

\* Stuttering, and the stutter after shutdown, keep the invariant.
LEMMA StutterRest ==
  ASSUME IInv, Terminated \/ UNCHANGED vars
  PROVE  Rest'
  BY DEF Terminated, vars, IInv, Rest, HandshakeFresh, ExitedNoInput,
         NoOrphanChild, NoChildAfterShutdown, PipeFraming, Owes, Tag,
         RepliesCorrelated, CacheHoldsToolsReply

\* The child answering the oldest line on its stdin keeps the pipe framed:
\* a line on stdin means some handler waits for it.
LEMMA ChildRespondRest ==
  ASSUME IInv, ChildRespond
  PROVE  Rest'
<1>1. /\ process \notin exited /\ childIn # <<>>
      /\ childOut' = Append(childOut, Head(childIn))
      /\ childIn' = Tail(childIn)
      /\ UNCHANGED <<process, exited, restart_count, tools_cache, running,
                     pc, sent, reply, abandoned>>
  BY DEF ChildRespond, IsRunning
<1>2. /\ HandshakeFresh' /\ ExitedNoInput' /\ NoOrphanChild'
      /\ NoChildAfterShutdown' /\ RepliesCorrelated' /\ CacheHoldsToolsReply'
  BY <1>1 DEF IInv, HandshakeFresh, ExitedNoInput, NoOrphanChild,
     NoChildAfterShutdown, RepliesCorrelated, CacheHoldsToolsReply
<1>3. PipeFraming'
  <2>1. SUFFICES ASSUME process' \notin abandoned'
                 PROVE  /\ (\A c \in Clients : pc'[c] \notin BlockedStates) =>
                               childIn' = <<>> /\ childOut' = <<>>
                        /\ \A c \in Clients : pc'[c] = "hs_init" => Owes(InitTag)'
                        /\ \A c \in Clients : pc'[c] = "hs_tools" => Owes(ToolsTag)'
                        /\ \A c \in Clients : pc'[c] = "read" => Owes(Tag(c))'
    BY DEF PipeFraming
  <2>2. process \notin abandoned
    BY <1>1, <2>1
  <2>3. (\A c \in Clients : pc'[c] \notin BlockedStates) =>
            childIn' = <<>> /\ childOut' = <<>>
    BY <1>1, <2>2 DEF IInv, PipeFraming
  <2>4. \A c \in Clients : pc'[c] = "hs_init" => Owes(InitTag)'
    BY <1>1, <2>2, OwesRespond DEF IInv, PipeFraming
  <2>5. \A c \in Clients : pc'[c] = "hs_tools" => Owes(ToolsTag)'
    BY <1>1, <2>2, OwesRespond DEF IInv, PipeFraming
  <2>6. \A c \in Clients : pc'[c] = "read" => Owes(Tag(c))'
    <3>1. SUFFICES ASSUME NEW c \in Clients, pc'[c] = "read"
                   PROVE  Owes(Tag(c))'
      OBVIOUS
    <3>2. Owes(Tag(c)) /\ Tag(c)' = Tag(c)
      BY <1>1, <2>2, <3>1 DEF IInv, PipeFraming, Tag
    <3>3. QED
      BY <1>1, <3>2, OwesRespond
  <2>7. QED
    BY <2>3, <2>4, <2>5, <2>6
<1>4. QED
  BY <1>2, <1>3 DEF Rest

\* The child exiting drops its stdin; what it owed is still owed or gone.
LEMMA ChildExitRest ==
  ASSUME IInv, ChildExit
  PROVE  Rest'
<1>1. /\ exited' = exited \cup {process} /\ childIn' = <<>>
      /\ UNCHANGED <<process, restart_count, tools_cache, childOut, running,
                     pc, sent, reply, abandoned>>
  BY DEF ChildExit
<1>2. /\ HandshakeFresh' /\ ExitedNoInput' /\ NoOrphanChild'
      /\ NoChildAfterShutdown' /\ RepliesCorrelated' /\ CacheHoldsToolsReply'
  BY <1>1 DEF IInv, HandshakeFresh, ExitedNoInput, NoOrphanChild,
     NoChildAfterShutdown, RepliesCorrelated, CacheHoldsToolsReply
<1>3. PipeFraming'
  <2>1. SUFFICES ASSUME process' \notin abandoned'
                 PROVE  /\ (\A c \in Clients : pc'[c] \notin BlockedStates) =>
                               childIn' = <<>> /\ childOut' = <<>>
                        /\ \A c \in Clients : pc'[c] = "hs_init" => Owes(InitTag)'
                        /\ \A c \in Clients : pc'[c] = "hs_tools" => Owes(ToolsTag)'
                        /\ \A c \in Clients : pc'[c] = "read" => Owes(Tag(c))'
    BY DEF PipeFraming
  <2>2. process \notin abandoned
    BY <1>1, <2>1
  <2>3. (\A c \in Clients : pc'[c] \notin BlockedStates) =>
            childIn' = <<>> /\ childOut' = <<>>
    BY <1>1, <2>2 DEF IInv, PipeFraming
  <2>4. \A c \in Clients : pc'[c] = "hs_init" => Owes(InitTag)'
    BY <1>1, <2>2, OwesExit DEF IInv, PipeFraming
  <2>5. \A c \in Clients : pc'[c] = "hs_tools" => Owes(ToolsTag)'
    BY <1>1, <2>2, OwesExit DEF IInv, PipeFraming
  <2>6. \A c \in Clients : pc'[c] = "read" => Owes(Tag(c))'
    <3>1. SUFFICES ASSUME NEW c \in Clients, pc'[c] = "read"
                   PROVE  Owes(Tag(c))'
      OBVIOUS
    <3>2. Owes(Tag(c)) /\ Tag(c)' = Tag(c)
      BY <1>1, <2>2, <3>1 DEF IInv, PipeFraming, Tag
    <3>3. QED
      BY <1>1, <3>2, OwesExit
  <2>7. QED
    BY <2>3, <2>4, <2>5, <2>6
<1>4. QED
  BY <1>2, <1>3 DEF Rest

(* stop() with no handler blocked, from the idle checker or Gateway.stop:  *)
(* the child, if any, is terminated, so after it no spawned child is alive *)
(* and both pipes are gone.                                                *)
LEMMA StopRest ==
  ASSUME IInv, StopBackend, \A c \in Clients : pc[c] \notin BlockedStates,
         UNCHANGED <<restart_count, tools_cache, pc, sent, reply, abandoned>>
  PROVE  /\ \A i \in 1..restart_count' : i \in exited'
         /\ HandshakeFresh' /\ ExitedNoInput' /\ NoOrphanChild'
         /\ PipeFraming' /\ RepliesCorrelated' /\ CacheHoldsToolsReply'
<1>1. /\ exited' = IF process = 0 THEN exited ELSE exited \cup {process}
      /\ process' = 0 /\ childIn' = <<>> /\ childOut' = <<>>
  BY DEF StopBackend
<1>2. \A i \in 1..restart_count' : i \in exited'
  BY <1>1 DEF IInv, NoOrphanChild
<1>3. 0 \notin exited' /\ 0 \notin abandoned'
  BY <1>1 DEF IInv, TypeInv, ProcLatest
<1>4. /\ HandshakeFresh' /\ ExitedNoInput'
      /\ RepliesCorrelated' /\ CacheHoldsToolsReply'
  BY <1>1, <1>3 DEF IInv, HandshakeFresh, BlockedStates, ExitedNoInput,
     RepliesCorrelated, CacheHoldsToolsReply
<1>5. NoOrphanChild'
  BY <1>2 DEF NoOrphanChild
<1>6. PipeFraming'
  BY <1>1 DEF PipeFraming, BlockedStates
<1>7. QED
  BY <1>2, <1>4, <1>5, <1>6

\* A pass of the idle checker that hibernates the backend keeps the invariant.
LEMMA IdleCheckerRest ==
  ASSUME IInv, IdleChecker
  PROVE  Rest'
<1>1. /\ StopBackend /\ \A c \in Clients : pc[c] \notin BlockedStates
      /\ UNCHANGED <<restart_count, tools_cache, pc, sent, reply, abandoned,
                     running>>
  BY DEF IdleChecker, Blocked, BlockedStates
<1>2. NoChildAfterShutdown'
  BY <1>1, StopRest DEF NoChildAfterShutdown
<1>3. QED
  BY <1>1, <1>2, StopRest DEF Rest

\* Gateway.stop, with every handler idle, leaves no child alive.
LEMMA GatewayStopRest ==
  ASSUME IInv, GatewayStop
  PROVE  Rest'
<1>1. /\ StopBackend /\ \A c \in Clients : pc[c] \notin BlockedStates
      /\ UNCHANGED <<restart_count, tools_cache, pc, sent, reply, abandoned>>
  BY DEF GatewayStop, BlockedStates
<1>2. NoChildAfterShutdown'
  BY <1>1, StopRest DEF NoChildAfterShutdown
<1>3. QED
  BY <1>1, <1>2, StopRest DEF Rest

-----------------------------------------------------------------------------
(* The steps of a handler that is not blocked in select().                 *)

(* A step of handler c, taken while no handler is blocked, that leaves the *)
(* child and its pipes alone and c not blocked, and that either leaves c's *)
(* reply as it is, or answers c itself, or relays a reply carrying the id *)
(* of c's request.                                                         *)
LEMMA QuietRest ==
  ASSUME IInv, NEW c \in Clients,
         \A d \in Clients : pc[d] \notin BlockedStates,
         pc'[c] \in {"idle", "body"},
         \A d \in Clients \ {c} : pc'[d] = pc[d] /\ reply'[d] = reply[d],
         \/ reply'[c] = reply[c]
         \/ reply'[c].src = "gateway"
         \/ reply'[c].tag = reply'[c].req,
         UNCHANGED <<process, exited, restart_count, tools_cache, childIn,
                     childOut, running, abandoned>>
  PROVE  Rest'
<1>1. \A d \in Clients : pc'[d] \notin BlockedStates
  BY DEF BlockedStates
<1>2. /\ HandshakeFresh' /\ ExitedNoInput' /\ NoOrphanChild'
      /\ NoChildAfterShutdown' /\ CacheHoldsToolsReply'
  BY <1>1 DEF IInv, HandshakeFresh, BlockedStates, ExitedNoInput,
     NoOrphanChild, NoChildAfterShutdown, CacheHoldsToolsReply
<1>3. PipeFraming'
  BY <1>1 DEF IInv, PipeFraming, BlockedStates
<1>4. RepliesCorrelated'
  <2>1. SUFFICES ASSUME NEW d \in Clients, reply'[d].src \in {"pipe", "cache"}
                 PROVE  \/ reply'[d].tag = reply'[d].req
                        \/ reply'[d].src = "pipe" /\ reply'[d].inc \in abandoned'
    BY DEF RepliesCorrelated
  <2>2. CASE d = c
    BY <2>1, <2>2 DEF IInv, RepliesCorrelated
  <2>3. CASE d # c
    BY <2>1, <2>3 DEF IInv, RepliesCorrelated
  <2>4. QED
    BY <2>2, <2>3
<1>5. QED
  BY <1>2, <1>3, <1>4 DEF Rest

(* _start_stdio spawning a child for handler c while no handler is blocked *)
(* and none is alive: the new child is not yet abandoned or exited, every  *)
(* older one has exited, and it owes exactly the initialize reply.         *)
LEMMA SpawnRest ==
  ASSUME IInv, NEW c \in Clients,
         \A d \in Clients : pc[d] \notin BlockedStates,
         ~IsRunning, running,
         restart_count' = restart_count + 1, process' = restart_count + 1,
         childIn' = <<InitTag>>, childOut' = <<>>,
         pc'[c] = "hs_init", \A d \in Clients \ {c} : pc'[d] = pc[d],
         UNCHANGED <<exited, tools_cache, reply, running, abandoned>>
  PROVE  Rest'
<1>1. restart_count \in Nat /\ exited \subseteq 1..restart_count
      /\ abandoned \subseteq 1..restart_count
  BY DEF IInv, TypeInv, TypeOK, ProcLatest
<1>2. process' \notin abandoned' /\ process' \notin exited'
  BY <1>1
<1>3. \A i \in 1..restart_count : i \in exited
  BY DEF IInv, NoOrphanChild, IsRunning
<1>4. NoOrphanChild'
  BY <1>1, <1>3 DEF NoOrphanChild
<1>5. /\ HandshakeFresh' /\ ExitedNoInput' /\ NoChildAfterShutdown'
      /\ RepliesCorrelated' /\ CacheHoldsToolsReply'
  BY <1>2 DEF IInv, HandshakeFresh, ExitedNoInput, NoChildAfterShutdown,
     RepliesCorrelated, CacheHoldsToolsReply
<1>6. Owes(InitTag)'
  BY DEF Owes
<1>7. \A d \in Clients \ {c} : pc'[d] \notin BlockedStates
  OBVIOUS
<1>8. PipeFraming'
  BY <1>6, <1>7 DEF PipeFraming, BlockedStates
<1>9. QED
  BY <1>4, <1>5, <1>8 DEF Rest

(* _send_stdio_request writing the request of handler c to a live child   *)
(* while no handler is blocked: the child then owes exactly its reply.    *)
LEMMA WriteRest ==
  ASSUME IInv, NEW c \in Clients,
         \A d \in Clients : pc[d] \notin BlockedStates,
         process \notin exited,
         childIn' = Append(childIn, Tag(c)),
         pc'[c] = "read", \A d \in Clients \ {c} : pc'[d] = pc[d],
         UNCHANGED <<process, exited, restart_count, tools_cache, childOut,
                     running, sent, reply, abandoned>>
  PROVE  Rest'
<1>1. /\ HandshakeFresh' /\ ExitedNoInput' /\ NoOrphanChild'
      /\ NoChildAfterShutdown' /\ RepliesCorrelated' /\ CacheHoldsToolsReply'
  BY DEF IInv, HandshakeFresh, ExitedNoInput, NoOrphanChild,
     NoChildAfterShutdown, RepliesCorrelated, CacheHoldsToolsReply
<1>2. PipeFraming'
  <2>1. SUFFICES ASSUME process' \notin abandoned'
                 PROVE  PipeFraming'
    BY DEF PipeFraming
  <2>2. childIn = <<>> /\ childOut = <<>>
    BY <2>1 DEF IInv, PipeFraming
  <2>3. childIn' = <<Tag(c)>> /\ childOut' = <<>>
    BY <2>2
  <2>4. Tag(c)' = Tag(c)
    BY DEF Tag
  <2>5. Owes(Tag(c))'
    BY <2>3, <2>4 DEF Owes
  <2>6. \A d \in Clients \ {c} : pc'[d] \notin BlockedStates
    OBVIOUS
  <2>7. QED
    BY <2>5, <2>6 DEF PipeFraming, BlockedStates
<1>3. QED
  BY <1>1, <1>2 DEF Rest

\* The shapes of the functions a handler step updates.
LEMMA HandlerTypes ==
  ASSUME IInv
  PROVE  /\ pc \in [Clients -> States]
         /\ reply \in [Clients -> Replies]
         /\ cont \in [Clients -> {"route", "send"}]
         /\ ~IsRunning => process = 0 \/ process \in exited
  BY DEF IInv, TypeInv, TypeOK, IsRunning

(* A start() on behalf of handler c while no handler is blocked: it finds *)
(* the child alive and goes on to read the body, or fails, or spawns a    *)
(* child.  send_request calls it only when the child is not alive.         *)
LEMMA StartRest ==
  ASSUME IInv, NEW c \in Clients, NEW k \in {"route", "send"},
         \A d \in Clients : pc[d] \notin BlockedStates, running,
         StartStdio(c, k),
         UNCHANGED <<exited, tools_cache, running, abandoned>>,
         k = "send" => ~IsRunning
  PROVE  Rest'
<1>1. cont'[c] = k
  BY HandlerTypes DEF StartStdio
<1>2. CASE /\ IsRunning /\ Started(c)
           /\ UNCHANGED <<process, restart_count, initialized, childOut>>
  <2>1. k = "route"
    BY <1>2
  <2>2. pc' = [pc EXCEPT ![c] = "body"] /\ UNCHANGED <<childIn, reply>>
    BY <1>1, <1>2, <2>1 DEF Started
  <2>3. QED
    BY <1>2, <2>2, HandlerTypes, QuietRest
<1>3. CASE /\ ~IsRunning /\ StartFailed(c)
           /\ UNCHANGED <<process, restart_count, initialized, childIn,
                          childOut>>
  <2>1. pc' = [pc EXCEPT ![c] = "idle"] /\ reply'[c].src = "gateway"
        /\ \A d \in Clients \ {c} : reply'[d] = reply[d]
    BY <1>3, HandlerTypes DEF StartFailed, GatewayReply, Respond
  <2>2. QED
    BY <1>3, <2>1, HandlerTypes, QuietRest
<1>4. CASE /\ ~IsRunning
           /\ restart_count' = restart_count + 1
           /\ process' = restart_count + 1
           /\ childIn' = <<InitTag>> /\ childOut' = <<>>
           /\ pc' = [pc EXCEPT ![c] = "hs_init"]
           /\ UNCHANGED reply
  BY <1>4, HandlerTypes, SpawnRest
<1>5. QED
  BY <1>2, <1>3, <1>4 DEF StartStdio

\* A new request arriving at _handle_mcp keeps the invariant.
LEMMA HandleMcpRest ==
  ASSUME IInv, NEW c \in Clients, HandleMcp(c)
  PROVE  Rest'
<1>1. /\ running /\ \A d \in Clients : pc[d] \notin BlockedStates
      /\ StartStdio(c, "route")
      /\ UNCHANGED <<exited, tools_cache, running, abandoned>>
  BY DEF HandleMcp, Blocked, BlockedStates
<1>2. QED
  BY <1>1, StartRest

\* The handler resuming from 'await request.json()' keeps the invariant.
LEMMA ReadBodyRest ==
  ASSUME IInv, NEW c \in Clients, ReadBody(c)
  PROVE  Rest'
<1>1. /\ \A d \in Clients : pc[d] \notin BlockedStates
      /\ running
      /\ UNCHANGED <<exited, tools_cache, now, running, method, sent, abandoned>>
  BY DEF ReadBody, Blocked, BlockedStates, IInv, TypeInv, BusyRunning
<1>2. CASE /\ GatewayReply(c)
           /\ UNCHANGED <<process, restart_count, last_used, initialized,
                          childIn, childOut, cont>>
  <2>1. pc' = [pc EXCEPT ![c] = "idle"] /\ reply'[c].src = "gateway"
        /\ \A d \in Clients \ {c} : reply'[d] = reply[d]
    BY <1>2, HandlerTypes DEF GatewayReply, Respond
  <2>2. QED
    BY <1>1, <1>2, <2>1, HandlerTypes, QuietRest
<1>3. CASE /\ method[c] = "tools/list" /\ tools_cache # NoCache
           /\ last_used' = now /\ ServeCached(c)
           /\ UNCHANGED <<process, restart_count, initialized, childIn,
                          childOut, cont>>
  <2>1. pc' = [pc EXCEPT ![c] = "idle"] /\ reply'[c].tag = reply'[c].req
        /\ \A d \in Clients \ {c} : reply'[d] = reply[d]
    BY <1>3, HandlerTypes DEF ServeCached
  <2>2. QED
    BY <1>1, <1>3, <2>1, HandlerTypes, QuietRest
<1>4. CASE /\ IsRunning /\ last_used' = now /\ WriteRequest(c)
           /\ UNCHANGED <<process, restart_count, initialized, childOut, cont>>
  <2>1. process \notin exited
    BY <1>4 DEF IsRunning
  <2>2. CASE method[c] = "notification" /\ GatewayReply(c)
             /\ UNCHANGED childIn
    <3>1. pc' = [pc EXCEPT ![c] = "idle"] /\ reply'[c].src = "gateway"
          /\ \A d \in Clients \ {c} : reply'[d] = reply[d]
      BY <2>2, HandlerTypes DEF GatewayReply, Respond
    <3>2. QED
      BY <1>1, <1>4, <2>2, <3>1, HandlerTypes, QuietRest
  <2>3. CASE /\ childIn' = Append(childIn, Tag(c))
             /\ pc' = [pc EXCEPT ![c] = "read"]
             /\ UNCHANGED reply
    BY <1>1, <1>4, <2>1, <2>3, HandlerTypes, WriteRest
  <2>4. QED
    BY <1>4, <2>1, <2>2, <2>3 DEF WriteRequest
<1>5. CASE ~IsRunning /\ StartStdio(c, "send")
  BY <1>1, <1>5, StartRest
<1>6. QED
  BY <1>2, <1>3, <1>4, <1>5 DEF ReadBody, SendRequest

-----------------------------------------------------------------------------
(* The steps of the handler blocked in select().                           *)

\* What the gateway's own answer to handler c changes.
LEMMA GatewayReplyShape ==
  ASSUME IInv, NEW c \in Clients, GatewayReply(c)
  PROVE  /\ pc'[c] = "idle" /\ reply'[c].src = "gateway"
         /\ \A d \in Clients \ {c} : pc'[d] = pc[d] /\ reply'[d] = reply[d]
  BY HandlerTypes DEF GatewayReply, Respond

(* The ways a handler goes on once start() has returned True: to read the *)
(* body; or, in send_request, to a write that fails on an exited child,   *)
(* to the immediate answer to a notification, or to the read of a reply. *)
LEMMA StartedShape ==
  ASSUME IInv, NEW c \in Clients, Started(c)
  PROVE  \/ /\ pc'[c] = "body" /\ \A d \in Clients \ {c} : pc'[d] = pc[d]
            /\ UNCHANGED <<childIn, reply>>
         \/ GatewayReply(c) /\ UNCHANGED childIn
         \/ /\ process \notin exited /\ childIn' = Append(childIn, Tag(c))
            /\ pc'[c] = "read" /\ \A d \in Clients \ {c} : pc'[d] = pc[d]
            /\ UNCHANGED reply
  BY HandlerTypes DEF Started, WriteRequest

(* The blocked handler c ends its select() without starting a handshake    *)
(* step: it may give up on the child (abandoned grows), answer its client *)
(* or go on to the body or to a read of its own reply.  If no read of the  *)
(* current child is then abandoned, the child owes c's reply when c reads, *)
(* and nothing otherwise.                                                  *)
LEMMA LeaveRest ==
  ASSUME IInv, NEW c \in Clients, pc[c] \in BlockedStates,
         pc'[c] \in {"idle", "body", "read"},
         \A d \in Clients \ {c} : pc'[d] = pc[d] /\ reply'[d] = reply[d],
         \/ reply'[c] = reply[c]
         \/ reply'[c].src = "gateway"
         \/ reply'[c].tag = reply'[c].req
         \/ reply'[c].src = "pipe" /\ reply'[c].inc \in abandoned',
         abandoned \subseteq abandoned',
         process \in exited => childIn' = <<>>,
         process \notin abandoned' =>
             /\ pc'[c] = "read" => Owes(Tag(c))'
             /\ pc'[c] # "read" => childIn' = <<>> /\ childOut' = <<>>,
         CacheHoldsToolsReply',
         UNCHANGED <<process, exited, restart_count, running, sent>>
  PROVE  Rest'
<1>1. \A d \in Clients \ {c} : pc'[d] \notin BlockedStates
  BY DEF IInv, TypeInv, OneBlocked
<1>2. /\ HandshakeFresh' /\ ExitedNoInput' /\ NoOrphanChild'
      /\ NoChildAfterShutdown'
  BY <1>1 DEF HandshakeFresh, BlockedStates, ExitedNoInput, IInv,
     NoOrphanChild, NoChildAfterShutdown
<1>3. PipeFraming'
  <2>1. SUFFICES ASSUME process' \notin abandoned' PROVE PipeFraming'
    BY DEF PipeFraming
  <2>2. CASE pc'[c] = "read"
    BY <1>1, <2>1, <2>2 DEF PipeFraming, BlockedStates
  <2>3. CASE pc'[c] # "read"
    BY <1>1, <2>1, <2>3 DEF PipeFraming, BlockedStates
  <2>4. QED
    BY <2>2, <2>3
<1>4. RepliesCorrelated'
  <2>1. SUFFICES ASSUME NEW d \in Clients, reply'[d].src \in {"pipe", "cache"}
                 PROVE  \/ reply'[d].tag = reply'[d].req
                        \/ reply'[d].src = "pipe" /\ reply'[d].inc \in abandoned'
    BY DEF RepliesCorrelated
  <2>2. CASE d = c
    BY <2>1, <2>2 DEF IInv, RepliesCorrelated
  <2>3. CASE d # c
    BY <2>1, <2>3 DEF IInv, RepliesCorrelated
  <2>4. QED
    BY <2>2, <2>3
<1>5. QED
  BY <1>2, <1>3, <1>4 DEF Rest

(* A handshake step that ends the handshake (start() returns True) and    *)
(* goes on as Started says, where the child owes nothing more unless the  *)
(* handshake gave up on it.                                                *)
LEMMA ContinueRest ==
  ASSUME IInv, NEW c \in Clients, pc[c] \in {"hs_init", "hs_tools"},
         Started(c),
         UNCHANGED <<process, exited, restart_count, running, sent, cont>>,
         abandoned \subseteq abandoned',
         process \notin abandoned' => childIn = <<>> /\ childOut' = <<>>,
         CacheHoldsToolsReply'
  PROVE  Rest'
<1>1. process \in exited => childIn = <<>>
  BY DEF IInv, ExitedNoInput
<1>2. pc[c] \in BlockedStates
  BY DEF BlockedStates
<1>3. CASE /\ pc'[c] = "body" /\ \A d \in Clients \ {c} : pc'[d] = pc[d]
           /\ UNCHANGED <<childIn, reply>>
  BY <1>1, <1>2, <1>3, LeaveRest
<1>4. CASE GatewayReply(c) /\ UNCHANGED childIn
  BY <1>1, <1>2, <1>4, GatewayReplyShape, LeaveRest
<1>5. CASE /\ process \notin exited /\ childIn' = Append(childIn, Tag(c))
           /\ pc'[c] = "read" /\ \A d \in Clients \ {c} : pc'[d] = pc[d]
           /\ UNCHANGED reply
  <2>1. process \notin abandoned' => Owes(Tag(c))'
    <3>1. SUFFICES ASSUME process \notin abandoned' PROVE Owes(Tag(c))'
      OBVIOUS
    <3>2. childIn' = <<Tag(c)>> /\ childOut' = <<>> /\ Tag(c)' = Tag(c)
      BY <1>5, <3>1 DEF Tag
    <3>3. QED
      BY <3>2 DEF Owes
  <2>2. QED
    BY <1>2, <1>5, <2>1, LeaveRest
<1>6. QED
  BY <1>3, <1>4, <1>5, StartedShape

(* _mcp_handshake_stdio keeps the invariant: a line read is the            *)
(* initialize reply, so the tools/list written next is the only line the  *)
(* child then owes; a timeout gives the child up, and EOF leaves nothing.  *)
LEMMA McpHandshakeInitRest ==
  ASSUME IInv, NEW c \in Clients, McpHandshakeInit(c)
  PROVE  Rest'
<1>1. /\ pc[c] = "hs_init" /\ process \notin abandoned /\ Owes(InitTag)
      /\ UNCHANGED <<process, exited, restart_count, tools_cache, running,
                     cont, sent>>
  BY DEF McpHandshakeInit, IInv, HandshakeFresh, PipeFraming
<1>2. CacheHoldsToolsReply'
  BY <1>1 DEF IInv, CacheHoldsToolsReply
<1>3. CASE /\ childOut # <<>> /\ childOut' = Tail(childOut)
           /\ process \notin exited
           /\ childIn' = Append(childIn, ToolsTag)
           /\ pc' = [pc EXCEPT ![c] = "hs_tools"]
           /\ UNCHANGED <<reply, abandoned>>
  <2>1. childIn = <<>> /\ childOut = <<InitTag>>
    BY <1>1, <1>3, OwesRead
  <2>2. childIn' = <<ToolsTag>> /\ childOut' = <<>>
    BY <1>3, <2>1
  <2>3. Owes(ToolsTag)'
    BY <2>2 DEF Owes
  <2>4. /\ pc'[c] = "hs_tools"
        /\ \A d \in Clients \ {c} : pc'[d] \notin BlockedStates
    <3>1. pc'[c] = "hs_tools" /\ \A d \in Clients \ {c} : pc'[d] = pc[d]
      BY <1>3, HandlerTypes
    <3>2. \A d \in Clients \ {c} : pc[d] \notin BlockedStates
      BY <1>1 DEF IInv, TypeInv, OneBlocked, BlockedStates
    <3>3. QED
      BY <3>1, <3>2
  <2>5. PipeFraming'
    BY <2>3, <2>4 DEF PipeFraming, BlockedStates
  <2>6. /\ HandshakeFresh' /\ ExitedNoInput' /\ NoOrphanChild'
        /\ NoChildAfterShutdown' /\ RepliesCorrelated'
    BY <1>1, <1>3, <2>4 DEF IInv, HandshakeFresh, BlockedStates,
       ExitedNoInput, NoOrphanChild, NoChildAfterShutdown, RepliesCorrelated
  <2>7. QED
    BY <1>2, <2>5, <2>6 DEF Rest
<1>4. CASE /\ childOut # <<>> /\ childOut' = Tail(childOut)
           /\ process \in exited /\ Started(c)
           /\ UNCHANGED abandoned
  <2>1. childIn = <<>> /\ childOut' = <<>>
    BY <1>1, <1>4, OwesRead
  <2>2. QED
    BY <1>1, <1>2, <1>4, <2>1, ContinueRest
<1>5. CASE /\ childOut = <<>> /\ Started(c)
           /\ abandoned' = IF process \in exited THEN abandoned
                           ELSE abandoned \cup {process}
           /\ UNCHANGED childOut
  <2>1. process \notin abandoned' => childIn = <<>> /\ childOut' = <<>>
    BY <1>1, <1>5 DEF IInv, ExitedNoInput
  <2>2. QED
    BY <1>1, <1>2, <1>5, <2>1, ContinueRest
<1>6. QED
  BY <1>3, <1>4, <1>5 DEF McpHandshakeInit

(* _fetch_tools_stdio keeps the invariant: the line it reads, and may     *)
(* cache, is the tools/list reply, and afterwards the child owes nothing *)
(* unless the read was given up.                                          *)
LEMMA FetchToolsStdioRest ==
  ASSUME IInv, NEW c \in Clients, FetchToolsStdio(c)
  PROVE  Rest'
<1>1. /\ pc[c] = "hs_tools" /\ process \notin abandoned /\ Owes(ToolsTag)
      /\ Started(c)
      /\ UNCHANGED <<process, exited, restart_count, running, cont, sent>>
  BY DEF FetchToolsStdio, IInv, HandshakeFresh, PipeFraming
<1>2. CASE /\ childOut # <<>> /\ childOut' = Tail(childOut)
           /\ \E hasResult \in BOOLEAN :
                 tools_cache' = IF hasResult
                                THEN [inc |-> process, tag |-> Head(childOut)]
                                ELSE tools_cache
           /\ UNCHANGED abandoned
  <2>1. childIn = <<>> /\ childOut' = <<>> /\ Head(childOut) = ToolsTag
    BY <1>1, <1>2, OwesRead
  <2>2. CacheHoldsToolsReply'
    BY <1>2, <2>1 DEF IInv, CacheHoldsToolsReply
  <2>3. QED
    BY <1>1, <1>2, <2>1, <2>2, ContinueRest
<1>3. CASE /\ childOut = <<>>
           /\ abandoned' = IF process \in exited THEN abandoned
                           ELSE abandoned \cup {process}
           /\ UNCHANGED <<childOut, tools_cache>>
  <2>1. process \notin abandoned' => childIn = <<>> /\ childOut' = <<>>
    BY <1>1, <1>3 DEF IInv, ExitedNoInput
  <2>2. CacheHoldsToolsReply'
    BY <1>3 DEF IInv, CacheHoldsToolsReply
  <2>3. QED
    BY <1>1, <1>3, <2>1, <2>2, ContinueRest
<1>4. QED
  BY <1>2, <1>3 DEF FetchToolsStdio

(* _send_stdio_request's read keeps the invariant: the line it relays is  *)
(* its own reply unless a read of that child was given up before, and a  *)
(* timeout gives the child up.                                            *)
LEMMA ReadResponseRest ==
  ASSUME IInv, NEW c \in Clients, ReadResponse(c)
  PROVE  Rest'
<1>1. /\ pc[c] = "read" /\ pc[c] \in BlockedStates
      /\ UNCHANGED <<process, exited, restart_count, tools_cache, childIn,
                     running, sent>>
  BY DEF ReadResponse, BlockedStates
<1>2. /\ process \in exited => childIn' = <<>>
      /\ CacheHoldsToolsReply'
  BY <1>1 DEF IInv, ExitedNoInput, CacheHoldsToolsReply
<1>3. CASE /\ childOut # <<>> /\ Respond(c, "pipe", Head(childOut))
           /\ childOut' = Tail(childOut)
           /\ UNCHANGED abandoned
  <2>1. /\ pc'[c] = "idle"
        /\ \A d \in Clients \ {c} : pc'[d] = pc[d] /\ reply'[d] = reply[d]
        /\ reply'[c].src = "pipe" /\ reply'[c].inc = process
        /\ reply'[c].req = Tag(c) /\ reply'[c].tag = Head(childOut)
    BY <1>1, <1>3, HandlerTypes DEF Respond, Tag
  <2>2. CASE process \in abandoned
    BY <1>1, <1>2, <1>3, <2>1, <2>2, LeaveRest
  <2>3. CASE process \notin abandoned
    <3>1. Owes(Tag(c))
      BY <1>1, <2>3 DEF IInv, PipeFraming
    <3>2. childIn = <<>> /\ childOut = <<Tag(c)>> /\ Head(childOut) = Tag(c)
      BY <1>3, <3>1, OwesRead
    <3>3. childIn' = <<>> /\ childOut' = <<>>
      BY <1>1, <1>3, <3>2
    <3>4. QED
      BY <1>1, <1>2, <1>3, <2>1, <3>2, <3>3, LeaveRest
  <2>4. QED
    BY <2>2, <2>3
<1>4. CASE /\ childOut = <<>> /\ GatewayReply(c)
           /\ abandoned' = IF process \in exited THEN abandoned
                           ELSE abandoned \cup {process}
           /\ UNCHANGED childOut
  <2>1. process \notin abandoned' => childIn' = <<>> /\ childOut' = <<>>
    BY <1>1, <1>4 DEF IInv, ExitedNoInput
  <2>2. QED
    BY <1>1, <1>2, <1>4, <2>1, GatewayReplyShape, LeaveRest
<1>5. QED
  BY <1>3, <1>4 DEF ReadResponse

-----------------------------------------------------------------------------
(* The invariant.                                                          *)

\* Every step of the model keeps the part of IInv beyond TypeInv.
LEMMA NextRest ==
  ASSUME IInv, [Next]_vars
  PROVE  Rest'
<1>1. CASE \E c \in Clients : HandleMcp(c)
  BY <1>1, HandleMcpRest
<1>2. CASE \E c \in Clients : McpHandshakeInit(c)
  BY <1>2, McpHandshakeInitRest
<1>3. CASE \E c \in Clients : FetchToolsStdio(c)
  BY <1>3, FetchToolsStdioRest
<1>4. CASE \E c \in Clients : ReadBody(c)
  BY <1>4, ReadBodyRest
<1>5. CASE \E c \in Clients : ReadResponse(c)
  BY <1>5, ReadResponseRest
<1>6. CASE IdleChecker
  BY <1>6, IdleCheckerRest
<1>7. CASE GatewayStop
  BY <1>7, GatewayStopRest
<1>8. CASE Tick
  BY <1>8, TickRest
<1>9. CASE ChildRespond
  BY <1>9, ChildRespondRest
<1>10. CASE ChildExit
  BY <1>10, ChildExitRest
<1>11. CASE Terminated \/ UNCHANGED vars
  BY <1>11, StutterRest
<1>12. QED
  BY <1>1, <1>2, <1>3, <1>4, <1>5, <1>6, <1>7, <1>8, <1>9, <1>10, <1>11
  DEF Next

\* IInv is inductive.
LEMMA NextIInv == IInv /\ [Next]_vars => IInv'
<1> SUFFICES ASSUME IInv, [Next]_vars PROVE IInv'
  OBVIOUS
<1>1. TypeInv'
  BY NextTypeInv DEF IInv
<1>2. Rest'
  BY NextRest
<1>3. QED
  BY <1>1, <1>2 DEF IInv, Rest

\* IInv holds in every reachable state of the stdio backend.
THEOREM InvariantHolds == Spec => []IInv
<1>1. Init => IInv
  BY InitIInv
<1>2. QED
  BY <1>1, NextIInv, PTL DEF Spec

(* Reply correlation, for every number of clients, requests and spawns: a *)
(* reply that _send_stdio_request relays from the child's stdout, or that *)
(* send_request serves from _tools_cache, carries its request's id unless *)
(* an earlier select() on that same child timed out while it was alive.    *)
THEOREM RepliesCorrelatedHolds == Spec => []RepliesCorrelated
  BY InvariantHolds, PTL DEF IInv

(* The tools cache that _fetch_tools_stdio fills only ever holds the       *)
(* reply to the handshake's own tools/list, whatever the number of spawns. *)
THEOREM CacheHoldsToolsReplyHolds == Spec => []CacheHoldsToolsReply
  BY InvariantHolds, PTL DEF IInv

(* _start_stdio never orphans a child: every child it spawned that is     *)
(* still alive is the one self.process refers to, so stop() can always    *)
(* terminate it.                                                          *)
THEOREM NoOrphanChildHolds == Spec => []NoOrphanChild
  BY InvariantHolds, PTL DEF IInv

(* After Gateway.stop no child spawned by the gateway is alive.            *)
THEOREM NoChildAfterShutdownHolds == Spec => []NoChildAfterShutdown
  BY InvariantHolds, PTL DEF IInv
=============================================================================
