------------------------ MODULE StdioLifecycleProofs ------------------------
(***************************************************************************)
(* The stdio adapter of StdioBackend implements the safety part of the    *)
(* lifecycle of AdapterLifecycle, under the refinement mapping of         *)
(* StdioBackend!Lifecycle: every step of the gateway, its handlers, the   *)
(* idle checker and the child is a step of the lifecycle or leaves it     *)
(* unchanged.  The proof rests on the type invariant TypeInv proved in    *)
(* StdioBackendProofs.                                                    *)
(***************************************************************************)
EXTENDS StdioBackendProofs

\* The handler states of _mcp_handshake_stdio and _fetch_tools_stdio.
HS == {"hs_init", "hs_tools"}

\* The lifecycle's view of a step, and of the absence of one.
LStep == Lifecycle!ANext
LSame == UNCHANGED Lifecycle!avars

(* A handler that moves between two states outside the handshake leaves  *)
(* the lifecycle's phase as it was.                                        *)
LEMMA PhaseKept ==
  ASSUME NEW c \in Clients, pc \in [Clients -> States], pc[c] \notin HS,
         NEW s \in States \ HS, pc' = [pc EXCEPT ![c] = s]
  PROVE  HandshakePhase' = HandshakePhase
  BY DEF HandshakePhase, HS

(* The one handler in the handshake leaving it ends the handshake phase:  *)
(* no other handler can be in it, since only one is ever blocked.         *)
LEMMA PhaseEnds ==
  ASSUME OneBlocked, NEW c \in Clients, pc \in [Clients -> States],
         pc[c] \in HS, NEW s \in States \ HS, pc' = [pc EXCEPT ![c] = s]
  PROVE  HandshakePhase = "handshake" /\ HandshakePhase' = "idle"
  BY DEF OneBlocked, BlockedStates, HandshakePhase, HS

(* Started(c) moves handler c to awaiting the body, to reading the reply, *)
(* or to idle with an answer.                                             *)
LEMMA StartedPc ==
  ASSUME NEW c \in Clients, Started(c)
  PROVE  \E s \in States \ HS : pc' = [pc EXCEPT ![c] = s]
  BY DEF Started, WriteRequest, GatewayReply, Respond, States, HS

(* A handler that makes the gateway reply itself leaves it idle.           *)
LEMMA ReplyPc ==
  ASSUME NEW c \in Clients, GatewayReply(c)
  PROVE  \E s \in States \ HS : pc' = [pc EXCEPT ![c] = s]
  BY DEF GatewayReply, Respond, States, HS

(* A spawn by _start_stdio is the lifecycle's Spawn: no child is alive and *)
(* no handshake runs, since no handler is blocked; the new child is not   *)
(* among the exited ones, which are all older.                            *)
LEMMA SpawnStep ==
  ASSUME TypeInv, ~Blocked, NEW c \in Clients, ~IsRunning,
         restart_count' = restart_count + 1,
         process' = restart_count + 1,
         initialized' = FALSE,
         pc' = [pc EXCEPT ![c] = "hs_init"],
         exited' = exited
  PROVE  Lifecycle!Spawn
<1>1. HandshakePhase = "idle"
  BY DEF Blocked, HandshakePhase
<1>2. HandshakePhase' = "handshake"
  BY DEF TypeInv, TypeOK, HandshakePhase
<1>3. IsRunning'
  BY DEF TypeInv, TypeOK, ProcLatest, IsRunning
<1>4. QED
  BY <1>1, <1>2, <1>3 DEF Lifecycle!Spawn

(* The body of StartStdio, entered with no handler blocked from an idle   *)
(* or body-awaiting handler: a stutter of the lifecycle or a Spawn.       *)
LEMMA StartStdioStep ==
  ASSUME TypeInv, ~Blocked, NEW c \in Clients, pc[c] \in {"idle", "body"},
         NEW k \in {"route", "send"}, StartStdio(c, k),
         UNCHANGED exited
  PROVE  LStep \/ LSame
<1>1. CASE IsRunning /\ Started(c)
           /\ UNCHANGED <<process, restart_count, initialized>>
  <2>1. HandshakePhase' = HandshakePhase
    BY <1>1, StartedPc, PhaseKept DEF TypeInv, TypeOK, HS
  <2>2. QED
    BY <1>1, <2>1 DEF LSame, Lifecycle!avars, IsRunning
<1>2. CASE ~IsRunning /\ StartFailed(c)
           /\ UNCHANGED <<process, restart_count, initialized>>
  <2>1. HandshakePhase' = HandshakePhase
    BY <1>2, ReplyPc, PhaseKept DEF StartFailed, TypeInv, TypeOK, HS
  <2>2. QED
    BY <1>2, <2>1 DEF LSame, Lifecycle!avars, IsRunning
<1>3. CASE /\ ~IsRunning
           /\ restart_count' = restart_count + 1
           /\ process' = restart_count + 1
           /\ initialized' = FALSE
           /\ pc' = [pc EXCEPT ![c] = "hs_init"]
  BY <1>3, SpawnStep DEF LStep, Lifecycle!ANext
<1>4. QED
  BY <1>1, <1>2, <1>3 DEF StartStdio

(* A request arriving at _handle_mcp runs start(): a stutter or a Spawn.   *)
LEMMA HandleMcpStep ==
  ASSUME TypeInv, NEW c \in Clients, HandleMcp(c)
  PROVE  LStep \/ LSame
  BY StartStdioStep DEF HandleMcp

(* The handler resuming with its body: a gateway reply, the cached reply or *)
(* a write leaves the lifecycle alone; a start() from                     *)
(* _send_stdio_request stutters or spawns.                                *)
LEMMA ReadBodyStep ==
  ASSUME TypeInv, NEW c \in Clients, ReadBody(c)
  PROVE  LStep \/ LSame
<1>1. CASE GatewayReply(c)
           /\ UNCHANGED <<process, restart_count, initialized>>
  <2>1. HandshakePhase' = HandshakePhase
    BY <1>1, ReplyPc, PhaseKept DEF ReadBody, TypeInv, TypeOK, HS
  <2>2. QED
    BY <1>1, <2>1 DEF ReadBody, LSame, Lifecycle!avars, IsRunning
<1>2. CASE SendRequest(c)
  <2>1. CASE ServeCached(c) /\ UNCHANGED <<process, restart_count, initialized>>
    <3>1. HandshakePhase' = HandshakePhase
      BY <2>1, PhaseKept DEF ReadBody, ServeCached, TypeInv, TypeOK, HS, States
    <3>2. QED
      BY <2>1, <3>1 DEF ReadBody, LSame, Lifecycle!avars, IsRunning
  <2>2. CASE WriteRequest(c) /\ UNCHANGED <<process, restart_count, initialized>>
    <3>1. HandshakePhase' = HandshakePhase
      BY <2>2, PhaseKept
      DEF ReadBody, WriteRequest, GatewayReply, Respond, TypeInv, TypeOK, HS, States
    <3>2. QED
      BY <2>2, <3>1 DEF ReadBody, LSame, Lifecycle!avars, IsRunning
  <2>3. CASE ~IsRunning /\ StartStdio(c, "send")
    BY <2>3, StartStdioStep DEF ReadBody
  <2>4. QED
    BY <1>2, <2>1, <2>2, <2>3 DEF SendRequest
<1>3. QED
  BY <1>1, <1>2 DEF ReadBody

(* The 5 s select on the initialize reply: a line read while the child    *)
(* lives is Initialize; otherwise the handshake ends, initialized or not. *)
LEMMA McpHandshakeInitStep ==
  ASSUME TypeInv, NEW c \in Clients, McpHandshakeInit(c)
  PROVE  LStep \/ LSame
<1>1. pc[c] \in HS /\ pc \in [Clients -> States]
  BY DEF McpHandshakeInit, HS, TypeInv, TypeOK
<1>2. CASE childOut # <<>> /\ process \notin exited
           /\ pc' = [pc EXCEPT ![c] = "hs_tools"]
  <2>1. HandshakePhase = "handshake" /\ HandshakePhase' = "handshake"
    BY <1>1, <1>2 DEF HandshakePhase, HS
  <2>2. Lifecycle!Initialize
    BY <1>2, <2>1 DEF McpHandshakeInit, Lifecycle!Initialize, IsRunning
  <2>3. QED
    BY <2>2 DEF LStep, Lifecycle!ANext
<1>3. CASE Started(c) /\ initialized' \in {initialized, TRUE}
  <2>1. HandshakePhase = "handshake" /\ HandshakePhase' = "idle"
    BY <1>1, <1>3, StartedPc, PhaseEnds DEF TypeInv
  <2>2. Lifecycle!Handshaken
    BY <1>3, <2>1 DEF McpHandshakeInit, Lifecycle!Handshaken, IsRunning
  <2>3. QED
    BY <2>2 DEF LStep, Lifecycle!ANext
<1>4. QED
  BY <1>2, <1>3 DEF McpHandshakeInit

(* The 5 s select on the tools/list reply ends the handshake.             *)
LEMMA FetchToolsStdioStep ==
  ASSUME TypeInv, NEW c \in Clients, FetchToolsStdio(c)
  PROVE  LStep \/ LSame
<1>1. pc[c] \in HS /\ pc \in [Clients -> States]
  BY DEF FetchToolsStdio, HS, TypeInv, TypeOK
<1>2. HandshakePhase = "handshake" /\ HandshakePhase' = "idle"
  BY <1>1, StartedPc, PhaseEnds DEF FetchToolsStdio, TypeInv
<1>3. Lifecycle!Handshaken
  BY <1>2 DEF FetchToolsStdio, Lifecycle!Handshaken, IsRunning
<1>4. QED
  BY <1>3 DEF LStep, Lifecycle!ANext

(* The 30 s select on a request's reply leaves the lifecycle alone.       *)
LEMMA ReadResponseStep ==
  ASSUME TypeInv, NEW c \in Clients, ReadResponse(c)
  PROVE  LSame
<1>1. HandshakePhase' = HandshakePhase
  BY PhaseKept
  DEF ReadResponse, GatewayReply, Respond, TypeInv, TypeOK, HS, States
<1>2. QED
  BY <1>1 DEF ReadResponse, LSame, Lifecycle!avars, IsRunning

(* stop(), with no handler blocked: a Stop of the lifecycle, or a stutter  *)
(* when there is no child.                                                 *)
LEMMA StopBackendStep ==
  ASSUME TypeInv, NEW phs, phs = HandshakePhase, phs = "idle", StopBackend,
         UNCHANGED <<restart_count, pc>>
  PROVE  LStep \/ LSame
<1>1. HandshakePhase' = "idle"
  BY DEF HandshakePhase
<1>2. CASE process = 0
  BY <1>1, <1>2 DEF StopBackend, LSame, Lifecycle!avars, IsRunning
<1>3. CASE process # 0
  <2>1. Lifecycle!Stop
    BY <1>1, <1>3 DEF StopBackend, Lifecycle!Stop, IsRunning
  <2>2. QED
    BY <2>1 DEF LStep, Lifecycle!ANext
<1>4. QED
  BY <1>2, <1>3

(* The idle checker's hibernation is a Stop: it runs only when no handler *)
(* is blocked, so never during a handshake.                                *)
LEMMA IdleCheckerStep ==
  ASSUME TypeInv, IdleChecker
  PROVE  LStep \/ LSame
<1>1. HandshakePhase = "idle"
  BY DEF IdleChecker, Blocked, HandshakePhase
<1>2. QED
  BY <1>1, StopBackendStep DEF IdleChecker

(* Gateway.stop runs once every handler is idle, so never during a        *)
(* handshake.                                                              *)
LEMMA GatewayStopStep ==
  ASSUME TypeInv, GatewayStop
  PROVE  LStep \/ LSame
<1>1. HandshakePhase = "idle"
  BY DEF GatewayStop, HandshakePhase
<1>2. QED
  BY <1>1, StopBackendStep DEF GatewayStop

(* A child exiting on its own is a Crash.                                  *)
LEMMA ChildExitStep ==
  ASSUME ChildExit
  PROVE  LStep
<1>1. Lifecycle!Crash
  BY DEF ChildExit, Lifecycle!Crash, IsRunning, HandshakePhase
<1>2. QED
  BY <1>1 DEF LStep, Lifecycle!ANext

(* The clock, the child answering and the stutter after shutdown leave    *)
(* the lifecycle alone.                                                    *)
LEMMA EnvironmentStep ==
  ASSUME Tick \/ ChildRespond \/ Terminated \/ UNCHANGED vars
  PROVE  LSame
  BY DEF Tick, ChildRespond, Terminated, vars, LSame, Lifecycle!avars,
         IsRunning, HandshakePhase

(* Every step of the stdio model is a step of the lifecycle or leaves it  *)
(* unchanged.                                                              *)
LEMMA NextStep ==
  ASSUME TypeInv, [Next]_vars
  PROVE  [Lifecycle!ANext]_Lifecycle!avars
<1>1. LStep \/ LSame
  <2>1. CASE \E c \in Clients : HandleMcp(c)
    BY <2>1, HandleMcpStep
  <2>2. CASE \E c \in Clients : McpHandshakeInit(c)
    BY <2>2, McpHandshakeInitStep
  <2>3. CASE \E c \in Clients : FetchToolsStdio(c)
    BY <2>3, FetchToolsStdioStep
  <2>4. CASE \E c \in Clients : ReadBody(c)
    BY <2>4, ReadBodyStep
  <2>5. CASE \E c \in Clients : ReadResponse(c)
    BY <2>5, ReadResponseStep
  <2>6. CASE IdleChecker
    BY <2>6, IdleCheckerStep
  <2>7. CASE GatewayStop
    BY <2>7, GatewayStopStep
  <2>8. CASE ChildExit
    BY <2>8, ChildExitStep
  <2>9. CASE Tick \/ ChildRespond \/ Terminated \/ UNCHANGED vars
    BY <2>9, EnvironmentStep
  <2>10. QED
    BY Zenon, <2>1, <2>2, <2>3, <2>4, <2>5, <2>6, <2>7, <2>8, <2>9 DEF Next
<1>2. QED
  BY <1>1 DEF LStep, LSame

(* The stdio adapter refines the adapter lifecycle, for every number of    *)
(* clients, requests, spawns and ticks: _start_stdio spawns only when no  *)
(* child is alive and no handshake runs and counts each spawn in          *)
(* restart_count, only the handshake sets _initialized, and stop() from   *)
(* the idle checker or Gateway.stop never cuts into a handshake.          *)
THEOREM StdioRefinesLifecycle ==
    Spec => Lifecycle!AInit /\ [][Lifecycle!ANext]_Lifecycle!avars
<1>1. Init => Lifecycle!AInit
  BY DEF Init, Lifecycle!AInit, IsRunning, HandshakePhase
<1>2. Init => TypeInv
  BY InitIInv DEF IInv
<1>3. TypeInv /\ [Next]_vars => [Lifecycle!ANext]_Lifecycle!avars
  BY NextStep
<1>4. QED
  BY <1>1, <1>2, <1>3, NextTypeInv, PTL DEF Spec
=============================================================================
