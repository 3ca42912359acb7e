------------------------- MODULE StdioBackendProofs -------------------------
(***************************************************************************)
(* Proofs about StdioBackend: IInv is an inductive invariant of Spec, so   *)
(* TypeOK, RepliesCorrelated, CacheHoldsToolsReply and NoOrphanChild hold  *)
(* in every reachable state, for every value of the constants.             *)
(***************************************************************************)
EXTENDS StdioBackend, TLAPS

USE StdioAssumption

(* The initial state satisfies the inductive invariant. *)
LEMMA InitIInv == Init => IInv
<1> SUFFICES ASSUME Init PROVE IInv
  OBVIOUS
<1>1. TypeOK
  <2>1. NoReply \in Replies /\ NoCache \in Caches
    BY DEF NoReply, Replies, NoCache, Caches, Tags, InitTag
  <2>2. <<>> \in Seq(Tags)
    OBVIOUS
  <2>3. pc \in [Clients -> States] /\ cont \in [Clients -> {"route", "send"}]
    BY DEF Init, States
  <2>4. method \in [Clients -> Methods] /\ sent \in [Clients -> 0..MaxReq]
    BY DEF Init, Methods
  <2>5. reply \in [Clients -> Replies]
    BY <2>1 DEF Init
  <2>6. /\ process \in 0..MaxStarts /\ exited \subseteq Incarnations
        /\ restart_count \in 0..MaxStarts /\ abandoned \subseteq Incarnations
        /\ last_used \in 0..MaxTime /\ now \in 0..MaxTime
    BY DEF Init, Incarnations
  <2>7. QED
    BY <2>1, <2>2, <2>3, <2>4, <2>5, <2>6 DEF Init, TypeOK
<1>2. PipeFraming
  BY DEF Init, PipeFraming, BlockedStates
<1>3. RepliesCorrelated /\ CacheHoldsToolsReply
  BY DEF Init, RepliesCorrelated, CacheHoldsToolsReply, NoReply
<1>4. QED
  BY <1>1, <1>2, <1>3 DEF Init, IInv, TypeInv, BusyRunning, SpawnBound,
     BusySent, ProcLatest, OneBlocked, HandshakeFresh, ExitedNoInput,
     NoOrphanChild, NoChildAfterShutdown, BlockedStates, IsRunning

\* The empty sequence is a sequence of tags.
LEMMA EmptySeqTags == <<>> \in Seq(Tags)
  OBVIOUS

\* A handler's answer is a well-typed reply, and the handler goes idle.
LEMMA RespondOK ==
  ASSUME TypeOK, NEW c \in Clients, sent'[c] \in 1..MaxReq,
         NEW src \in {"none", "pipe", "cache", "gateway"}, NEW t \in Tags,
         Respond(c, src, t)
  PROVE  reply' \in [Clients -> Replies] /\ pc' = [pc EXCEPT ![c] = "idle"]
  BY DEF Respond, TypeOK, Replies, Tags

\* The same for an answer the gateway makes itself.
LEMMA GatewayReplyOK ==
  ASSUME TypeOK, NEW c \in Clients, sent'[c] \in 1..MaxReq, GatewayReply(c)
  PROVE  reply' \in [Clients -> Replies] /\ pc' = [pc EXCEPT ![c] = "idle"]
<1>1. <<c, sent'[c]>> \in Tags
  BY DEF Tags
<1>2. QED
  BY <1>1, RespondOK DEF GatewayReply

\* Writing a request keeps the pipe and the reply well typed, and moves
\* only the writing handler.
LEMMA WriteRequestOK ==
  ASSUME TypeOK, NEW c \in Clients, sent' = sent, sent[c] \in 1..MaxReq,
         WriteRequest(c)
  PROVE  /\ reply' \in [Clients -> Replies] /\ childIn' \in Seq(Tags)
         /\ \E s \in States : pc' = [pc EXCEPT ![c] = s]
<1>1. CASE GatewayReply(c) /\ UNCHANGED childIn
  BY <1>1, GatewayReplyOK DEF TypeOK, States
<1>2. CASE /\ childIn' = Append(childIn, Tag(c))
           /\ pc' = [pc EXCEPT ![c] = "read"]
           /\ UNCHANGED reply
  <2>1. Tag(c) \in Tags
    BY DEF Tag, Tags
  <2>2. QED
    BY <1>2, <2>1 DEF TypeOK, States
<1>3. QED
  BY Zenon, <1>1, <1>2 DEF WriteRequest

\* The same for where a handler goes when start() returned True.
LEMMA StartedOK ==
  ASSUME TypeOK, NEW c \in Clients, sent' = sent, sent[c] \in 1..MaxReq,
         Started(c)
  PROVE  /\ reply' \in [Clients -> Replies] /\ childIn' \in Seq(Tags)
         /\ \E s \in States : pc' = [pc EXCEPT ![c] = s]
<1>1. CASE cont'[c] = "route"
  BY <1>1 DEF Started, TypeOK, States
<1>2. CASE cont'[c] # "route"
  BY <1>2, WriteRequestOK DEF Started
<1>3. QED
  BY <1>1, <1>2

\* A step of the handler blocked in select() keeps the invariants about
\* handlers and children: it is the only blocked handler, so whatever
\* state it moves to no other handler is disturbed.
LEMMA BlockedStep ==
  ASSUME TypeInv, NEW c \in Clients, pc[c] \in BlockedStates,
         NEW s \in States, pc' = [pc EXCEPT ![c] = s],
         UNCHANGED <<process, exited, restart_count, running, sent>>,
         abandoned' \subseteq abandoned \cup {process}
  PROVE  BusyRunning' /\ SpawnBound' /\ BusySent' /\ ProcLatest' /\ OneBlocked'
<1>1. running /\ process # 0 /\ sent[c] >= 1
  BY DEF TypeInv, BusyRunning, OneBlocked, BusySent, BlockedStates
<1>2. \A d \in Clients : d # c => pc[d] \notin BlockedStates
  BY DEF TypeInv, OneBlocked
<1>3. BusyRunning' /\ SpawnBound' /\ BusySent'
  BY <1>1 DEF TypeInv, TypeOK, BusyRunning, SpawnBound, BusySent, IsRunning
<1>4. ProcLatest'
  BY <1>1 DEF TypeInv, TypeOK, ProcLatest
<1>5. \A d \in Clients : d # c => pc'[d] = pc[d]
  BY DEF TypeInv, TypeOK
<1>6. OneBlocked'
  BY <1>1, <1>2, <1>5 DEF OneBlocked
<1>7. QED
  BY <1>3, <1>4, <1>6

\* A new request to /mcp/<name> (Gateway._handle_mcp with its start()) keeps TypeInv.
LEMMA HandleMcpTypeInv ==
  ASSUME TypeInv, NEW c \in Clients, HandleMcp(c)
  PROVE  TypeInv'
<1>1. /\ running /\ pc[c] = "idle" /\ ~Blocked
      /\ method' \in [Clients -> Methods]
      /\ sent' = [sent EXCEPT ![c] = @ + 1]
      /\ sent'[c] \in 1..MaxReq /\ sent' \in [Clients -> 0..MaxReq]
      /\ cont' = [cont EXCEPT ![c] = "route"]
      /\ cont' \in [Clients -> {"route", "send"}]
      /\ UNCHANGED <<exited, tools_cache, now, running, abandoned>>
  BY DEF HandleMcp, StartStdio, TypeInv, TypeOK
<1>2. CASE /\ IsRunning /\ Started(c) /\ last_used' = Touched("route")
           /\ UNCHANGED <<process, restart_count, initialized, childOut>>
  <2>1. pc' = [pc EXCEPT ![c] = "body"] /\ UNCHANGED <<childIn, reply, last_used>>
    BY <1>1, <1>2 DEF Started, Touched
  <2>2. TypeOK'
    BY <1>1, <1>2, <2>1 DEF TypeInv, TypeOK, States
  <2>3. QED
    BY <1>1, <1>2, <2>1, <2>2 DEF TypeInv, BusyRunning, SpawnBound, BusySent,
       ProcLatest, OneBlocked, BlockedStates, IsRunning, Blocked
<1>3. CASE /\ ~IsRunning /\ StartFailed(c) /\ last_used' = Touched("route")
           /\ UNCHANGED <<process, restart_count, initialized, childIn, childOut>>
  <2>1. reply' \in [Clients -> Replies] /\ pc' = [pc EXCEPT ![c] = "idle"]
        /\ UNCHANGED last_used
    BY <1>1, <1>3 DEF StartFailed, GatewayReply, Respond, Touched, TypeInv,
       TypeOK, Replies, Tags
  <2>2. TypeOK'
    BY <1>1, <1>3, <2>1 DEF TypeInv, TypeOK, States
  <2>3. QED
    BY <1>1, <1>3, <2>1, <2>2 DEF TypeInv, BusyRunning, SpawnBound, BusySent,
       ProcLatest, OneBlocked, BlockedStates, IsRunning, Blocked
<1>4. CASE /\ ~IsRunning
           /\ restart_count' = restart_count + 1
           /\ process' = restart_count + 1
           /\ last_used' = now
           /\ initialized' = FALSE
           /\ childIn' = <<InitTag>>
           /\ childOut' = <<>>
           /\ pc' = [pc EXCEPT ![c] = "hs_init"]
           /\ UNCHANGED reply
  <2>1. restart_count' \in 1..MaxStarts
    BY <1>1, <1>4 DEF TypeInv, TypeOK, SpawnBound
  <2>2. <<InitTag>> \in Seq(Tags)
    BY DEF Tags, InitTag
  <2>3. TypeOK'
    <3>1. process' \in 0..MaxStarts /\ last_used' \in 0..MaxTime
      BY <1>1, <1>4, <2>1 DEF TypeInv, TypeOK
    <3>2. childIn' \in Seq(Tags) /\ childOut' \in Seq(Tags)
      BY <1>4, <2>2, EmptySeqTags
    <3>3. pc' \in [Clients -> States]
      BY <1>4 DEF TypeInv, TypeOK, States
    <3>4. QED
      BY Zenon, <1>1, <1>4, <2>1, <3>1, <3>2, <3>3 DEF TypeInv, TypeOK
  <2>4. ProcLatest'
    BY <1>1, <1>4, <2>1 DEF TypeInv, TypeOK, ProcLatest
  <2>5. OneBlocked'
    BY <1>1, <1>4, <2>1 DEF TypeInv, TypeOK, OneBlocked, BlockedStates, Blocked
  <2>6. SpawnBound'
    BY <1>1, <1>4, <2>1 DEF TypeInv, TypeOK, ProcLatest, SpawnBound, IsRunning
  <2>7. QED
    BY <1>1, <1>4, <2>3, <2>4, <2>5, <2>6 DEF TypeInv, TypeOK, BusyRunning,
       BusySent
<1>5. \/ /\ IsRunning /\ Started(c) /\ last_used' = Touched("route")
         /\ UNCHANGED <<process, restart_count, initialized, childOut>>
      \/ /\ ~IsRunning /\ StartFailed(c) /\ last_used' = Touched("route")
         /\ UNCHANGED <<process, restart_count, initialized, childIn, childOut>>
      \/ /\ ~IsRunning
         /\ restart_count' = restart_count + 1
         /\ process' = restart_count + 1
         /\ last_used' = now
         /\ initialized' = FALSE
         /\ childIn' = <<InitTag>>
         /\ childOut' = <<>>
         /\ pc' = [pc EXCEPT ![c] = "hs_init"]
         /\ UNCHANGED reply
  BY Zenon DEF HandleMcp, StartStdio
<1>6. QED
  BY Zenon, <1>2, <1>3, <1>4, <1>5

\* Reading the initialize reply of the handshake, or giving up on it, keeps TypeInv.
LEMMA McpHandshakeInitTypeInv ==
  ASSUME TypeInv, NEW c \in Clients, McpHandshakeInit(c)
  PROVE  TypeInv'
<1>1. /\ pc[c] = "hs_init" /\ pc[c] \in BlockedStates
      /\ sent[c] \in 1..MaxReq
      /\ UNCHANGED <<process, exited, restart_count, tools_cache, last_used,
                     now, running, cont, method, sent>>
  BY DEF McpHandshakeInit, TypeInv, TypeOK, BusySent, BlockedStates
<1>0. UNCHANGED <<process, exited, restart_count, running, sent>>
  BY <1>1
<1>2. CASE /\ childOut # <<>>
           /\ childOut' = Tail(childOut)
           /\ initialized' = TRUE
           /\ childIn' = Append(childIn, ToolsTag)
           /\ pc' = [pc EXCEPT ![c] = "hs_tools"]
           /\ UNCHANGED <<reply, abandoned>>
  <2>1. TypeOK'
    <3>1. childIn' \in Seq(Tags) /\ childOut' \in Seq(Tags)
      BY <1>2 DEF TypeInv, TypeOK, Tags, ToolsTag
    <3>2. pc' \in [Clients -> States]
      BY <1>2 DEF TypeInv, TypeOK, States
    <3>3. QED
      BY Zenon, <1>1, <1>2, <3>1, <3>2 DEF TypeInv, TypeOK
  <2>2. "hs_tools" \in States /\ abandoned' \subseteq abandoned \cup {process}
    BY <1>2 DEF States
  <2>3. QED
    BY Zenon, <1>0, <1>1, <1>2, <2>1, <2>2, BlockedStep DEF TypeInv
<1>3. CASE /\ Started(c)
           /\ childOut' \in Seq(Tags) /\ initialized' \in BOOLEAN
           /\ abandoned' \subseteq abandoned \cup {process}
  <2>1. /\ reply' \in [Clients -> Replies] /\ childIn' \in Seq(Tags)
        /\ \E s \in States : pc' = [pc EXCEPT ![c] = s]
    BY <1>1, <1>3, StartedOK DEF TypeInv
  <2>2. PICK s \in States : pc' = [pc EXCEPT ![c] = s]
    BY Zenon, <2>1
  <2>3. abandoned' \subseteq Incarnations
    BY <1>1, <1>3 DEF TypeInv, TypeOK, OneBlocked, Incarnations
  <2>4. pc' \in [Clients -> States]
    BY <2>2 DEF TypeInv, TypeOK
  <2>5. TypeOK'
    BY Zenon, <1>1, <1>3, <2>1, <2>3, <2>4 DEF TypeInv, TypeOK
  <2>6. QED
    BY Zenon, <1>0, <1>1, <1>3, <2>2, <2>5, BlockedStep DEF TypeInv
<1>4. \/ /\ childOut # <<>>
         /\ childOut' = Tail(childOut)
         /\ initialized' = TRUE
         /\ childIn' = Append(childIn, ToolsTag)
         /\ pc' = [pc EXCEPT ![c] = "hs_tools"]
         /\ UNCHANGED <<reply, abandoned>>
      \/ /\ Started(c)
         /\ childOut' \in Seq(Tags) /\ initialized' \in BOOLEAN
         /\ abandoned' \subseteq abandoned \cup {process}
  <2>1. childOut # <<>> => Tail(childOut) \in Seq(Tags)
    BY DEF TypeInv, TypeOK
  <2>2. QED
    BY Zenon, <2>1 DEF McpHandshakeInit, TypeInv, TypeOK
<1>5. QED
  BY Zenon, <1>2, <1>3, <1>4

\* Reading (and maybe caching) the tools/list reply of the handshake keeps TypeInv.
LEMMA FetchToolsStdioTypeInv ==
  ASSUME TypeInv, NEW c \in Clients, FetchToolsStdio(c)
  PROVE  TypeInv'
<1>1. /\ pc[c] = "hs_tools" /\ pc[c] \in BlockedStates
      /\ sent[c] \in 1..MaxReq
      /\ UNCHANGED <<process, exited, restart_count, initialized, last_used,
                     now, running, cont, method, sent>>
      /\ Started(c)
  BY DEF FetchToolsStdio, TypeInv, TypeOK, BusySent, BlockedStates
<1>0. UNCHANGED <<process, exited, restart_count, running, sent>>
  BY <1>1
<1>2. /\ childOut' \in Seq(Tags)
      /\ tools_cache' \in Caches
      /\ abandoned' \subseteq abandoned \cup {process}
  <2>1. childOut # <<>> => /\ Tail(childOut) \in Seq(Tags)
                          /\ [inc |-> process, tag |-> Head(childOut)] \in Caches
    BY DEF TypeInv, TypeOK, Caches
  <2>2. CASE childOut # <<>>
    <3>1. /\ childOut' = Tail(childOut)
          /\ tools_cache' \in {tools_cache,
                                [inc |-> process, tag |-> Head(childOut)]}
          /\ UNCHANGED abandoned
      BY <2>2 DEF FetchToolsStdio
    <3>2. QED
      BY <2>1, <2>2, <3>1 DEF TypeInv, TypeOK
  <2>3. CASE childOut = <<>>
    <3>1. /\ abandoned' = IF process \in exited THEN abandoned
                          ELSE abandoned \cup {process}
          /\ UNCHANGED <<childOut, tools_cache>>
      BY <2>3 DEF FetchToolsStdio
    <3>2. QED
      BY <3>1 DEF TypeInv, TypeOK
  <2>4. QED
    BY <2>2, <2>3
<1>3. /\ reply' \in [Clients -> Replies] /\ childIn' \in Seq(Tags)
      /\ \E s \in States : pc' = [pc EXCEPT ![c] = s]
  BY <1>1, StartedOK DEF TypeInv
<1>4. PICK s \in States : pc' = [pc EXCEPT ![c] = s]
  BY Zenon, <1>3
<1>5. abandoned' \subseteq Incarnations
  BY <1>1, <1>2 DEF TypeInv, TypeOK, OneBlocked, Incarnations
<1>6. pc' \in [Clients -> States]
  BY <1>4 DEF TypeInv, TypeOK
<1>7. TypeOK'
  BY Zenon, <1>1, <1>2, <1>3, <1>5, <1>6 DEF TypeInv, TypeOK
<1>8. QED
  BY Zenon, <1>0, <1>1, <1>2, <1>4, <1>7, BlockedStep DEF TypeInv

\* A step of a handler while no handler is blocked keeps the invariants
\* about handlers: the handler that moves is the only one that can block.
LEMMA FreeStep ==
  ASSUME TypeInv, NEW c \in Clients, ~Blocked, pc[c] # "idle",
         NEW s \in States, pc' = [pc EXCEPT ![c] = s],
         UNCHANGED <<running, sent>>, s \in BlockedStates => process' # 0
  PROVE  BusyRunning' /\ BusySent' /\ OneBlocked'
<1>1. running /\ sent[c] >= 1
  BY DEF TypeInv, BusyRunning, BusySent
<1>2. \A d \in Clients : d # c => pc'[d] = pc[d] /\ pc[d] \notin BlockedStates
  BY DEF TypeInv, TypeOK, Blocked, BlockedStates
<1>3. pc'[c] = s
  BY DEF TypeInv, TypeOK
<1>4. BusyRunning' /\ BusySent'
  BY <1>1, <1>2, <1>3 DEF TypeInv, BusyRunning, BusySent
<1>5. OneBlocked'
  BY <1>2, <1>3 DEF OneBlocked
<1>6. QED
  BY <1>4, <1>5

\* A spawn by _start_stdio keeps ProcLatest and SpawnBound: the new child
\* is restart_count + 1 and no child of that number has exited.
LEMMA SpawnOK ==
  ASSUME TypeInv, running, ~IsRunning,
         restart_count' = restart_count + 1, process' = restart_count + 1,
         UNCHANGED <<exited, abandoned, running>>
  PROVE  restart_count' \in 1..MaxStarts /\ ProcLatest' /\ SpawnBound'
  BY DEF TypeInv, TypeOK, SpawnBound, ProcLatest, IsRunning

\* Resuming a handler with its body, and all of send_request, keeps TypeInv.
LEMMA ReadBodyTypeInv ==
  ASSUME TypeInv, NEW c \in Clients, ReadBody(c)
  PROVE  TypeInv'
<1>1. /\ ~Blocked /\ pc[c] = "body" /\ running /\ sent[c] \in 1..MaxReq
      /\ UNCHANGED <<exited, tools_cache, now, running, method, sent, abandoned>>
  BY DEF ReadBody, TypeInv, TypeOK, BusyRunning, BusySent
\* Everything but the pc: the cases of ReadBody and SendRequest.
<1>2. /\ process' \in 0..MaxStarts /\ restart_count' \in 0..MaxStarts
      /\ initialized' \in BOOLEAN /\ last_used' \in 0..MaxTime
      /\ childIn' \in Seq(Tags) /\ childOut' \in Seq(Tags)
      /\ cont' \in [Clients -> {"route", "send"}]
      /\ reply' \in [Clients -> Replies]
      /\ ProcLatest' /\ SpawnBound'
      /\ \E s \in States : /\ pc' = [pc EXCEPT ![c] = s]
                           /\ s \in BlockedStates => process' # 0
  <2>1. CASE GatewayReply(c)
             /\ UNCHANGED <<process, restart_count, last_used, initialized,
                            childIn, childOut, cont>>
    BY <1>1, <2>1, GatewayReplyOK DEF TypeInv, TypeOK, ProcLatest, SpawnBound,
       IsRunning, States, BlockedStates
  <2>2. CASE /\ method[c] = "tools/list" /\ tools_cache # NoCache
             /\ last_used' = now /\ ServeCached(c)
             /\ UNCHANGED <<process, restart_count, initialized, childIn,
                            childOut, cont>>
    <3>1. reply' \in [Clients -> Replies] /\ pc' = [pc EXCEPT ![c] = "idle"]
      BY <1>1, <2>2 DEF ServeCached, TypeInv, TypeOK, Caches, Replies, Tag, Tags
    <3>2. QED
      BY <1>1, <2>2, <3>1 DEF TypeInv, TypeOK, ProcLatest, SpawnBound,
         IsRunning, States, BlockedStates
  <2>3. CASE /\ IsRunning /\ last_used' = now /\ WriteRequest(c)
             /\ UNCHANGED <<process, restart_count, initialized, childOut, cont>>
    <3>1. PICK s \in States : pc' = [pc EXCEPT ![c] = s]
      BY Zenon, <1>1, <2>3, WriteRequestOK DEF TypeInv
    <3>2. reply' \in [Clients -> Replies] /\ childIn' \in Seq(Tags)
      BY <1>1, <2>3, WriteRequestOK DEF TypeInv
    <3>3. QED
      BY <1>1, <2>3, <3>1, <3>2 DEF TypeInv, TypeOK, ProcLatest, SpawnBound,
         IsRunning
  <2>4. CASE /\ ~IsRunning /\ StartFailed(c) /\ last_used' = now
             /\ cont' = [cont EXCEPT ![c] = "send"]
             /\ UNCHANGED <<process, restart_count, initialized, childIn,
                            childOut>>
    <3>1. reply' \in [Clients -> Replies] /\ pc' = [pc EXCEPT ![c] = "idle"]
      BY <1>1, <2>4, GatewayReplyOK DEF StartFailed, TypeInv
    <3>2. QED
      BY <1>1, <2>4, <3>1 DEF TypeInv, TypeOK, ProcLatest, SpawnBound,
         IsRunning, States, BlockedStates
  <2>5. CASE /\ ~IsRunning
              /\ cont' = [cont EXCEPT ![c] = "send"]
              /\ restart_count' = restart_count + 1
              /\ process' = restart_count + 1
              /\ last_used' = now
              /\ initialized' = FALSE
              /\ childIn' = <<InitTag>>
              /\ childOut' = <<>>
              /\ pc' = [pc EXCEPT ![c] = "hs_init"]
              /\ UNCHANGED reply
    <3>1. restart_count' \in 1..MaxStarts /\ ProcLatest' /\ SpawnBound'
      BY <1>1, <2>5, SpawnOK
    <3>2. <<InitTag>> \in Seq(Tags) /\ "hs_init" \in States
      BY DEF Tags, InitTag, States
    <3>3. /\ process' \in 0..MaxStarts /\ restart_count' \in 0..MaxStarts
          /\ last_used' \in 0..MaxTime /\ cont' \in [Clients -> {"route", "send"}]
          /\ "hs_init" \in BlockedStates => process' # 0
      BY <1>1, <2>5, <3>1 DEF TypeInv, TypeOK
    <3>4. QED
      BY Zenon, <1>1, <2>5, <3>1, <3>2, <3>3, EmptySeqTags DEF TypeInv, TypeOK
  <2>6. QED
    <3>1. \/ GatewayReply(c)
             /\ UNCHANGED <<process, restart_count, last_used, initialized,
                            childIn, childOut, cont>>
          \/ SendRequest(c)
      BY Zenon DEF ReadBody
    <3>2. SendRequest(c) => \/ /\ method[c] = "tools/list" /\ tools_cache # NoCache
                                /\ last_used' = now /\ ServeCached(c)
                                /\ UNCHANGED <<process, restart_count, initialized,
                                               childIn, childOut, cont>>
                             \/ /\ IsRunning /\ last_used' = now /\ WriteRequest(c)
                                /\ UNCHANGED <<process, restart_count, initialized,
                                               childOut, cont>>
                             \/ /\ ~IsRunning /\ StartStdio(c, "send")
      BY Zenon DEF SendRequest
    <3>3. ~IsRunning /\ StartStdio(c, "send") =>
             \/ /\ ~IsRunning /\ StartFailed(c) /\ last_used' = now
                /\ cont' = [cont EXCEPT ![c] = "send"]
                /\ UNCHANGED <<process, restart_count, initialized, childIn,
                               childOut>>
             \/ /\ ~IsRunning
                /\ cont' = [cont EXCEPT ![c] = "send"]
                /\ restart_count' = restart_count + 1
                /\ process' = restart_count + 1
                /\ last_used' = now
                /\ initialized' = FALSE
                /\ childIn' = <<InitTag>>
                /\ childOut' = <<>>
                /\ pc' = [pc EXCEPT ![c] = "hs_init"]
                /\ UNCHANGED reply
      BY Zenon DEF StartStdio, Touched
    <3>4. QED
      BY Zenon, <3>1, <3>2, <3>3, <2>1, <2>2, <2>3, <2>4, <2>5
<1>3. PICK s \in States : /\ pc' = [pc EXCEPT ![c] = s]
                          /\ s \in BlockedStates => process' # 0
  BY Zenon, <1>2
<1>4. BusyRunning' /\ BusySent' /\ OneBlocked'
  BY Zenon, <1>1, <1>3, FreeStep
<1>5. pc' \in [Clients -> States]
  BY <1>3 DEF TypeInv, TypeOK
<1>6. TypeOK'
  BY Zenon, <1>1, <1>2, <1>5 DEF TypeInv, TypeOK
<1>7. QED
  BY Zenon, <1>2, <1>4, <1>6 DEF TypeInv

\* Reading a response line, or timing out, keeps TypeInv.
LEMMA ReadResponseTypeInv ==
  ASSUME TypeInv, NEW c \in Clients, ReadResponse(c)
  PROVE  TypeInv'
<1>1. /\ pc[c] = "read" /\ pc[c] \in BlockedStates
      /\ sent[c] \in 1..MaxReq
      /\ UNCHANGED <<process, exited, restart_count, initialized, tools_cache,
                     last_used, now, childIn, running, cont, method, sent>>
  BY DEF ReadResponse, TypeInv, TypeOK, BusySent, BlockedStates
<1>0. UNCHANGED <<process, exited, restart_count, running, sent>>
  BY <1>1
<1>2. /\ reply' \in [Clients -> Replies] /\ pc' = [pc EXCEPT ![c] = "idle"]
      /\ childOut' \in Seq(Tags)
      /\ abandoned' \subseteq abandoned \cup {process}
  <2>1. CASE childOut # <<>>
    <3>1. /\ Respond(c, "pipe", Head(childOut))
          /\ childOut' = Tail(childOut) /\ UNCHANGED abandoned
      BY <2>1 DEF ReadResponse
    <3>2. Head(childOut) \in Tags /\ Tail(childOut) \in Seq(Tags)
      BY <2>1 DEF TypeInv, TypeOK
    <3>3. QED
      BY <1>1, <3>1, <3>2, RespondOK DEF TypeInv
  <2>2. CASE childOut = <<>>
    <3>1. /\ GatewayReply(c) /\ UNCHANGED childOut
          /\ abandoned' = IF process \in exited THEN abandoned
                          ELSE abandoned \cup {process}
      BY <2>2 DEF ReadResponse
    <3>2. QED
      BY <1>1, <3>1, GatewayReplyOK DEF TypeInv, TypeOK
  <2>3. QED
    BY <2>1, <2>2
<1>3. abandoned' \subseteq Incarnations
  BY <1>1, <1>2 DEF TypeInv, TypeOK, OneBlocked, Incarnations
<1>4. pc' \in [Clients -> States] /\ "idle" \in States
  BY <1>2 DEF TypeInv, TypeOK, States
<1>5. TypeOK'
  BY Zenon, <1>1, <1>2, <1>3, <1>4 DEF TypeInv, TypeOK
<1>6. QED
  BY Zenon, <1>0, <1>1, <1>2, <1>4, <1>5, BlockedStep DEF TypeInv

\* Hibernating an idle backend keeps TypeInv.
LEMMA IdleCheckerTypeInv ==
  ASSUME TypeInv, IdleChecker
  PROVE  TypeInv'
  BY EmptySeqTags DEF IdleChecker, StopBackend,
         TypeInv, TypeOK, BusyRunning, SpawnBound, BusySent, IsRunning, Incarnations,
         ProcLatest, OneBlocked, Blocked, BlockedStates

\* Stopping the gateway and its backend keeps TypeInv.
LEMMA GatewayStopTypeInv ==
  ASSUME TypeInv, GatewayStop
  PROVE  TypeInv'
<1>1. /\ running' = FALSE
      /\ exited' = IF process = 0 THEN exited ELSE exited \cup {process}
      /\ process' = 0
      /\ initialized' \in BOOLEAN
      /\ childIn' = <<>> /\ childOut' = <<>>
      /\ UNCHANGED <<restart_count, tools_cache, last_used, now, pc, cont,
                     method, sent, reply, abandoned>>
  BY DEF GatewayStop, StopBackend, TypeInv, TypeOK
<1>2. exited' \subseteq Incarnations /\ process' \in 0..MaxStarts
  BY <1>1 DEF TypeInv, TypeOK, Incarnations
<1>3. TypeOK'
  BY Zenon, <1>1, <1>2, EmptySeqTags DEF TypeInv, TypeOK
<1>4. BusyRunning' /\ SpawnBound' /\ BusySent' /\ OneBlocked'
  BY DEF GatewayStop, TypeInv, BusyRunning, SpawnBound, BusySent, OneBlocked,
     BlockedStates
<1>5. ProcLatest'
  BY <1>1 DEF TypeInv, TypeOK, ProcLatest
<1>6. QED
  BY <1>3, <1>4, <1>5 DEF TypeInv

\* A clock tick keeps TypeInv.
LEMMA TickTypeInv ==
  ASSUME TypeInv, Tick
  PROVE  TypeInv'
  BY DEF Tick,
         TypeInv, TypeOK, BusyRunning, SpawnBound, BusySent, IsRunning, Incarnations,
         ProcLatest, OneBlocked, Blocked, BlockedStates

\* The child answering a line keeps TypeInv.
LEMMA ChildRespondTypeInv ==
  ASSUME TypeInv, ChildRespond
  PROVE  TypeInv'
  BY DEF ChildRespond,
         TypeInv, TypeOK, BusyRunning, SpawnBound, BusySent, IsRunning, Incarnations,
         ProcLatest, OneBlocked, Blocked, BlockedStates

\* The child exiting keeps TypeInv.
LEMMA ChildExitTypeInv ==
  ASSUME TypeInv, ChildExit
  PROVE  TypeInv'
  BY DEF ChildExit,
         TypeInv, TypeOK, BusyRunning, SpawnBound, BusySent, IsRunning, Incarnations,
         ProcLatest, OneBlocked, Blocked, BlockedStates

\* The stopped gateway stuttering keeps TypeInv.
LEMMA TerminatedTypeInv ==
  ASSUME TypeInv, Terminated
  PROVE  TypeInv'
  BY DEF Terminated, vars,
         TypeInv, TypeOK, BusyRunning, SpawnBound, BusySent, IsRunning, Incarnations,
         ProcLatest, OneBlocked, Blocked, BlockedStates

\* Stuttering keeps TypeInv.
LEMMA StutterTypeInv ==
  ASSUME TypeInv, UNCHANGED vars
  PROVE  TypeInv'
  BY DEF vars, TypeInv, TypeOK, BusyRunning, SpawnBound, BusySent, IsRunning,
     ProcLatest, OneBlocked, BlockedStates

\* Every step of the gateway, its handlers, the idle checker, the clock
\* and the child keeps TypeInv.
LEMMA NextTypeInv == TypeInv /\ [Next]_vars => TypeInv'
<1> SUFFICES ASSUME TypeInv, [Next]_vars PROVE TypeInv'
  OBVIOUS
<1>1. CASE \E c \in Clients : HandleMcp(c)
  BY <1>1, HandleMcpTypeInv
<1>2. CASE \E c \in Clients : McpHandshakeInit(c)
  BY <1>2, McpHandshakeInitTypeInv
<1>3. CASE \E c \in Clients : FetchToolsStdio(c)
  BY <1>3, FetchToolsStdioTypeInv
<1>4. CASE \E c \in Clients : ReadBody(c)
  BY <1>4, ReadBodyTypeInv
<1>5. CASE \E c \in Clients : ReadResponse(c)
  BY <1>5, ReadResponseTypeInv
<1>6. CASE IdleChecker
  BY <1>6, IdleCheckerTypeInv
<1>7. CASE GatewayStop
  BY <1>7, GatewayStopTypeInv
<1>8. CASE Tick
  BY <1>8, TickTypeInv
<1>9. CASE ChildRespond
  BY <1>9, ChildRespondTypeInv
<1>10. CASE ChildExit
  BY <1>10, ChildExitTypeInv
<1>11. CASE Terminated
  BY <1>11, TerminatedTypeInv
<1>12. CASE UNCHANGED vars
  BY <1>12, StutterTypeInv
<1>13. QED
  BY Zenon, <1>1, <1>2, <1>3, <1>4, <1>5, <1>6, <1>7, <1>8, <1>9, <1>10,
     <1>11, <1>12 DEF Next

(* Type correctness of the stdio backend model: in every behaviour, for   *)
(* every number of clients, requests, spawns and ticks, every variable of *)
(* MCPBackend, of the handlers of _handle_mcp and of the child's pipes     *)
(* holds a value of its type.                                              *)
THEOREM TypeCorrect == Spec => []TypeOK
<1>1. Init => TypeInv
  BY InitIInv DEF IInv
<1>2. TypeInv => TypeOK
  BY DEF TypeInv
<1>3. QED
  BY <1>1, <1>2, NextTypeInv, PTL DEF Spec

=============================================================================
