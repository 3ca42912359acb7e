------------------------- MODULE HttpBackendProofs -------------------------
(***************************************************************************)
(* Proofs about HttpBackend: HInv is an inductive invariant of Spec, so    *)
(* TypeOK holds in every reachable state for every number of clients and  *)
(* requests.  The part that needs an argument is the bound on the          *)
(* initializations (a count over all clients' requests) and on the stops   *)
(* (each clears an _initialized set by one of them).                       *)
(***************************************************************************)
EXTENDS HttpBackend, FiniteSetTheorems, TLAPS

USE HttpAssumption

-----------------------------------------------------------------------------
(* Counting.                                                               *)

\* There are MaxInits start() call sites in all.
LEMMA SlotsCard == IsFiniteSet(Slots) /\ Cardinality(Slots) = MaxInits
<1>1. IsFiniteSet(1..MaxReq) /\ Cardinality(1..MaxReq) = MaxReq
  BY FS_Interval
<1>2. IsFiniteSet(Clients \X (1..MaxReq))
      /\ Cardinality(Clients \X (1..MaxReq)) = Cardinality(Clients) * MaxReq
  BY <1>1, FS_Product
<1>3. IsFiniteSet({"route", "send"}) /\ Cardinality({"route", "send"}) = 2
  <2>1. IsFiniteSet({"route"}) /\ Cardinality({"route"}) = 1
    BY FS_Singleton
  <2>2. {"route", "send"} = {"route"} \cup {"send"}
    OBVIOUS
  <2> QED
    BY <2>1, <2>2, FS_AddElement
<1>4. Cardinality(Clients) \in Nat
  BY FS_CardinalityType
<1>5. IsFiniteSet(Slots)
      /\ Cardinality(Slots) = Cardinality(Clients \X (1..MaxReq)) * 2
  BY <1>2, <1>3, FS_Product DEF Slots
<1> QED
  BY <1>2, <1>4, <1>5 DEF MaxInits

\* MaxInits is a natural number.
LEMMA MaxInitsNat == MaxInits \in Nat
BY FS_CardinalityType DEF MaxInits

\* The call sites passed are finitely many, at most MaxInits.
LEMMA UsedCard ==
  IsFiniteSet(UsedSlots) /\ Cardinality(UsedSlots) <= MaxInits
BY SlotsCard, FS_Subset DEF UsedSlots

\* A finite set holding a set and one more element is larger by one.
LEMMA CardGrows ==
  ASSUME NEW S, NEW T, IsFiniteSet(T), S \subseteq T, NEW x \in T \ S
  PROVE  Cardinality(S) + 1 <= Cardinality(T)
<1>1. IsFiniteSet(S) /\ Cardinality(S \cup {x}) = Cardinality(S) + 1
  BY FS_Subset, FS_AddElement
<1>2. Cardinality(S \cup {x}) <= Cardinality(T)
  BY FS_Subset
<1> QED
  BY <1>1, <1>2

\* A subset of a finite set is no larger.
LEMMA CardMono ==
  ASSUME NEW S, NEW T, IsFiniteSet(T), S \subseteq T
  PROVE  Cardinality(S) <= Cardinality(T)
BY FS_Subset

\* The handlers initializing are finitely many.
LEMMA PendingFinite == IsFiniteSet(Pending) /\ Cardinality(Pending) \in Nat
BY FS_Subset, FS_CardinalityType DEF Pending

(* When one handler c moves to s and the others stay, the handlers        *)
(* initializing change by c alone.                                         *)
LEMMA PendingStep ==
  ASSUME NEW c \in Clients, NEW s, pc \in [Clients -> States],
         pc' = [pc EXCEPT ![c] = s]
  PROVE  Cardinality(Pending') =
           Cardinality(Pending) + Ind(s \in InitStates)
                                - Ind(pc[c] \in InitStates)
<1> DEFINE R == Pending \ {c}
<1>1. IsFiniteSet(R) /\ Cardinality(R) = Cardinality(Pending) - Ind(pc[c] \in InitStates)
  <2>1. c \in Pending <=> pc[c] \in InitStates
    BY DEF Pending
  <2>2. IsFiniteSet(R)
        /\ Cardinality(R) = IF c \in Pending THEN Cardinality(Pending) - 1
                                            ELSE Cardinality(Pending)
    BY PendingFinite, FS_RemoveElement
  <2>3. CASE pc[c] \in InitStates
    BY <2>1, <2>2, <2>3, PendingFinite DEF Ind
  <2>4. CASE pc[c] \notin InitStates
    BY <2>1, <2>2, <2>4, PendingFinite DEF Ind
  <2> QED
    BY <2>3, <2>4
<1>2. Pending' = IF s \in InitStates THEN R \cup {c} ELSE R
  BY DEF Pending
<1>3. c \notin R
  OBVIOUS
<1>4. CASE s \in InitStates
  <2>1. Cardinality(Pending') = Cardinality(R) + 1
    BY <1>1, <1>2, <1>3, <1>4, FS_AddElement
  <2> QED
    BY <1>1, <2>1, <1>4, PendingFinite DEF Ind
<1>5. CASE s \notin InitStates
  BY <1>1, <1>2, <1>5, PendingFinite DEF Ind
<1> QED
  BY <1>4, <1>5

(* The bounds of InitsBound and StopsBound give TypeOK's ranges for inits *)
(* and stops: stated for any values, so that it applies to a next state.  *)
LEMMA BoundsOK ==
  ASSUME NEW i \in Nat, NEW st \in Nat, NEW U, U \subseteq Slots,
         i <= Cardinality(U), NEW P, P \subseteq Clients,
         NEW a \in {0, 1}, NEW b \in {0, 1},
         st + a + Cardinality(P) <= i + b
  PROVE  i \in 0..MaxInits /\ st \in 0..MaxInits + 1
<1>1. Cardinality(U) <= MaxInits /\ Cardinality(U) \in Nat
  BY SlotsCard, FS_Subset, FS_CardinalityType
<1>2. Cardinality(P) \in Nat
  BY FS_Subset, FS_CardinalityType
<1> QED
  BY <1>1, <1>2, MaxInitsNat

-----------------------------------------------------------------------------
(* The call sites passed.                                                   *)

\* Steps that change neither sent nor cont pass no call site.
LEMMA UsedSame ==
  ASSUME UNCHANGED <<sent, cont>>
  PROVE  UsedSlots' = UsedSlots
BY DEF UsedSlots

(* A new request (sent[c] + 1, back to the route call site) passes the    *)
(* call site of its _handle_mcp start() and forgets none.                 *)
LEMMA UsedRoute ==
  ASSUME TypeOK, NEW c \in Clients, sent[c] < MaxReq,
         sent' = [sent EXCEPT ![c] = @ + 1],
         cont' = [cont EXCEPT ![c] = "route"]
  PROVE  /\ UsedSlots \subseteq UsedSlots'
         /\ <<<<c, sent[c] + 1>>, "route">> \in UsedSlots' \ UsedSlots
<1>1. UsedSlots \subseteq UsedSlots'
  <2> SUFFICES ASSUME NEW x \in UsedSlots PROVE x \in UsedSlots'
    OBVIOUS
  <2>1. PICK d \in Clients, k \in 1..MaxReq, w \in {"route", "send"} :
            x = <<<<d, k>>, w>>
    BY DEF UsedSlots, Slots
  <2>2. k < sent[d] \/ (k = sent[d] /\ (w = "route" \/ cont[d] = "send"))
    BY <2>1 DEF UsedSlots
  <2> QED
    BY <2>1, <2>2 DEF UsedSlots, TypeOK
<1>2. <<<<c, sent[c] + 1>>, "route">> \in Slots
  BY DEF Slots, TypeOK
<1> QED
  BY <1>1, <1>2 DEF UsedSlots, TypeOK

(* send_request's start() (cont from "route" to "send") passes the call   *)
(* site of _send_http_request and forgets none.                           *)
LEMMA UsedSend ==
  ASSUME TypeOK, NEW c \in Clients, sent[c] >= 1, cont[c] = "route",
         sent' = sent, cont' = [cont EXCEPT ![c] = "send"]
  PROVE  /\ UsedSlots \subseteq UsedSlots'
         /\ <<<<c, sent[c]>>, "send">> \in UsedSlots' \ UsedSlots
<1>1. UsedSlots \subseteq UsedSlots'
  <2> SUFFICES ASSUME NEW x \in UsedSlots PROVE x \in UsedSlots'
    OBVIOUS
  <2>1. PICK d \in Clients, k \in 1..MaxReq, w \in {"route", "send"} :
            x = <<<<d, k>>, w>>
    BY DEF UsedSlots, Slots
  <2>2. k < sent[d] \/ (k = sent[d] /\ (w = "route" \/ cont[d] = "send"))
    BY <2>1 DEF UsedSlots
  <2> QED
    BY <2>1, <2>2 DEF UsedSlots, TypeOK
<1>2. <<<<c, sent[c]>>, "send">> \in Slots
  BY DEF Slots, TypeOK
<1> QED
  BY <1>1, <1>2 DEF UsedSlots, TypeOK

\* The call sites passed in the next state are at most MaxInits.
LEMMA UsedPrimeCard ==
  IsFiniteSet(UsedSlots') /\ Cardinality(UsedSlots') <= MaxInits
<1>1. UsedSlots' \subseteq Slots
  BY DEF UsedSlots
<1> QED
  BY <1>1, SlotsCard, FS_Subset

\* The handlers initializing in the next state are finitely many.
LEMMA PendingPrimeFinite ==
  IsFiniteSet(Pending') /\ Cardinality(Pending') \in Nat
<1>1. Pending' \subseteq Clients
  BY DEF Pending
<1> QED
  BY <1>1, FS_Subset, FS_CardinalityType

\* The counts the bounds compare are natural numbers, now and next.
LEMMA CardsNat ==
  /\ Cardinality(UsedSlots) \in Nat /\ Cardinality(UsedSlots') \in Nat
  /\ Cardinality(Pending) \in Nat /\ Cardinality(Pending') \in Nat
BY UsedCard, UsedPrimeCard, PendingFinite, PendingPrimeFinite,
   FS_CardinalityType

(* A step of handler c alone keeps BusySent and BodyRoute if c itself     *)
(* keeps them.                                                              *)
LEMMA HandlerFrame ==
  ASSUME TypeOK, BusySent, BodyRoute, NEW c \in Clients, NEW st,
         pc' = [pc EXCEPT ![c] = st],
         \A d \in Clients : d # c => sent'[d] = sent[d] /\ cont'[d] = cont[d],
         st # "idle" => sent'[c] >= 1,
         st = "body" => cont'[c] = "route"
  PROVE  BusySent' /\ BodyRoute'
BY DEF BusySent, BodyRoute, TypeOK

-----------------------------------------------------------------------------
(* The initial state. *)

LEMMA InitHInv == Init => HInv
<1> SUFFICES ASSUME Init PROVE HInv
  OBVIOUS
<1>1. TypeOK
  <2>1. NoReply \in Replies
    BY MaxInitsNat DEF NoReply, Replies
  <2>2. pc \in [Clients -> States] /\ method \in [Clients -> Methods]
    BY DEF Init, States, Methods
  <2>3. stops \in 0..MaxInits + 1
    BY MaxInitsNat DEF Init
  <2>4. /\ session \in 0..MaxInits /\ inits \in 0..MaxInits
        /\ stops \in 0..MaxInits + 1
        /\ init \in [Clients -> 0..MaxInits] /\ url \in [Clients -> 0..MaxInits]
        /\ ses \in [Clients -> 0..MaxInits] /\ sent \in [Clients -> 0..MaxReq]
    BY MaxInitsNat DEF Init
  <2>5. reply \in [Clients -> Replies]
    BY <2>1 DEF Init
  <2>6. /\ cont \in [Clients -> {"route", "send"}]
        /\ answered \in [Clients -> BOOLEAN]
        /\ last_used \in 0..MaxTime /\ now \in 0..MaxTime
    BY DEF Init
  <2> QED
    BY <2>2, <2>3, <2>4, <2>5, <2>6 DEF Init, TypeOK
<1>2. Pending = {}
  BY DEF Init, Pending, InitStates
<1>3. UsedSlots = {}
  <2> SUFFICES ASSUME NEW x \in Slots, x \in UsedSlots PROVE FALSE
    BY DEF UsedSlots
  <2>1. PICK c \in Clients, k \in 1..MaxReq, w \in {"route", "send"} :
            x = <<<<c, k>>, w>>
    BY DEF Slots
  <2> QED
    BY <2>1 DEF Init, UsedSlots
<1>4. Cardinality({}) = 0
  BY FS_EmptySet
<1> QED
  BY <1>1, <1>2, <1>3, <1>4 DEF Init, HInv, BusySent, BodyRoute, InitsBound,
     StopsBound, Ind
-----------------------------------------------------------------------------
(* What a handler's step does to its own state.                            *)

\* Issuing a request moves the handler and keeps its URL and header typed.
LEMMA IssueOK ==
  ASSUME TypeOK, NEW c \in Clients, NEW st, NEW u \in 0..MaxInits,
         NEW sv \in 0..MaxInits, Issue(c, st, u, sv)
  PROVE  /\ pc' = [pc EXCEPT ![c] = st]
         /\ url' \in [Clients -> 0..MaxInits] /\ ses' \in [Clients -> 0..MaxInits]
         /\ answered' \in [Clients -> BOOLEAN]
BY DEF Issue, TypeOK

\* Answering the client makes a well-typed reply and the handler idle.
LEMMA RespondOK ==
  ASSUME TypeOK, NEW c \in Clients, NEW src \in {"gateway", "cache", "backend"},
         Respond(c, src)
  PROVE  /\ pc' = [pc EXCEPT ![c] = "idle"] /\ reply' \in [Clients -> Replies]
         /\ UNCHANGED <<url, ses, answered>>
BY DEF Respond, TypeOK, Replies

\* start() returned True: the route goes on to the body, send_request posts.
LEMMA StartedOK ==
  ASSUME TypeOK, NEW c \in Clients, cont' = cont, Started(c)
  PROVE  /\ pc' = [pc EXCEPT ![c] = IF cont[c] = "route" THEN "body" ELSE "post"]
         /\ url' \in [Clients -> 0..MaxInits] /\ ses' \in [Clients -> 0..MaxInits]
         /\ answered' \in [Clients -> BOOLEAN] /\ reply' = reply
<1>1. CASE cont[c] = "route"
  BY <1>1 DEF Started, TypeOK
<1>2. CASE cont[c] # "route"
  BY <1>2, IssueOK DEF Started, IssuePost, TypeOK
<1> QED
  BY <1>1, <1>2

\* start() returned False: the route answers 503, send_request posts.
LEMMA StartFailedOK ==
  ASSUME TypeOK, NEW c \in Clients, cont' = cont, StartFailed(c)
  PROVE  /\ pc' = [pc EXCEPT ![c] = IF cont[c] = "route" THEN "idle" ELSE "post"]
         /\ url' \in [Clients -> 0..MaxInits] /\ ses' \in [Clients -> 0..MaxInits]
         /\ answered' \in [Clients -> BOOLEAN] /\ reply' \in [Clients -> Replies]
<1>1. CASE cont[c] = "route"
  BY <1>1, RespondOK DEF StartFailed, TypeOK
<1>2. CASE cont[c] # "route"
  BY <1>2, IssueOK DEF StartFailed, IssuePost, TypeOK
<1> QED
  BY <1>1, <1>2

(* A step that keeps _initialized and takes the handler out of, or keeps  *)
(* it out of, an initialization does not grow what StopsBound counts.     *)
LEMMA IndSame ==
  ASSUME NEW b, NEW b2, b2 = b, NEW st, st \notin InitStates, NEW p
  PROVE  Ind(b2) + Ind(st \in InitStates) <= Ind(b) + Ind(p \in InitStates)
BY DEF Ind

(* A step of a busy handler c that begins no initialization keeps HInv,   *)
(* provided it sets _initialized only when it ends an initialization: the *)
(* stops, _initialized and the initializations running do not grow.       *)
LEMMA QuietStep ==
  ASSUME HInv, NEW c \in Clients, pc[c] # "idle", NEW st \in States,
         pc' = [pc EXCEPT ![c] = st],
         st = "body" => cont[c] = "route",
         UNCHANGED <<sent, cont, inits, stops, running, init, method,
                     now>>,
         initialized' \in BOOLEAN,
         Ind(initialized') + Ind(st \in InitStates)
            <= Ind(initialized) + Ind(pc[c] \in InitStates),
         session' \in 0..MaxInits, msg_url' \in 0..MaxInits,
         tools_cache' \in BOOLEAN, last_used' \in 0..MaxTime,
         url' \in [Clients -> 0..MaxInits], ses' \in [Clients -> 0..MaxInits],
         answered' \in [Clients -> BOOLEAN], reply' \in [Clients -> Replies]
  PROVE  HInv'
<1>1. TypeOK /\ BusySent /\ BodyRoute /\ InitsBound /\ StopsBound
  BY DEF HInv
<1>2. Cardinality(Pending') = Cardinality(Pending) + Ind(st \in InitStates)
                              - Ind(pc[c] \in InitStates)
  BY <1>1, PendingStep DEF TypeOK
<1>3. InitsBound'
  BY <1>1, UsedSame DEF InitsBound
<1>4. StopsBound'
  BY <1>1, <1>2, CardsNat DEF StopsBound, Ind, TypeOK
<1>5. TypeOK'
  BY <1>1 DEF TypeOK
<1>6. BusySent' /\ BodyRoute'
  <2>1. st # "idle" => sent[c] >= 1
    BY <1>1 DEF BusySent
  <2> QED
    BY <1>1, <2>1, HandlerFrame
<1> QED
  BY <1>3, <1>4, <1>5, <1>6 DEF HInv

-----------------------------------------------------------------------------
(* One lemma per action: each keeps HInv.                                  *)

(* A new request (_handle_mcp and its start()) passes a call site; if     *)
(* _initialized is False it begins an initialization, which is counted   *)
(* by that call site and joins the initializations still running.         *)
LEMMA HandleMcpHInv ==
  ASSUME HInv, NEW c \in Clients, HandleMcp(c)
  PROVE  HInv'
<1>0. TypeOK /\ BusySent /\ BodyRoute /\ InitsBound /\ StopsBound
  BY DEF HInv
<1>1. /\ TypeOK /\ BusySent /\ BodyRoute /\ InitsBound /\ StopsBound
      /\ running /\ pc[c] = "idle" /\ sent[c] < MaxReq
      /\ method' \in [Clients -> Methods]
      /\ sent' = [sent EXCEPT ![c] = @ + 1]
      /\ cont' = [cont EXCEPT ![c] = "route"]
      /\ UNCHANGED <<sse, initialized, session, msg_url, tools_cache,
                     last_used, now, running, stops>>
  BY <1>0 DEF HandleMcp, TypeOK
<1>2. /\ UsedSlots \subseteq UsedSlots'
      /\ <<<<c, sent[c] + 1>>, "route">> \in UsedSlots' \ UsedSlots
  BY <1>1, UsedRoute
<1>3. Cardinality(UsedSlots) + 1 <= Cardinality(UsedSlots')
  BY <1>2, UsedPrimeCard, CardGrows
<1>4. /\ sent' \in [Clients -> 0..MaxReq] /\ sent'[c] >= 1
      /\ cont' \in [Clients -> {"route", "send"}] /\ cont'[c] = "route"
      /\ \A d \in Clients : d # c => sent'[d] = sent[d] /\ cont'[d] = cont[d]
  BY <1>1 DEF TypeOK
<1>5. CASE initialized
  <2>1. /\ pc' = [pc EXCEPT ![c] = "body"]
        /\ UNCHANGED <<url, ses, answered, reply, init, inits>>
    BY <1>1, <1>4, <1>5 DEF HandleMcp, StartHttp, Started
  <2>2. Cardinality(Pending') = Cardinality(Pending)
    <3>1. Cardinality(Pending') = Cardinality(Pending) + Ind("body" \in InitStates)
                                  - Ind(pc[c] \in InitStates)
      BY <1>1, <2>1, PendingStep DEF TypeOK
    <3> QED
      BY <1>1, <3>1, CardsNat DEF InitStates, Ind
  <2>3. InitsBound' /\ StopsBound'
    BY <1>1, <1>3, <2>1, <2>2, CardsNat DEF InitsBound, StopsBound, Ind, TypeOK
  <2>4. inits' \in 0..MaxInits /\ stops' \in 0..MaxInits + 1
    BY <1>1, <2>1, <2>3 DEF TypeOK
  <2>5. TypeOK'
    BY <1>1, <1>4, <2>1, <2>4 DEF TypeOK, States
  <2>6. BusySent' /\ BodyRoute'
    BY <1>1, <1>4, <2>1, HandlerFrame
  <2> QED
    BY <2>3, <2>5, <2>6 DEF HInv
<1>6. CASE ~initialized
  <2> DEFINE st == IF sse THEN "sse_get" ELSE "init_post"
  <2>1. /\ inits' = inits + 1
        /\ init' = [init EXCEPT ![c] = inits + 1]
        /\ pc' = [pc EXCEPT ![c] = st]
        /\ url' = [url EXCEPT ![c] = 0] /\ ses' = [ses EXCEPT ![c] = 0]
        /\ answered' = [answered EXCEPT ![c] = FALSE]
        /\ UNCHANGED reply
    BY <1>1, <1>6 DEF HandleMcp, StartHttp, Issue
  <2>2. st \in InitStates /\ st \in States
    BY DEF InitStates, States, InFlight
  <2>3. Cardinality(Pending') = Cardinality(Pending) + 1
    <3>1. Cardinality(Pending') = Cardinality(Pending) + Ind(st \in InitStates)
                                  - Ind(pc[c] \in InitStates)
      BY <1>1, <2>1, PendingStep DEF TypeOK
    <3> QED
      BY <1>1, <2>2, <3>1, CardsNat DEF InitStates, Ind
  <2>4. InitsBound' /\ StopsBound'
    BY <1>1, <1>3, <2>1, <2>3, CardsNat DEF InitsBound, StopsBound, Ind,
       TypeOK
  <2>5. inits' \in 0..MaxInits /\ stops' \in 0..MaxInits + 1
    <3>1. Pending' \subseteq Clients /\ UsedSlots' \subseteq Slots
      BY DEF Pending, UsedSlots
    <3> QED
      BY <1>1, <2>1, <2>4, <3>1, BoundsOK DEF InitsBound, StopsBound, Ind,
         TypeOK
  <2>6. TypeOK'
    <3>1. /\ init' \in [Clients -> 0..MaxInits]
      BY <1>1, <2>1, <2>5 DEF TypeOK
    <3>2. url' \in [Clients -> 0..MaxInits] /\ ses' \in [Clients -> 0..MaxInits]
      BY <1>1, <2>1, MaxInitsNat DEF TypeOK
    <3> QED
      BY <1>1, <1>4, <2>1, <2>2, <2>5, <3>1, <3>2 DEF TypeOK
  <2>7. BusySent' /\ BodyRoute'
    BY <1>1, <1>4, <2>1, <2>2, HandlerFrame DEF InitStates
  <2> QED
    BY <2>4, <2>6, <2>7 DEF HInv
<1> QED
  BY <1>5, <1>6

\* The server's answer only marks the request answered.
LEMMA ServerAnswerHInv ==
  ASSUME HInv, NEW c \in Clients, ServerAnswer(c)
  PROVE  HInv'
<1>0. TypeOK
  BY DEF HInv
<1>1. pc' = [pc EXCEPT ![c] = pc[c]] /\ pc[c] \in States /\ pc[c] # "idle"
      /\ pc[c] # "body"
  BY <1>0 DEF ServerAnswer, TypeOK, InFlight
<1>2. answered' \in [Clients -> BOOLEAN]
  BY <1>0 DEF ServerAnswer, TypeOK
<1>3. Ind(initialized') + Ind(pc[c] \in InitStates)
         <= Ind(initialized) + Ind(pc[c] \in InitStates)
  BY DEF ServerAnswer, Ind
<1> QED
  BY <1>0, <1>1, <1>2, <1>3, QuietStep DEF ServerAnswer, TypeOK

\* The end of an initialize POST: the tools fetch, or start() returns.
LEMMA InitPostDoneHInv ==
  ASSUME HInv, NEW c \in Clients, InitPostDone(c)
  PROVE  HInv'
<1>0. TypeOK
  BY DEF HInv
<1>1. pc[c] = "init_post" /\ pc[c] \in InitStates
  BY DEF InitPostDone, InitStates
<1>2. CASE /\ answered[c]
           /\ \E hdr \in BOOLEAN : session' = IF hdr THEN init[c] ELSE session
           /\ Issue(c, "fetch", msg_url, session')
           /\ UNCHANGED <<initialized, tools_cache, reply>>
  <2>1. session' \in 0..MaxInits
    BY <1>0, <1>2 DEF TypeOK
  <2>2. /\ pc' = [pc EXCEPT ![c] = "fetch"]
        /\ url' \in [Clients -> 0..MaxInits] /\ ses' \in [Clients -> 0..MaxInits]
        /\ answered' \in [Clients -> BOOLEAN]
    BY <1>0, <1>2, <2>1, IssueOK DEF TypeOK
  <2>3. Ind(initialized') + Ind("fetch" \in InitStates)
           <= Ind(initialized) + Ind(pc[c] \in InitStates)
    BY <1>1, <1>2 DEF Ind, InitStates
  <2> QED
    BY <1>0, <1>1, <1>2, <2>1, <2>2, <2>3, QuietStep
       DEF InitPostDone, TypeOK, States, InFlight
<1>3. CASE /\ initialized' = TRUE
           /\ Started(c)
           /\ UNCHANGED <<session, tools_cache>>
  <2> DEFINE st == IF cont[c] = "route" THEN "body" ELSE "post"
  <2>1. /\ pc' = [pc EXCEPT ![c] = st]
        /\ url' \in [Clients -> 0..MaxInits] /\ ses' \in [Clients -> 0..MaxInits]
        /\ answered' \in [Clients -> BOOLEAN] /\ reply' = reply
    BY <1>0, <1>3, StartedOK DEF InitPostDone
  <2>2. st \in States /\ (st = "body" => cont[c] = "route")
    BY DEF States, InFlight
  <2>3. Ind(initialized') + Ind(st \in InitStates)
           <= Ind(initialized) + Ind(pc[c] \in InitStates)
    BY <1>1, <1>3 DEF Ind, InitStates
  <2> QED
    BY <1>0, <1>1, <1>3, <2>1, <2>2, <2>3, QuietStep DEF InitPostDone, TypeOK
<1> QED
  BY <1>2, <1>3 DEF InitPostDone

\* The end of the tools fetch: _initialized is set and start() returns.
LEMMA FetchDoneHInv ==
  ASSUME HInv, NEW c \in Clients, FetchDone(c)
  PROVE  HInv'
<1>0. TypeOK
  BY DEF HInv
<1>1. pc[c] = "fetch" /\ pc[c] \in InitStates
  BY DEF FetchDone, InitStates
<1>2. tools_cache' \in BOOLEAN
  BY <1>0 DEF FetchDone, TypeOK
<1> DEFINE st == IF cont[c] = "route" THEN "body" ELSE "post"
<1>3. /\ pc' = [pc EXCEPT ![c] = st]
      /\ url' \in [Clients -> 0..MaxInits] /\ ses' \in [Clients -> 0..MaxInits]
      /\ answered' \in [Clients -> BOOLEAN] /\ reply' = reply
  BY <1>0, StartedOK DEF FetchDone
<1>4. st \in States /\ (st = "body" => cont[c] = "route")
  BY DEF States, InFlight
<1>5. Ind(initialized') + Ind(st \in InitStates)
         <= Ind(initialized) + Ind(pc[c] \in InitStates)
  BY <1>1 DEF FetchDone, Ind, InitStates
<1> QED
  BY <1>0, <1>1, <1>2, <1>3, <1>4, <1>5, QuietStep DEF FetchDone, TypeOK

\* The end of the SSE GET: initialize is posted, or start() fails.
LEMMA SseGetDoneHInv ==
  ASSUME HInv, NEW c \in Clients, SseGetDone(c)
  PROVE  HInv'
<1>0. TypeOK
  BY DEF HInv
<1>1. pc[c] = "sse_get" /\ pc[c] \in InitStates
  BY DEF SseGetDone, InitStates
<1>2. CASE \/ /\ msg_url' = init[c]
              /\ Issue(c, "sse_post", init[c], 0)
              /\ UNCHANGED reply
           \/ /\ msg_url # 0
              /\ Issue(c, "sse_post", msg_url, 0)
              /\ UNCHANGED <<msg_url, reply>>
  <2>1. msg_url' \in 0..MaxInits
    BY <1>0, <1>2 DEF TypeOK
  <2>2. /\ pc' = [pc EXCEPT ![c] = "sse_post"]
        /\ url' \in [Clients -> 0..MaxInits] /\ ses' \in [Clients -> 0..MaxInits]
        /\ answered' \in [Clients -> BOOLEAN]
    <3>1. CASE Issue(c, "sse_post", init[c], 0)
      BY <1>0, <3>1, MaxInitsNat DEF Issue, TypeOK
    <3>2. CASE Issue(c, "sse_post", msg_url, 0)
      BY <1>0, <3>2, MaxInitsNat DEF Issue, TypeOK
    <3> QED
      BY <1>2, <3>1, <3>2
  <2>3. Ind(initialized') + Ind("sse_post" \in InitStates)
           <= Ind(initialized) + Ind(pc[c] \in InitStates)
    BY <1>1 DEF SseGetDone, Ind, InitStates
  <2> QED
    BY <1>0, <1>1, <1>2, <2>1, <2>2, <2>3, QuietStep
       DEF SseGetDone, TypeOK, States, InFlight
<1>3. CASE StartFailed(c) /\ UNCHANGED msg_url
  <2> DEFINE st == IF cont[c] = "route" THEN "idle" ELSE "post"
  <2>1. /\ pc' = [pc EXCEPT ![c] = st]
        /\ url' \in [Clients -> 0..MaxInits] /\ ses' \in [Clients -> 0..MaxInits]
        /\ answered' \in [Clients -> BOOLEAN] /\ reply' \in [Clients -> Replies]
    BY <1>0, <1>3, StartFailedOK DEF SseGetDone
  <2>2. st \in States /\ (st = "body" => cont[c] = "route")
    BY DEF States, InFlight
  <2>3. Ind(initialized') + Ind(st \in InitStates)
           <= Ind(initialized) + Ind(pc[c] \in InitStates)
    BY <1>1 DEF SseGetDone, Ind, InitStates
  <2> QED
    BY <1>0, <1>1, <1>3, <2>1, <2>2, <2>3, QuietStep DEF SseGetDone, TypeOK
<1> QED
  BY <1>2, <1>3 DEF SseGetDone

\* The end of the SSE initialize POST: the tools fetch, or start() fails.
LEMMA SsePostDoneHInv ==
  ASSUME HInv, NEW c \in Clients, SsePostDone(c)
  PROVE  HInv'
<1>0. TypeOK
  BY DEF HInv
<1>1. pc[c] = "sse_post" /\ pc[c] \in InitStates
  BY DEF SsePostDone, InitStates
<1>2. CASE Issue(c, "fetch", msg_url, session) /\ UNCHANGED reply
  <2>1. /\ pc' = [pc EXCEPT ![c] = "fetch"]
        /\ url' \in [Clients -> 0..MaxInits] /\ ses' \in [Clients -> 0..MaxInits]
        /\ answered' \in [Clients -> BOOLEAN]
    BY <1>0, <1>2, IssueOK DEF TypeOK
  <2>2. Ind(initialized') + Ind("fetch" \in InitStates)
           <= Ind(initialized) + Ind(pc[c] \in InitStates)
    BY <1>1 DEF SsePostDone, Ind, InitStates
  <2> QED
    BY <1>0, <1>1, <1>2, <2>1, <2>2, QuietStep
       DEF SsePostDone, TypeOK, States, InFlight
<1>3. CASE StartFailed(c)
  <2> DEFINE st == IF cont[c] = "route" THEN "idle" ELSE "post"
  <2>1. /\ pc' = [pc EXCEPT ![c] = st]
        /\ url' \in [Clients -> 0..MaxInits] /\ ses' \in [Clients -> 0..MaxInits]
        /\ answered' \in [Clients -> BOOLEAN] /\ reply' \in [Clients -> Replies]
    BY <1>0, <1>3, StartFailedOK DEF SsePostDone
  <2>2. st \in States /\ (st = "body" => cont[c] = "route")
    BY DEF States, InFlight
  <2>3. Ind(initialized') + Ind(st \in InitStates)
           <= Ind(initialized) + Ind(pc[c] \in InitStates)
    BY <1>1 DEF SsePostDone, Ind, InitStates
  <2> QED
    BY <1>0, <1>1, <1>3, <2>1, <2>2, <2>3, QuietStep DEF SsePostDone, TypeOK
<1> QED
  BY <1>2, <1>3 DEF SsePostDone

\* The end of a POST of send_request: the client is answered.
LEMMA PostDoneHInv ==
  ASSUME HInv, NEW c \in Clients, PostDone(c)
  PROVE  HInv'
<1>0. TypeOK
  BY DEF HInv
<1>1. pc[c] = "post" /\ pc[c] \notin InitStates
  BY DEF PostDone, InitStates
<1>2. session' \in 0..MaxInits
  BY <1>0 DEF PostDone, TypeOK
<1>3. \E src \in {"gateway", "cache", "backend"} : Respond(c, src)
  BY DEF PostDone
<1>4. /\ pc' = [pc EXCEPT ![c] = "idle"] /\ reply' \in [Clients -> Replies]
      /\ UNCHANGED <<url, ses, answered>>
  BY <1>0, <1>3, RespondOK
<1>5. Ind(initialized') + Ind("idle" \in InitStates)
         <= Ind(initialized) + Ind(pc[c] \in InitStates)
  <2>1. initialized' = initialized /\ "idle" \notin InitStates
    BY DEF PostDone, InitStates
  <2> QED
    BY <2>1, IndSame
<1> QED
  BY <1>0, <1>1, <1>2, <1>4, <1>5, QuietStep DEF PostDone, TypeOK, States


(* The body has arrived: a parse error or the cached tools/list answers   *)
(* at once; send_request posts, and calls start() first if the backend is  *)
(* not initialized: that start() passes the second call site of the        *)
(* request, which pays for the initialization it begins.                   *)
LEMMA ReadBodyHInv ==
  ASSUME HInv, NEW c \in Clients, ReadBody(c)
  PROVE  HInv'
<1>0. TypeOK /\ BusySent /\ BodyRoute /\ InitsBound /\ StopsBound
  BY DEF HInv
<1>1. /\ pc[c] = "body" /\ pc[c] \notin InitStates /\ pc[c] \in States
      /\ cont[c] = "route" /\ sent[c] >= 1
      /\ UNCHANGED <<sse, session, msg_url, tools_cache, now, running, method,
                     sent, stops>>
  BY <1>0 DEF ReadBody, InitStates, States, BodyRoute, BusySent
<1>2. CASE /\ Respond(c, "gateway")
           /\ UNCHANGED <<initialized, last_used, cont, init, inits>>
  <2>1. /\ pc' = [pc EXCEPT ![c] = "idle"] /\ reply' \in [Clients -> Replies]
        /\ UNCHANGED <<url, ses, answered>>
    BY <1>0, <1>2, RespondOK
  <2>2. Ind(initialized') + Ind("idle" \in InitStates)
           <= Ind(initialized) + Ind(pc[c] \in InitStates)
    <3>1. initialized' = initialized /\ "idle" \notin InitStates
      BY <1>2 DEF InitStates
    <3> QED
      BY <3>1, IndSame
  <2>3. /\ initialized' \in BOOLEAN /\ last_used' \in 0..MaxTime
        /\ session' \in 0..MaxInits /\ msg_url' \in 0..MaxInits
        /\ tools_cache' \in BOOLEAN /\ "idle" \in States
    BY <1>0, <1>1, <1>2 DEF TypeOK, States
  <2> QED
    BY <1>0, <1>1, <1>2, <2>1, <2>2, <2>3, QuietStep DEF TypeOK
<1>3. CASE last_used' = now /\ SendRequest(c)
  <2>0. last_used' \in 0..MaxTime
    BY <1>0, <1>1, <1>3 DEF TypeOK
  <2>1. CASE /\ ServeCached(c)
             /\ UNCHANGED <<initialized, cont, init, inits>>
    <3>1. reply' \in [Clients -> Replies]
      BY <1>0, <2>1, MaxInitsNat DEF ServeCached, TypeOK, Replies
    <3>2. /\ pc' = [pc EXCEPT ![c] = "idle"]
          /\ UNCHANGED <<url, ses, answered>>
      BY <2>1 DEF ServeCached
    <3>3. Ind(initialized') + Ind("idle" \in InitStates)
             <= Ind(initialized) + Ind(pc[c] \in InitStates)
      <4>1. initialized' = initialized /\ "idle" \notin InitStates
        BY <2>1 DEF InitStates
      <4> QED
        BY <4>1, IndSame
    <3>4. /\ initialized' \in BOOLEAN
          /\ session' \in 0..MaxInits /\ msg_url' \in 0..MaxInits
          /\ tools_cache' \in BOOLEAN /\ "idle" \in States
      BY <1>0, <1>1, <2>1 DEF TypeOK, States
    <3> QED
      BY <1>0, <1>1, <2>0, <2>1, <3>1, <3>2, <3>3, <3>4, QuietStep DEF TypeOK
  <2>2. CASE /\ ~initialized
             /\ cont' = [cont EXCEPT ![c] = "send"]
             /\ StartHttp(c)
             /\ UNCHANGED initialized
    <3> DEFINE st == IF sse THEN "sse_get" ELSE "init_post"
    <3>1. /\ inits' = inits + 1
          /\ init' = [init EXCEPT ![c] = inits + 1]
          /\ pc' = [pc EXCEPT ![c] = st]
          /\ url' = [url EXCEPT ![c] = 0] /\ ses' = [ses EXCEPT ![c] = 0]
          /\ answered' = [answered EXCEPT ![c] = FALSE]
          /\ UNCHANGED reply
      BY <2>2 DEF StartHttp, Issue
    <3>2. st \in InitStates /\ st \in States
      BY DEF InitStates, States, InFlight
    <3>3. Cardinality(UsedSlots) + 1 <= Cardinality(UsedSlots')
      <4>1. /\ UsedSlots \subseteq UsedSlots'
            /\ <<<<c, sent[c]>>, "send">> \in UsedSlots' \ UsedSlots
        BY <1>0, <1>1, <2>2, UsedSend
      <4> QED
        BY <4>1, UsedPrimeCard, CardGrows
    <3>4. Cardinality(Pending') = Cardinality(Pending) + 1
      <4>1. Cardinality(Pending') = Cardinality(Pending) + Ind(st \in InitStates)
                                    - Ind(pc[c] \in InitStates)
        BY <1>0, <3>1, PendingStep DEF TypeOK
      <4> QED
        BY <1>1, <3>2, <4>1, CardsNat DEF Ind
    <3>5. InitsBound' /\ StopsBound'
      BY <1>0, <1>1, <2>2, <3>1, <3>3, <3>4, CardsNat
         DEF InitsBound, StopsBound, Ind, TypeOK
    <3>6. inits' \in 0..MaxInits /\ stops' \in 0..MaxInits + 1
      <4>1. Pending' \subseteq Clients /\ UsedSlots' \subseteq Slots
        BY DEF Pending, UsedSlots
      <4> QED
        BY <1>0, <1>1, <2>2, <3>1, <3>5, <4>1, BoundsOK
           DEF InitsBound, StopsBound, Ind, TypeOK
    <3>7. TypeOK'
      <4>1. /\ init' \in [Clients -> 0..MaxInits]
        BY <1>0, <3>1, <3>6 DEF TypeOK
      <4>2. url' \in [Clients -> 0..MaxInits] /\ ses' \in [Clients -> 0..MaxInits]
        BY <1>0, <3>1, MaxInitsNat DEF TypeOK
      <4>3. cont' \in [Clients -> {"route", "send"}]
        BY <1>0, <2>2 DEF TypeOK
      <4> QED
        BY <1>0, <1>1, <2>0, <2>2, <3>1, <3>2, <3>6, <4>1, <4>2, <4>3
           DEF TypeOK
    <3>8. BusySent' /\ BodyRoute'
      <4>1. \A d \in Clients : d # c => sent'[d] = sent[d] /\ cont'[d] = cont[d]
        BY <1>0, <1>1, <2>2 DEF TypeOK
      <4> QED
        BY <1>0, <1>1, <3>1, <3>2, <4>1, HandlerFrame DEF InitStates
    <3> QED
      BY <3>5, <3>7, <3>8 DEF HInv
  <2>3. CASE /\ initialized
             /\ IssuePost(c)
             /\ UNCHANGED <<reply, initialized, cont, init, inits>>
    <3>1. /\ pc' = [pc EXCEPT ![c] = "post"]
          /\ url' \in [Clients -> 0..MaxInits]
          /\ ses' \in [Clients -> 0..MaxInits]
          /\ answered' \in [Clients -> BOOLEAN]
      BY <1>0, <2>3 DEF IssuePost, Issue, TypeOK
    <3>2. Ind(initialized') + Ind("post" \in InitStates)
             <= Ind(initialized) + Ind(pc[c] \in InitStates)
      <4>1. initialized' = initialized /\ "post" \notin InitStates
        BY <2>3 DEF InitStates
      <4> QED
        BY <4>1, IndSame
    <3>3. /\ initialized' \in BOOLEAN
          /\ session' \in 0..MaxInits /\ msg_url' \in 0..MaxInits
          /\ tools_cache' \in BOOLEAN /\ "post" \in States
          /\ reply' \in [Clients -> Replies]
      BY <1>0, <1>1, <2>3 DEF TypeOK, States, InFlight
    <3> QED
      BY <1>0, <1>1, <2>0, <2>3, <3>1, <3>2, <3>3, QuietStep DEF TypeOK
  <2> QED
    BY <1>3, <2>1, <2>2, <2>3 DEF SendRequest
<1> QED
  BY <1>2, <1>3 DEF ReadBody


(* The idle checker stops an initialized backend: the stop it adds is     *)
(* paid for by the _initialized it clears.                                 *)
LEMMA IdleCheckerHInv ==
  ASSUME HInv, IdleChecker
  PROVE  HInv'
<1>0. TypeOK /\ BusySent /\ BodyRoute /\ InitsBound /\ StopsBound
  BY DEF HInv
<1>1. /\ running /\ initialized /\ initialized' = FALSE /\ stops' = stops + 1
      /\ session' = 0 /\ msg_url' = 0
      /\ UNCHANGED <<tools_cache, last_used, now, running, pc, cont, method,
                     sent, init, url, ses, answered, reply, inits>>
  BY DEF IdleChecker, StopHttp
<1>2. Pending' = Pending /\ UsedSlots' = UsedSlots
  BY <1>1 DEF Pending, UsedSlots
<1>3. InitsBound' /\ StopsBound'
  BY <1>0, <1>1, <1>2, CardsNat DEF InitsBound, StopsBound, Ind, TypeOK
<1>4. TypeOK'
  <2>1. stops' \in 0..MaxInits + 1
    BY <1>0, <1>1, CardsNat, MaxInitsNat DEF StopsBound, Ind, TypeOK
  <2>2. session' \in 0..MaxInits /\ msg_url' \in 0..MaxInits
    BY <1>1, MaxInitsNat
  <2>3. /\ initialized' \in BOOLEAN /\ running' \in BOOLEAN
        /\ inits' \in 0..MaxInits
    BY <1>0, <1>1 DEF TypeOK
  <2> QED
    BY <1>0, <1>1, <2>1, <2>2, <2>3 DEF TypeOK
<1>5. BusySent' /\ BodyRoute'
  BY <1>0, <1>1 DEF BusySent, BodyRoute
<1> QED
  BY <1>3, <1>4, <1>5 DEF HInv

(* Gateway.stop once every handler is idle: the stop it adds is paid for   *)
(* by _running going False, and no initialization is under way.            *)
LEMMA GatewayStopHInv ==
  ASSUME HInv, GatewayStop
  PROVE  HInv'
<1>0. TypeOK /\ BusySent /\ BodyRoute /\ InitsBound /\ StopsBound
  BY DEF HInv
<1>1. /\ running /\ running' = FALSE /\ initialized' = FALSE
      /\ stops' = stops + 1
      /\ \A c \in Clients : pc[c] = "idle"
      /\ session' = 0 /\ msg_url' = 0
      /\ UNCHANGED <<tools_cache, last_used, now, pc, cont, method, sent, init,
                     url, ses, answered, reply, inits>>
  BY DEF GatewayStop, StopHttp
<1>2. Pending' = Pending /\ UsedSlots' = UsedSlots
  BY <1>1 DEF Pending, UsedSlots
<1>3. Pending = {}
  BY <1>1 DEF Pending, InitStates
<1>4. Cardinality(Pending) = 0
  BY <1>3, FS_EmptySet
<1>5. InitsBound' /\ StopsBound'
  BY <1>0, <1>1, <1>2, <1>4, CardsNat DEF InitsBound, StopsBound, Ind, TypeOK
<1>6. TypeOK'
  <2>1. stops' \in 0..MaxInits + 1
    BY <1>0, <1>1, <1>4, MaxInitsNat DEF StopsBound, Ind, TypeOK
  <2>2. session' \in 0..MaxInits /\ msg_url' \in 0..MaxInits
    BY <1>1, MaxInitsNat
  <2>3. /\ initialized' \in BOOLEAN /\ running' \in BOOLEAN
        /\ inits' \in 0..MaxInits
    BY <1>0, <1>1 DEF TypeOK
  <2> QED
    BY <1>0, <1>1, <2>1, <2>2, <2>3 DEF TypeOK
<1>7. BusySent' /\ BodyRoute'
  BY <1>0, <1>1 DEF BusySent, BodyRoute
<1> QED
  BY <1>5, <1>6, <1>7 DEF HInv

\* The clock's tick changes nothing HInv is about but the clock.
LEMMA TickHInv ==
  ASSUME HInv, Tick
  PROVE  HInv'
<1>1. Pending' = Pending /\ UsedSlots' = UsedSlots
  BY DEF Tick, Pending, UsedSlots
<1>2. TypeOK'
  BY DEF HInv, Tick, TypeOK
<1> QED
  BY <1>1, <1>2 DEF HInv, Tick, BusySent, BodyRoute, InitsBound, StopsBound

\* A step that changes none of the variables keeps HInv.
LEMMA StutterHInv ==
  ASSUME HInv, UNCHANGED vars
  PROVE  HInv'
<1>1. Pending' = Pending /\ UsedSlots' = UsedSlots
  BY DEF vars, Pending, UsedSlots
<1> QED
  BY <1>1 DEF HInv, vars, TypeOK, BusySent, BodyRoute, InitsBound, StopsBound

-----------------------------------------------------------------------------
(* The theorems. *)

(* HInv holds in every state the HTTP backend can reach: the counting     *)
(* argument that bounds the initializations (_init_http_session calls)    *)
(* by the requests' call sites of start(), and the backend's stops by     *)
(* its initializations, for every number of clients and requests.         *)
THEOREM HInvHolds == Spec => []HInv
<1>1. Init => HInv
  BY InitHInv
<1>2. HInv /\ [Next]_vars => HInv'
  <2> SUFFICES ASSUME HInv, [Next]_vars PROVE HInv'
    OBVIOUS
  <2>1. CASE \E c \in Clients : HandleMcp(c)
    BY <2>1, HandleMcpHInv
  <2>2. CASE \E c \in Clients : ServerAnswer(c)
    BY <2>2, ServerAnswerHInv
  <2>3. CASE \E c \in Clients : InitPostDone(c)
    BY <2>3, InitPostDoneHInv
  <2>4. CASE \E c \in Clients : FetchDone(c)
    BY <2>4, FetchDoneHInv
  <2>5. CASE \E c \in Clients : SseGetDone(c)
    BY <2>5, SseGetDoneHInv
  <2>6. CASE \E c \in Clients : SsePostDone(c)
    BY <2>6, SsePostDoneHInv
  <2>7. CASE \E c \in Clients : PostDone(c)
    BY <2>7, PostDoneHInv
  <2>8. CASE \E c \in Clients : ReadBody(c)
    BY <2>8, ReadBodyHInv
  <2>9. CASE IdleChecker
    BY <2>9, IdleCheckerHInv
  <2>10. CASE GatewayStop
    BY <2>10, GatewayStopHInv
  <2>11. CASE Tick
    BY <2>11, TickHInv
  <2>12. CASE Terminated \/ UNCHANGED vars
    BY <2>12, StutterHInv DEF Terminated
  <2> QED
    BY <2>1, <2>2, <2>3, <2>4, <2>5, <2>6, <2>7, <2>8, <2>9, <2>10, <2>11,
       <2>12 DEF Next
<1> QED
  BY <1>1, <1>2, PTL DEF Spec

(* TypeOK, with its bounds on inits (the _init_http_session calls) and     *)
(* stops (the MCPBackend.stop calls), holds in every reachable state.       *)
THEOREM HttpTypeCorrect == Spec => []TypeOK
<1>1. HInv => TypeOK
  BY DEF HInv
<1> QED
  BY HInvHolds, <1>1, PTL

=============================================================================
