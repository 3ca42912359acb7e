-------------------------- MODULE ConfigLoadProofs --------------------------
(***************************************************************************)
(* Proofs about the backends loop of GatewayConfig.from_dict and           *)
(* Gateway.__init__ (ConfigLoad), for every number of entries: the load is *)
(* all or nothing.  LoadInv is the inductive invariant; TLC checks it in  *)
(* the run cli_main, whose module CliMain extends ConfigLoad.             *)
(***************************************************************************)
EXTENDS ConfigLoad, TLAPS

\* The initial states satisfy the invariant: nothing is loaded yet.
LEMMA InitLoadInv == Init => LoadInv
BY NBAssumption DEF Init, LoadInv

\* One iteration of the loop preserves the invariant: the entry at next is
\* skipped, loaded as it is, or ends the load.
LEMMA LoadEntryInv == LoadInv /\ LoadEntry => LoadInv'
<1> SUFFICES ASSUME LoadInv, LoadEntry PROVE LoadInv'
    OBVIOUS
<1>1. next \in 1..NB /\ next' = next + 1 /\ raw' = raw /\ adapters' = adapters
    BY DEF LoadInv, LoadEntry
<1>2. CASE raw[next] = Null /\ UNCHANGED <<loaded, phase>>
    BY <1>1, <1>2, NBAssumption DEF LoadInv
<1>3. CASE /\ raw[next] # Null
           /\ HasTransport(raw[next])
           /\ loaded' = [n \in DOMAIN loaded \cup {next} |->
                            IF n = next THEN raw[next] ELSE loaded[n]]
           /\ UNCHANGED phase
    <2>1. DOMAIN loaded' = DOMAIN loaded \cup {next}
        BY <1>3
    <2>2. \A n \in DOMAIN loaded' : loaded'[n] = raw[n] /\ raw[n] # Null
        BY <1>3, <2>1 DEF LoadInv
    <2>3. phase' # "failed" =>
             \A n \in 1..next' - 1 :
                 raw'[n] # Null => n \in DOMAIN loaded' /\ HasTransport(raw'[n])
        BY <1>1, <1>3, <2>1, NBAssumption DEF LoadInv
    <2>4. phase' # "built"
        BY <1>3 DEF LoadEntry
    <2> QED
        BY <1>1, <1>3, <2>1, <2>2, <2>3, <2>4, NBAssumption DEF LoadInv
<1>4. CASE /\ raw[next] # Null
           /\ ~HasTransport(raw[next])
           /\ phase' = "failed"
           /\ UNCHANGED loaded
    BY <1>1, <1>4, NBAssumption DEF LoadInv
<1> QED
    BY <1>2, <1>3, <1>4 DEF LoadEntry

\* The end of the loop preserves the invariant: every entry has been seen,
\* and the adapters are the enabled loaded entries.
LEMMA ConstructInv == LoadInv /\ Construct => LoadInv'
BY NBAssumption DEF LoadInv, Construct

\* A stuttering step changes nothing.
LEMMA StutterInv == LoadInv /\ UNCHANGED vars => LoadInv'
BY DEF LoadInv, vars

\* LoadInv holds in every reachable state of the loader.
THEOREM LoadInvHolds == Spec => []LoadInv
<1>1. Init => LoadInv
    BY InitLoadInv
<1>2. LoadInv /\ [Next]_vars => LoadInv'
    BY LoadEntryInv, ConstructInv, StutterInv DEF Next
<1> QED
    BY <1>1, <1>2, PTL DEF Spec

\* The load is all or nothing, for any number of backend entries: a built
\* gateway has validated every mapping entry and has an adapter for exactly
\* the enabled ones (from_dict's loop, validate_transport, Gateway.__init__).
THEOREM LoadAllOrNothingHolds == Spec => []LoadAllOrNothing
<1>1. LoadInv => LoadAllOrNothing
    <2> SUFFICES ASSUME LoadInv, phase = "built", NEW n \in 1..NB, raw[n] # Null
                 PROVE HasTransport(raw[n]) /\ (n \in adapters <=> raw[n].enabled)
        BY DEF LoadAllOrNothing
    <2>1. n \in DOMAIN loaded /\ HasTransport(raw[n]) /\ loaded[n] = raw[n]
        BY NBAssumption DEF LoadInv
    <2> QED
        BY <2>1 DEF LoadInv
<1> QED
    BY <1>1, LoadInvHolds, PTL
=============================================================================
