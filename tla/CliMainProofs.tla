---------------------------- MODULE CliMainProofs ----------------------------
(***************************************************************************)
(* Proofs about the gateway process as cli.main runs it (CliMain), for     *)
(* every number of backend entries and of requests in flight.              *)
(*                                                                         *)
(* main drives the loader exactly as ConfigLoad describes it: the        *)
(* configuration variables change only by an iteration of from_dict's loop *)
(* or by Gateway.__init__, so CliSpec implements ConfigLoad's Spec and the *)
(* loader's theorems (ConfigLoadProofs) hold of the whole process.         *)
(***************************************************************************)
EXTENDS CliMain, ConfigLoadProofs, TLAPS

-----------------------------------------------------------------------------
(* The process implements the loader. *)

\* main starts where the loader starts.
LEMMA CliInitLoad == CliInit => Init
BY DEF CliInit

\* Every step of main is a step of the loader or leaves its variables alone.
LEMMA CliStepLoad == [CliNext]_allVars => [Next]_vars
<1> SUFFICES ASSUME [CliNext]_allVars PROVE [Next]_vars
  OBVIOUS
<1>1. CASE Load
  BY <1>1 DEF Load, Next
<1>2. CASE Serve
  BY <1>2 DEF Serve, Next
<1>3. CASE \E c \in Clients : HandleMcp(c) \/ ReadBody(c)
  BY <1>3 DEF HandleMcp, ReadBody
<1>4. CASE \E n \in 1..NB : ChildGone(n)
  BY <1>4 DEF ChildGone
<1>5. CASE ReadArgs \/ LoadFailed \/ Signal \/ RunInterrupted \/ FinallyStop
           \/ Close
  BY <1>5 DEF ReadArgs, LoadFailed, Signal, RunInterrupted, FinallyStop, Close
<1>6. CASE UNCHANGED allVars
  BY <1>6 DEF allVars
<1> QED
  BY <1>1, <1>2, <1>3, <1>4, <1>5, <1>6 DEF CliNext

(* cli.main loads its configuration as ConfigLoad's Spec says: started   *)
(* from ConfigLoad's initial states, every step of the process is an     *)
(* iteration of from_dict's loop, Gateway.__init__, or leaves the loaded *)
(* configuration and the adapters as they are.                            *)
THEOREM CliRefinesLoad == CliSpec => Spec
<1>1. CliInit => Init
  BY CliInitLoad
<1>2. [CliNext]_allVars => [Next]_vars
  BY CliStepLoad
<1> QED
  BY <1>1, <1>2, PTL DEF CliSpec, Spec

(* In every state of the process the loader's invariant holds: the loop  *)
(* has loaded exactly the entries before its cursor, each validated       *)
(* unless the load failed, and a built gateway holds the enabled ones.    *)
THEOREM CliLoadInvHolds == CliSpec => []LoadInv
BY CliRefinesLoad, LoadInvHolds, PTL

(* The load is all or nothing in the running process as well: once main  *)
(* has built the Gateway, every mapping entry passed validate_transport  *)
(* and the adapters are exactly the enabled entries.                      *)
THEOREM CliLoadAllOrNothingHolds == CliSpec => []LoadAllOrNothing
BY CliRefinesLoad, LoadAllOrNothingHolds, PTL

=============================================================================
