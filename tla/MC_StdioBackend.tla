-------------------------- MODULE MC_StdioBackend --------------------------
(***************************************************************************)
(* Model-checking instance of StdioBackend: two concurrent clients of one  *)
(* stdio backend, two requests each, up to two children (one crash or     *)
(* hibernation and the restart after it) and a clock long enough to pass   *)
(* idle_timeout once.                                                      *)
(***************************************************************************)
EXTENDS StdioBackend

CONSTANTS c1, c2

MCClients == {c1, c2}
=============================================================================
