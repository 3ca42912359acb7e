-------------------------- MODULE AdapterLifecycle --------------------------
(***************************************************************************)
(* The lifecycle a subprocess backend adapter promises (spec sections 3,   *)
(* 4.1, 4.2 and 4.5), with the data left out: a child is spawned only when *)
(* none is alive and no handshake is under way, and each spawn counts one  *)
(* restart and clears 'initialized'; the handshake that follows is the     *)
(* only step that sets 'initialized'; stop() never interrupts a handshake, *)
(* brings the adapter down and clears 'initialized'; a child may die at    *)
(* any time; and a handshake always ends.                                  *)
(***************************************************************************)
EXTENDS Naturals

VARIABLES
    alive,        \* a child is running
    phase,        \* "handshake" from a spawn until its handshake ends
    initialized,  \* the adapter's initialized flag
    restarts      \* spawns so far

avars == <<alive, phase, initialized, restarts>>

AInit ==
    /\ alive = FALSE
    /\ phase = "idle"
    /\ initialized = FALSE
    /\ restarts = 0

\* start() finds no live child and spawns one.
Spawn ==
    /\ ~alive
    /\ phase = "idle"
    /\ alive' = TRUE
    /\ phase' = "handshake"
    /\ initialized' = FALSE
    /\ restarts' = restarts + 1

\* The initialize reply arrives; the handshake may go on to tools/list.
Initialize ==
    /\ phase = "handshake"
    /\ initialized' = TRUE
    /\ UNCHANGED <<alive, phase, restarts>>

\* The handshake ends, having initialized the adapter or not.
Handshaken ==
    /\ phase = "handshake"
    /\ phase' = "idle"
    /\ initialized' \in {initialized, TRUE}
    /\ UNCHANGED <<alive, restarts>>

\* stop(): the child is terminated and initialized cleared.
Stop ==
    /\ phase = "idle"
    /\ alive' = FALSE
    /\ initialized' = FALSE
    /\ UNCHANGED <<phase, restarts>>

\* The child exits on its own.
Crash ==
    /\ alive
    /\ alive' = FALSE
    /\ UNCHANGED <<phase, initialized, restarts>>

ANext == Spawn \/ Initialize \/ Handshaken \/ Stop \/ Crash

Spec == AInit /\ [][ANext]_avars /\ WF_avars(Handshaken)
=============================================================================
