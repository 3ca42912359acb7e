------------------------------- MODULE CliMain -------------------------------
(***************************************************************************)
(* The gateway process as cli.main runs it: the configuration is loaded   *)
(* (ConfigLoad), the Gateway built from it is run with                     *)
(* loop.run_until_complete(gateway.run()), and SIGINT / SIGTERM end it     *)
(* through signal_handler, which calls loop.stop, and the finally clause,  *)
(* which runs loop.run_until_complete(gateway.stop()) and loop.close().    *)
(*                                                                         *)
(* loop.stop does not cancel anything: run_until_complete then raises      *)
(* RuntimeError because gateway.run() has not completed, so its own        *)
(* finally (runner.cleanup, which would close the listening socket and     *)
(* wait for the handlers) never runs.  While the finally's                 *)
(* run_until_complete runs the loop, every handler that is ready runs as  *)
(* well, before and after the step of Gateway.stop, until the loop stops   *)
(* at the end of the iteration in which stop() has finished.               *)
(*                                                                         *)
(* A backend is a stdio adapter or an HTTP one (ConfigLoad's IsHttp);      *)
(* what matters here is which backends have a live child.  The stdio       *)
(* handshake and request do blocking pipe I/O (StdioBackend), so a start() *)
(* or a send_request on a stdio backend is one step of its handler.        *)
(***************************************************************************)
EXTENDS ConfigLoad, Integers

CONSTANT Clients    \* HTTP requests to /mcp/<name> in flight around a signal

VARIABLES
    stage,      \* where main is: "main", "load", "serve", "finally", "exit"
    cfgArg,     \* args.config: "none", "missing" (no such file) or "file"
    loop,       \* the event loop: "idle", "running", "stopping", "closed"
    gwRunning,  \* Gateway._running
    alive,      \* the backends whose child process is alive
    pc,         \* each handler: "idle", "body" (awaiting the body), "done"
    tgt,        \* the backend each handler's request names
    signalled,  \* signal_handler has run
    stopped,    \* Gateway.stop has run
    exc,        \* the exception main is propagating: "none" or a name
    status      \* the exit status of the process, -1 while it runs

cliVars == <<stage, cfgArg, loop, gwRunning, alive, pc, tgt, signalled,
             stopped, exc, status>>
allVars == <<vars, cliVars>>

\* The loop runs callbacks while it runs and during the iteration in which
\* loop.stop was called.
Active == {"running", "stopping"}

-----------------------------------------------------------------------------
(* _start_stdio, one step because its pipe I/O blocks the loop: a live     *)
(* child is reused; else a child is spawned if command_list is non-empty   *)
(* and Popen succeeds; else start() returns False.  Success sends the      *)
(* handler to nxt.                                                          *)
StartStdio(c, n, nxt) ==
    \/ /\ n \in alive
       /\ pc' = [pc EXCEPT ![c] = nxt]
       /\ UNCHANGED alive
    \/ /\ n \notin alive
       /\ CommandList(loaded[n])
       /\ alive' = alive \cup {n}
       /\ pc' = [pc EXCEPT ![c] = nxt]
    \/ /\ n \notin alive
       /\ pc' = [pc EXCEPT ![c] = "done"]
       /\ UNCHANGED alive

(* Gateway._handle_mcp for a configured backend: backend.start(), then     *)
(* await the body; False from start() is a 503.  An HTTP start() spawns    *)
(* nothing.                                                                 *)
HandleMcp(c) ==
    /\ loop \in Active
    /\ pc[c] = "idle"
    /\ \E n \in adapters :
          /\ tgt' = [tgt EXCEPT ![c] = n]
          /\ IF IsHttp(loaded[n])
             THEN /\ pc' \in {[pc EXCEPT ![c] = "body"],
                              [pc EXCEPT ![c] = "done"]}
                  /\ UNCHANGED alive
             ELSE StartStdio(c, n, "body")
    /\ UNCHANGED <<vars, stage, cfgArg, loop, gwRunning, signalled, stopped,
                   exc, status>>

(* The body has arrived: a parse error, the cached tools/list, a request  *)
(* to a live child or to an HTTP backend end the handler; send_request on *)
(* a stdio backend with no live child starts one (_send_stdio_request).   *)
ReadBody(c) ==
    /\ loop \in Active
    /\ pc[c] = "body"
    /\ pc' = [pc EXCEPT ![c] = "done"]
    /\ \/ UNCHANGED alive
       \/ /\ ~IsHttp(loaded[tgt[c]])
          /\ tgt[c] \notin alive
          /\ CommandList(loaded[tgt[c]])
          /\ alive' = alive \cup {tgt[c]}
    /\ UNCHANGED <<vars, stage, cfgArg, loop, gwRunning, tgt, signalled,
                   stopped, exc, status>>

\* One pass of Gateway._idle_checker (while self._running) that finds
\* backend n idle and stops it; or its child exits on its own.
ChildGone(n) ==
    /\ loop \in Active
    /\ n \in alive
    /\ alive' = alive \ {n}
    /\ UNCHANGED <<vars, stage, cfgArg, loop, gwRunning, pc, tgt, signalled,
                   stopped, exc, status>>

-----------------------------------------------------------------------------
(* main up to the load: a --config that does not exist prints an error    *)
(* and returns 1; without --config GatewayConfig() has no backends and    *)
(* the gateway is run at once (on_startup: Gateway.start).                 *)
ReadArgs ==
    /\ stage = "main"
    /\ \/ /\ cfgArg = "missing"
          /\ stage' = "exit"
          /\ status' = 1
          /\ UNCHANGED <<loop, gwRunning>>
       \/ /\ cfgArg = "none"
          /\ stage' = "serve"
          /\ loop' = "running"
          /\ gwRunning' = TRUE
          /\ UNCHANGED status
       \/ /\ cfgArg = "file"
          /\ stage' = "load"
          /\ UNCHANGED <<loop, gwRunning, status>>
    /\ UNCHANGED <<vars, cfgArg, alive, pc, tgt, signalled, stopped, exc>>

\* GatewayConfig.from_yaml: one iteration of from_dict's loop.
Load ==
    /\ stage = "load"
    /\ LoadEntry
    /\ UNCHANGED cliVars

(* A ValidationError out of from_yaml is not caught: the interpreter       *)
(* prints it and exits with status 1.                                      *)
LoadFailed ==
    /\ stage = "load"
    /\ phase = "failed"
    /\ stage' = "exit"
    /\ exc' = "ValidationError"
    /\ status' = 1
    /\ UNCHANGED <<vars, cfgArg, loop, gwRunning, alive, pc, tgt, signalled,
                   stopped>>

(* The loaded config is built into a Gateway, the signal handlers are     *)
(* installed and run_until_complete(gateway.run()) starts the loop.        *)
Serve ==
    /\ stage = "load"
    /\ Construct
    /\ stage' = "serve"
    /\ loop' = "running"
    /\ gwRunning' = TRUE
    /\ UNCHANGED <<cfgArg, alive, pc, tgt, signalled, stopped, exc, status>>

\* signal_handler: loop.call_soon_threadsafe(loop.stop).
Signal ==
    /\ stage = "serve"
    /\ loop = "running"
    /\ ~signalled
    /\ signalled' = TRUE
    /\ loop' = "stopping"
    /\ UNCHANGED <<vars, stage, cfgArg, gwRunning, alive, pc, tgt, stopped,
                   exc, status>>

(* The loop stopped before gateway.run() completed, so run_until_complete  *)
(* raises RuntimeError, which 'except KeyboardInterrupt' does not catch;   *)
(* the finally clause runs the loop again on gateway.stop().               *)
RunInterrupted ==
    /\ stage = "serve"
    /\ loop = "stopping"
    /\ stage' = "finally"
    /\ exc' = "RuntimeError"
    /\ loop' = "running"
    /\ UNCHANGED <<vars, cfgArg, gwRunning, alive, pc, tgt, signalled,
                   stopped, status>>

\* Mutant of FinallyStop: stop() waits for the handlers in flight to finish.
FinallyStop_WaitsForHandlers ==
    /\ \A c \in Clients : pc[c] # "body"
    /\ stage = "finally"
    /\ loop = "running"
    /\ ~stopped
    /\ gwRunning' = FALSE
    /\ alive' = alive \ adapters
    /\ stopped' = TRUE
    /\ loop' = "stopping"
    /\ UNCHANGED <<vars, stage, cfgArg, pc, tgt, signalled, exc, status>>

(* Gateway.stop, the first step of the finally's loop run: _running =      *)
(* False and every backend stopped, with no await that yields.  Its        *)
(* completion stops the loop at the end of the next iteration.             *)
FinallyStop ==
    /\ stage = "finally"
    /\ loop = "running"
    /\ ~stopped
    /\ gwRunning' = FALSE
    /\ alive' = alive \ adapters
    /\ stopped' = TRUE
    /\ loop' = "stopping"
    /\ UNCHANGED <<vars, stage, cfgArg, pc, tgt, signalled, exc, status>>

(* run_until_complete returns, loop.close(), and the RuntimeError leaves   *)
(* main: the process exits with status 1 (0 only if nothing propagates).   *)
Close ==
    /\ stage = "finally"
    /\ stopped
    /\ loop = "stopping"
    /\ loop' = "closed"
    /\ stage' = "exit"
    /\ status' = IF exc = "none" THEN 0 ELSE 1
    /\ UNCHANGED <<vars, cfgArg, gwRunning, alive, pc, tgt, signalled,
                   stopped, exc>>

-----------------------------------------------------------------------------
CliInit ==
    /\ Init
    /\ stage = "main"
    /\ cfgArg \in {"none", "missing", "file"}
    /\ loop = "idle"
    /\ gwRunning = FALSE
    /\ alive = {}
    /\ pc = [c \in Clients |-> "idle"]
    /\ tgt = [c \in Clients |-> 1]
    /\ signalled = FALSE
    /\ stopped = FALSE
    /\ exc = "none"
    /\ status = -1

CliNext ==
    \/ ReadArgs
    \/ Load
    \/ LoadFailed
    \/ Serve
    \/ \E c \in Clients : HandleMcp(c) \/ ReadBody(c)
    \/ \E n \in 1..NB : ChildGone(n)
    \/ Signal
    \/ RunInterrupted
    \/ FinallyStop
    \/ Close

(* Once signalled the loop runs its own callbacks: run_until_complete     *)
(* returns and the finally's steps are taken.  Clients, children and the  *)
(* idle checker are not assumed to act.                                    *)
CliSpec ==
    /\ CliInit /\ [][CliNext]_allVars
    /\ WF_allVars(RunInterrupted)
    /\ WF_allVars(FinallyStop)
    /\ WF_allVars(Close)

-----------------------------------------------------------------------------
(* SIGINT / SIGTERM end the process: after a signal, main always reaches  *)
(* its exit, whatever the handlers in flight do (none of them is waited    *)
(* for).                                                                   *)
ShutdownCompletes == signalled ~> (stage = "exit")

(* The spec (sections 3 and 7): shutdown stops every adapter and its       *)
(* children get SIGTERM, so no child outlives the gateway process.        *)
(* Checked to fail: a handler that runs in the finally's loop run after    *)
(* Gateway.stop starts a new child, which is alive when the process exits. *)
NoChildAtExit == stage = "exit" => alive = {}

=============================================================================
