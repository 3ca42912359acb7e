----------------------------- MODULE ConfigLoad -----------------------------
(***************************************************************************)
(* Loading the backends section (GatewayConfig.from_dict, config.py) and   *)
(* building the adapters from it (Gateway.__init__, gateway.py): the loop  *)
(* over the entries, BackendConfig's transport check, and the two places   *)
(* that decide a backend's transport afterwards, transport_type (reported  *)
(* by gateway_list_servers) and MCPBackend.is_http / start() (what the     *)
(* adapter speaks).                                                        *)
(*                                                                         *)
(* Backends are 1..NB in the order of the YAML mapping.  An entry is Null  *)
(* (a YAML value that is not a mapping) or the fields that matter here,    *)
(* after environment expansion (EnvExpansion): command None, "", blank or  *)
(* a command line; http_url None, "", a URL, or a URL ending in "/sse".    *)
(***************************************************************************)
EXTENDS Naturals

CONSTANT NB     \* entries in the backends (or servers) mapping

ASSUME NBAssumption == NB \in Nat

Cmds == {"none", "empty", "blank", "cmd"}
Urls == {"none", "empty", "http", "sse"}
Entries == [command : Cmds, http_url : Urls, enabled : BOOLEAN]
\* A YAML value that is not a mapping (None, a string, a list).
Null == [kind |-> "null"]

\* validate_transport: has_command and has_http test "is not None".
HasTransport(e) == e.command # "none" \/ e.http_url # "none"

\* transport_type: "if self.command" and "if self.http_url and ..." test
\* truthiness, so an empty string counts as absent.
TransportType(e) ==
    IF e.command \in {"blank", "cmd"} THEN "stdio"
    ELSE IF e.http_url = "sse" THEN "sse"
    ELSE "http"

\* command_list: shlex.split of a blank command is [], which start() takes
\* for "No command configured".
CommandList(e) == e.command = "cmd"

\* MCPBackend.is_http: http_url is not None.
IsHttp(e) == e.http_url # "none"

\* The transport the adapter speaks: start() goes to _init_http_session
\* when is_http, which picks SSE for a truthy URL ending in "/sse", and to
\* _start_stdio otherwise.
UsedTransport(e) ==
    IF IsHttp(e) THEN IF e.http_url = "sse" THEN "sse" ELSE "http"
    ELSE "stdio"

-----------------------------------------------------------------------------
VARIABLES
    raw,       \* the parsed YAML backends mapping
    next,      \* the entry the for loop of from_dict is at
    loaded,    \* the BackendConfigs built so far, by entry
    phase,     \* "loading", "failed" (a ValidationError escaped) or "built"
    adapters   \* the entries Gateway.__init__ made an MCPBackend for

vars == <<raw, next, loaded, phase, adapters>>

Init ==
    /\ raw \in [1..NB -> Entries \cup {Null}]
    /\ next = 1
    /\ loaded = [n \in {} |-> Null]
    /\ phase = "loading"
    /\ adapters = {}

\* Mutant of LoadEntry: an entry that fails validation is skipped instead
\* of failing the load.
LoadEntry_SkipInvalid ==
    /\ phase = "loading"
    /\ next <= NB
    /\ next' = next + 1
    /\ loaded' = IF raw[next] # Null /\ HasTransport(raw[next])
                 THEN [n \in DOMAIN loaded \cup {next} |->
                          IF n = next THEN raw[next] ELSE loaded[n]]
                 ELSE loaded
    /\ UNCHANGED <<raw, phase, adapters>>

(* One iteration of the loop: an entry that is not a mapping is skipped;  *)
(* any other is passed to BackendConfig as keywords, whose model          *)
(* validator raises when neither transport is set, and the error ends the *)
(* load.                                                                   *)
LoadEntry ==
    /\ phase = "loading"
    /\ next <= NB
    /\ next' = next + 1
    /\ \/ /\ raw[next] = Null
          /\ UNCHANGED <<loaded, phase>>
       \/ /\ raw[next] # Null
          /\ HasTransport(raw[next])
          /\ loaded' = [n \in DOMAIN loaded \cup {next} |->
                           IF n = next THEN raw[next] ELSE loaded[n]]
          /\ UNCHANGED phase
       \/ /\ raw[next] # Null
          /\ ~HasTransport(raw[next])
          /\ phase' = "failed"
          /\ UNCHANGED loaded
    /\ UNCHANGED <<raw, adapters>>

(* The loop is over: the GatewayConfig constructor, then Gateway.__init__ *)
(* makes one MCPBackend per backend that get_enabled_backends returns.    *)
Construct ==
    /\ phase = "loading"
    /\ next > NB
    /\ adapters' = {n \in DOMAIN loaded : loaded[n].enabled}
    /\ phase' = "built"
    /\ UNCHANGED <<raw, next, loaded>>

Next == LoadEntry \/ Construct

Spec == Init /\ [][Next]_vars

-----------------------------------------------------------------------------
(* The load is all or nothing: a gateway is built only when every mapping *)
(* entry has a transport, and then with an adapter for exactly the        *)
(* enabled ones.                                                           *)
LoadAllOrNothing ==
    phase = "built" =>
        \A n \in 1..NB :
            raw[n] # Null =>
                /\ HasTransport(raw[n])
                /\ (n \in adapters <=> raw[n].enabled)

(* The inductive form of LoadAllOrNothing: the loop has loaded, as they    *)
(* are, exactly the mapping entries before "next", and each of them had a  *)
(* transport unless the load failed; a built gateway has run the whole     *)
(* loop and holds the enabled ones.                                        *)
LoadInv ==
    /\ raw \in [1..NB -> Entries \cup {Null}]
    /\ next \in 1..NB + 1
    /\ phase \in {"loading", "failed", "built"}
    /\ DOMAIN loaded \subseteq 1..next - 1
    /\ \A n \in DOMAIN loaded : loaded[n] = raw[n] /\ raw[n] # Null
    /\ phase # "failed" =>
          \A n \in 1..next - 1 :
              raw[n] # Null => n \in DOMAIN loaded /\ HasTransport(raw[n])
    /\ phase = "built" =>
          /\ next = NB + 1
          /\ adapters = {n \in DOMAIN loaded : loaded[n].enabled}

(* The spec (sections 3 and 10): exactly one of command and http_url is   *)
(* set on every backend, enforced at construction, and the transport      *)
(* transport_type reports is the one the backend uses.  Checked to fail:  *)
(* a backend with both is accepted, reported as stdio and spoken to over  *)
(* HTTP.                                                                   *)
ExactlyOneTransport ==
    phase = "built" =>
        \A n \in adapters :
            /\ (raw[n].command # "none") # (raw[n].http_url # "none")
            /\ TransportType(raw[n]) = UsedTransport(raw[n])
=============================================================================
