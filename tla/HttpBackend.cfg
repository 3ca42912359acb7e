\* Two concurrent handlers on a streamable HTTP or an SSE backend.
CONSTANTS
    c1 = c1
    c2 = c2
    Clients <- MCClients
    MaxReq = 1
    MaxTime = 1
    IdleTimeout = 0
SPECIFICATION Spec
INVARIANTS TypeOK HInv
PROPERTIES HttpRequestsComplete
