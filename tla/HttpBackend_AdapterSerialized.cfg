\* The spec's AdapterSerialized rule, checked to fail on a streamable HTTP backend.
CONSTANTS
    c1 = c1
    c2 = c2
    Clients <- MCClients
    MaxReq = 1
    MaxTime = 1
    IdleTimeout = 0
SPECIFICATION Spec
INVARIANT AdapterSerialized
