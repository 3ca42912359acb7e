\* Checked to fail: ResponseIdMatches, a claim of the spec the code does not keep.
CONSTANTS
    c1 = c1
    c2 = c2
    Clients <- MCClients
    MaxReq = 2
    MaxStarts = 2
    MaxTime = 1
    IdleTimeout = 0
SPECIFICATION Spec
INVARIANT
    ResponseIdMatches
