\* Safety and liveness of the stdio adapter under two concurrent clients.
CONSTANTS
    c1 = c1
    c2 = c2
    Clients <- MCClients
    MaxReq = 2
    MaxStarts = 2
    MaxTime = 1
    IdleTimeout = 0
SPECIFICATION Spec
INVARIANTS
    TypeOK
    RepliesCorrelated
    CacheHoldsToolsReply
    NoOrphanChild
    NoChildAfterShutdown
    IInv
PROPERTIES
    RequestsComplete
    ImplementsLifecycle
