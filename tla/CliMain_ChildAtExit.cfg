\* A child spawned by a handler after Gateway.stop outlives the process.
CONSTANTS
    NB = 2
    Clients = {c1, c2}
SPECIFICATION CliSpec
INVARIANT
    NoChildAtExit
CHECK_DEADLOCK FALSE
