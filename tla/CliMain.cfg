\* The gateway process (cli.main) on a configuration of two entries, with
\* two requests in flight around the signal.
CONSTANTS
    NB = 2
    Clients = {c1, c2}
SPECIFICATION CliSpec
INVARIANTS
    LoadAllOrNothing
    LoadInv
PROPERTIES
    ShutdownCompletes
\* main returns: the process stops at its exit.
CHECK_DEADLOCK FALSE
