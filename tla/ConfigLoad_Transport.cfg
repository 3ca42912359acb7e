\* One backend entry is enough for both transports to be set.
CONSTANTS
    NB = 1
SPECIFICATION Spec
INVARIANTS ExactlyOneTransport
CHECK_DEADLOCK FALSE
