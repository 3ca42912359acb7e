CONSTANTS
    NB = 3
    MaxTools = 2
    Limits <- MCZeroLimit
SPECIFICATION Spec
INVARIANTS SearchAsSpecified
