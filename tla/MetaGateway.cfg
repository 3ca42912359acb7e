CONSTANTS
    NB = 3
    MaxTools = 2
    Limits <- MCLimits
SPECIFICATION Spec
INVARIANTS SearchResult SearchInv
