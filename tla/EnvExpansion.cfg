\* Inputs of up to four pieces, every environment over two names.
CONSTANTS
    MaxSegs = 4
SPECIFICATION Spec
INVARIANTS ExpansionAsSpecified
