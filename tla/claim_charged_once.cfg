SPECIFICATION Spec
CONSTANTS
    NoRow = NoRow
    All = All
    Workers = {w1}
    Requests = {r1}
    Comps = {}
    Total = 2
    Ops <- EveryOp
    NetworkFails = TRUE
SYMMETRY Symmetry
INVARIANT
    CardChargedOnce
CHECK_DEADLOCK FALSE
