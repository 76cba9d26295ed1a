SPECIFICATION ApartSpec
CONSTANTS
    NoRow = NoRow
    All = All
    Workers = {w1, w2}
    Requests = {r1, r2}
    Comps = {c1}
    Total = 2
    Ops <- EveryOp
    NetworkFails = TRUE
SYMMETRY Symmetry
ACTION_CONSTRAINT Apart
INVARIANTS
    ButtonsWork
    RefundedIsTrue
    SplitExplainsRevenue
    ColumnMatchesLog
    MoneyIsOnAList
CHECK_DEADLOCK FALSE
