SPECIFICATION Spec
CONSTANTS
    NoRow = NoRow
    All = All
    Workers = {w1, w2}
    Requests = {r1}
    Comps = {}
    Total = 2
    Ops <- CounterOps
    NetworkFails = TRUE
SYMMETRY Symmetry
INVARIANTS
    ChargedAtMostOnce
    PaidTwiceOnlyIfVoided
    HoldIffAuthorized
    LogMatchesProvider
PROPERTIES
    FollowsLifecycle
CHECK_DEADLOCK FALSE
