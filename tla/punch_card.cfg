SPECIFICATION Spec
CONSTANTS
    Orders = {o1, o2}
    Workers = {w1, w2}
    NoOrder = NoOrder
    NoWorker = NoWorker
    Points = 1
    Threshold = 1
    ExpiryAge = 1
    RetentionAge = 1
    MaxMembers = 2
    MaxReturns = 1
SYMMETRY Symmetry
INVARIANTS
    SpentWithinEarned
    CheckoutRewardSettled
    EveryDiscountIsPaidFor
PROPERTY
    OnlyActivityRestartsTheClock
CHECK_DEADLOCK FALSE
