SPECIFICATION FairSpec
CONSTANTS
    Orders = {o1, o2}
    Workers = {w1}
    NoOrder = NoOrder
    NoWorker = NoWorker
    Points = 1
    Threshold = 1
    ExpiryAge = 1
    RetentionAge = 2
    MaxMembers = 1
    MaxReturns = 1
PROPERTY
    NoImmortalBalance
CHECK_DEADLOCK FALSE
