SPECIFICATION FairSpec
CONSTANTS
    a = a
    b = b
    c = c
    Attempts = {a, b, c}
    RewardAttempts <- OneReward
    Workers = {w1, w2}
    NoKey = NoKey
    NoWorker = NoWorker
    MaxAttempts = 2
    MaxOpen = 1
    Rewards = 1
    MaxRemakes = 1
    MaxOrders = 4
INVARIANTS
    AnsweredWithItsOrder
    OvershootBounded
PROPERTIES
    BeatenByOrders
    LateTapReplays
    BookImplemented
    EveryRequestEnds
