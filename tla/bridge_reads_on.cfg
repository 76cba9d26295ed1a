SPECIFICATION FairSpec
CONSTANTS
    Writers = {w1, w2}
    MaxSeq = 4
    Limit = 2
    Settle = 3
    Lead = 1
    Hold = 1
INVARIANTS
    NothingSkipped
PROPERTY
    EveryEventHandled
