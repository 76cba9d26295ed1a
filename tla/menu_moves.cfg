SPECIFICATION Spec
CONSTANTS
    None = None
    una = una
    vic = vic
    kim = kim
    lou = lou
    Managers = {una, vic}
    Cooks = {kim, lou}
    Moments <- MCMoments
    Windows <- MCWindows
    Amounts = {0, 1}
    FirstPrices <- MCFirstPrices
    Budgets <- MCBudgets
INVARIANTS
    SavedAgainstWhatWasSeen
    EventsTellTheBoard
PROPERTY
    SoldAsOffered
    SavesAreKept
    CleanUpMovesNoPrice
SYMMETRY Symmetry
CHECK_DEADLOCK FALSE
