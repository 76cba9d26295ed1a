SPECIFICATION InFrontSpec
CONSTANTS
    order = order
    second = second
    board = board
    beside = beside
    receipt = receipt
    page = page
    Orders = {order, second}
    Boards = {board}
    Receipts = {receipt}
    Pages = {}
    Of <- MCOf
    Reachable = {order}
    Labelled = {}
    Tappers = {board, receipt}
    Pollers = {}
    Coverable = {board}
    MaxEvents = 3
    MaxLost = 0
    MaxPolls = 1
    TicksPerIdleRefresh = 2
INVARIANTS
    CurrentCursorShowsAll
    TextedOnce
PROPERTY
    MovesAsDrawn
