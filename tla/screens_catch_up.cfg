SPECIFICATION BesideSpec
CONSTANTS
    order = order
    second = second
    board = board
    beside = beside
    receipt = receipt
    page = page
    Orders = {order, second}
    Boards = {board, beside}
    Receipts = {}
    Pages = {page}
    Of <- MCOf
    Reachable = {order}
    Labelled = {order}
    Tappers = {board}
    Pollers = {beside, page}
    Coverable = {}
    MaxEvents = 2
    MaxLost = 1
    MaxPolls = 2
    TicksPerIdleRefresh = 2
ACTION_CONSTRAINTS
    Bounds
    DrawnFirst
PROPERTY
    ScreensCatchUp
