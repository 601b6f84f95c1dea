SPECIFICATION McpSpec
CONSTANTS
    n1 = n1
    n2 = n2
    c1 = c1
    c2 = c2
    Names = {n1, n2}
    Contexts = {c1, c2}
    Ids = {1, 2}
    Menus <- MCMenus
    Builds = {1, 2}
    FirstName = n1
    FirstContext = c1
    Unmanaged = {}
    MaxPending = 3
    MaxEventWaits = 1
    QueueCap = 2
    MaxTicket = 3
    MaxCancel = 1
    MaxFault = 1
INVARIANTS SessionKept TruthfulOutcome RanOnce CursorsBelong NothingStuck
CHECK_DEADLOCK FALSE
