SPECIFICATION Safe
CONSTANTS
    Sources = {"npm", "scoped", "pip", "cargo", "go", "manual"}
    Linked = {"npm", "scoped", "pip"}
    Tidy = {"npm", "scoped", "pip", "cargo"}
    Proven = {"npm", "scoped"}
    Shell = {"manual"}
    Conv <- MCConv
    Names = {"main", "old", "new", "other"}
    Ships <- MCShips
    QueueCap = 2
    Events = {"add", "update", "remove", "reconcile", "fail", "crash"}
    MaxEvents = 7
INVARIANTS NothingOutlives
PROPERTIES DoneIsWhole
CHECK_DEADLOCK FALSE
