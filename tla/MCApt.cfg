SPECIFICATION Spec
CONSTANTS
    Expands = TRUE
    Newest = 2
    QueueCap = 2
    LockTries = 2
    MaxEvents = 4
    Events = {"ask", "search", "close", "shell", "mirror", "update", "parse", "add", "remove", "pin", "version", "install", "reconcile", "cancel", "candidate", "restart", "fail", "lock", "store", "list"}
INVARIANTS ReconcileHeals AccountedFor
PROPERTIES CloseEndsClean ListFollowsInstall
CHECK_DEADLOCK FALSE
