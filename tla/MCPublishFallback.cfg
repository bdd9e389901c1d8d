SPECIFICATION Safe
CONSTANTS
    NumVersions = 3
    Bins = {"b", "c"}
    Declares <- MCDeclares
    KeepVersions = 1
    MaxEvents = 5
PROPERTIES LastWholeKept
CHECK_DEADLOCK FALSE
