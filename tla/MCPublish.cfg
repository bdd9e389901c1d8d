SPECIFICATION Spec
CONSTANTS
    NumVersions = 3
    Bins = {"b", "c"}
    Declares <- MCDeclares
    KeepVersions = 1
    MaxEvents = 4
INVARIANTS RecordedIsWhole PathRuns
PROPERTIES RecordFollowsPath DoneIsInstalled Converges
CHECK_DEADLOCK FALSE
