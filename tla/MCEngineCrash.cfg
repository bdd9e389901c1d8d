SPECIFICATION Safe
CONSTANTS
    Names = {"a", "b"}
    Requires <- MCRequires
    Latest = 2
    JobQueueCap = 2
    MaxCalls = 4
    Calls = {"enable", "disable", "reconcile", "crash"}
INVARIANTS DisabledHasNothingOnDisk
CHECK_DEADLOCK FALSE
