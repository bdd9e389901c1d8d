SPECIFICATION Spec
CONSTANTS
    Names = {"a", "b"}
    Requires <- MCRequires
    Latest = 2
    JobQueueCap = 2
    MaxCalls = 3
    Calls = {"add", "template", "enable", "disable", "version", "pin", "remove", "install", "update", "reconcile", "cancel", "crash"}
INVARIANTS NothingOwnedUnintended EnabledIsInstalled DependenciesEnabled
PROPERTIES TakesEveryDependent QueueDrains
CHECK_DEADLOCK FALSE
