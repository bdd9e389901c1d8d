SPECIFICATION Spec
CONSTANTS
    MaxJobs = 2
    JobQueueCap = 1
    JobHistory = 1
    TerminalCap = 1
    OtherKinds = {"install"}
    PlanKinds = {"install", "reconcile"}
    Waiters = {w1}
INVARIANTS NoLostWakeup Bounded EndsOnceAndSaysWhy NothingLeftAfterExit
PROPERTIES FirstCauseWins StartsInOrder CallsAnswer ImplementsLifecycle
