SPECIFICATION Spec
CONSTANTS
    NumVersions = 3
    Pin = 2
    MaxAttempts = 2
    MaxEvents = 3
INVARIANTS Recoverable OnlyOwnInstalls
PROPERTIES HandsOff FallbackKept GoodEndsReady Heals
CHECK_DEADLOCK FALSE
