SPECIFICATION Safe
CONSTANTS
    v1 = v1
    v2 = v2
    Readers = {"inventory"}
    Versions = {v1, v2}
    Answers = {v1, v2, "broken", "plain"}
    Kinds = {"aqua", "pip", "npm"}
    Events = {"timeout", "install", "barrier", "fail", "uninstall", "rewrite", "backend"}
    MaxEvents = 3
INVARIANTS CachedIsTrue DoneStands
SYMMETRY Symmetry
CHECK_DEADLOCK FALSE
