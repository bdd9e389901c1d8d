SPECIFICATION LinkSafe
CONSTANTS
    v1 = v1
    v2 = v2
    Targets = {v1, v2}
    Sweeps = {"primary"}
    Chances = {"other", "fail", "unread", "crash", "power"}
    MaxChances = 3
INVARIANTS RecordedIsSwept
PROPERTIES LinksFollow
SYMMETRY Symmetry
CHECK_DEADLOCK FALSE
