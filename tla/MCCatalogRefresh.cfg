SPECIFICATION Spec
CONSTANTS
    Tools <- MCTools
    Docs <- MCDocs
    Generated <- MCGenerated
    Entries <- MCEntries
    Plausible = {"image1", "image2", "lost", "fresh"}
    Images = {"image1", "image2", "no catalog"}
    Overlays <- MCOverlays
    Require = {"gh", "node"}
    QueueCap = 1
    MaxEvents = 4
    Events = {"fetch", "write", "publish", "overlay", "damage", "restart", "close"}
INVARIANTS ServesGood
PROPERTIES LastGoodStands CatchesUp
CHECK_DEADLOCK FALSE
