SPECIFICATION LookupSafe
CONSTANTS
    Credentials = {anonymous, token}
    Refusals <- MCRefusals
    MinWait = 1
    Horizon = 3
    Happenings = {"refuse", "fail", "rotate", "publish", "withdraw", "row", "catalog"}
    MaxHappenings = 2
    Requesters = {job, add}
    Tags <- MCTags
    Rows = {"v1", "v3rc"}
    Rank <- MCRank
    Pre = {"v3rc", "pseudo"}
    Text = {"weekly"}
    Legal = {"v1", "v2", "v3rc", "v4+i", "weekly", "pseudo"}
    Incompatible = {"v4+i"}
    Legacy = {"v1"}
    Retracts <- MCRetracts
    Pseudo = "pseudo"
    Defs <- MCDefs
    Kind <- MCKind
    Filtered <- MCFiltered
    Prefixed <- MCPrefixed
    Lists <- MCLists
    PageSize = 2
    PageCap = 2
INVARIANTS PickIsLatest OfferFits
PROPERTIES SentUnheld
SYMMETRY Symmetry
CHECK_DEADLOCK FALSE
