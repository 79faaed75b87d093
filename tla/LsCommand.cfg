SPECIFICATION FairSpec
CONSTANTS
    Hosts = {h1, h2}
    Serial = {h1}
    MayHang = {h1, h2}
    Active = {h1}
    StateFilters = {"any", "running"}
INVARIANTS LsInv ActiveAnswerIsRight
PROPERTIES LsReturns
CHECK_DEADLOCK FALSE
