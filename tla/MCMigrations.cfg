SPECIFICATION MSpec
CONSTANTS
    old = old
    new = new
    operator = operator
    Procs = {old, new, operator}
    Releases <- MCReleases
    Operators = {operator}
    Adopters = {operator}
    Objects <- MCObjects
    Anchor = {"items"}
    Kinds = {"control", "runtime"}
    MaxKills = 1
INVARIANTS
    HistoryIsSchema
PROPERTIES
    ForwardOnly
    ComesUp
CHECK_DEADLOCK FALSE
