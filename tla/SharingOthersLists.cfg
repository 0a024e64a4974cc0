SPECIFICATION Spec
CONSTANTS
    u1 = u1
    u2 = u2
    Users = {u1, u2}
    GivenRights <- WriteOrAdmin
    MaxNamespace = 1
    MaxList = 1
    MaxTeam = 1
    MaxShares = 1
PROPERTY OthersKeepLists
CHECK_DEADLOCK FALSE
