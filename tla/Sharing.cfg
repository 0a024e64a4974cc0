SPECIFICATION Spec
CONSTANTS
    u1 = u1
    u2 = u2
    Users = {u1, u2}
    GivenRights <- WriteOrAdmin
    MaxNamespace = 2
    MaxList = 1
    MaxTeam = 1
    MaxShares = 2
SYMMETRY Symmetry
INVARIANTS TeamsSound ShownIffReadable
PROPERTIES OnlyAdminsGiveRights  OthersKeepNamespaces
CHECK_DEADLOCK FALSE
