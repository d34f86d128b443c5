SPECIFICATION Spec
CONSTANTS
    s1 = s1
    s2 = s2
    Names = {}
    Puts = {"", "data", "other"}
    Objects = {1, 2, 3, 4}
    Sessions = {s1, s2}
    Parts <- MCParts
    Inputs <- MCInputs
    Shown <- MCShown
    Requests <- MCRequests
    Types <- MCTypes
    Stock <- MCStock
    MaxEdits = 0
    MaxChecks = 3
SYMMETRY Symmetry
PROPERTY ChecksRefresh
CHECK_DEADLOCK FALSE
