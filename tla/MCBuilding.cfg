SPECIFICATION Spec
CONSTANTS
    s1 = s1
    s2 = s2
    Names <- MCNames
    Puts = {"", "data", "other"}
    Objects = {1, 2, 3, 4}
    Sessions = {s1, s2}
    Parts <- MCParts
    Inputs <- MCInputs
    Shown <- MCShown
    Requests <- MCRequests
    Types <- MCTypes
    Stock <- MCStock
    MaxEdits = 3
    MaxChecks = 2
SYMMETRY Symmetry
INVARIANTS TypeOK StockSound RoundTrip
PROPERTY FirstCheckFresh
CHECK_DEADLOCK FALSE
