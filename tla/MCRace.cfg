SPECIFICATION Spec
CONSTANTS
    Layouts <- AsyncLayouts
    UserIds = {0, 1, 2, 3}
    Puts <- MCPuts
    Handler = handler
    Workers = {worker}
    Kinds = {}
    MaxRequests = 3
    MaxSubs = 3
    AnswersPerSub = 1
INVARIANTS
    StopsOnlyAtEnd
