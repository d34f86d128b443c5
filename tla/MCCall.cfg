SPECIFICATION FairSpec
CONSTANTS
    Layouts <- CallLayouts
    UserIds = {0, 1, 2, 3}
    Puts <- MCPuts
    Handler = handler
    Workers = {}
    Kinds = {"Status"}
    MaxRequests = 2
    MaxSubs = 2
    AnswersPerSub = 1
PROPERTIES
    IsCall
