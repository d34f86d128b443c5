SPECIFICATION Spec
CONSTANTS
    Layouts <- FlowLayouts
    UserIds = {0, 1, 2, 3}
    Puts <- MCPuts
    Handler = handler
    Workers = {}
    Kinds = {"Interrupt", "Error", "Status"}
    MaxRequests = 3
    MaxSubs = 2
    AnswersPerSub = 1
INVARIANTS
    TypeOK
    TablesAgree
    NothingForgotten
    QueuedFit
    StopsOnlyAtEnd
    OneAnswer
    OneOutstanding
PROPERTIES
    TerminalLast
    JoinsWait
    RepliesMatch
