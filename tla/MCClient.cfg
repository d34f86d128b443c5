SPECIFICATION FairSpec
CONSTANTS
    Outgoing = {1, 2}
    Incoming = {3}
    Back <- MCBack
    Root <- MCRoot
    Wants <- MCWants
    Ends <- MCEnds
    Habits <- MCHabits
INVARIANTS
    TypeOK
    OpenBooked
    DisconnectionInterrupts
PROPERTIES
    StopReturns
