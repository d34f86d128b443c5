SPECIFICATION FairSpec
CONSTANTS
    parent = parent
    child = child
    leaf = leaf
    guest = guest
    Workflows <- Chain
    Temporary = {}
    Outside = outside
    Entries = {parent}
    Calls <- ChainCalls
    MayFail = {child, leaf}
    Catching = {parent}
    Pool = {t1, t2}
    Nobody = nobody
    MaxIds = 3
    MaxAsks = 1
    Garbage = {FALSE}
INVARIANTS
    TypeOK
    CallersWake
PROPERTIES
    NoReplyIgnored
    EveryCallAnswered
    MessagesEnd
