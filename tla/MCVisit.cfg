SPECIFICATION FairSpec
CONSTANTS
    parent = parent
    child = child
    leaf = leaf
    guest = guest
    Workflows <- Visit
    Temporary = {guest}
    Outside = outside
    Entries = {guest, child}
    Calls <- VisitCalls
    MayFail = {guest, child}
    Catching = {}
    Pool = {t1, t2}
    Nobody = nobody
    MaxIds = 3
    MaxAsks = 1
    Garbage = {FALSE, TRUE}
INVARIANTS
    TemporaryInUse
