SPECIFICATION FairSpec
CONSTANTS
    parent = parent
    child = child
    leaf = leaf
    guest = guest
    Workflows <- Visit
    Temporary = {guest}
    Outside = outside
    Entries = {guest}
    Calls <- VisitCalls
    MayFail = {guest, child}
    Catching = {}
    Pool = {t1, t2}
    Nobody = nobody
    MaxIds = 2
    MaxAsks = 0
    Garbage = {FALSE}
PROPERTIES
    ErrorsComeBack
