SPECIFICATION Spec
CONSTANTS
    Threads = {t1, t2}
    NoThread = NoThread
    PageSize = 2
    Initial = 0
    MaxPages = 2
    UseMmap = FALSE
    Block = {1, 2, 3}
INVARIANT AccessInside
INVARIANT GrantsDisjoint
INVARIANT LockHeldInside
