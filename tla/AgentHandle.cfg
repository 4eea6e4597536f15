SPECIFICATION FairSpec
CONSTANTS
    Threads = {t1, t2, t3}
    NoThread = NoThread
    Handles = {h1, h2}
    NoHandle = NoHandle
    Principals = {alice}
    Allowlists <- TwoLists
INVARIANTS TypeOK  GotOpen
PROPERTIES LockFreed
CHECK_DEADLOCK FALSE
