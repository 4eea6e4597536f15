SPECIFICATION Spec
CONSTANTS
    Threads = {t1, t2}
    NoThread = NoThread
    Handles = {h1, h2}
    NoHandle = NoHandle
    Principals = {alice}
    Allowlists <- TwoLists
PROPERTIES GetsAHandle
CHECK_DEADLOCK FALSE
