SPECIFICATION FairSpec
CONSTANTS
    Requests = {r1, r2, r3}
    Handles = {h1}
    NoRequest = NoRequest
    NotAPipe = NotAPipe
    NoHandle = NoHandle
    Unsendable = {}
    Interrupts = TRUE
PROPERTIES CallEnds
CHECK_DEADLOCK FALSE
