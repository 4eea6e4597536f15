SPECIFICATION FairSpec
CONSTANTS
    Requests = {r1, big}
    Answers = {}
    Conns = {c1, c2, c3}
    NoRequest = NoRequest
    NoConn = NoConn
    Oversized = {big}
    MaxCrashes = 1
    Interrupts = TRUE
PROPERTIES CallReturns
CHECK_DEADLOCK FALSE
