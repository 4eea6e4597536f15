SPECIFICATION Spec
CONSTANTS
    Requests = {r1, r2, r3}
    Answers = {}
    Conns = {c1, c2, c3}
    NoRequest = NoRequest
    NoConn = NoConn
    Oversized = {}
    MaxCrashes = 0
    Interrupts = FALSE
INVARIANTS AlwaysRedials
CHECK_DEADLOCK FALSE
