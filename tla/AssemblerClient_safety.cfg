SPECIFICATION Spec
CONSTANTS
    Requests = {r1, r2}
    Answers = {a1}
    Conns = {c1, c2, c3, c4}
    NoRequest = NoRequest
    NoConn = NoConn
    Oversized = {}
    MaxCrashes = 2
    Interrupts = FALSE
SYMMETRY Symmetry
INVARIANTS TypeOK OwnReply RunBound
PROPERTIES VerdictIsFinal KeepsPromise
CHECK_DEADLOCK FALSE
