SPECIFICATION Spec
CONSTANTS
    Requests = {r1, r2, r3, r4, bad}
    Handles = {h1, h2, h3}
    NoRequest = NoRequest
    NotAPipe = NotAPipe
    NoHandle = NoHandle
    Unsendable = {bad}
    Interrupts = FALSE
SYMMETRY Symmetry
INVARIANTS TypeOK OwnChannel NoOrphan LateFailsClosed RetiredForCause
CHECK_DEADLOCK FALSE
