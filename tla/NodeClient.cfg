SPECIFICATION FairSpec
CONSTANTS
    Calls = {c1, c2, c3}
    Answers = {a1}
    Handshake = Handshake
    NoRequest = NoRequest
    OneShot = FALSE
    Failures = TRUE
INVARIANTS TypeOK OwnReply NoLostWakeup
PROPERTIES EndSettles
CHECK_DEADLOCK FALSE
