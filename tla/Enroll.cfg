SPECIFICATION FairSpec
CONSTANTS
    c1 = c1
    c2 = c2
    c3 = c3
    c4 = c4
    a = a
    b = b
    Callers = {c1, c2, c3, c4}
    Names = {a, b}
    NameOf <- MCNameOf
    Args <- MCArgs
    Ids = {i1, i2}
    NoId = NoId
    SocketOf <- MCSocketOf
    MaxFaults = 1
INVARIANTS TypeOK HandleMatches 
PROPERTIES EnrollsAtLast
