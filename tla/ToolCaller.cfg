SPECIFICATION Spec
CONSTANTS
    Threads = {t1, t2}
    Tools = {k1, k2}
    Users = {alice, bob}
    Allowlist = {alice}
    NoUser = NoUser
    Blank = Blank
    Bodies <- MCBodies
    StatusCodes = {200, 401, 404}
SYMMETRY Symmetry
INVARIANTS TypeOK OwnPrincipal 
CHECK_DEADLOCK FALSE
