SPECIFICATION FairSpec
CONSTANTS
    Dials = {d1, d2}
    BadHosts = {d2}
    Scripts <- MCScripts
    AppBytes = 1
    Interrupts = TRUE
    Clients = {c1}
    NoClient = NoClient
    Paths = {p1, p2}
    NoPath = NoPath
    Envs <- MCEnvs
    Installed = {"httpx", "requests"}
    MaxChanges = 1
INVARIANTS TypeOK AppAligned StreamKept ToldApart OnlyTheBroker
 
CHECK_DEADLOCK FALSE
