SPECIFICATION IpcSpec
CONSTANTS
    MaxTasks = 3
    Boot = 3
    Ring3 = {1, 2}
    Armed = {}
    Budget <- Unsupervised
    Controllers = {}
    MaxGen = 1
    MaxEps = 2
    MaxCaps = 2
    MaxEpGen = 2
    Msgs = {"a"}
    BootCaps <- TreeCaps
    Ops <- AuthorityOps
    Suspendable = {1}
    BadPointers = TRUE
PROPERTIES EndpointNameStays AuthorityMovesByGrant NoInheritedAuthority
