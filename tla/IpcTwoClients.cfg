SPECIFICATION IpcSpec
CONSTANTS
    MaxTasks = 3
    Boot = 3
    Ring3 = {0, 1, 2}
    Armed = {}
    Budget <- Unsupervised
    Controllers = {}
    MaxGen = 0
    MaxEps = 2
    MaxCaps = 2
    MaxEpGen = 1
    Msgs = {"a"}
    BootCaps <- PairCaps
    Ops <- ManyOps
    Suspendable = {}
    BadPointers = FALSE
INVARIANT CallerKeepsWaiting
