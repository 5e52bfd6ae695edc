SPECIFICATION IpcSpec
CONSTANTS
    MaxTasks = 2
    Boot = 2
    Ring3 = {0, 1}
    Armed = {}
    Budget <- Unsupervised
    Controllers = {}
    MaxGen = 0
    MaxEps = 3
    MaxCaps = 2
    MaxEpGen = 1
    Msgs = {"a", "b"}
    BootCaps <- PairCaps
    Ops <- PairOps
    Suspendable = {}
    BadPointers = TRUE
PROPERTY ReplyReachesAWaitingCaller
