SPECIFICATION Spec
CONSTANTS
    MaxObj = 3
    MaxCap = 4
    NumSlots = 3
    MaxTime = 1
    MaxQueue = 1
    RegionLen = 2
    CreatableKinds = {"Endpoint", "MemRegion"}
    RightsArgs <- MCRightsArgs
    ExpiryArgs <- MCExpiryArgs
    Messages = {"m"}
    Bytes = {0, 1}
    RunningArgs = {TRUE, FALSE}
    Batches <- MCBatches
PROPERTIES EffectsNeedAuthority BatchLastWriteWins
