SPECIFICATION Spec
CONSTANTS
    MaxObj = 4
    MaxCap = 5
    NumSlots = 3
    MaxTime = 1
    MaxQueue = 0
    RegionLen = 0
    CreatableKinds = {"Task", "GrantRoot"}
    RightsArgs <- MCRightsArgs
    ExpiryArgs <- MCExpiryArgs
    Messages = {}
    Bytes = {0}
    RunningArgs = {}
    Batches <- NoBatches
INVARIANTS TypeOK Bookkeeping AuthorityWithinCreation RevocationReaches
PROPERTIES DerivationNarrows DeadAuthorityStaysDead
