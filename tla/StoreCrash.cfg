SPECIFICATION Spec
CONSTANTS
    MaxBlocks = 9
    Straddling = {3, 6}
    Faults = {"write"}
    MaxTrouble = 2
    Folders = {"docs"}
    Targets <- MCTargets
    Texts = {"package", "hello"}
    MaxFiles = 3
INVARIANTS FsTypeOK StoredOnce
PROPERTIES SavesAreDurable CommittedStays
CHECK_DEADLOCK FALSE
