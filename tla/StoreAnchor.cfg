SPECIFICATION Spec
CONSTANTS
    MaxBlocks = 9
    Straddling = {3, 6}
    Faults = {"read"}
    MaxTrouble = 0
    Folders = {"docs"}
    Targets <- MCTargets
    Texts = {"package"}
    MaxFiles = 3
PROPERTIES AnchorNeverWiped
CHECK_DEADLOCK FALSE
