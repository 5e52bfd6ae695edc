SPECIFICATION CrashingSpec
CONSTANTS
    MaxTasks = 4
    Boot = 4
    Ring3 = {1, 2, 3}
    Armed = {}
    Budget <- MCBudget
    Controllers = {}
    MaxGen = 0
PROPERTY CrashLoopEnds
