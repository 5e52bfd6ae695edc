SPECIFICATION TaskSpec
CONSTANTS
    MaxTasks = 3
    Boot = 2
    Ring3 = {1, 2}
    Armed = {1}
    Budget <- MCBudget
    Controllers = {0, 2}
    MaxGen = 1
INVARIANTS TypeOK BoundedWait
