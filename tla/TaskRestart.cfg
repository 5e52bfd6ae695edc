SPECIFICATION TaskSpec
CONSTANTS
    MaxTasks = 3
    Boot = 3
    Ring3 = {1, 2}
    Armed = {}
    Budget <- MCBudget
    Controllers = {}
    MaxGen = 0
INVARIANT RestartReentersEntry
