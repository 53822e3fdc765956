SPECIFICATION LiveSpec
CONSTANTS
    MostLetters = 3
    HitAge = 3
    Machines <- MCMachines
INVARIANT NeverOutdated
 
CHECK_DEADLOCK FALSE
