SPECIFICATION Spec
CONSTANTS
    NumTasks = 5
    NumShells = 3
    MaxNest = 1
INVARIANTS
    WritesToOwnTerminal
    ImagesSeparate
    
CHECK_DEADLOCK FALSE
