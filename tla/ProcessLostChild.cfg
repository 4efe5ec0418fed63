SPECIFICATION Spec
CONSTANTS
    NumPids = 3
    NumShells = 2
    Statuses = {0}
    Aftermath = TRUE
PROPERTIES
    SchedulesNewProgram
