SPECIFICATION Spec
CONSTANTS
    NumPids = 3
    NumShells = 2
    Statuses = {0, 239}
    Aftermath = FALSE
INVARIANTS
    ExceptionReported
