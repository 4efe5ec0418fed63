SPECIFICATION Spec
CONSTANTS
    NumPids = 3
    NumShells = 2
    Statuses = {0, 239}
    Aftermath = TRUE
INVARIANTS
    TypeOK
    QueueIntact
    NoKernelFault
