SPECIFICATION FairSpec
CONSTANTS
    NumPids = 4
    NumShells = 2
    Statuses = {1}
    Aftermath = FALSE
INVARIANTS
    IInv
    Coherent
    PidsAccounted
    
    ImagesIntact
    ReturnsChildStatus
PROPERTIES
    NoStarvation
    ExecuteReturns
