SPECIFICATION Spec
CONSTANTS
    NumShells = 2
    MaxNest = 2
    MaxPreempted = 1
INVARIANTS
    
    RegistersRestored
    ResultIsOwn
    
    DevicesReleased
