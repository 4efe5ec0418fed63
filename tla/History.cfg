SPECIFICATION Spec
CONSTANTS
    Terminals = {0, 1}
    MAXHIST = 1
    BUFFER_LIMIT = 2
    Chars = {"a"}
    Stacks = {s1, s2}
    Handlers = {h1, h2}
    Active = {0}
    MaxNum = 3
    MaxTyped = 2
INVARIANTS
    IndexesInRange
    RingHoldsLast
    
    
SYMMETRY Symmetry
