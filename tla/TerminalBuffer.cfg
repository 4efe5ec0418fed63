SPECIFICATION Spec
CONSTANTS
    WIDTH = 3
    HEIGHT = 2
    BUFFER_LIMIT = 3
    TabSize = 2
    Chars = {"a"}
    Counts = {2}
INVARIANTS
    BufferInBounds
