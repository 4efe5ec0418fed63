SPECIFICATION FairSpec
CONSTANTS
    Procs = {p1, p2}
    Dentries <- MCDentries
    Inodes <- MCInodes
    NumDataBlocks = 3
    BLOCK_SIZE = 2
    FILE_ARRAY_SIZE = 4
    BufSize = 2
    MaxPosition = 4
    Jobs <- MCJobs
INVARIANTS
    ProgramsDeliver
    PositionIsRead
PROPERTIES
    RtcReadWaits
    ProgramEnds
CHECK_DEADLOCK FALSE
