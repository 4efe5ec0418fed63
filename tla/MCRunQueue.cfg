SPECIFICATION RQSpec
CONSTANTS
    NumPids = 6
    NumShells = 3
PROPERTIES
    ImplementsTaskList
    NoStarvation
