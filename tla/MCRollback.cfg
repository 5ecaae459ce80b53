CONSTANTS
    MaxRun = 2
    MaxWrites = 2
SPECIFICATION RunSpec
CHECK_DEADLOCK FALSE
PROPERTIES
    RollbackReverts
