CONSTANTS
    Models = {m1, m2}
    Threshold = 2
    MaxTries = 2
SPECIFICATION CircuitSpec
CHECK_DEADLOCK FALSE
PROPERTIES
    CircuitRecovers
