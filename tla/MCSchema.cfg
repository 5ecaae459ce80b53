CONSTANTS
    Callers = {g1}
    NoCaller = NoCaller
    Backends = {"sqlite"}
    MaxCrashes = 1
SPECIFICATION BootSpec
CHECK_DEADLOCK FALSE
INVARIANTS
    AppliedIsBuilt
