SPECIFICATION Spec
CONSTANTS
    NItems = 4
    MaxWorkers = 2
    MaxInterrupts = 2
INVARIANTS
    CallComplete
CHECK_DEADLOCK FALSE
