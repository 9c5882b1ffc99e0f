SPECIFICATION Spec
CONSTANTS
    Settings <- TwoThreads
    MaxSkips = 0
    MaxCopies = 0
INVARIANTS
    SequenceAssert
CHECK_DEADLOCK FALSE
