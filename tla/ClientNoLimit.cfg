SPECIFICATION FairSpec
CONSTANTS
    Settings <- ShortTest
    MaxSkips = 0
    MaxCopies = 1
PROPERTIES
    WaitLimited
CHECK_DEADLOCK FALSE
