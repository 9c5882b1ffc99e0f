SPECIFICATION FairSpec
CONSTANTS
    max_fds_num = 6
    Settings <- HandlerSettings
INVARIANTS
    ScanSafe
PROPERTIES
    Multiplexes
    Visited
