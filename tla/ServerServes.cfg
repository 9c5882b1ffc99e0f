SPECIFICATION FairSpec
CONSTANTS
    s_fd_num = 2
    FirstFd = 1
    OpenMax = 5
    max_fds_num = 5
    Settings <- ServesSettings
    MaxConns <- ServesConns
    MaxSends = 1
INVARIANTS
    UpdateAsserts
    TablesAgree
    NotShared
    ClosedOnce
    MainLast
PROPERTIES
    Served
    ThreadsEnd
CHECK_DEADLOCK FALSE
