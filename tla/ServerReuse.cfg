SPECIFICATION Spec
CONSTANTS
    s_fd_num = 2
    FirstFd = 1
    OpenMax = 5
    max_fds_num = 5
    Settings <- ReuseSettings
    MaxConns <- ReuseConns
    MaxSends = 2
INVARIANTS
    ReadyFdValid
CHECK_DEADLOCK FALSE
