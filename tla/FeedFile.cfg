CONSTANTS
    CommandLines <- ServerFiles
    MIN_PAYLOAD_SIZE = 2
    DEFAULT_PAYLOAD_SIZE = 4
    MAX_TCP_SIZE = 7
    MAX_DURATION = 3
    MAX_PACKET_NUMBER = 4
    MAX_OPTION = 1024
    UINT32_MAX = 4095
    MIN_PLAYBACK_SIZE = 2
    MAX_PLAYBACK_SIZE = 4
    MPS_DEFAULT = 3
    MPS_MAX_PP = 6
    MPS_MAX_UL = 10
    REPLY_EVERY_DEFAULT = 2
    FirstFd = 3
    max_fds_num = 7
    IGMP_MAX_MEMBERSHIPS = 2
    ExtraApi = TRUE
    PktsDescSize = 6
    WarmupSec = 1
    TEST_START_WARMUP_NUM = 3
    TEST_END_COOLDOWN_NUM = 2
SPECIFICATION Spec
CHECK_DEADLOCK FALSE
INVARIANT EndpointsServed
