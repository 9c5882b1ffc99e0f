SPECIFICATION FairSpec
CONSTANTS
    Settings <- MessageSettings
    MessageBytes = 3
    Room = 4
    MaxSeq = 4
    MaxCopies = 1
INVARIANTS
    ReplyStream
    DropsCounted
    NoFalseGap
PROPERTIES
    SendEnds
CHECK_DEADLOCK FALSE
