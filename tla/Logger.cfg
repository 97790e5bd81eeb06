SPECIFICATION Spec
CONSTANTS
    Junk = {0, 1}
    LOG_CONTENT_MAX_LEN = 2048
    TIME_LEN = 20
    LevelLen <- MCLevelLen
    ErrLen = {0, 22}
    MsgLen = {40, 2018, 2019, 3000}
    TermLen = 44
    Offsets = {0, 1, 3}
    MAX_LINES = 2
    MAX_CALLS = 3
INVARIANTS
    TypeOK
    LogInOrder
    AtOffset
