SPECIFICATION LiveSpec
CONSTANTS
    CONNECTIONS = 4
    NFDS = 2
    request_buf_size = 1
    BUFFER_MIN_SIZE = 1
    BUFFER_MAX_SIZE = 4
    OK_LEN = 1
    ERROR_LEN = 1
    TX_SIZE = 1
    MAX_RX = 1
    MAX_BACKLOG = 1
    MAX_PEND = 1
    MAX_FAIL = 0
    RequestTypes = {}
INVARIANTS
    ActiveListSound
    FreeListSound
PROPERTIES
    TableImplemented
    BacklogDrains
