SPECIFICATION FairSessions
CONSTANTS
    CONNECTIONS = 2
    NFDS = 1
    request_buf_size = 9
    BUFFER_MIN_SIZE = 2
    BUFFER_MAX_SIZE = 9
    OK_LEN = 1
    ERROR_LEN = 2
    TX_SIZE = 1
    MAX_RX = 10
    MAX_BACKLOG = 1
    MAX_PEND = 4
    MAX_FAIL = 1
    RequestTypes = {"PUT_T", "GET_T"}
    Names <- MCNames
    Requests <- MCRequests
    MAX_TEXT = 9
INVARIANTS
    NullHandlerOnlyIfStale
    AnsweredAsAsked
PROPERTIES
    ServerImplemented
    RequestsAnswered
