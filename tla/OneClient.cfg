SPECIFICATION LiveSpec
CONSTANTS
    CONNECTIONS = 2
    NFDS = 2
    request_buf_size = 3
    BUFFER_MIN_SIZE = 1
    BUFFER_MAX_SIZE = 4
    OK_LEN = 1
    ERROR_LEN = 2
    TX_SIZE = 1
    MAX_RX = 2
    MAX_BACKLOG = 1
    MAX_PEND = 2
    MAX_FAIL = 1
    RequestTypes = {"PUT_T", "GET_T"}
INVARIANTS
    TypeOK
    EpollMirrorsConns
    DescriptorsOwned
    NullHandlerOnlyAfterRead
    PoolsAccounted
    PendingResponseIsWatched
    CutOffOnlyAfterBackpressure
PROPERTIES
    LostOnlyIfLeftOver
    GoneClientsReleased
    BacklogDrains
