SPECIFICATION Spec
CONSTANTS
    Bytes = {"CR", "LF", "P", "0", "1"}
    Names <- MCNames
    REQ_BUF = 8
    BUFFER_MIN_SIZE = 2
    Behind <- MCBehind
    MAX_READ = 2
    MAX_BYTES = 10
INVARIANTS
    TypeOK
    DoneIsRequest
    RequestIsDone
    RefusedIsNoRequest
    PiecesDoNotMatter
