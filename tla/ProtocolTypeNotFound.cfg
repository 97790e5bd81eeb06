SPECIFICATION Spec
CONSTANTS
    Bytes = {"CR", "LF", "P"}
    Names <- MCNames
    REQ_BUF = 2
    BUFFER_MIN_SIZE = 2
    Behind <- MCBehind
    MAX_READ = 2
    MAX_BYTES = 6
INVARIANT TypeNotFoundIsUnknown
