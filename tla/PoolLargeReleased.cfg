SPECIFICATION Spec
CONSTANTS
    POOL_SIZE = 8
    MAX_SIZE_OF_CHUNK = 6
    POOL_HDR = 4
    CHUNK_HDR = 2
    LARGE_HDR = 2
    SIZE_T = 256
    FAILS = 0
    SCAN = 0
    Sizes = {3, 7}
    MAX_CHUNKS = 2
    MAX_LARGE = 1
INVARIANT LargeReleased
