\* A transfer the controller fails, reported only in the result bytes
CONSTANTS
    NUM_BLOCKS = 2880
    Lbas = {0, 17, 18, 35, 36, 2879, 2880}
    Data = {d1}
    MAX_RETRIES = 2
    XferMayFail = TRUE
    GARBAGE = GARBAGE
    BUF_ADDR = 4660
SPECIFICATION Spec
INVARIANT ReadReturnsSector
