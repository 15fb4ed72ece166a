\* A seek that fails on every retry inside fdc_read_sector
CONSTANTS
    NUM_BLOCKS = 2880
    Lbas = {0, 17, 18, 35, 36, 2879, 2880}
    Data = {d1}
    MAX_RETRIES = 2
    XferMayFail = FALSE
    GARBAGE = GARBAGE
    BUF_ADDR = 4660
SPECIFICATION Spec
INVARIANT MotorOffWhenIdle
