\* fdc_init, then blkread/blkwrite on fd0 at the track, head and volume edges
CONSTANTS
    NUM_BLOCKS = 2880
    Lbas = {0, 17, 18, 35, 36, 2879, 2880}
    Data = {d1}
    MAX_RETRIES = 2
    XferMayFail = FALSE
    GARBAGE = GARBAGE
    BUF_ADDR = 4660
SPECIFICATION Spec
INVARIANTS TypeOK ReadReturnsSector WriteStoresSector
PROPERTIES CommandsSerialised CallsReturn
