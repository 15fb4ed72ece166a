\* blkread/blkwrite on the IDE disks that ide_init found, with every device answer
CONSTANTS
    Devs = {0, 1}
    Totals = {0, 2}
    Lbas = {0, 1, 2}
    Data = {d1, d2}
    GARBAGE = GARBAGE
    MallocResults = {TRUE}
SPECIFICATION Spec
INVARIANT BlkReadReturnsSector
\* A machine on which ide_init registers no disk makes no IDE calls.
CHECK_DEADLOCK FALSE
