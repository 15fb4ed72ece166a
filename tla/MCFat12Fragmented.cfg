\* Offsets beyond the first cluster: fat12_read takes the start cluster to be
\* first_cluster_low + offs / bytes_per_cluster, which holds only for files
\* whose clusters are contiguous.  One path and one directory shape suffice
\* to reach the read.
CONSTANTS
    NCLUSTERS = 3
    BYTES_PER_SECTOR = 2
    SECTORS_PER_CLUSTER = 1
    HiddenSectors = {0}
    ReservedCounts = {1}
    FatCounts = {1}
    SECTORS_PER_FAT = 5
    MAX_ROOT_ENTRIES = 1
    ENTRIES_PER_SECTOR = 1
    FN_BASE = 2
    FN_EXT = 1
    Letters = {"A", "B"}
    Names83 = {"A B"}
    Paths = {"/A.B"}
    NUM_BLOCKS = 10
    Offsets = {0, 1, 2, 3, 4, 5}
    Sizes = {1, 2, 3, 6}
SPECIFICATION Spec
CHECK_DEADLOCK FALSE
INVARIANT ReadMatchesChain
