\* fat12_mount of volumes with a hidden sector and with one or
\* two FAT copies of five sectors, then fat12_open of paths naming a file
\* with and without an extension, with a doubled leading slash, and a name
\* missing from the directory, over every root directory of four entries,
\* two sectors of two (8.3 scaled to 2.1), then
\* fat12_read over every FAT of three data clusters, one-sector clusters of
\* two bytes, and every consistent directory entry; offsets inside the first
\* cluster, sizes up to the whole volume.
CONSTANTS
    NCLUSTERS = 3
    BYTES_PER_SECTOR = 2
    SECTORS_PER_CLUSTER = 1
    HiddenSectors = {1}
    ReservedCounts = {1}
    FatCounts = {1, 2}
    SECTORS_PER_FAT = 5
    MAX_ROOT_ENTRIES = 4
    ENTRIES_PER_SECTOR = 2
    FN_BASE = 2
    FN_EXT = 1
    Letters = {"A", "B"}
    Names83 = {"A B", "AB "}
    Paths = {"/A.B", "//A.B", "/AB", "/B"}
    NUM_BLOCKS = 17
    Offsets = {0, 1}
    Sizes = {1, 2, 3, 6}
SPECIFICATION Spec
CHECK_DEADLOCK FALSE
INVARIANT TypeOK
INVARIANT FentryDecodes
INVARIANT OpenFindsNamedFile
INVARIANT ReadMatchesChain
