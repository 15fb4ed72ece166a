\* Mount table growth, unmount, open, read and close with table slots
\* scaled down: 2 zeroed slots, growth by 1, so that the third mount moves the table to a new block.
CONSTANTS
    fd0 = fd0
    hd9 = hd9
    v1 = v1
    v2 = v2
    fh1 = fh1
    NULL = NULL
    GARBAGE = GARBAGE
    Names <- MCNames
    Devices <- MCDevices
    DevArgs <- MCDevArgs
    FsTypes <- MCFsTypes
    FsTypeArgs <- MCTypeArgs
    VfsAddrs <- MCVfsAddrs
    FileAddrs <- MCFileAddrs
    INIT_MPOINTS = 2
    GROW = 1
    PTR_SIZE = 4
    HEADER_SIZE = 8
    WIDTH = 3
    CWIDTH = 2
    BPC = 2
    FILE_SIZE = 3
    ReadSizes = {1, 2, 7}
    Paths <- MCPaths
    FILE_NAME <- MCFileName
    MaxMounts = 4
SPECIFICATION Spec
SYMMETRY Symmetry
INVARIANT TypeOK
 
INVARIANT OffsetWithinFile
PROPERTY OpenResolvesPath
