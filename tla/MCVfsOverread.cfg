\* offs + size wraps in uint32_t and fat12_read skips the clamp.
CONSTANTS
    fd0 = fd0
    hd9 = hd9
    v1 = v1
    v2 = v2
    fh1 = fh1
    NULL = NULL
    GARBAGE = GARBAGE
    Names <- MCNames
    Devices <- MCDevices
    DevArgs <- MCDevArgs
    FsTypes <- MCFsTypes
    FsTypeArgs <- MCTypeArgs
    VfsAddrs <- MCVfsAddrs
    FileAddrs <- MCFileAddrs
    INIT_MPOINTS = 2
    GROW = 1
    PTR_SIZE = 4
    HEADER_SIZE = 8
    WIDTH = 4
    CWIDTH = 3
    BPC = 2
    FILE_SIZE = 5
    ReadSizes = {2, 14, 15}
    Paths <- MCPaths
    FILE_NAME <- MCFileName
    MaxMounts = 2
SPECIFICATION Spec
SYMMETRY Symmetry
INVARIANT ReadStaysInFile
