\* vfs_create, vfs_mkdir and vfs_remove on a FAT12 mount call NULL ops.
CONSTANTS
    fd0 = fd0
    hd9 = hd9
    v1 = v1
    v2 = v2
    fh1 = fh1
    NULL = NULL
    GARBAGE = GARBAGE
    Names <- MCNames
    Devices <- MCDevices
    DevArgs <- MCDevArgs
    FsTypes <- MCFsTypes
    FsTypeArgs <- MCTypeArgs
    VfsAddrs <- MCVfsAddrs
    FileAddrs <- MCFileAddrs
    INIT_MPOINTS = 2
    GROW = 1
    PTR_SIZE = 4
    HEADER_SIZE = 8
    WIDTH = 3
    CWIDTH = 2
    BPC = 2
    FILE_SIZE = 3
    ReadSizes = {1, 2, 7}
    Paths <- MCPaths
    FILE_NAME <- MCFileName
    MaxMounts = 2
SPECIFICATION Spec
SYMMETRY Symmetry
INVARIANT NoNullOperation
