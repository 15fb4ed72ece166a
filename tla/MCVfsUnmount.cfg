\* vfs_unmount leaves the freed vfs in the mount table; a later lookup follows it.
CONSTANTS
    fd0 = fd0
    hd9 = hd9
    v1 = v1
    v2 = v2
    fh1 = fh1
    NULL = NULL
    GARBAGE = GARBAGE
    Names <- MCNames
    Devices <- MCDevices
    DevArgs <- MCDevArgs
    FsTypes <- MCFsTypes
    FsTypeArgs <- MCTypeArgs
    VfsAddrs <- MCVfsAddrs
    FileAddrs <- MCFileAddrs
    INIT_MPOINTS = 2
    GROW = 1
    PTR_SIZE = 4
    HEADER_SIZE = 8
    WIDTH = 3
    CWIDTH = 2
    BPC = 2
    FILE_SIZE = 3
    ReadSizes = {1, 2, 7}
    Paths <- MCPaths
    FILE_NAME <- MCFileName
    MaxMounts = 3
SPECIFICATION Spec
SYMMETRY Symmetry
INVARIANT NoUseAfterUnmount
