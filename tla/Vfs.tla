-------------------------------- MODULE Vfs --------------------------------
(***************************************************************************)
(* The VFS layer of src/fs/vfs.c over the FAT12 backend of src/fs/fat12.c. *)
(*                                                                         *)
(* State kept by the code and modelled here:                               *)
(*   _mountpoints / _curr_size   the mount table: a heap block of vfs*     *)
(*                               slots, of which the first _curr_size are  *)
(*                               scanned by every lookup;                  *)
(*   the vfs objects on the heap (live), the name of the vnode each one    *)
(*   covers (covers) and the file_t handles with their f_offset.           *)
(*                                                                         *)
(* Heap addresses are model values; malloc returns any address that is not *)
(* live, so a freed vfs address can be handed out again.  Memory the heap  *)
(* returns uninitialised holds either zero or garbage: that choice is made *)
(* when the block is allocated, and a garbage slot holds GARBAGE.          *)
(* Undefined behaviour (dereferencing a freed vfs, a garbage slot or a     *)
(* NULL function pointer) is recorded in faults and the operation stops.   *)
(***************************************************************************)
EXTENDS Naturals, FiniteSets, FiniteSetsExt, Sequences, SequencesExt

CONSTANTS
    Names,          \* mount-point names, strings (sequences of characters)
    Devices,        \* block devices registered at boot (blkdev_register)
    DevArgs,        \* device names passed to vfs_mount
    FsTypes,        \* names of the filesystem types in fs_types[]
    FsTypeArgs,     \* fs type names passed to vfs_mount
    VfsAddrs,       \* heap addresses a vfs object can be allocated at
    FileAddrs,      \* heap addresses a file_t can be allocated at
    NULL, GARBAGE,
    INIT_MPOINTS,   \* slots allocated and zeroed by vfs_init
    GROW,           \* slots added by each realloc in _add_to_mpoints
    PTR_SIZE,       \* sizeof(vfs*)
    HEADER_SIZE,    \* bytes the heap keeps in front of each block
    WIDTH,          \* bit width of uint32_t offsets and sizes
    CWIDTH,         \* bit width of uint16_t clusters_to_read
    BPC,            \* bytes_per_cluster of the mounted volume
    FILE_SIZE,      \* dir_entry.file_size of the file opened on each mount
    ReadSizes,      \* sizes passed to vfs_read
    Paths,          \* paths passed to vfs_open, strings
    FILE_NAME,      \* the name of the file in the root directory of each mount
    MaxMounts       \* bound on the number of successful vfs_mount calls

ASSUME /\ INIT_MPOINTS \in Nat \ {0} /\ GROW \in Nat \ {0}
       /\ FILE_SIZE \in 1 .. 2^(WIDTH-1) - 1
       /\ ReadSizes \subseteq 1 .. 2^WIDTH - 1
       /\ CWIDTH \in 1 .. WIDTH - 1 /\ BPC \in 1 .. FILE_SIZE

VARIABLES
    mpoints,        \* contents of the heap block behind _mountpoints
    curr_size,      \* _curr_size
    live,           \* addresses of vfs objects not yet freed
    covers,         \* covers[p]: vcovered->name of the vfs at p
    files,          \* files[f]: the vfs whose vnode file_t f reads, or NULL
    f_offset,       \* f_offset of each file_t
    faults,         \* kinds of undefined behaviour that have happened
    overread,       \* a fat12_read copied bytes past the end of the file
    opened,         \* opened[f]: the path vfs_open last opened file_t f with
    mounts          \* successful vfs_mount calls so far

vars == <<mpoints, curr_size, live, covers, files, f_offset, faults,
          overread, opened, mounts>>

Slot == VfsAddrs \cup {NULL, GARBAGE}
Word == 0 .. 2^WIDTH - 1

(* kmalloc rounds a request plus its header up to a power of two.          *)
NextPow2(n) == Min({q \in {2^k : k \in 0 .. 16} : q >= n})

(* Number of vfs* slots that fit in the block backing a request of n slots. *)
UsableSlots(n) == (NextPow2(n * PTR_SIZE + HEADER_SIZE) - HEADER_SIZE) \div PTR_SIZE

Cap == Cardinality(DOMAIN mpoints)

(* The blocks of n slots whose first slots are the function prefix and     *)
(* whose other slots hold whatever the heap left there.                    *)
Blocks(n, prefix) ==
    { [i \in 0 .. n-1 |-> IF i \in DOMAIN prefix THEN prefix[i] ELSE junk[i]] :
        junk \in [0 .. n-1 -> {NULL, GARBAGE}] }

(* vfs_init: malloc INIT_MPOINTS slots and memset them to zero.            *)
vfs_init ==
    mpoints \in Blocks(UsableSlots(INIT_MPOINTS), [i \in 0 .. INIT_MPOINTS-1 |-> NULL])

(* A plausible bug in the heap: realloc keeps the block whatever its size. *)
Realloc_InPlace(n) == {mpoints}

Realloc(n) ==
    IF n <= Cap THEN {mpoints}
    ELSE Blocks(UsableSlots(n), [i \in 0 .. Min({n, Cap}) - 1 |-> mpoints[i]])

(* _add_to_mpoints: first NULL slot below _curr_size, else grow by GROW;   *)
(* when realloc returns NULL it returns with the table unchanged.          *)
AddToMpoints(v) ==
    LET free == {i \in 0 .. curr_size-1 : mpoints[i] = NULL} IN
    \/ /\ free # {}
       /\ mpoints' = [mpoints EXCEPT ![Min(free)] = v]
       /\ UNCHANGED curr_size
    \/ /\ free = {}
       /\ \E blk \in Realloc(curr_size + GROW) :
             mpoints' = [blk EXCEPT ![curr_size] = v]
       /\ curr_size' = curr_size + GROW
    \/ /\ free = {}
       /\ UNCHANGED <<mpoints, curr_size>>

(* The index at which a scan for the mount-name token tok stops: the first *)
(* slot below _curr_size that is non-NULL and either garbage (its vcovered *)
(* is read through a wild pointer) or covers a name equal to tok; -1 when  *)
(* the scan finds nothing.                                                 *)
FirstHit(tok) ==
    LET hits == {i \in 0 .. curr_size-1 :
                    \/ mpoints[i] = GARBAGE
                    \/ mpoints[i] \in VfsAddrs /\ covers[mpoints[i]] = tok}
    IN IF hits = {} THEN -1 ELSE Min(hits)

(* A path is a string, a sequence of one-character strings.              *)
(* strtok_r(buf, "/") skips leading '/' and returns the first run of      *)
(* other characters.                                                       *)
FirstToken(path) ==
    LET s == SelectInSeq(path, LAMBDA c : c # "/") IN
    IF s = 0 THEN <<>>
    ELSE LET rest == SubSeq(path, s, Len(path))
             e    == SelectInSeq(rest, LAMBDA c : c = "/")
         IN IF e = 0 THEN rest ELSE SubSeq(rest, 1, e - 1)

(* A plausible bug in _vfs_resolve_mountpoint: the relative path taken     *)
(* from the last '/' of the path (strrchr) instead of after the token.     *)
RelPath_LastSlash(path) ==
    LET slashes == {k \in DOMAIN path : path[k] = "/"} IN
    IF slashes = {} THEN <<"/">> ELSE SubSeq(path, Max(slashes), Len(path))

(* The relative path _vfs_resolve_mountpoint passes on: what follows the   *)
(* first 1 + strlen(token) characters of path (C's path + 1 + strlen),    *)
(* or "/" when nothing does.  The offset counts one '/' before the token  *)
(* whatever number of them strtok_r skipped.                               *)
RelPath(path) ==
    LET r == SubSeq(path, 2 + Len(FirstToken(path)), Len(path)) IN
    IF r = <<>> THEN <<"/">> ELSE r

(* _vfs_resolve_mountpoint: a path not starting with '/' or without a      *)
(* token resolves to nothing; otherwise the scan for the token.            *)
ResolveHit(path) ==
    IF Len(path) = 0 \/ path[1] # "/" \/ FirstToken(path) = <<>> THEN -1
    ELSE FirstHit(FirstToken(path))

(* fat12_open of a non-empty relative path: _fat12_lookup skips its        *)
(* leading '/' and finds the file when the rest is its name: names here   *)
(* have no '.' and at most 8 characters, so _fat12_normal_to_8_3 pads     *)
(* them alike (the conversion and the scan are checked in Fat12).          *)
Fat12Open(rel) ==
    LET s == SelectInSeq(rel, LAMBDA c : c # "/") IN
    s # 0 /\ SubSeq(rel, s, Len(rel)) = FILE_NAME

(* fat12_write is a stub that returns -1.                                   *)
Fat12Write == -1

Fault(kind) ==
    /\ faults' = faults \cup {kind}
    /\ UNCHANGED <<mpoints, curr_size, live, covers, files, f_offset,
                   overread, opened, mounts>>

(* Following the vfs* in slot i is undefined behaviour when the slot holds *)
(* garbage or a vfs that has been freed; the operation goes no further.    *)
BadDeref(i) ==
    \/ mpoints[i] = GARBAGE /\ Fault("garbage_pointer")
    \/ mpoints[i] \in VfsAddrs \ live /\ Fault("use_after_free")

(* fat12_mount returns a vfs when blkdev_get_by_name finds the device;    *)
(* its blkread results and the BPB it parses are never checked.            *)
Fat12Mount(d) == d \in Devices

(* fat12_unmount frees the FAT, the boot sector, the handle, the root      *)
(* vnode and the vfs itself, and always returns 0.                         *)
Fat12Unmount(p) == live \ {p}

(* The entries of fat12_vnode_ops that are NULL.                           *)
Fat12NullOps == {"readdir", "create", "mkdir", "remove"}

(* A plausible bug in fat12_read: the size is never clamped to the file.   *)
Fat12ReadSize_NoClamp(offs, size) == size

(* fat12_read's size after its clamp: the file's remainder when offs +    *)
(* size, computed in uint32_t, exceeds the file; fat12_read returns it.    *)
Fat12ReadSize(offs, size) ==
    IF (offs + size) % 2^WIDTH > FILE_SIZE THEN FILE_SIZE - offs ELSE size

(* The clusters of the file, which lies in a contiguous chain.             *)
ChainLen == (FILE_SIZE + BPC - 1) \div BPC

(* The bytes fat12_read's loop copies into buf for a read at offs < file   *)
(* size.  clusters_to_read is computed in uint32_t and stored in uint16_t; *)
(* the loop starts at cluster offs / BPC, copies a whole cluster except at *)
(* the first (from offset_in_cluster) and the last ((offs + size) % BPC,   *)
(* a whole one when 0) as a size_t difference, and stops after it has     *)
(* read the end-of-chain value as a cluster: one past the file's last.    *)
Fat12ReadCopied(offs, size) ==
    LET n     == Fat12ReadSize(offs, size)
        oic   == offs % BPC
        span  == (oic + n) % 2^WIDTH
        ctr   == (span \div BPC + (IF span % BPC # 0 THEN 1 ELSE 0)) % 2^CWIDTH
        last  == ((offs + n) % 2^WIDTH) % BPC
        iters == Min({ctr, ChainLen - offs \div BPC + 1})
        Piece(c) ==
            LET start == IF c = 0 THEN oic ELSE 0
                end   == IF c = ctr - 1 /\ last # 0 THEN last ELSE BPC
            IN (end - start) % 2^WIDTH
    IN MapThenSumSet(Piece, 0 .. iters - 1)

ToInt32(n) == IF n >= 2^(WIDTH-1) THEN n - 2^WIDTH ELSE n

-----------------------------------------------------------------------------
Init ==
    /\ vfs_init
    /\ curr_size = 0
    /\ live = {}
    /\ covers = [p \in VfsAddrs |-> NULL]
    /\ files = [f \in FileAddrs |-> NULL]
    /\ f_offset = [f \in FileAddrs |-> 0]
    /\ faults = {}
    /\ overread = FALSE
    /\ opened = [f \in FileAddrs |-> <<>>]
    /\ mounts = 0

(* vfs_mount: an unknown type or device returns -1 and changes nothing;    *)
(* otherwise fat12_mount allocates the vfs, vfs_mount names the covering   *)
(* vnode after the mount path and _add_to_mpoints enters it in the table.  *)
(* No check is made that the name or the device is already mounted, and   *)
(* vfs_mount returns 0 even when _add_to_mpoints could not grow the table. *)
vfs_mount(d, nm, ty) ==
    \/ /\ ty \notin FsTypes \/ ~Fat12Mount(d)
       /\ UNCHANGED vars
    \/ /\ ty \in FsTypes
       /\ Fat12Mount(d)
       /\ mounts < MaxMounts
       /\ \E p \in VfsAddrs \ live :
             /\ live' = live \cup {p}
             /\ covers' = [covers EXCEPT ![p] = nm]
             /\ AddToMpoints(p)
       /\ mounts' = mounts + 1
       /\ UNCHANGED <<files, f_offset, faults, overread, opened>>

(* vfs_unmount: the first table entry covering nm is unmounted;            *)
(* fat12_unmount frees the vfs, its root vnode and its handle, and the     *)
(* table slot keeps pointing at the freed vfs.                             *)
vfs_unmount(nm) ==
    LET i == FirstHit(nm) IN
    /\ i # -1
    /\ \/ BadDeref(i)
       \/ /\ mpoints[i] \in live
          /\ live' = Fat12Unmount(mpoints[i])
          /\ UNCHANGED <<mpoints, curr_size, covers, files, f_offset,
                         faults, overread, opened, mounts>>

(* vfs_open: _vfs_resolve_mountpoint finds the vfs of the first path       *)
(* component and builds the relative path, fat12_open looks it up in the   *)
(* root directory, and the new file_t (allocated at a free address f)      *)
(* starts at offset 0.                                                     *)
vfs_open(f, path) ==
    LET i == ResolveHit(path) IN
    /\ files[f] = NULL
    /\ i # -1
    /\ \/ BadDeref(i)
       \/ /\ mpoints[i] \in live
          /\ Fat12Open(RelPath(path))
          /\ files' = [files EXCEPT ![f] = mpoints[i]]
          /\ f_offset' = [f_offset EXCEPT ![f] = 0]
          /\ opened' = [opened EXCEPT ![f] = path]
          /\ UNCHANGED <<mpoints, curr_size, live, covers, faults,
                         overread, mounts>>

(* vfs_read: fat12_read reads node->vfs_ptr->fs_data first, returns 0 at   *)
(* EOF (no change), else copies the clusters and returns the clamped size *)
(* as int32_t; vfs_read advances f_offset by a positive result only.      *)
vfs_read(f, size) ==
    LET p    == files[f]
        offs == f_offset[f]
        n    == Fat12ReadSize(offs, size)
        r    == ToInt32(n)
    IN
    /\ p # NULL
    /\ \/ p \notin live /\ Fault("use_after_free")
       \/ /\ p \in live
          /\ offs < FILE_SIZE
          /\ f_offset' = [f_offset EXCEPT ![f] =
                              IF r > 0 THEN (offs + r) % 2^WIDTH ELSE offs]
          /\ overread' = (overread \/ Fat12ReadCopied(offs, size) > FILE_SIZE - offs)
          /\ UNCHANGED <<mpoints, curr_size, live, covers, files, faults,
                         opened, mounts>>

(* vfs_close: fat12_close returns -1, the file_t is freed anyway.          *)
vfs_close(f) ==
    /\ files[f] # NULL
    /\ files' = [files EXCEPT ![f] = NULL]
    /\ UNCHANGED <<mpoints, curr_size, live, covers, f_offset, faults,
                   overread, opened, mounts>>

(* vfs_write: fat12_write returns -1, so f_offset is advanced by nothing. *)
vfs_write(f) ==
    /\ files[f] # NULL
    /\ f_offset' = [f_offset EXCEPT ![f] =
                        IF Fat12Write > 0 THEN (@ + Fat12Write) % 2^WIDTH ELSE @]
    /\ UNCHANGED <<mpoints, curr_size, live, covers, files, faults,
                   overread, opened, mounts>>

(* vfs_get_mounted("/nm"): the same scan of the table, which only reads.   *)
vfs_get_mounted(nm) ==
    LET i == FirstHit(nm) IN
    /\ i # -1
    /\ \/ BadDeref(i)
       \/ mpoints[i] \in live /\ UNCHANGED vars

(* vfs_create, vfs_mkdir and vfs_remove: after resolving the mount they    *)
(* call root_node->ops->op without checking it, and FAT12 leaves it NULL.  *)
vfs_node_op(nm, op) ==
    LET i == FirstHit(nm) IN
    /\ i # -1
    /\ op \in Fat12NullOps
    /\ \/ BadDeref(i)
       \/ mpoints[i] \in live /\ Fault("null_function_pointer")

Next ==
    \/ \E d \in DevArgs, nm \in Names, ty \in FsTypeArgs : vfs_mount(d, nm, ty)
    \/ \E nm \in Names : vfs_unmount(nm)
    \/ \E f \in FileAddrs, path \in Paths : vfs_open(f, path)
    \/ \E f \in FileAddrs, size \in ReadSizes : vfs_read(f, size)
    \/ \E f \in FileAddrs : vfs_close(f) \/ vfs_write(f)
    \/ \E nm \in Names : vfs_get_mounted(nm)
    \/ \E nm \in Names, op \in {"create", "mkdir", "remove"} : vfs_node_op(nm, op)

Spec == Init /\ [][Next]_vars

-----------------------------------------------------------------------------
TypeOK ==
    /\ DOMAIN mpoints = 0 .. Cap-1
    /\ \A i \in DOMAIN mpoints : mpoints[i] \in Slot
    /\ curr_size \in 0 .. Cap
    /\ live \subseteq VfsAddrs
    /\ covers \in [VfsAddrs -> Names \cup {NULL}]
    /\ files \in [FileAddrs -> VfsAddrs \cup {NULL}]
    /\ f_offset \in [FileAddrs -> Word]
    /\ faults \subseteq {"garbage_pointer", "use_after_free", "null_function_pointer"}
    /\ overread \in BOOLEAN
    /\ opened \in [FileAddrs -> Paths \cup {<<>>}]
    /\ mounts \in 0 .. MaxMounts

OffsetWithinFile ==
    \A f \in FileAddrs : files[f] # NULL => f_offset[f] <= FILE_SIZE

(* The components of a path: its runs of characters other than '/'.      *)
RECURSIVE Components(_)
Components(p) ==
    IF p = <<>> THEN <<>>
    ELSE IF Head(p) = "/" THEN Components(Tail(p))
    ELSE LET e == SelectInSeq(p, LAMBDA c : c = "/") IN
         IF e = 0 THEN <<p>>
         ELSE <<SubSeq(p, 1, e - 1)>> \o Components(SubSeq(p, e, Len(p)))

(* vfs_open of a path with a single leading '/' returns a file only when  *)
(* the path's components are the name of a mount and the name of the     *)
(* file, and the file is read through that mount: the relative path       *)
(* _vfs_resolve_mountpoint takes at path + 1 + strlen(token) hands         *)
(* fat12_open exactly what lies below the mount point, whatever slashes   *)
(* or directories follow.  (Paths beginning with "//" are left out: there *)
(* the offset lands inside the mount name.)                                *)
OpenResolvesPath ==
    [][\A f \in FileAddrs :
          /\ files[f] = NULL /\ files'[f] # NULL
          /\ Len(opened'[f]) >= 2 /\ opened'[f][2] # "/"
          => Components(opened'[f]) = <<covers[files'[f]], FILE_NAME>>]_vars

(* fat12_read never copies bytes beyond the end of the file into the      *)
(* caller's buffer (spec S3: reading past EOF returns 0).                  *)
ReadStaysInFile == ~overread

(* The mount table holds only active vfs instances (spec 4.6.1), so no     *)
(* lookup ever follows a pointer to a vfs that vfs_unmount freed.          *)
NoUseAfterUnmount == "use_after_free" \notin faults

(* The VFS turns backend failures into error codes (spec 5): no vnode      *)
(* operation is called through a NULL entry of an ops table.              *)
NoNullOperation == "null_function_pointer" \notin faults
=============================================================================
