------------------------------- MODULE Fat12 -------------------------------
(***************************************************************************)
(* fat12_mount, fat12_open and fat12_read of src/fs/fat12.c, with the     *)
(* helpers they call: the geometry fat12_mount derives from the boot       *)
(* sector and the FAT it caches, _fat12_lookup and _fat12_normal_to_8_3,   *)
(* which find a name in the root directory, _fat12_get_fentry, which       *)
(* decodes a 12-bit entry of the cached FAT, and _fat12_cluster_to_lba.    *)
(* One step of the model is the whole of fat12_mount, the whole of         *)
(* fat12_open, the entry of fat12_read, or one iteration of its loop.      *)
(*                                                                         *)
(* The reference the code is checked against is the FAT12 format itself:  *)
(* the regions a BPB lays out on the volume, names stored space-padded in  *)
(* 8.3 form, entries packed two to three bytes, and a file's bytes being   *)
(* the bytes of its clusters in the order the FAT chains them.             *)
(***************************************************************************)
EXTENDS Naturals, Sequences, SequencesExt, Bitwise

CONSTANTS
    NCLUSTERS,            \* data clusters on the volume: 2 .. NCLUSTERS+1
    BYTES_PER_SECTOR,     \* bpb->bytes_per_sector
    SECTORS_PER_CLUSTER,  \* bpb->sectors_per_cluster
    HiddenSectors,        \* values of bpb->hidden_sectors on the volumes
    ReservedCounts,       \* values of bpb->rsrvd_cnt
    FatCounts,            \* values of bpb->num_fats
    SECTORS_PER_FAT,      \* bpb->sectors_per_fat
    MAX_ROOT_ENTRIES,     \* bpb->max_root_dir_entries
    ENTRIES_PER_SECTOR,   \* directory entries _fat12_lookup scans per sector (16)
    FN_BASE, FN_EXT,      \* the 8 and 3 of the 8.3 name
    Letters,              \* one-character strings names are made of
    Names83,              \* the stored names of root directory entries
    Paths,                \* paths fat12_open is called with
    NUM_BLOCKS,           \* num_blocks of the block device
    Offsets,              \* offsets passed to fat12_read
    Sizes                 \* sizes passed to fat12_read

FREE    == 0
BAD     == 4087           \* FAT12_BAD_CLUSTER 0xFF7
EOC_MIN == 4088           \* FAT12_EOC_MIN 0xFF8
EOC     == 4095           \* FAT12_EOC 0xFFF

Clusters    == 2 .. NCLUSTERS + 1
EntryValues == {FREE, BAD, EOC} \cup Clusters
BPC         == SECTORS_PER_CLUSTER * BYTES_PER_SECTOR

(* sizeof(fat12_dir_entry_t), 32: a sector holds ENTRIES_PER_SECTOR of     *)
(* them, which is what _fat12_lookup's 16 assumes.                          *)
DIR_ENTRY_SIZE == BYTES_PER_SECTOR \div ENTRIES_PER_SECTOR

(* The bytes fat12_mount caches: sectors_per_fat sectors.                  *)
FAT_BYTES == SECTORS_PER_FAT * BYTES_PER_SECTOR

CeilDiv(a, b) == (a + b - 1) \div b

ASSUME /\ 3 * ((NCLUSTERS + 3) \div 2) + 1 <= FAT_BYTES
       /\ BYTES_PER_SECTOR % ENTRIES_PER_SECTOR = 0

(* The fields of fat12_bpb_t the mount reads from sector 0.                *)
Bpbs == [hidden : HiddenSectors, rsrvd_cnt : ReservedCounts, num_fats : FatCounts]

(* The volume a BPB describes (spec 6.4): the FAT region after the hidden  *)
(* and reserved sectors, num_fats copies of the FAT, the root directory    *)
(* in whole sectors, then cluster 2.                                       *)
FatRegionStart(b)  == b.hidden + b.rsrvd_cnt
RootRegionStart(b) == FatRegionStart(b) + b.num_fats * SECTORS_PER_FAT
RootRegionSectors  == CeilDiv(MAX_ROOT_ENTRIES * DIR_ENTRY_SIZE, BYTES_PER_SECTOR)
DataRegionStart(b) == RootRegionStart(b) + RootRegionSectors

(* FAT tables of the volume: entries 0 and 1 are reserved.                 *)
FatTables ==
    { [n \in 0 .. NCLUSTERS + 1 |-> IF n = 0 THEN 4080 ELSE IF n = 1 THEN EOC ELSE e[n]] :
        e \in [Clusters -> EntryValues] }

(* The packed on-disk form of a FAT: entry 2k fills byte 3k and the low    *)
(* nibble of byte 3k+1, entry 2k+1 the high nibble of byte 3k+1 and byte   *)
(* 3k+2, over sectors_per_fat sectors.                                     *)
FatBytes(fat) ==
    LET E(n) == IF n \in DOMAIN fat THEN fat[n] ELSE 0
    IN [i \in 0 .. FAT_BYTES - 1 |->
          LET k == i \div 3 IN
          CASE i % 3 = 0 -> E(2*k) % 256
            [] i % 3 = 1 -> E(2*k) \div 256 + 16 * (E(2*k+1) % 16)
            [] OTHER     -> E(2*k+1) \div 16]

(* The bytes of a block of the device, and of a read buffer nobody wrote.  *)
Block(lba) == [k \in 0 .. BYTES_PER_SECTOR - 1 |-> <<"lba", lba, k>>]
Uninit     == [k \in 0 .. BPC - 1 |-> <<"uninit", k>>]

FunctionToSeq(f) == [j \in 1 .. BYTES_PER_SECTOR |-> f[j - 1]]

(* The clusters of a chain starting at c; <<0>> marks a chain that runs    *)
(* into a free or bad entry or into a loop.                                *)
RECURSIVE Chain(_, _, _)
Chain(fat, c, seen) ==
    IF c >= EOC_MIN THEN <<>>
    ELSE IF c \in Clusters \ seen THEN <<c>> \o Chain(fat, fat[c], seen \cup {c})
    ELSE <<0>>

(* A root directory entry consistent with the FAT: its chain ends in EOC   *)
(* and has exactly as many clusters as its size needs.                     *)
ValidFile(fat, c, fsize) ==
    LET ch == Chain(fat, c, {}) IN
    /\ \A i \in 1 .. Len(ch) : ch[i] # 0
    /\ Len(ch) = CeilDiv(fsize, BPC)

(* The FATs and the directory entries consistent with them.               *)
FileEntries ==
    { r \in [fat : FatTables, first : Clusters, fsize : 1 .. NCLUSTERS * BPC] :
        ValidFile(r.fat, r.first, r.fsize) }

(* The bytes of the file: its clusters' sectors in chain order.            *)
FileBytes(b, fat, c, fsize) ==
    LET ch    == Chain(fat, c, {})
        sect  == [j \in 1 .. Len(ch) * SECTORS_PER_CLUSTER |->
                    LET cl == ch[(j - 1) \div SECTORS_PER_CLUSTER + 1]
                    IN  Block(DataRegionStart(b) + (cl - 2) * SECTORS_PER_CLUSTER
                              + ((j - 1) % SECTORS_PER_CLUSTER))]
        bytes == FlattenSeq([j \in DOMAIN sect |-> FunctionToSeq(sect[j])])
    IN SubSeq(bytes, 1, fsize)

-----------------------------------------------------------------------------
(* Names are strings; Char(s, i) is the i-th character, and a position     *)
(* past the end reads the terminating '\0'.                                *)
Char(s, i) == IF i \in 1 .. Len(s) THEN SubSeq(s, i, i) ELSE ""
Pad(s, n)  == s \o SubSeq("           ", 1, n - Len(s))
TrimRight(s) == SubSeq(s, 1, Max({0} \cup {i \in 1 .. Len(s) : Char(s, i) # " "}))

(* The format's reading of a stored 8.3 name: the base and the extension   *)
(* without their padding, joined by a dot when there is an extension.      *)
Decode83(n) ==
    LET base == TrimRight(SubSeq(n, 1, FN_BASE))
        ext  == TrimRight(SubSeq(n, FN_BASE + 1, FN_BASE + FN_EXT))
    IN IF ext = "" THEN base ELSE base \o "." \o ext

RECURSIVE Words(_)
Words(n) == IF n = 0 THEN {""}
            ELSE Words(n - 1) \cup {w \o c : w \in Words(n - 1), c \in Letters}

(* The names the 8.3 form can hold: a base of 1 to 8 letters and an        *)
(* optional extension of up to 3.                                          *)
ValidName(p) ==
    \E b \in Words(FN_BASE) \ {""}, e \in Words(FN_EXT) :
        p = IF e = "" THEN b ELSE b \o "." \o e

(* A directory entry as _fat12_lookup looks at it: filename[0] is          *)
(* FAT12_ENDDIR, FAT12_DELETED or the first character of a name; the       *)
(* FAT12_VID attribute bit.  Its cluster and size fields are read only by  *)
(* fat12_read.                                                             *)
DirEntries ==
    {[kind |-> k, name |-> "", vid |-> FALSE] : k \in {"end", "deleted"}}
    \cup [kind : {"name"}, name : Names83, vid : BOOLEAN]

(* Root directories of max_root_dir_entries entries: every entry after an  *)
(* end marker is free too, and no two files share a name.                  *)
RootDirs ==
    { d \in [1 .. MAX_ROOT_ENTRIES -> DirEntries] :
        /\ \A k \in 1 .. MAX_ROOT_ENTRIES - 1 : d[k].kind = "end" => d[k + 1].kind = "end"
        /\ \A k, l \in 1 .. MAX_ROOT_ENTRIES :
              /\ k # l /\ d[k].kind = "name" /\ d[l].kind = "name"
              /\ ~d[k].vid /\ ~d[l].vid
              => d[k].name # d[l].name }

(* What fat12_open returns: no vnode, or a vnode whose inode holds the     *)
(* entry's dir_sector and dir_offset.  A NULL after a failed malloc is     *)
(* told apart as "nomem".                                                  *)
NotFound == [res |-> "null", sector |-> 0, offset |-> 0]

(* A plausible bug in _fat12_normal_to_8_3: the '.' between base and       *)
(* extension is copied into the extension instead of skipped.              *)
NormalTo83_NoDotSkip(name) ==
    LET dots == {i \in 1 .. Len(name) : Char(name, i) = "."}
        stop == IF dots = {} THEN Len(name) + 1 ELSE Min(dots)
        j    == IF stop - 1 < FN_BASE THEN stop - 1 ELSE FN_BASE
        ext  == SubSeq(name, j + 1, Min({Len(name), j + FN_EXT}))
    IN Pad(SubSeq(name, 1, j), FN_BASE) \o Pad(ext, FN_EXT)

(* _fat12_normal_to_8_3: up to 8 characters before the first '.' or the    *)
(* end, one '.' skipped if it is next, then up to 3 more characters,       *)
(* whatever they are, into the space-filled 11 bytes.                      *)
NormalTo83(name) ==
    LET dots == {i \in 1 .. Len(name) : Char(name, i) = "."}
        stop == IF dots = {} THEN Len(name) + 1 ELSE Min(dots)
        j    == IF stop - 1 < FN_BASE THEN stop - 1 ELSE FN_BASE
        k    == IF Char(name, j + 1) = "." THEN j + 1 ELSE j
        ext  == SubSeq(name, k + 1, Min({Len(name), k + FN_EXT}))
    IN Pad(SubSeq(name, 1, j), FN_BASE) \o Pad(ext, FN_EXT)

(* A plausible bug in fat12_mount: the FAT taken to start right after the  *)
(* reserved sectors, the hidden sectors before the volume left out.        *)
MountGeometry_NoHidden(b) ==
    LET fat_start        == b.rsrvd_cnt
        root_dir_start   == fat_start + b.num_fats * SECTORS_PER_FAT
        root_dir_sectors == (MAX_ROOT_ENTRIES * DIR_ENTRY_SIZE) \div BYTES_PER_SECTOR
    IN [fat_start |-> fat_start, root_dir_start |-> root_dir_start,
        root_dir_sectors |-> root_dir_sectors,
        data_area_start |-> root_dir_start + root_dir_sectors]

(* The geometry fat12_mount derives from the BPB.  lba_begin is a uint8_t, *)
(* so hidden_sectors is taken modulo 256, and root_dir_sectors rounds the  *)
(* directory's bytes down to whole sectors.                                *)
MountGeometry(b) ==
    LET lba_begin        == b.hidden % 256
        fat_start        == lba_begin + b.rsrvd_cnt
        root_dir_start   == fat_start + b.num_fats * SECTORS_PER_FAT
        root_dir_sectors == (MAX_ROOT_ENTRIES * DIR_ENTRY_SIZE) \div BYTES_PER_SECTOR
    IN [fat_start |-> fat_start, root_dir_start |-> root_dir_start,
        root_dir_sectors |-> root_dir_sectors,
        data_area_start |-> root_dir_start + root_dir_sectors]

Geometries == {MountGeometry(b) : b \in Bpbs}
NoGeometry == [fat_start |-> 0, root_dir_start |-> 0, root_dir_sectors |-> 0,
               data_area_start |-> 0]

(* The mount's loop over sectors_per_fat sectors from fat_start into the   *)
(* cached table, on a volume laid out by b whose FAT packs to bytes: a     *)
(* sector of one of the FAT copies gives its bytes, any other sector is    *)
(* taken to read as zeros (free entries).                                  *)
LoadFat(bytes, g, b) ==
    [i \in 0 .. FAT_BYTES - 1 |->
        LET lba == g.fat_start + i \div BYTES_PER_SECTOR
        IN IF lba >= FatRegionStart(b) /\ lba < RootRegionStart(b)
           THEN bytes[((lba - FatRegionStart(b)) % SECTORS_PER_FAT) * BYTES_PER_SECTOR
                      + (i % BYTES_PER_SECTOR)]
           ELSE 0]

(* The entries _fat12_lookup reads: root_dir_sectors sectors from          *)
(* root_dir_start, ENTRIES_PER_SECTOR at a time.  A sector of the volume's *)
(* root region gives the directory's entries (the zero padding past        *)
(* max_root_dir_entries reads as end markers); any other sector holds      *)
(* entries that neither match a name nor end the scan.                     *)
Other == [kind |-> "other", name |-> "", vid |-> FALSE]
ScannedDir(d, g, b) ==
    [j \in 1 .. g.root_dir_sectors * ENTRIES_PER_SECTOR |->
        LET lba == g.root_dir_start + (j - 1) \div ENTRIES_PER_SECTOR
            k   == (lba - RootRegionStart(b)) * ENTRIES_PER_SECTOR
                   + ((j - 1) % ENTRIES_PER_SECTOR) + 1
        IN IF lba < RootRegionStart(b) \/ lba >= DataRegionStart(b) THEN Other
           ELSE IF k > MAX_ROOT_ENTRIES THEN [Other EXCEPT !.kind = "end"]
           ELSE d[k]]

(* _fat12_lookup from the root vnode, given the entries as blkread fills  *)
(* dir_entries sector by sector from the mounted g.root_dir_start, and     *)
(* whether the two mallocs of a hit succeed: leading '/' skipped, the rest *)
(* converted to 8.3; the scan stops at the first end marker, passes        *)
(* deleted and volume-label entries and returns at the first entry whose   *)
(* 11 bytes match.                                                         *)
Lookup(dir, name, alloc_ok, g) ==
    LET slashes == {i \in 0 .. Len(name) : \A m \in 1 .. i : Char(name, m) = "/"}
        p       == SubSeq(name, Max(slashes) + 1, Len(name))
        n83     == NormalTo83(p)
        Stops(e) == e.kind = "end" \/ (e.kind = "name" /\ ~e.vid /\ e.name = n83)
        k       == SelectInSeq(dir, Stops)
    IN IF k = 0 \/ dir[k].kind = "end" THEN NotFound
       ELSE IF ~alloc_ok THEN [NotFound EXCEPT !.res = "nomem"]
       ELSE [res |-> "found",
             sector |-> g.root_dir_start + (k - 1) \div ENTRIES_PER_SECTOR,
             offset |-> (k - 1) % ENTRIES_PER_SECTOR]

-----------------------------------------------------------------------------
(* A plausible bug in _fat12_get_fentry: the nibble choice inverted.       *)
GetFentry_SwappedParity(tbl, cluster) ==
    LET entry == tbl[(cluster * 3) \div 2] + 256 * tbl[(cluster * 3) \div 2 + 1]
    IN IF (cluster & 1) = 0 THEN shiftR(entry, 4) & 4095 ELSE entry & 4095

(* A plausible bug in _fat12_get_fentry: the final 12-bit mask left out.  *)
GetFentry_NoMask(tbl, cluster) ==
    LET entry == tbl[(cluster * 3) \div 2] + 256 * tbl[(cluster * 3) \div 2 + 1]
    IN IF (cluster & 1) = 1 THEN shiftR(entry, 4) ELSE entry

(* _fat12_get_fentry: the little-endian uint16_t at byte cluster*3/2 of    *)
(* the cached table, shifted right 4 for an odd cluster, masked otherwise. *)
GetFentry(tbl, cluster) ==
    LET entry == tbl[(cluster * 3) \div 2] + 256 * tbl[(cluster * 3) \div 2 + 1]
    IN IF (cluster & 1) = 1 THEN shiftR(entry, 4) & 4095 ELSE entry & 4095

(* _fat12_cluster_to_lba: 0 for the reserved clusters 0 and 1.             *)
ClusterToLba(g, cluster) ==
    IF cluster < 2 THEN 0 ELSE g.data_area_start + (cluster - 2) * SECTORS_PER_CLUSTER

(* blkread into the cluster buffer: one sector lands at its start when the *)
(* LBA is in range; otherwise it returns -1 and the buffer keeps its bytes. *)
BlkRead(buf, lba) ==
    IF lba < NUM_BLOCKS
    THEN [k \in 0 .. BPC - 1 |-> IF k < BYTES_PER_SECTOR THEN Block(lba)[k] ELSE buf[k]]
    ELSE buf

-----------------------------------------------------------------------------
VARIABLES
    bpb,               \* the BPB in the volume's boot sector
    fs,                \* the fat12_handle_t geometry fat12_mount computed
    path,              \* the path fat12_open is called with
    root_dir,          \* the root directory entries as _fat12_lookup read them
    found,             \* what fat12_open returned (NotFound, or the inode's place)
    fat,               \* the FAT entries, as fat12_mount cached them
    first,             \* dir_entry.first_cluster_low of the file
    fsize,             \* dir_entry.file_size of the file
    offs,              \* the offset argument
    size,              \* the size argument, clamped to the file
    curr_cluster, cluster_count, clusters_to_read, bytes_read,
    buf,               \* the bytes copied into the caller's buffer so far
    read_buf,          \* the cluster buffer fat12_read allocates
    pc,                \* "mount", "nomount", "open", "opened" or "null",
                       \* "loop", "done"
    ret                \* the value fat12_read returns

mountvars == <<bpb, fs>>
openvars == <<path, root_dir, found>>
readvars == <<fat, first, fsize, offs, size, curr_cluster, cluster_count,
              clusters_to_read, bytes_read, buf, read_buf, ret>>
vars == <<mountvars, openvars, readvars, pc>>

(* The FAT as fat12_mount cached it from the volume.                       *)
FatCache == LoadFat(FatBytes(fat), fs, bpb)

OffsetInCluster(o) == o % BPC

(* A plausible bug in the read loop: a last cluster that is filled to its  *)
(* end is taken to end at byte 0 (the copy_end == 0 fix-up is missing).    *)
CopyEnd_NoFixup(count) ==
    IF count = clusters_to_read - 1 THEN (offs + size) % BPC ELSE BPC

(* copy_end for the cluster_count-th cluster of the loop.                  *)
CopyEnd(count) ==
    LET e == IF count = clusters_to_read - 1 THEN (offs + size) % BPC ELSE BPC
    IN IF e = 0 THEN BPC ELSE e

(* The volume holds a BPB; nothing is mounted.  The root directory and the *)
(* FAT are drawn when the code first looks at them, since nothing before   *)
(* depends on them; the path is the one vfs_open will pass to fat12_open.  *)
Init ==
    /\ bpb \in Bpbs
    /\ fs = NoGeometry
    /\ path \in Paths
    /\ root_dir = <<>>
    /\ found = NotFound
    /\ fat = <<>>
    /\ first = 0 /\ fsize = 0 /\ offs = 0 /\ size = 0
    /\ curr_cluster = 0 /\ cluster_count = 0 /\ clusters_to_read = 0
    /\ bytes_read = 0 /\ buf = <<>> /\ read_buf = Uninit /\ ret = 0
    /\ pc = "mount"

(* fat12_mount: the mallocs of the handle, the boot sector, the FAT table  *)
(* and the vfs, and blkdev_get_by_name, each may fail and return NULL;     *)
(* otherwise the geometry is derived from the BPB read off LBA 0 and the   *)
(* FAT loaded (FatCache), and the root vnode is returned.                  *)
Fat12Mount ==
    /\ pc = "mount"
    /\ \E ok \in BOOLEAN :
         IF ok THEN fs' = MountGeometry(bpb) /\ pc' = "open"
         ELSE fs' = fs /\ pc' = "nomount"
    /\ UNCHANGED <<bpb, openvars, readvars>>

(* fat12_open: an empty path is refused; otherwise _fat12_lookup from the  *)
(* root reads the root directory off the device and returns its vnode.     *)
Fat12Open ==
    /\ pc = "open"
    /\ \E d \in RootDirs, alloc_ok \in BOOLEAN :
          LET r == IF Len(path) = 0 THEN NotFound
                   ELSE Lookup(ScannedDir(d, fs, bpb), path, alloc_ok, fs)
          IN /\ root_dir' = d
             /\ found' = r
             /\ pc' = IF r.res = "found" THEN "opened" ELSE "null"
    /\ UNCHANGED <<mountvars, path, readvars>>

(* fat12_read on the vnode fat12_open returned, up to its loop: EOF        *)
(* returns 0; otherwise the size is clamped and the first cluster is       *)
(* first_cluster_low + offs / bytes_per_cluster.  The entry's cluster and  *)
(* size fields are any consistent with the FAT; _fat12_lookup's buffer is  *)
(* gone.                                                                   *)
ReadStart ==
    /\ pc = "opened"
    /\ \E e \in FileEntries, o \in Offsets, sz0 \in Sizes :
         LET sz == IF o + sz0 > e.fsize THEN e.fsize - o ELSE sz0 IN
         /\ fat' = e.fat /\ first' = e.first /\ fsize' = e.fsize
         /\ offs' = o /\ size' = sz
         /\ curr_cluster' = e.first + o \div BPC
         /\ clusters_to_read' = CeilDiv(OffsetInCluster(o) + sz, BPC)
         /\ IF o >= e.fsize
            THEN pc' = "done" /\ ret' = 0
            ELSE pc' = "loop" /\ ret' = sz
    /\ root_dir' = <<>>
    /\ UNCHANGED <<mountvars, path, found, cluster_count, bytes_read, buf, read_buf>>

(* One iteration of the while loop: decode the FAT entry of the current    *)
(* cluster, read the cluster, copy its window, stop after an EOC cluster   *)
(* or follow the entry read before the copy.                               *)
ReadCluster ==
    LET fentry == GetFentry(FatCache, curr_cluster)
        rb     == BlkRead(read_buf, ClusterToLba(fs, curr_cluster))
        start  == IF cluster_count = 0 THEN OffsetInCluster(offs) ELSE 0
        stop   == CopyEnd(cluster_count)
    IN
    /\ pc = "loop"
    /\ read_buf' = rb
    /\ buf' = buf \o [j \in 1 .. stop - start |-> rb[start + j - 1]]
    /\ bytes_read' = bytes_read + (stop - start)
    /\ cluster_count' = cluster_count + 1
    /\ curr_cluster' = IF curr_cluster >= EOC_MIN THEN curr_cluster ELSE fentry
    /\ pc' = IF curr_cluster >= EOC_MIN \/ cluster_count + 1 >= clusters_to_read
              THEN "done" ELSE "loop"
    /\ UNCHANGED <<mountvars, openvars, fat, first, fsize, offs, size, clusters_to_read, ret>>

Next == Fat12Mount \/ Fat12Open \/ ReadStart \/ ReadCluster

Spec == Init /\ [][Next]_vars

-----------------------------------------------------------------------------
TypeOK ==
    /\ bpb \in Bpbs
    /\ fs \in Geometries \cup {NoGeometry}
    /\ path \in Paths
    /\ found.res \in {"null", "nomem", "found"}
    /\ pc \in {"mount", "nomount", "open", "opened", "null", "loop", "done"}
    /\ pc \in {"loop", "done"} => fat \in FatTables /\ first \in Clusters
    /\ curr_cluster \in 0 .. 4095
    /\ cluster_count \in 0 .. clusters_to_read
    /\ bytes_read = Len(buf)

(* _fat12_get_fentry reads back every entry of the FAT as fat12_mount      *)
(* cached it: the mount loaded the table from the volume's FAT region, and *)
(* the cluster*3/2 offset and the odd/even nibble choice agree with the    *)
(* format's packing.                                                       *)
FentryDecodes ==
    pc \in {"loop", "done"} => \A c \in Clusters : GetFentry(FatCache, c) = fat[c]

(* The file name a path ends in, and the places of the root directory the  *)
(* format says hold it: a file entry (not deleted, not a volume label)     *)
(* whose 8.3 name reads as the name, before any end marker, at the sector  *)
(* of the root region the BPB lays out.                                    *)
LeafName(p) == SubSeq(p, Max({0} \cup {i \in 1 .. Len(p) : Char(p, i) = "/"}) + 1, Len(p))
Holding(b, d, nm) ==
    { [res |-> "found", sector |-> RootRegionStart(b) + (k - 1) \div ENTRIES_PER_SECTOR,
       offset |-> (k - 1) % ENTRIES_PER_SECTOR] :
        k \in { k \in DOMAIN d :
                  /\ d[k].kind = "name" /\ ~d[k].vid /\ Decode83(d[k].name) = nm
                  /\ \A m \in 1 .. k - 1 : d[m].kind # "end" } }

(* fat12_open of a path naming an 8.3 file in the root directory returns   *)
(* the vnode of that file's entry, and returns NULL only when no live      *)
(* entry before the end marker has that name or a malloc failed (spec:     *)
(* open converts the name to 8.3, stops at 0x00, skips 0xE5 and VID).      *)
OpenFindsNamedFile ==
    pc \in {"opened", "null"} /\ ValidName(LeafName(path)) =>
        LET H == Holding(bpb, root_dir, LeafName(path)) IN
        /\ pc = "opened" => found \in H
        /\ found.res = "null" => H = {}

(* When fat12_read returns, the caller's buffer holds exactly the bytes of *)
(* the file from offs on, as far as the FAT chains its clusters, and the   *)
(* value returned is their number (spec S3).                               *)
ReadMatchesChain ==
    pc = "done" =>
        LET want == IF offs >= fsize THEN <<>>
                    ELSE SubSeq(FileBytes(bpb, fat, first, fsize), offs + 1, offs + size)
        IN buf = want /\ ret = Len(want)
=============================================================================
