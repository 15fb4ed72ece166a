--------------------------------- MODULE Ide ---------------------------------
(***************************************************************************)
(* The IDE driver of src/driver/ide.c behind the block layer of            *)
(* src/driver/block.c: the boot-time registry (fdc_init registers fd0,     *)
(* then ide_init's detection loop over the two devices of the primary      *)
(* controller registers the hard disks it finds), then blkread and         *)
(* blkwrite on the device blkdev_get_by_name returns, through              *)
(* _ide_blk_read/_ide_blk_write.                                           *)
(*                                                                         *)
(* Calls are made by one thread and poll the status register, so each call *)
(* is one action.  What the device answers (a status bit that never comes, *)
(* ERR, an ATAPI signature) is chosen by the device, so it is an input     *)
(* enumerated with \E.  The sector data is abstracted to a value of Data.  *)
(***************************************************************************)
EXTENDS Integers, Sequences, SequencesExt

CONSTANTS
    Devs,          \* device numbers of the primary controller: IDE_MAX_DEVICES of them
    Totals,        \* values IDENTIFY words 60-61 may give for total_sectors
    Lbas,          \* the LBAs callers pass to blkread/blkwrite
    Data,          \* sector contents
    GARBAGE,       \* what an uninitialised caller buffer holds
    MallocResults  \* what a kernel malloc at boot may do: TRUE succeeds

VARIABLES
    phase,                   \* the boot step: fdc_init, ide_init, the device loop, running
    present, is_hdd, total,  \* the ide_device_t fields ide_init fills in
    next_dev,                \* ide_init's loop index
    bdev_table,              \* block_devices # NULL
    bdevs,                   \* block_devices[0 .. num_block_devices-1]
    leaked,                  \* block_device_t records malloc'ed and never stored
    disk,                    \* device -> LBA -> contents of the sector
    buf,                     \* the caller's sector buffer
    last                     \* the last block call: [op, dev, lba, ret]

regvars == <<bdev_table, bdevs, leaked>>
idevars == <<present, is_hdd, total>>
vars == <<phase, idevars, next_dev, regvars, disk, buf, last>>

NoCall == [op |-> "none", dev |-> 0, lba |-> 0, ret |-> 0]

-----------------------------------------------------------------------------
(* The block device registry of block.c.                                   *)
MAX_BLOCK_DEVICES == 16

(* blkdev_register: the table of MAX_BLOCK_DEVICES pointers is allocated on *)
(* the first call; a full table, a failed malloc of the record or a name   *)
(* already registered return -1, and the duplicate check comes after the   *)
(* record was allocated, which is then lost.                               *)
BlkdevRegister(nm, n, ide, drv) ==
    \E table_ok, dev_ok \in MallocResults :
       IF ~bdev_table /\ ~table_ok THEN UNCHANGED regvars
       ELSE /\ bdev_table' = TRUE
            /\ CASE Len(bdevs) >= MAX_BLOCK_DEVICES \/ ~dev_ok ->
                      UNCHANGED <<bdevs, leaked>>
                 [] \E i \in DOMAIN bdevs : bdevs[i].name = nm ->
                      leaked' = leaked + 1 /\ UNCHANGED bdevs
                 [] OTHER ->
                      /\ bdevs' = Append(bdevs, [name |-> nm, num_blocks |-> n,
                                                  ide |-> ide, drv |-> drv])
                      /\ UNCHANGED leaked

(* blkdev_get_by_name: the first registered device of that name, or NULL.  *)
NoDev == [name |-> "", num_blocks |-> 0, ide |-> FALSE, drv |-> 0]
GetByName(nm) ==
    LET i == SelectInSeq(bdevs, LAMBDA r : r.name = nm) IN
    IF i = 0 THEN NoDev ELSE bdevs[i]

-----------------------------------------------------------------------------
(* The device side of ide_init.  A _ide_wait_* loop returns 0 when the     *)
(* status bit it polls comes, -1 after 100000 polls.                       *)
WaitResults == {0, -1}

(* The (LBA mid, LBA high) signature a device leaves after the reset:      *)
(* ATA, ATAPI, SATA, or a floating bus.                                    *)
Signatures == {<<0, 0>>, <<20, 235>>, <<60, 195>>, <<255, 255>>}

(* _ide_check_type: only the ATA signature 0x00/0x00 is a hard disk.       *)
CheckType(sig) == sig = <<0, 0>>

(* The status read after IDENTIFY: 0 (no device), ERR set, or neither.     *)
StatusClasses == {"zero", "err", "other"}

(* _ide_device_identify gets to the data phase, and so marks the device    *)
(* present, only through its DRDY and BSY waits, a non-zero status without *)
(* ERR and its DRQ wait.                                                   *)
IdentifyOk(drdy, bsy, st, drq) ==
    drdy = 0 /\ bsy = 0 /\ st = "other" /\ drq = 0

(* The block device name ide_init gives device i.                          *)
IdeName(d) == IF d = 0 THEN "hd0" ELSE "hd1"

(* What the device does to READ SECTORS: the four waits/checks of          *)
(* ide_read_sector that return early, or success.                          *)
ReadOutcomes  == {"drdy_timeout", "bsy_timeout", "err", "drq_timeout", "ok"}
WriteOutcomes == {"drdy_timeout", "drq_timeout", "bsy_timeout", "err", "ok"}

-----------------------------------------------------------------------------
(* The static _ide_prim and the registry are zeroed; the disks hold        *)
(* whatever they hold.  kmain calls fdc_init, then ide_init.               *)
Init ==
    /\ phase = "fdc_init"
    /\ present = [d \in Devs |-> FALSE]
    /\ is_hdd = [d \in Devs |-> FALSE]
    /\ total = [d \in Devs |-> 0]
    /\ next_dev = 0
    /\ bdev_table = FALSE
    /\ bdevs = <<>>
    /\ leaked = 0
    /\ disk \in [Devs -> [Lbas -> Data]]
    /\ buf = GARBAGE
    /\ last = NoCall

(* fdc_init registers the floppy as fd0 and ignores the result.            *)
FdcRegister ==
    /\ phase = "fdc_init"
    /\ BlkdevRegister("fd0", 2880, FALSE, 0)
    /\ phase' = "ide_init"
    /\ UNCHANGED <<idevars, next_dev, disk, buf, last>>

(* ide_init up to its loop: the controller's ports and name, ide_reset's   *)
(* SRST pulse, the IRQ14 handler and hd0 as the current device.            *)
IdeInit ==
    /\ phase = "ide_init"
    /\ phase' = "ide_loop"
    /\ next_dev' = 0
    /\ UNCHANGED <<idevars, regvars, disk, buf, last>>

(* One iteration of ide_init's loop: present is cleared, _ide_check_type   *)
(* sets is_hdd from the signature, _ide_device_identify either returns     *)
(* early (present stays FALSE) or sets is_hdd from bit 15 of word 0 and    *)
(* total_sectors from words 60-61 and marks the device present; a present *)
(* hard disk with sectors is registered under hd0/hd1.                     *)
IdeInitDevice ==
    LET d == next_dev IN
    /\ phase = "ide_loop"
    /\ \E sig \in Signatures, drdy, bsy, drq \in WaitResults, st \in StatusClasses,
          atapi \in BOOLEAN, t \in Totals :
          LET ok  == IdentifyOk(drdy, bsy, st, drq)
              hdd == IF ok THEN ~atapi ELSE CheckType(sig)
          IN /\ present' = [present EXCEPT ![d] = ok]
             /\ is_hdd' = [is_hdd EXCEPT ![d] = hdd]
             /\ total' = IF ok THEN [total EXCEPT ![d] = t] ELSE total
             /\ IF ok /\ hdd /\ t > 0 THEN BlkdevRegister(IdeName(d), t, TRUE, d)
                ELSE UNCHANGED regvars
    /\ next_dev' = d + 1
    /\ phase' = IF d + 1 \in Devs THEN phase ELSE "running"
    /\ UNCHANGED <<disk, buf, last>>

(* _ide_write_lbaregs and the device register of ide_read_sector and       *)
(* ide_write_sector: bits 0-7, 8-15 and 16-23 of the sector into LBA low,  *)
(* mid and high, bits 24-27 into the low nibble of the device register.    *)
LbaRegs(sector) ==
    [lo  |-> sector % 256,           mid |-> (sector \div 256) % 256,
     hi  |-> (sector \div 65536) % 256, dev |-> (sector \div 16777216) % 16]

(* The sector a device in LBA mode addresses from those registers.         *)
RegsLba(r) == r.lo + 256 * r.mid + 65536 * r.hi + 16777216 * r.dev

(* ide_read_sector after its argument checks, for an LBA in range: only a  *)
(* call that gets through every wait copies the 256 words of the sector    *)
(* the registers address into buffer; every early return leaves buffer as  *)
(* it was.                                                                 *)
IdeReadSector(d, lba, out) ==
    IF out = "ok" THEN disk[d][RegsLba(LbaRegs(lba))] ELSE buf

(* ide_write_sector: an early return before the data phase leaves the      *)
(* sector alone; once the 256 words are out, a BSY timeout or ERR is        *)
(* reported after the device may or may not have stored them.               *)
IdeWriteSector(d, lba, v, out) ==
    CASE out \in {"drdy_timeout", "drq_timeout"} -> {disk[d][lba]}
      [] out = "ok"                              -> {v}
      [] OTHER                                   -> {disk[d][lba], v}

(* The sector a write through ide_write_sector lands on.                    *)
WriteTarget(lba) == RegsLba(LbaRegs(lba))

(* _ide_blk_read and _ide_blk_write: whatever the sector call did, the     *)
(* result is 0.                                                            *)
IdeBlkReadResult(out) == 0
IdeBlkWriteResult(out) == 0

(* blkread on the device blkdev_get_by_name returns for an IDE disk name:  *)
(* -1 for an LBA at or past its num_blocks, else _ide_blk_read.            *)
BlkRead(nm, lba) ==
    LET dev == GetByName(nm) IN
    /\ phase = "running"
    /\ dev.ide
    /\ \E out \in ReadOutcomes :
          IF lba >= dev.num_blocks
          THEN /\ last' = [op |-> "read", dev |-> dev.drv, lba |-> lba, ret |-> -1]
               /\ UNCHANGED buf
          ELSE /\ buf' = IdeReadSector(dev.drv, lba, out)
               /\ last' = [op |-> "read", dev |-> dev.drv, lba |-> lba,
                           ret |-> IdeBlkReadResult(out)]
    /\ UNCHANGED <<phase, idevars, next_dev, regvars, disk>>

(* blkwrite on an IDE disk, through _ide_blk_write.                        *)
BlkWrite(nm, lba, v) ==
    LET dev == GetByName(nm) IN
    /\ phase = "running"
    /\ dev.ide
    /\ \E out \in WriteOutcomes :
          IF lba >= dev.num_blocks
          THEN /\ last' = [op |-> "write", dev |-> dev.drv, lba |-> lba, ret |-> -1]
               /\ UNCHANGED disk
          ELSE /\ \E nv \in IdeWriteSector(dev.drv, lba, v, out) :
                    disk' = [disk EXCEPT ![dev.drv][WriteTarget(lba)] = nv]
               /\ last' = [op |-> "write", dev |-> dev.drv, lba |-> lba,
                           ret |-> IdeBlkWriteResult(out)]
    /\ UNCHANGED <<phase, idevars, next_dev, regvars, buf>>

Next ==
    \/ FdcRegister
    \/ IdeInit
    \/ IdeInitDevice
    \/ \E d \in Devs, lba \in Lbas :
          \/ BlkRead(IdeName(d), lba)
          \/ \E v \in Data : BlkWrite(IdeName(d), lba, v)

Spec == Init /\ [][Next]_vars

-----------------------------------------------------------------------------
(* A blkread of an IDE disk that returns 0 has put the sector into the     *)
(* caller's buffer (spec 6.1: "buf receives exactly block_size bytes"; a   *)
(* failure is a result the caller can see).                                *)
BlkReadReturnsSector ==
    last.op = "read" /\ last.ret = 0 => buf = disk[last.dev][last.lba]
=============================================================================
