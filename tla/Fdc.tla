-------------------------------- MODULE Fdc --------------------------------
(***************************************************************************)
(* The floppy driver of src/driver/fdc.c behind the block layer of         *)
(* src/driver/block.c: fdc_init's reset and recalibration, then blkread    *)
(* and blkwrite calls on fd0, each a seek (retried) followed by a DMA      *)
(* transfer through the one fixed DMA buffer.                              *)
(*                                                                         *)
(* Two actors run concurrently: the driver, which issues a command and     *)
(* busy-waits on the flag _fdc_irq_fired, and the controller, which        *)
(* completes the pending command at a time of its choosing and raises      *)
(* IRQ6, whose handler sets the flag.  Seeks and recalibrations may end on *)
(* the wrong cylinder; when XferMayFail holds, a transfer may fail, leaving *)
(* the DMA buffer or the disk as it was and reporting it only in the        *)
(* result bytes.  The driver steers the controller through the digital    *)
(* output register (DOR): bit 2 holds it in reset while clear, bit 3       *)
(* routes its IRQ and DMA requests, bits 4-7 run the drive motors.          *)
(***************************************************************************)
EXTENDS Integers, Sequences, TLC, Bitwise

CONSTANTS
    NUM_BLOCKS,      \* num_blocks fd0 is registered with (2880)
    Lbas,            \* the LBAs callers pass to blkread / blkwrite
    Data,            \* the sector contents callers write (model values)
    MAX_RETRIES,     \* the retry bound of _fdc_seek and _fdc_recalibrate (10)
    XferMayFail,     \* whether a read or write command may fail
    GARBAGE,         \* the DMA buffer's contents before any transfer
    BUF_ADDR         \* FLOPPY_DMA_BUFFER, the physical address of the buffer

NoCmd == [op |-> "none"]

(* The DOR bits of fdc.h, and the drive fdc_init selects (fdc_set_drive).  *)
FDC_DOR_DISABLE    == 0      \* 0x00
FDC_DOR_ENABLE     == 4      \* 0x04
FDC_DOR_IRQ_DMA    == 8      \* 0x08
FDC_DOR_MOTOR_MASK == <<16, 32, 64, 128>>   \* MOTOR0..MOTOR3, by drive + 1
FDC_CURRENT_DRIVE  == 0

(* What the controller makes of a DOR value: held in reset while ENABLE is *)
(* clear, IRQ6 and DRQ2 driven only with IRQ_DMA set, and the current      *)
(* drive's motor spinning with its motor bit set.                          *)
InReset(d)   == (d & FDC_DOR_ENABLE) = 0
IrqRouted(d) == (d & FDC_DOR_IRQ_DMA) # 0
MotorOn(d)   == (d & FDC_DOR_MOTOR_MASK[FDC_CURRENT_DRIVE + 1]) # 0

(* The DOR values the boot firmware may leave behind: enabled with IRQ and *)
(* DMA on, drive 0's motor still spinning or not.                          *)
BootDor == {12, 28}

(* The first 8237 controller, DMAC0, whose channel 2 (DMA_CHAN_FLOPPY) the *)
(* floppy controller is wired to.  A 16-bit register is written low byte   *)
(* then high byte through one flip-flop shared by all channels; a mode    *)
(* byte carries its channel in bits 0-1 and the transfer type in bits 2-3 *)
(* (01: device to memory, 10: memory to device).                          *)
Chans == 0 .. 3
DMA_CHAN_FLOPPY == 2
DMA_MODE_READ   == 4     \* 0x04
DMA_MODE_WRITE  == 8     \* 0x08
DMA_MODE_SINGLE == 64    \* 0x40
ToMemory   == 1
FromMemory == 2
Word(r) == r.hi * 256 + r.lo

VARIABLES
    dmac,      \* DMAC0's registers: mask, mode, addr, count, page, flip-flop
    disk,      \* the sectors written so far: LBA -> contents
    dma,       \* the DMA buffer at FLOPPY_DMA_BUFFER
    dor,       \* the digital output register, as _fdc_write_dor last wrote it
    irq,       \* _fdc_irq_fired
    cmd,       \* the command the controller is executing, or NoCmd
    pcn,       \* the drive's present cylinder, as the controller tracks it
    pc,        \* where the driver is: a wait, or "idle" between calls
    call,      \* the block call in progress: op, lba and data
    tries,     \* the iteration of the current retry loop
    ret,       \* the value the last call returned
    out        \* the bytes the last read copied to the caller's buffer

vars == <<dmac, disk, dma, dor, irq, cmd, pcn, pc, call, tries, ret, out>>

(* A sector's contents: what was written to it, or its LBA for a sector    *)
(* never written.                                                          *)
DiskAt(l) == IF l \in DOMAIN disk THEN disk[l] ELSE l

(* The reference geometry of a 1.44M floppy: 2 heads, 18 sectors a track,  *)
(* sectors numbered from 1.                                                *)
ChsToLba(c, h, s) == (c * 2 + h) * 18 + (s - 1)

(* A plausible bug in fdc_lba_to_chs: the head not reduced to a track.     *)
LbaToChs_HeadUnreduced(lba) ==
    [c |-> (lba \div 36) % 256, h |-> lba \div 18, s |-> (lba % 18) + 1]

(* fdc_lba_to_chs; the cylinder is truncated to uint8_t.                   *)
LbaToChs(lba) ==
    [c |-> (lba \div 36) % 256, h |-> (lba % 36) \div 18,
     s |-> ((lba % 36) % 18) + 1]

(* The cylinders the calls address, and 0: where a seek or recalibrate    *)
(* can leave the head.                                                     *)
Cylinders == {LbaToChs(l).c : l \in Lbas} \cup {0}

(* _fdc_irq_handler: sets the flag the driver spins on.                    *)
IrqHandler == irq' = 1

(* A plausible bug in _fdc_wait_for_irq: the flag is not cleared.          *)
WaitForIrq_NoClear == irq = 1 /\ UNCHANGED irq

(* _fdc_wait_for_irq: spin until the flag is set, then clear it.           *)
WaitForIrq == irq = 1 /\ irq' = 0

(* A plausible bug in the retry loops: one iteration too many (i <= 10).   *)
RetryLeft_OffByOne(t) == t < MAX_RETRIES

(* The loop condition of _fdc_seek and _fdc_recalibrate, i < 10.           *)
RetryLeft(t) == t + 1 < MAX_RETRIES

(* _fdc_disable and _fdc_enable: the DOR values they write.               *)
FdcDisable == FDC_DOR_DISABLE
FdcEnable  == FDC_DOR_ENABLE | FDC_DOR_IRQ_DMA

(* The DOR value _fdc_control_motor writes: the drive's motor bit, the     *)
(* drive number as select bits, IRQ_DMA and ENABLE; off keeps the last two. *)
ControlMotorDor(drive, enable) ==
    IF enable
    THEN FDC_DOR_MOTOR_MASK[drive + 1] | drive | FDC_DOR_IRQ_DMA | FDC_DOR_ENABLE
    ELSE FDC_DOR_ENABLE | FDC_DOR_IRQ_DMA

(* A plausible bug in _fdc_control_motor: turning the motor on writes the  *)
(* motor, select and ENABLE bits but drops IRQ_DMA.                        *)
ControlMotor_NoIrqDma(on) ==
    dor' = IF on THEN FDC_DOR_MOTOR_MASK[FDC_CURRENT_DRIVE + 1] | FDC_CURRENT_DRIVE | FDC_DOR_ENABLE
           ELSE ControlMotorDor(FDC_CURRENT_DRIVE, FALSE)

(* _fdc_control_motor on the current drive, through _fdc_write_dor.        *)
ControlMotor(on) == dor' = ControlMotorDor(FDC_CURRENT_DRIVE, on)

(* A run of _fdc_write_dor calls: the DOR ends with the last value, and the *)
(* controller resets, raising an interrupt when it is done, when a value    *)
(* held it in reset and the last one releases it.                           *)
WriteDors(ws) ==
    /\ dor' = ws[Len(ws)]
    /\ cmd' = IF (\E i \in 1 .. Len(ws) : InReset(ws[i])) /\ ~InReset(ws[Len(ws)])
              THEN [op |-> "reset"] ELSE cmd

(* A plausible bug in fdc_reset: the controller only enabled, never put    *)
(* through reset first.                                                    *)
ResetDors_EnableOnly == <<FdcEnable>>

(* fdc_reset's _fdc_disable then _fdc_enable.                              *)
ResetDors == <<FdcDisable, FdcEnable>>

(* _fdc_sense_interrupt: SENSE INTERRUPT, whose second result byte is the  *)
(* present cylinder; the status byte is read and not looked at.            *)
SenseCyl == pcn

(* A plausible bug in _fdc_seek: the cylinder SENSE INTERRUPT returns is    *)
(* not compared with the one sought.                                       *)
SeekReached_Unchecked(c) == TRUE

(* _fdc_seek's test after SENSE INTERRUPT: cyl_returned == cyl.            *)
SeekReached(c) == SenseCyl = c

(* _fdc_seek's loop body up to the wait: send SEEK with head and cylinder. *)
SendSeek(chs, t) ==
    /\ cmd' = [op |-> "seek", c |-> chs.c]
    /\ tries' = t
    /\ pc' = "seek_wait"

(* dma_reset_flipflop: the next byte goes to the low half.                *)
dma_reset_flipflop(D) == [D EXCEPT !.ff = 0]

(* One outb to a 16-bit address or count register of channel ch: the      *)
(* flip-flop picks the half and toggles.                                   *)
OutHalf(D, reg, ch, b) ==
    [D EXCEPT ![reg][ch] = IF D.ff = 0 THEN [@ EXCEPT !.lo = b] ELSE [@ EXCEPT !.hi = b],
              !.ff = 1 - D.ff]

(* dma_set_address / dma_set_count on a DMAC0 channel: BYTE_LOW then       *)
(* BYTE_HIGH of the uint16_t argument.                                     *)
dma_set_address(D, ch, a) ==
    OutHalf(OutHalf(D, "addr", ch, (a % 65536) % 256), "addr", ch, (a % 65536) \div 256)
dma_set_count(D, ch, n) ==
    OutHalf(OutHalf(D, "count", ch, (n % 65536) % 256), "count", ch, (n % 65536) \div 256)

(* dma_set_external_pagereg: bits 16-23 of the transfer address.           *)
dma_set_external_pagereg(D, ch, p) == [D EXCEPT !.page[ch] = p]

(* dma_mask_channel: 0x04 | chan to the single-mask register.              *)
dma_mask_channel(D, ch) == [D EXCEPT !.mask[ch] = TRUE]

(* dma_unmask_all: any write to the clear-mask register unmasks all four.  *)
dma_unmask_all(D) == [D EXCEPT !.mask = [c \in Chans |-> FALSE]]

(* dma_set_mode: mask the channel, write mode | chan_no to the mode        *)
(* register (which sets the mode of the channel in bits 0-1), unmask all.  *)
dma_set_mode(D, ch, mode) ==
    LET byte == mode + ch
        D1   == dma_mask_channel(D, ch)
    IN dma_unmask_all([D1 EXCEPT !.mode[byte % 4] = byte - (byte % 4)])

(* dma_setup_read / dma_setup_write: single transfers, type READ (0x04,    *)
(* which in the 8237's encoding moves device data to memory) or WRITE.     *)
dma_setup_read(D, ch)  == dma_set_mode(D, ch, DMA_MODE_READ + DMA_MODE_SINGLE)
dma_setup_write(D, ch) == dma_set_mode(D, ch, DMA_MODE_WRITE + DMA_MODE_SINGLE)

(* _fdc_init_dma: channel 2 masked, flip-flop reset, buffer address,       *)
(* flip-flop reset, count, page 0, the transfer type, all unmasked.        *)
InitDma(D, count, is_write) ==
    LET ch == DMA_CHAN_FLOPPY
        D1 == dma_set_address(dma_reset_flipflop(dma_mask_channel(D, ch)), ch, BUF_ADDR)
        D2 == dma_set_external_pagereg(dma_set_count(dma_reset_flipflop(D1), ch, count), ch, 0)
        D3 == IF is_write THEN dma_setup_write(D2, ch) ELSE dma_setup_read(D2, ch)
    IN dma_unmask_all(D3)

(* Whether channel 2 will move one 512-byte sector between the controller  *)
(* and the buffer in direction dir: unmasked, of that transfer type, at    *)
(* the buffer's address and with a count of 511.                           *)
DmaReady(D, dir) ==
    LET ch == DMA_CHAN_FLOPPY IN
    /\ ~D.mask[ch]
    /\ (D.mode[ch] \div 4) % 4 = dir
    /\ D.page[ch] * 65536 + Word(D.addr[ch]) = BUF_ADDR
    /\ Word(D.count[ch]) = 511

(* A plausible bug: the command bytes never reach the controller, as when *)
(* _fdc_send_command times out and the caller goes on to wait anyway.      *)
SendTransfer_Dropped(op, chs) == pc' = "xfer_wait" /\ UNCHANGED <<cmd, dmac>>

(* _fdc_read_sector_chs up to the wait: DMA set up for a 512-byte read,    *)
(* then READ SECTOR and its eight parameter bytes.                         *)
ReadSectorChs(chs) ==
    /\ dmac' = InitDma(dmac, 511, FALSE)
    /\ cmd' = [op |-> "read", c |-> chs.c, h |-> chs.h, s |-> chs.s]
    /\ pc' = "xfer_wait"

(* _fdc_write_sector_chs up to the wait: DMA set up for a 512-byte write,  *)
(* then WRITE SECTOR and its eight parameter bytes.                        *)
WriteSectorChs(chs) ==
    /\ dmac' = InitDma(dmac, 511, TRUE)
    /\ cmd' = [op |-> "write", c |-> chs.c, h |-> chs.h, s |-> chs.s]
    /\ pc' = "xfer_wait"

(* The transfer fdc_read_sector or fdc_write_sector calls after its seek.  *)
SendTransfer(op, chs) ==
    IF op = "read" THEN ReadSectorChs(chs) ELSE WriteSectorChs(chs)

-----------------------------------------------------------------------------
(* DMAC0 as the boot firmware may leave it: the flip-flop either way, and  *)
(* channel 2 masked or not, set for either transfer type by a floppy boot. *)
BootDmac ==
    { [mask  |-> [c \in Chans |-> IF c = DMA_CHAN_FLOPPY THEN m ELSE TRUE],
       mode  |-> [c \in Chans |-> IF c = DMA_CHAN_FLOPPY THEN 4 * t + 64 ELSE 0],
       addr  |-> [c \in Chans |-> [lo |-> 0, hi |-> 0]],
       count |-> [c \in Chans |-> [lo |-> 0, hi |-> 0]],
       page  |-> [c \in Chans |-> 0],
       ff    |-> f] :
      m \in BOOLEAN, t \in {ToMemory, FromMemory}, f \in {0, 1} }

(* fdc_init: registers the IRQ handler and selects drive 0; the DOR and    *)
(* DMAC0 are as the firmware left them.                                    *)
Init ==
    /\ dmac \in BootDmac
    /\ disk = <<>>
    /\ dma = GARBAGE
    /\ dor \in BootDor
    /\ irq = 0
    /\ cmd = NoCmd
    /\ pcn \in Cylinders
    /\ pc = "init"
    /\ call = [op |-> "init", lba |-> 0, data |-> GARBAGE]
    /\ tries = 0
    /\ ret = 0
    /\ out = GARBAGE

(* fdc_reset up to its wait: disable then enable the controller.          *)
FdcReset ==
    /\ pc = "init"
    /\ WriteDors(ResetDors)
    /\ pc' = "reset_wait"
    /\ UNCHANGED <<dmac, disk, dma, irq, pcn, call, tries, ret, out>>

(* fdc_reset after its wait: four sense interrupts, the data rate, the     *)
(* SPECIFY command, and _fdc_recalibrate's motor on and first RECALIBRATE. *)
ResetDone ==
    /\ pc = "reset_wait"
    /\ WaitForIrq
    /\ ControlMotor(TRUE)
    /\ cmd' = [op |-> "recal", c |-> 0]
    /\ tries' = 0
    /\ pc' = "recal_wait"
    /\ UNCHANGED <<dmac, disk, dma, pcn, call, ret, out>>

(* _fdc_recalibrate after its wait: sense the interrupt; at cylinder 0     *)
(* turn the motor off and return 0, otherwise retry, and after the last    *)
(* try turn the motor off and return -1 (which fdc_reset ignores).         *)
RecalDone ==
    /\ pc = "recal_wait"
    /\ WaitForIrq
    /\ IF SenseCyl # 0 /\ RetryLeft(tries)
       THEN /\ cmd' = [op |-> "recal", c |-> 0]
            /\ tries' = tries + 1
            /\ UNCHANGED <<dor, pc>>
       ELSE /\ ControlMotor(FALSE)
            /\ pc' = "idle"
            /\ UNCHANGED <<cmd, tries>>
    /\ UNCHANGED <<dmac, disk, dma, pcn, call, ret, out>>

(* fdc_read_sector up to the seek: convert the LBA, motor on, first SEEK.  *)
FdcReadSector(lba) ==
    /\ ControlMotor(TRUE)
    /\ SendSeek(LbaToChs(lba), 0)
    /\ UNCHANGED dma

(* A plausible bug in fdc_write_sector: the memcpy into the DMA buffer     *)
(* left out.                                                               *)
FdcWriteSector_NoCopy(lba, d) ==
    /\ ControlMotor(TRUE)
    /\ SendSeek(LbaToChs(lba), 0)
    /\ UNCHANGED dma

(* fdc_write_sector up to the seek: the data goes into the DMA buffer      *)
(* first, then the motor is turned on and the first SEEK sent.             *)
FdcWriteSector(lba, d) ==
    /\ dma' = d
    /\ ControlMotor(TRUE)
    /\ SendSeek(LbaToChs(lba), 0)

(* blkread on fd0: an LBA past num_blocks returns -1; otherwise _blk_read  *)
(* calls fdc_read_sector.                                                  *)
BlkRead(lba) ==
    /\ pc = "idle"
    /\ call' = [op |-> "read", lba |-> lba, data |-> GARBAGE]
    /\ IF lba >= NUM_BLOCKS
       THEN ret' = -1 /\ UNCHANGED <<dma, dor, cmd, pc, tries>>
       ELSE FdcReadSector(lba) /\ UNCHANGED ret
    /\ UNCHANGED <<dmac, disk, irq, pcn, out>>

(* blkwrite on fd0: the same range check, then fdc_write_sector.           *)
BlkWrite(lba, d) ==
    /\ pc = "idle"
    /\ call' = [op |-> "write", lba |-> lba, data |-> d]
    /\ IF lba >= NUM_BLOCKS
       THEN ret' = -1 /\ UNCHANGED <<dma, dor, cmd, pc, tries>>
       ELSE FdcWriteSector(lba, d) /\ UNCHANGED ret
    /\ UNCHANGED <<dmac, disk, irq, pcn, out>>

(* fdc_read_sector when _fdc_seek fails: log and return -1.                *)
ReadSeekFailed == ret' = -1 /\ UNCHANGED dor

(* fdc_write_sector when _fdc_seek fails: motor off, return -1.            *)
WriteSeekFailed == ret' = -1 /\ ControlMotor(FALSE)

(* _fdc_seek after its wait: sense the interrupt; on the right cylinder    *)
(* the caller starts the transfer, otherwise the seek is retried, and      *)
(* after the last try the caller returns -1.                               *)
SeekDone ==
    LET chs == LbaToChs(call.lba) IN
    /\ pc = "seek_wait"
    /\ WaitForIrq
    /\ CASE SeekReached(chs.c) ->
              SendTransfer(call.op, chs) /\ UNCHANGED <<dor, tries, ret>>
         [] ~SeekReached(chs.c) /\ RetryLeft(tries) ->
              SendSeek(chs, tries + 1) /\ UNCHANGED <<dmac, dor, ret>>
         [] OTHER ->
              /\ IF call.op = "read" THEN ReadSeekFailed ELSE WriteSeekFailed
              /\ pc' = "idle"
              /\ UNCHANGED <<dmac, cmd, tries>>
    /\ UNCHANGED <<disk, dma, pcn, call, out>>

(* fdc_read_sector after the transfer: motor off, copy the DMA buffer to   *)
(* the caller's buffer, return 0.                                          *)
FinishRead == ControlMotor(FALSE) /\ out' = dma /\ ret' = 0

(* fdc_write_sector after the transfer: motor off, return 0.               *)
FinishWrite == ControlMotor(FALSE) /\ ret' = 0 /\ UNCHANGED out

(* _fdc_read_sector_chs / _fdc_write_sector_chs after the wait: the seven  *)
(* result bytes are read and dropped and the interrupt is sensed; then the *)
(* caller finishes.                                                        *)
TransferDone ==
    /\ pc = "xfer_wait"
    /\ WaitForIrq
    /\ IF call.op = "read" THEN FinishRead ELSE FinishWrite
    /\ pc' = "idle"
    /\ UNCHANGED <<dmac, disk, dma, cmd, pcn, call, tries>>

(* The controller, out of reset, completes its command and raises IRQ6    *)
(* when the DOR routes it.  A seek or recalibrate leaves the head on its  *)
(* cylinder or on another.  A read fills the DMA buffer from the sector it *)
(* addresses, and a write stores the buffer there, when the head is on     *)
(* that sector's cylinder, the drive's motor spins, DRQ is routed and      *)
(* channel 2 is programmed for it (DmaReady); otherwise the data goes      *)
(* nowhere, or the sector receives whatever the bus carried.               *)
XferReady(dir) ==
    MotorOn(dor) /\ IrqRouted(dor) /\ DmaReady(dmac, dir) /\ pcn = cmd.c

Complete ==
    /\ cmd # NoCmd
    /\ ~InReset(dor)
    /\ IF IrqRouted(dor) THEN IrqHandler ELSE UNCHANGED irq
    /\ cmd' = NoCmd
    /\ CASE cmd.op = "reset" ->
              UNCHANGED <<disk, dma, pcn>>
         [] cmd.op \in {"seek", "recal"} ->
              \E c \in Cylinders : pcn' = c /\ UNCHANGED <<disk, dma>>
         [] cmd.op = "read" /\ XferReady(ToMemory) ->
              /\ \/ dma' = DiskAt(ChsToLba(cmd.c, cmd.h, cmd.s))
                 \/ XferMayFail /\ UNCHANGED dma
              /\ UNCHANGED <<disk, pcn>>
         [] cmd.op = "write" /\ XferReady(FromMemory) ->
              /\ \/ disk' = (ChsToLba(cmd.c, cmd.h, cmd.s) :> dma) @@ disk
                 \/ XferMayFail /\ UNCHANGED disk
              /\ UNCHANGED <<dma, pcn>>
         [] cmd.op = "read" ->
              UNCHANGED <<disk, dma, pcn>>
         [] OTHER ->
              /\ \/ UNCHANGED disk
                 \/ disk' = (ChsToLba(cmd.c, cmd.h, cmd.s) :> GARBAGE) @@ disk
              /\ UNCHANGED <<dma, pcn>>
    /\ UNCHANGED <<dmac, dor, pc, call, tries, ret, out>>

Driver ==
    \/ FdcReset \/ ResetDone \/ RecalDone \/ SeekDone \/ TransferDone
    \/ \E l \in Lbas : BlkRead(l)
    \/ \E l \in Lbas, d \in Data : BlkWrite(l, d)

Next == Driver \/ Complete

(* The controller completes every command it is given, and a driver whose *)
(* flag is set gets to run: the busy-wait is the only thing it does.       *)
Fairness ==
    /\ WF_vars(Complete)
    /\ WF_vars(FdcReset) /\ WF_vars(ResetDone) /\ WF_vars(RecalDone)
    /\ WF_vars(SeekDone) /\ WF_vars(TransferDone)

Spec == Init /\ [][Next]_vars /\ Fairness

-----------------------------------------------------------------------------
Contents == Data \cup (0 .. 2 * NUM_BLOCKS) \cup {GARBAGE}

TypeOK ==
    /\ dmac.ff \in {0, 1}
    /\ pcn \in Cylinders
    /\ \A l \in DOMAIN disk : disk[l] \in Data \cup {GARBAGE}
    /\ dma \in Contents /\ out \in Contents
    /\ dor \in 0 .. 255
    /\ irq \in {0, 1}
    /\ pc \in {"init", "reset_wait", "recal_wait", "idle", "seek_wait", "xfer_wait"}
    /\ tries \in 0 .. MAX_RETRIES - 1
    /\ ret \in {-1, 0}

(* A read that returns 0 has put the sector at its LBA into the caller's   *)
(* buffer: the LBA/CHS conversion, the shared DMA buffer and the wait for  *)
(* the transfer's interrupt together deliver the right bytes (spec 6.1:    *)
(* "buf receives exactly block_size bytes"; IoFailure surfaces as -1).     *)
ReadReturnsSector ==
    (pc = "idle" /\ call.op = "read" /\ ret = 0) => out = DiskAt(call.lba)

(* A write that returns 0 has stored its data at its LBA.                  *)
WriteStoresSector ==
    (pc = "idle" /\ call.op = "write" /\ ret = 0) => DiskAt(call.lba) = call.data

(* The driver never gives the controller a command while it is executing  *)
(* one: every wait consumes exactly the interrupt of its own command.      *)
CommandsSerialised ==
    [][cmd # NoCmd => cmd' \in {cmd, NoCmd}]_vars

(* When the driver is idle between calls the drive motor is off: every    *)
(* path of fdc_read_sector and fdc_write_sector that turned it on turns    *)
(* it off again.                                                           *)
MotorOffWhenIdle == pc = "idle" => ~MotorOn(dor)

(* Every call, and fdc_init, returns: the retry loops are bounded and each *)
(* wait is for a command the controller has been given.                    *)
CallsReturn == (pc # "idle") ~> (pc = "idle")
=============================================================================
