-------------------------------- MODULE Disk --------------------------------
(***************************************************************************)
(* The block devices under the file systems: the IDE controller with its    *)
(* ATA and ATAPI drives (drivers/io/ide.c, ata.c), the floppy controller    *)
(* (floppy.c), and the loops with which ext2, iso9660 and FAT read a block   *)
(* through them.  The kernel finds the drive it boots from, resets it, and   *)
(* then reads one sector at a time, waiting for the controller's interrupt   *)
(* or polling its status.  The controllers are external; they complete or    *)
(* fail every command they are given, and raise their interrupt when they do.*)
(***************************************************************************)
EXTENDS Integers, FiniteSets, FiniteSetsExt, Sequences

CONSTANTS
    Wirings,        \* what may sit at the four places of the IDE controller
    BootDrives,     \* BIOS numbers of the drive the kernel is told to use
    Blocks,         \* the blocks that are read
    Starts,         \* sectors at which the partition may start
    SECTOR,         \* bytes of a sector of an ATA drive
    BLOCK_SECTORS,  \* sectors of a block of ext2
    SPT, HEADS,     \* sectors per track and heads of a drive addressed by CHS
    LBA28,          \* the first sector number that LBA28 cannot express
    RADIX,          \* the values of a byte, which an address register holds
    FLOPPY_SPT,     \* sectors per track of a floppy
    MAX_TRIES,      \* tries per sector of ext2 and iso9660
    SEEK_TRIES,     \* tries of a seek or a recalibration
    SECTOR_TRIES    \* tries of a floppy transfer

ASSUME DiskAssumption ==
    /\ {SECTOR, BLOCK_SECTORS, SPT, HEADS, LBA28, RADIX, FLOPPY_SPT, MAX_TRIES, SEEK_TRIES, SECTOR_TRIES}
         \subseteq Nat \ {0}
    \* a track's sectors are counted in a byte
    /\ FLOPPY_SPT < RADIX
    /\ Wirings \subseteq [0 .. 3 -> {"none", "ata", "atapi", "empty"}]
    /\ BootDrives \subseteq Nat
    /\ Blocks \subseteq Nat /\ Starts \subseteq Nat

VARIABLES
    wiring,         \* the place of every drive; "empty" is a drive with no disc
    support_dma,    \* whether the controller does DMA
    lba_drives,     \* whether its drives know LBA
    boot,           \* the BIOS number of the boot drive
    part, start,    \* the boot partition of a drive: its file system and its first sector
    dev,            \* the device of rootfs_io, -1 when no drive was found
    pc,             \* where the driver is
    call,           \* the block being read: which, at which sector, which try
    buf,            \* the sectors read into the caller's buffer
    regs,           \* the address the controller was given
    ctl,            \* the controller: idle, busy, ready or failed
    bm,             \* bus master: started, and its two sticky status bits
    irq_c,          \* interrupts counted and not yet waited for
    motor, cyl,     \* the floppy's motor and cylinder
    tries,          \* tries left of the floppy command
    dma_ok,         \* whether the buffer is where the floppy's DMA can reach it
    ret             \* what the last read returned

hw == <<regs, ctl, bm, irq_c, cyl>>
config == <<wiring, support_dma, lba_drives, boot, part, start, dma_ok>>
vars == <<config, dev, pc, call, buf, hw, motor, tries, ret>>

-----------------------------------------------------------------------------
(***************************************************************************)
(* Finding the drive.                                                      *)
(***************************************************************************)

\* The device table after ide_init has probed the four places in order: each
\* probe writes the entry after the drives counted so far, so a drive whose
\* capacity cannot be read keeps its entry only until the next probe.
ide_init(w) ==
    LET Counted(p) == Cardinality({q \in 0 .. p - 1 : w[q] \in {"ata", "atapi"}})
        Probes(c) == {p \in 0 .. 3 : Counted(p) = c}
    IN  [c \in 0 .. 3 |->
            IF Probes(c) = {} THEN [reserved |-> 0, place |-> 0]
            ELSE LET last == Max(Probes(c))
                 IN  [reserved |-> IF w[last] = "none" THEN 0 ELSE 1, place |-> last]]

TypeAt(w, place) == IF w[place] = "ata" THEN "ata" ELSE "atapi"

\* The table entry of the n-th drive of the kind the BIOS number asks for.
ide_search_for_drive(w, drive) ==
    LET kind == IF drive >= 224 /\ drive < 240 THEN "atapi" ELSE "ata"
        n == IF kind = "atapi" THEN drive - 224 ELSE drive - 128
        Of(i) == ide_init(w)[i].reserved = 1 /\ TypeAt(w, ide_init(w)[i].place) = kind
        Hit == {i \in 0 .. 3 : Of(i) /\ Cardinality({j \in 0 .. i - 1 : Of(j)}) = n}
    IN  IF Hit = {} THEN -1 ELSE CHOOSE i \in Hit : TRUE

Floppy == boot < 128
Atapi == ~Floppy /\ wiring[ide_init(wiring)[dev].place] # "ata"
\* Discs hold iso9660, floppies FAT, and the type of the partition says which
\* of ext2 and FAT an ATA drive holds.
Fs == IF Floppy THEN "fat" ELSE IF Atapi THEN "iso9660" ELSE part
SectorsPerBlock == IF Fs = "ext2" THEN BLOCK_SECTORS ELSE 1

Init ==
    /\ wiring \in Wirings /\ support_dma \in BOOLEAN /\ lba_drives \in BOOLEAN
    /\ boot \in BootDrives
    /\ part \in {"ext2", "fat"} /\ start \in Starts
    /\ dma_ok \in BOOLEAN
    /\ dev = -2 /\ pc = "boot"
    /\ call = [block |-> 0, i |-> 0, try |-> 1, lba |-> 0, astray |-> FALSE]
    /\ buf = <<>>
    /\ regs = <<>> /\ ctl = "idle"
    /\ bm = [start |-> FALSE, error |-> FALSE, interrupt |-> FALSE]
    /\ irq_c = 0
    /\ motor = 0 /\ cyl = -1
    /\ tries = 0
    /\ ret = "none"

\* iodriver_init: the boot drive becomes rootfs_io and is reset.  The number
\* ide_search_for_drive returns is not looked at: -1, or a drive without a
\* disc, leaves a device with no sector size ("wild").
iodriver_init ==
    /\ pc = "boot"
    /\ dev' = IF Floppy THEN boot ELSE ide_search_for_drive(wiring, boot)
    /\ pc' = IF Floppy THEN "reset"
             ELSE IF dev' = -1 \/ wiring[ide_init(wiring)[dev'].place] = "empty" THEN "wild"
             ELSE "idle"
    /\ UNCHANGED <<config, call, buf, hw, motor, tries, ret>>

-----------------------------------------------------------------------------
(***************************************************************************)
(* Addresses.                                                              *)
(***************************************************************************)

\* The registers ide_do_sector writes: <<mode, head, _lba[0] to _lba[3]>>.  The cylinder
\* is a 16 bit number.
IdeAddress(lba) ==
    LET b1 == lba \div RADIX
        b2 == b1 \div RADIX
        b3 == b2 \div RADIX
        sector == (lba % SPT) + 1
        cylinder == ((lba + 1 - sector) \div (HEADS * SPT)) % (RADIX * RADIX)
    IN  IF lba >= LBA28 THEN <<2, 0, lba % RADIX, b1 % RADIX, b2 % RADIX, b3 % RADIX>>
        ELSE IF lba_drives THEN <<1, b3 % RADIX, lba % RADIX, b1 % RADIX, b2 % RADIX, 0>>
        ELSE <<0, ((lba + 1 - sector) % (HEADS * SPT)) \div SPT,
               sector, cylinder % RADIX, cylinder \div RADIX, 0>>

\* The sector a drive finds at such an address.
IdeSector(r) ==
    CASE r[1] = 2 -> r[3] + RADIX * (r[4] + RADIX * (r[5] + RADIX * r[6]))
      [] r[1] = 1 -> r[3] + RADIX * (r[4] + RADIX * (r[5] + RADIX * r[2]))
      [] r[1] = 0 -> ((r[4] + RADIX * r[5]) * HEADS + r[2]) * SPT + r[3] - 1

\* Each part of the address is stored in a byte.
lba2chs(lba) ==
    [cylinder |-> (lba \div (2 * FLOPPY_SPT)) % RADIX,
     head |-> ((lba % (2 * FLOPPY_SPT)) \div FLOPPY_SPT) % RADIX,
     sector |-> (((lba % (2 * FLOPPY_SPT)) % FLOPPY_SPT) + 1) % RADIX]

\* The floppy reads the sector under the cylinder its head is on.
FloppySector == (cyl * 2 + regs.head) * FLOPPY_SPT + regs.sector - 1

\* What the addressed drive holds at that address.
Place == IF Floppy THEN -1 ELSE ide_init(wiring)[dev].place
Data == <<Place, IF Floppy THEN FloppySector ELSE IF Atapi THEN regs ELSE IdeSector(regs)>>

-----------------------------------------------------------------------------
(***************************************************************************)
(* Block reads: ext2_read_block, iso9660_read_block, FAT's direct reads.   *)
(***************************************************************************)

\* The number of values of a uint32_t.
Words == RADIX * RADIX * RADIX * RADIX

\* Where a block is: a disc's partition starts at sector 1, which
\* iso9660_read_block takes off again.
SectorOf(block) ==
    CASE Fs = "ext2" -> start + BLOCK_SECTORS * block
      [] Fs = "fat" -> start + block
      [] Fs = "iso9660" -> block

\* Where it is read: ext2_read_block computes lba * block_size / sector_size,
\* and the product, a byte offset, is a uint32_t.
FirstSector(block) ==
    IF Fs = "ext2" THEN start + (((block * (BLOCK_SECTORS * SECTOR)) % Words) \div SECTOR)
    ELSE SectorOf(block)

\* The blocks of an ext2 partition past the first 4 GiB, whose byte offset is
\* too large for its product.
Wraps(block) == Fs = "ext2" /\ block * (BLOCK_SECTORS * SECTOR) >= Words

\* The sectors a drive can have: as many as the cylinders, heads and sectors
\* of its address name, or as a uint32_t counts.  A floppy's cylinders are
\* counted in a byte.
OnDrive(block) ==
    LET end == SectorOf(block) + SectorsPerBlock
    IN  /\ Floppy => end <= 2 * FLOPPY_SPT * RADIX
        /\ ~Floppy /\ ~Atapi => end <= Words /\ (~lba_drives => end <= HEADS * SPT * (RADIX * RADIX))

ReadBlock(block) ==
    /\ pc = "idle" /\ OnDrive(block)
    /\ call' = [block |-> block, i |-> 0, try |-> 1, lba |-> FirstSector(block), astray |-> Wraps(block)]
    /\ buf' = <<>>
    /\ pc' = "sector"
    /\ UNCHANGED <<config, dev, hw, motor, tries, ret>>

Return(value) == pc' = "idle" /\ ret' = value

\* A fault: ext2 moves on after a failed try as if it had succeeded.
SectorFailedIgnored ==
    /\ pc = "failed"
    /\ call' = [call EXCEPT !.i = @ + 1, !.lba = @ + 1, !.try = 1]
    /\ buf' = Append(buf, <<>>)
    /\ IF call.i + 1 = SectorsPerBlock THEN Return("ok") ELSE pc' = "sector" /\ UNCHANGED ret
    /\ UNCHANGED <<config, dev, hw, motor, tries>>

\* A fault: a failed try is repeated without being counted.
SectorFailedForever ==
    /\ pc = "failed"
    /\ pc' = "sector"
    /\ UNCHANGED <<config, dev, call, buf, hw, motor, tries, ret>>

\* read_sector failed.  FAT gives up; ext2 and iso9660 try again, iso9660 one
\* sector further (the number is incremented in the call that is retried).
SectorFailed ==
    /\ pc = "failed"
    /\ \/ /\ Fs = "fat" \/ call.try = MAX_TRIES
          /\ Return("EIO")
          /\ UNCHANGED call
       \/ /\ Fs # "fat" /\ call.try < MAX_TRIES
          /\ call' = [call EXCEPT !.try = @ + 1,
                                  !.lba = IF Fs = "iso9660" THEN @ + 1 ELSE @,
                                  !.astray = @ \/ Fs = "iso9660"]
          /\ pc' = "sector"
          /\ UNCHANGED ret
    /\ UNCHANGED <<config, dev, buf, hw, motor, tries>>

\* read_sector succeeded: the sector is copied, the next one is read.
SectorRead ==
    /\ pc = "read"
    /\ call' = [call EXCEPT !.i = @ + 1, !.lba = @ + 1, !.try = 1]
    /\ IF call.i + 1 = SectorsPerBlock THEN Return("ok") ELSE pc' = "sector" /\ UNCHANGED ret
    /\ UNCHANGED <<config, dev, buf, hw, motor, tries>>

-----------------------------------------------------------------------------
(***************************************************************************)
(* IDE.                                                                    *)
(***************************************************************************)

\* The controller is given an address and a command.  With DMA the bus master
\* is stopped, its status is written back with the two bits as zeros (which
\* clears neither: the bits are cleared by writing ones), and started.
ide_do_sector ==
    /\ pc = "sector" /\ ~Floppy /\ ~Atapi
    /\ regs' = IdeAddress(call.lba)
    /\ ctl' = "busy"
    /\ bm' = [bm EXCEPT !.start = support_dma]
    /\ pc' = IF support_dma THEN "dma" ELSE "pio"
    /\ UNCHANGED <<config, dev, call, buf, irq_c, motor, cyl, tries, ret>>

ide_atapi_do_sector ==
    /\ pc = "sector" /\ ~Floppy /\ Atapi
    /\ regs' = call.lba
    /\ ctl' = "busy"
    /\ pc' = "pio"
    /\ UNCHANGED <<config, dev, call, buf, bm, irq_c, motor, cyl, tries, ret>>

\* The drive ends the command: well, with an error of its own ("failed"), or,
\* with DMA, with an error of the transfer, which sets the bus master's bit.
\* Its interrupt is counted; without DMA nobody waits for the count and it is
\* not tracked.
DriveDone(end) ==
    /\ ~Floppy /\ ctl = "busy"
    /\ end = "transfer" => pc = "dma"
    /\ ctl' = IF end = "ready" THEN "ready" ELSE "failed"
    /\ IF pc = "dma"
       THEN /\ bm' = [bm EXCEPT !.error = @ \/ end = "transfer", !.interrupt = TRUE]
            /\ irq_c' = irq_c + 1
       ELSE UNCHANGED <<bm, irq_c>>
    /\ UNCHANGED <<config, dev, pc, call, buf, regs, motor, cyl, tries, ret>>

\* What the caller's buffer gains from a DMA read that is taken for good: the
\* sector, or whatever the buffer held when the drive failed.
Transferred == IF ctl = "ready" THEN Data ELSE <<-2, -2>>

\* A fault: the driver goes on without waiting for the interrupt.
DmaFinishNoWait ==
    /\ pc = "dma"
    /\ bm' = [bm EXCEPT !.start = FALSE, !.error = FALSE]
    /\ ctl' = "idle"
    /\ pc' = IF bm.error THEN "failed" ELSE "read"
    /\ buf' = IF bm.error THEN buf ELSE Append(buf, Transferred)
    /\ UNCHANGED <<config, dev, call, regs, irq_c, motor, cyl, tries, ret>>

\* ata_wait_irq, the bus master stopped, BSY polled away, the bus master's
\* error bit read and, when set, cleared.  The drive's own status is not read:
\* a sector it could not read counts as read (call.astray).
DmaFinish ==
    /\ pc = "dma" /\ irq_c > 0
    /\ irq_c' = irq_c - 1
    /\ ctl # "busy" /\ ctl' = "idle"
    /\ bm' = [bm EXCEPT !.start = FALSE, !.error = FALSE]
    /\ pc' = IF bm.error THEN "failed" ELSE "read"
    /\ buf' = IF bm.error THEN buf ELSE Append(buf, Transferred)
    /\ call' = [call EXCEPT !.astray = @ \/ (ctl = "failed" /\ ~bm.error)]
    /\ UNCHANGED <<config, dev, regs, motor, cyl, tries, ret>>

\* ide_polling, or the two loops of ide_send_atapi_command: the status says
\* failed, or the data is read from the port.
PioFinish ==
    /\ pc = "pio" /\ ctl \in {"ready", "failed"}
    /\ ctl' = "idle"
    /\ pc' = IF ctl = "failed" THEN "failed" ELSE "read"
    /\ buf' = IF ctl = "failed" THEN buf ELSE Append(buf, Data)
    /\ UNCHANGED <<config, dev, call, regs, bm, irq_c, motor, cyl, tries, ret>>

-----------------------------------------------------------------------------
(***************************************************************************)
(* Floppy.                                                                 *)
(***************************************************************************)

\* floppy_reset: the controller is reset and answers with one interrupt.
floppy_reset ==
    /\ pc = "reset" /\ ctl = "idle" /\ irq_c = 0
    /\ ctl' = "busy" /\ regs' = [op |-> "reset"]
    /\ UNCHANGED <<config, dev, pc, call, buf, bm, irq_c, cyl, motor, tries, ret>>

\* The interrupt of the reset is taken and the head sent to cylinder 0.
ResetDone ==
    /\ pc = "reset" /\ irq_c > 0
    /\ irq_c' = irq_c - 1 /\ ctl' = "idle"
    /\ pc' = "calibrate" /\ motor' = 1 /\ tries' = SEEK_TRIES
    /\ UNCHANGED <<config, dev, call, buf, regs, bm, cyl, ret>>

\* floppy_do_sector begins with a seek.
floppy_do_sector ==
    /\ pc = "sector" /\ Floppy
    /\ pc' = "seek" /\ motor' = 1 /\ tries' = SEEK_TRIES
    /\ UNCHANGED <<config, dev, call, buf, hw, ret>>

Target == IF pc = "calibrate" THEN 0 ELSE lba2chs(call.lba).cylinder

\* floppy_calibrate and floppy_seek send their command until the sensed
\* cylinder is the wanted one; the motor is switched off either way.
SeekSend ==
    /\ pc \in {"calibrate", "seek"} /\ ctl = "idle" /\ tries > 0
    /\ regs' = [op |-> "seek", cylinder |-> Target]
    /\ ctl' = "busy"
    /\ UNCHANGED <<config, dev, pc, call, buf, bm, irq_c, cyl, motor, tries, ret>>

SeekSense ==
    /\ pc \in {"calibrate", "seek"} /\ irq_c > 0
    /\ irq_c' = irq_c - 1 /\ ctl' = "idle"
    /\ \/ /\ ctl = "ready" /\ cyl = Target
          /\ motor' = 0
          /\ IF pc = "seek" THEN pc' = "transfer" /\ tries' = SECTOR_TRIES
                            ELSE pc' = "idle" /\ tries' = 0
       \/ /\ ~(ctl = "ready" /\ cyl = Target)
          /\ tries' = tries - 1
          /\ UNCHANGED <<pc, motor>>
    /\ UNCHANGED <<config, dev, call, buf, regs, bm, cyl, ret>>

SeekGivesUp ==
    /\ pc \in {"calibrate", "seek"} /\ ctl = "idle" /\ tries = 0
    /\ motor' = 0
    /\ pc' = IF pc = "seek" THEN "failed" ELSE "panic"
    /\ UNCHANGED <<config, dev, call, buf, hw, tries, ret>>

\* The controller ends a command; a seek that is reported well may still have
\* stopped on another cylinder.
FloppyDone(ok) ==
    /\ Floppy /\ ctl = "busy"
    /\ ctl' = IF ok THEN "ready" ELSE "failed"
    /\ irq_c' = irq_c + 1
    /\ IF regs.op = "seek" THEN cyl' \in {regs.cylinder, regs.cylinder + 1} ELSE UNCHANGED cyl
    /\ UNCHANGED <<config, dev, pc, call, buf, regs, bm, motor, tries, ret>>

\* One try of the transfer: motor on, floppy_dma_init, the command.  A buffer
\* the DMA cannot reach ends the read with the motor left on.
TransferSend ==
    /\ pc = "transfer" /\ ctl = "idle" /\ tries > 0
    /\ motor' = 1
    /\ IF dma_ok
       THEN /\ regs' = [op |-> "read", head |-> lba2chs(call.lba).head, sector |-> lba2chs(call.lba).sector]
            /\ ctl' = "busy" /\ UNCHANGED pc
       ELSE /\ pc' = "failed" /\ UNCHANGED <<regs, ctl>>
    /\ UNCHANGED <<config, dev, call, buf, bm, irq_c, cyl, tries, ret>>

\* The seven result bytes: the sector was read, the try is repeated, or, when
\* they say "not writable", the read is given up without another try.
TransferResult ==
    /\ pc = "transfer" /\ irq_c > 0
    /\ irq_c' = irq_c - 1 /\ ctl' = "idle"
    /\ \/ /\ ctl = "ready"
          /\ buf' = Append(buf, Data) /\ pc' = "read"
          /\ UNCHANGED <<tries, motor>>
       \/ /\ ctl = "failed"
          /\ tries' = tries - 1
          /\ UNCHANGED <<buf, pc, motor>>
       \/ /\ ctl = "failed"
          /\ motor' = 0 /\ pc' = "failed"
          /\ UNCHANGED <<buf, tries>>
    /\ UNCHANGED <<config, dev, call, regs, bm, cyl, ret>>

TransferGivesUp ==
    /\ pc = "transfer" /\ ctl = "idle" /\ tries = 0
    /\ motor' = 0 /\ pc' = "failed"
    /\ UNCHANGED <<config, dev, call, buf, hw, tries, ret>>

-----------------------------------------------------------------------------
Driver ==
    \/ iodriver_init
    \/ SectorFailed \/ SectorRead
    \/ ide_do_sector \/ ide_atapi_do_sector \/ DmaFinish \/ PioFinish
    \/ floppy_reset \/ ResetDone \/ floppy_do_sector \/ SeekSend \/ SeekSense \/ SeekGivesUp
    \/ TransferSend \/ TransferResult \/ TransferGivesUp

Controller ==
    \/ \E end \in {"ready", "failed", "transfer"} : DriveDone(end)
    \/ \E ok \in BOOLEAN : FloppyDone(ok)

Next == Driver \/ Controller \/ \E b \in Blocks : ReadBlock(b)

\* The kernel does nothing else while it reads, and every command ends.
Spec == Init /\ [][Next]_vars /\ WF_vars(Driver) /\ WF_vars(Controller)

\* The n-th drive of its kind, counted over the places that hold one, is the
\* one a BIOS number means.
MeantOf(w, drive) ==
    LET kind == IF drive >= 224 THEN "atapi" ELSE "ata"
        n == IF drive >= 224 THEN drive - 224 ELSE drive - 128
        disc == {p \in 0 .. 3 : w[p] = kind}
    IN  CHOOSE p \in disc : Cardinality({q \in disc : q < p}) = n

Meant == IF Floppy THEN -1 ELSE MeantOf(wiring, boot)

\* A block read that reports success has put the sectors of that block of the
\* boot drive in the buffer, in order and complete, after any number of failed
\* tries and whatever way the drive is addressed and waited for.  Three reads
\* go astray and are excepted: a disc's after a failed try, which
\* iso9660_read_block repeats one sector further, one whose failure only the
\* drive's status reports, which DMA reads never look at, and one of a block of
\* ext2 past 4 GiB, whose byte offset ext2_read_block computes in 32 bits.
BlockIsRead ==
    pc = "idle" /\ ret = "ok" /\ ~call.astray =>
        buf = [i \in 1 .. SectorsPerBlock |-> <<Meant, SectorOf(call.block) + i - 1>>]

\* A wait is only ended by the interrupt of the command it waits for: no count
\* is left over from an earlier command, retry or reset.
InterruptIsFresh == pc \in {"dma", "reset", "calibrate", "seek", "transfer"} /\ irq_c > 0 => ctl \in {"ready", "failed"}

\* Every block read that is begun ends, with the block or with an error.
ReadsEnd == pc = "sector" ~> pc = "idle"

=============================================================================
