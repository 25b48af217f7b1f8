# A TLA+ model of the DOS kernel

This directory models the kernel of `modscleo4/dos`, a 32-bit x86 operating
system that boots from a floppy or CD, runs ELF programs in ring 3 and talks to
disks, a keyboard, a screen and a network card. The modules are translated from
the C and assembly source; TLC checks them on small instances and TLAPS proves
the safety properties of everything that runs concurrently, and of some of the
sequential code, for every value of the constants.

## 1. The system

One CPU, no SMP. Interrupt stubs (`kernel/cpu/{syscall,irq,isr}.asm`) run with
interrupts disabled: they save the register frame in the current process
(`process_unload`), call the C handler and restore the frame of whoever is current
then (`process_reload`). So a handler is atomic, with two exceptions. A system call
that waits for a device (read, write, open, stat, lstat, execve, chdir) makes the
idle process current, turns the scheduler off and *enables* interrupts until the
device has answered. And the network card's handler enables interrupts at the end of
every answer it sends (`interrupts_reenable`, `e1000.c:348`), so that a tick may come
inside it. Boot code and the idle loop also run with interrupts on.

| Component | State | Operations | Talks to | Hard behaviour | What makes it correct |
|---|---|---|---|---|---|
| Processes and scheduler (`modules/process.c`, `cpu/syscall.c`, stubs, idle loop) | ready queue, current process, per-process record and frame, scheduler flag | fork, exit, waitpid, kill, signal, pause, exceptions, timer, device waits | memory, descriptors, every driver through device waits | switches at any instruction, who is told of an end, suspended for ever | a process sees only its own steps; the queue lists everybody once; nobody starves; a suspended process can be resumed |
| Physical memory and address spaces (`modules/bitmap.c`, `cpu/mmu.c`) | frame bitmap, page directories and tables | alloc, free, map, clone, heap growth | processes, heap | exhaustion half way, frames with two owners, leaks | a frame has one owner, the bitmap says so |
| Kernel heap (`modules/heap.c`, `libc/stdlib.c`) | blocks with a byte map, next-fit position | malloc, free, realloc, malloc_align | everybody | merging neighbours, ends of blocks, aligned pointers | allocations are disjoint, free gives back exactly one |
| Descriptors (`modules/process.c`, `modules/fd.h`, `cpu/syscall.c`) | 256 descriptors per process, working directory | open, close, read, write, lseek, chdir, fchdir | VFS, terminal, framebuffer | one step of several failing, reuse | a descriptor stands for what its path names |
| Terminal and keyboard (`drivers/tty.c`, `drivers/keyboard.c`) | input and output buffers, modifiers | key interrupt, tty_read, tty_write | processes | producer interrupt against consumer; full buffer | keys are read once, in order |
| Screen (`drivers/tty.c`, `drivers/video/framebuffer.c`) | cells, cursor, colour | a character, clear, goto, colour | terminal | tabs, wrap and scroll at the edges | the screen shows the end of the text |
| Locks (`modules/spinlock.c`, users) | malloc lock | lock, unlock | heap, interrupts | interrupt takes a lock its victim holds | no spin for ever |
| Network (`modules/net/*`, `drivers/ethernet.c`) | ARP table, UDP and TCP listeners, SYN cache, DHCP offers, DNS cache | send, receive, configure, connect, resolve | drivers, heap | lost, late, repeated packets, tables at their limit | an answer goes to the question it answers; every wait ends |
| Network drivers (`drivers/eth/*`) | descriptor rings, interrupt causes | send, receive interrupt | network | ring wrap-around, a send inside a send | frames whole, in order, none twice |
| VFS (`modules/vfs.c`) | mounts | mount, walk of a path | file systems | mount points, missing parts | a path names one file |
| File systems (`drivers/fs/*`) | cached FAT, root directory | init, read, list | block devices | chains, block lookup at boundaries, failing disk | the bytes of the file, the entries of the directory |
| Block devices (`drivers/io/*`) | controller registers, interrupt counts | search, reset, read, retry | file systems | late interrupts, failing commands | the block asked for; an interrupt belongs to its command |
| Start-up (`kernel.c`, `cmdline.c`, `drivers/pci.c`, `drivers/acpi.c`, `cpu/*`) | what is set up, interrupt table | the stages of kernel_main, PCI scan, root | everybody | order, interrupts in between | nothing is used before it is there; the machine that can boot does |
| C library (`libc/*`, the programs' `libc`) | none | strings, numbers, printf, sorting | everybody | boundaries, overlap, widths | what the names promise |
| Panic screen, debug output, boot loader, user programs | text, registers | | | none | |

`PROJECT.json` lists these components with their sources and status, and every
hazard of the code with its line and the properties that cover it.

## 2. Plan

The order was: what every program depends on first, then what runs concurrently,
then the sequential parts.

| Module | What it is | Run | Proofs |
|---|---|---|---|
| `Process`, `Independent`, `ProcessRefinement` | scheduler and system calls; the promise to programs; the refinement | `process`, `process_isolation`, `waitpid_fault` | `ProcessProofs` |
| `Memory` | frame bitmap, address spaces | `memory` | `MemoryProofs` |
| `Heap`, `HeapSearch` | block allocator; its search loop | `heap`, `algorithms` | `HeapProofs` |
| `Terminal` | keyboard interrupt against read and write | `terminal`, `write_returns` | `KernelProofs` |
| `Net` | ARP, IPv4, UDP, DHCP, DNS, TCP | `net` | `NetProofs` |
| `Link` | e1000 rings and interrupt | `link` | `LinkProofs` |
| `Disk` | IDE, ATAPI and floppy reads | `disk` | `DiskProofs` |
| `Volume`, `Files` | FAT, ext2, ISO 9660; mounts, paths and descriptors above them | `files` | `FilesProofs` |
| `Screen`, `Boot` | the text on the screen; the start of the kernel | `algorithms` | `KernelProofs` |
| `Strings`, `Numbers`, `Library`, `Printf` | sequential code against what it is for | `algorithms` | |

All of these are written. `Files` composes the file systems of `Volume` with the VFS
and the descriptor table; what a block read under `Volume` can return is the subject
of `Disk`. `MCAlgorithms` puts the sequential parts into one specification in which a
behaviour runs one of them. Every safety property of the runs is a theorem as well,
except the two about the C library; section 14 says why.

## 3. Process

| Model | Code |
|---|---|
| `ready_queue`, `Link`, `Unlink` | the linked list and `process_add_ready_queue`, `process_remove_ready_queue` |
| `Runnable`, `ScanOrder`, `NextToRun` | the two scans of `process_round_robin` |
| `Save`, `Return`, `ReturnToIdle`, `Deliver` | the stubs with `process_unload`, `process_reload`; `process_idle`; the signal part of `process_switch` |
| `Notify`, `Notified`, `Waiters` | `process_notify_waitpid` |
| `Destroy` | `process_destroy` |
| `SysGetppid` ... `SysPause` | the cases of `syscall_handler` |
| `Fault`, `PageFault` | `process_handle_int`; `page_fault_handler` with `panic_handler` |
| `SleepProc`, `WakeProc`, `ExecProc` | `syscall_sleep_proc`, `syscall_wake_proc`, a successful `process_execve` |
| `Timer`, `TicksOverflow`, `IdleLookup`, `IdleTest` | the PIT handler; the overflow of `timer_ticks`; the loop of `kernel_int_wait`, with its result in a register |
| `AnswerTick` | a tick inside the handler of a network interrupt, after `interrupts_reenable` |

A register frame is `[pc, eax]`: `pc` tells two program points, the signal handler
and the middle of a kernel handler (`KernelPC`) apart, `eax` carries results. `fate`
is a history variable: how a process ended and whether a waiter was told. `Calls`
selects the events that user programs, the network and time cause; `MaxPid` bounds
`process_next_pid`, which the code never bounds.

`process_unload` keeps whatever frame the interrupt found. A tick that comes while the
network's handler runs with interrupts on finds a frame of the kernel, saves it as the
process's and switches: the user's registers, which `irq.asm` holds on the stack, are
lost (`AnswerTick`). When such a frame is restored, the CPU goes on in a handler that
has been left, on whatever stack it then has; the model stops there (`Lost`).

`timer_ticks` is an int to which each tick adds 100, and a switch happens when it is a
multiple of 1000. 2^32 is no multiple of 1000, so after its overflow (`TicksOverflow`,
some 21 million ticks, or two and a half days, after the start) it meets none again and
nothing is ever switched (`aligned`).

`Independent` is the promise to user programs: processes that each have a CPU of
their own, and whose registers change only by their own steps, by the end of a
process they wait for, or by a signal. `ProcessRefinement` maps the registers of
the running process to the CPU and the others to their saved frames.

Runs on `MCProcess`:

| Run | Instance | Result |
|---|---|---|
| `process` | 3 pids; fork, exit, waitpid, kill, fault | `QueueOrdered`, `OneRunning`, `SuspendedHasWaker`, `ParentsLive`, `NoStarvation` hold |
| `process_isolation` | 2 pids, every event but the overflow | the refinement `ProcessesAreIndependent` holds |
| `waitpid_fault` | 2 pids | violated, see section 13 |

Three pids allow a parent, a child and a grandchild or a second waiter, which
re-parenting, several waiters of one process and a scan that wraps need; the four
invariants are also proved for any number. Two pids are enough for the refinement,
because every event concerns an actor and at most one other process; the frame of
each is followed exactly.

`VIEW View` of `process_isolation` drops what no action reads before writing it: the
saved frame of the running process and freed records. It identifies states with the
same successors up to the view and the same image under the refinement.

The refinement has one exception, `Abandoned`: a tick inside a network answer, which
costs the interrupted process its registers and touches nobody else's.

Fairness is weak fairness of `Timer` alone: the PIT interrupts for ever and
`TimerTick` is enabled exactly when an interrupt would switch. Nothing is assumed
of user programs. `NoStarvation` excepts the time after the overflow and a CPU lost by
`AnswerTick`. It is not checked with device waits, pause and
signals: the scheduler is off during a wait, so ticks may all be lost, and pause
gives the CPU to idle, whose scan starts at the head of the queue; both starve
others in the code too (section 13).

## 4. Memory

A frame is its number; an address space is the sets of frames it consists of, by
role, and the number of kernel page tables its directory knows. `FirstFit` and
`Lowest` are the bitmap searches, `NewSpace` the allocations of `process_execve` in
their order, `Clone` those of `mmu_clone_pdt`, `Grown` a `malloc` that extends the
heap, `Freed` what `mmu_free_pages` and `bitmap_free_pages` give back. `System`,
`Exec`, `ExecFails`, `Fork`, `Destroy`, `Schedule` and `Malloc` are the operations;
each runs without being interrupted by another one. `lost` is a history variable
for frames that stay marked with nothing referring to them: page tables, the
frames of an unfinished clone, and heap pages of a file that is no program.

A file is loaded into the kernel heap by malloc_align and its pages are mapped from
there (`FileRuns`, `Load`). malloc_align aligns only the start: behind the end of the
file its last page may hold other live cells of the heap, and mmu_free_pages gives the
whole page back with the process (`Tails`). `shared` is a history variable that names
these pages; `OneOwner` and `MarkedIsOwned` hold for every other frame.

Abstractions: an operation makes the heap grow at most once and by a fixed number
of pages; the .bss of a program ends within the last page of its file, so that no page
behind it is mapped; programs are linked at
0x08048000, which fixes the order of a clone (arguments, heap, file, stack); sizes
too large for any block are not requested.

Run `memory` (2 processes, 50 frames of which 48 lie in whole words, words of 4 bits,
3 heap blocks) goes on until the memory is exhausted, by leaks as well as by use, so
that every failure branch is taken. `OneOwner`, `MarkedIsOwned` and
`WildOnlyWhenShort` hold; 50 is no multiple of 4, so the last frames must never be
handed out. Processes are symmetric.

## 5. Heap

A block is a record of its header and its bitmap, one byte per cell; addresses are
block and cell numbers. `Fresh` is heap_add_block, `NewId` heap_get_new_id, `Find` the
result of the search of heap_alloc, `Marked` what it writes, `Cleared` heap_free. The
actions are `Malloc` (three cases: it fits, a block is added, malloc gives up),
`MallocAlign` (also calloc_align) and `Free`; malloc_lock makes each one a step. The
byte that heap_alloc reads past the end of a bitmap was never written and may have
any value (`ByteAt`). `held` and `lost` are history variables: the allocations not freed yet, and the
cells before an aligned pointer, which free never gives back.

`HeapSearch` has the loop of heap_alloc iteration by iteration, over every bitmap and
every lfb; the run shows that it ends, run and proof that it returns what `Find` says. Its fairness, weak
fairness of the next step, says that the call runs on: nothing in it waits.

Run `heap`: cells of 4 bytes, blocks of 4 and 10 cells, 1 and 3 of them reserved. Four
id values leave a new id one choice between two neighbours, so a wrong choice
merges allocations at once; the sizes are chosen so that a request fills a
block to its last cell, needs the larger block, is between a block's capacity and its
size, or is larger than any. `HeapSearch` is checked in run `algorithms`: up to nine
cells, which hold two runs on either side of lfb.

## 6. Terminal

The steps of read and write are the accesses to the buffers that an interrupt can
tell apart; they run with interrupts on and the scheduler off, so at most one call is
in progress. `KeyDown` and `KeyUp` are the keyboard interrupt with its echo, a single
step each, and may come between any two of them. The kernel is built with `-O0`, so `out_buffer_end++`
is a load and a store (`Load`, `Bump`). Buffers start with arbitrary contents, as malloc
leaves them. `stopped` is the panic of Ctrl+Alt+Del.

Two windows are named by history variables, and the properties say that there are no
others: `overrun`, a Backspace between the test for the last character (`Turn`), before
its copy, and in_buffer_start++ (start then passes end, and old contents are read
again); `clash`, a key echoed during a write.

Run `terminal`: buffers of 3 and 2 characters, a message longer than the output
buffer, so that flushing in the middle, wrap-around and a full input buffer happen.
Weak fairness of `Kernel` says that the CPU continues a call after each interrupt;
a halted reader is woken by the timer at the latest. `write_returns` is violated under the same
fairness.

## 7. Net

The boot code (`boot`, one label per poll loop) and the receive interrupt share the
tables `arp_list`, `offers`, `dns_ip_cache`, `tcp_syn_cache` and the settings
`ipv4`. A poll is a step; `ethernet_process_packet` handles one frame, whole,
between any two of them. `Resolved`, `Missing`, `Frame` and `Send` are
`ipv4_send_packet` with the ARP question it may ask; `DhcpInit` to `Claim` are dhcp_init, `Query` and
`PollAnswer` dns_query_ipv4, `Connect` and `PollSyn` the opening of a connection,
the `Receive...` actions the handlers of one protocol each.

The wire is external: `ArpReplies`, `Offers`, `Acks`, `Answers` and `Segments` say
what the stations answer to the frames in `sent`. An answer may come at any later
time, any number of times, or never, so loss, delay, repetition and reordering all
happen. A packet that fails a version, checksum or opcode test is a loss. `last` and
`found` are history variables: the last SYN-ACK or FIN for a port, and what a query
returned.

A segment's acknowledgement number of 0 makes tcp_send_packet, which takes 0 for "no
number", answer with a number of its own (`Taken`); strangers send such segments too.
`MaxSyn` bounds the numbers given out that way.

Run `net`: two servers, the first of which offers an address in use and leaves out
the mask and the router; two names, of which one has a CNAME first; two connections; two entries of
every table; one or two polls per wait, since a poll only tells "came in time" from
"came too late". `MaxArp` and `MaxConns` also keep the model away from the two
tables whose limits the code does not enforce (section 13). `FramesResolved`,
`ClaimProbed`, `OneLease`, `AnswerIsForName`, `OpenIsAcked` hold. `CallsReturn`
holds under weak fairness of `BootStep`: the timer interrupts go on, so a poll loop
takes its next turn; nothing is assumed of the network.

## 8. Link

The e1000 has two rings. The card owns the receive descriptors from RDH to RDT and
the transmit descriptors from TDH to TDT; `Arrive`, `Overrun` and `Transmit` are the
card, modelled from how the driver uses it. `pc` has a context for the main line and
one for the handler; a send is split at each access the card or an interrupt can
tell apart. tx_tail is read as an argument of e1000_write_transmit_descriptor, and for
the sum, well before the descriptor, or tx_tail itself, is written (the kernel is built
with `-O0`): `SendLoad` reads it into `loaded`, `SendHeader`, `SendData` and
`SendAdvance` use that value, `SendCommit` writes TDT and `SendReturn` ends the wait.
The handler is split at each descriptor (`TakeFrame`, `Release`, `SkipFrame`) and may
send an answer through the same ring. `torn` and `nested` are history variables: a
frame that is not one packet, and a handler that sent while the main line was between
its first read of tx_tail and its write of TDT.

Inside that window an answer overwrites the main line's header, or the main line the
answer's descriptors, and the main line may set tx_tail and TDT back, behind TDH: the
wait for its descriptor then has no end, with interrupts off. The three properties of
the transmit side name `nested` and show that until then nothing else does harm.

Run `link`: three receive and six transmit descriptors, so that both rings wrap
with three good frames and a bad one; one send of the main line and one from the handler
for every frame that asks for it. `LinkAssumption` asks for more than two transmit
descriptors (the driver has 256), as many as a packet takes and one. `DeliveredInOrder`,
`OwnedUntouched`, `WholeFrames` hold. `RaisedIsDelivered` holds under weak fairness of
the running handler, the running sends and the card's `Transmit`, and strong fairness of
`e1000_int_handler`: a pending interrupt is accepted once interrupts are on again,
however often a send turns them off in between.

## 9. Disk

`wiring` is what sits at the four places of the IDE controller; `ide_init` and
`ide_search_for_drive` find the boot drive. `IdeAddress` and `lba2chs` are the
address registers of LBA28, LBA48, CHS and the floppy, with the cylinder in its two
registers, `IdeSector` and `FloppySector` what the drive makes of them. `MeantOf` is
the place a BIOS drive number means; `OnDrive`, external, keeps the reads to sectors
the drive has. A disk's partition holds ext2 or FAT and starts at `start`; `SectorOf` is
where a block of it is and `FirstSector` where it is read: ext2_read_block multiplies
the block by its size in 32 bits, which wraps for blocks past 4 GiB (`Wraps`). `ide_do_sector`, `DmaFinish`,
`PioFinish` are a transfer, `floppy_reset` to `TransferGivesUp` the floppy with its
seek, calibration and retries, `SectorRead` and `SectorFailed` the loops of ext2,
ISO 9660 and FAT over sectors and tries. `DriveDone` and `FloppyDone` are the
controllers: a command ends well, with an error the bus master shows, or with one
only the drive's status shows.

Run `disk`: four wirings (disks and discs in both orders, gaps, an empty drive),
four boot drives, ext2 and FAT partitions at two places, blocks (0, 17, 47, 70) on both
sides of the LBA28 limit, of a track's and of a head's end, at the last cylinder and, for
ext2, past the 32-bit byte offset, with registers of four values so that every digit of
an address matters; the second start takes blocks past LBA28 whose offset does not wrap.
`BlockIsRead` and `InterruptIsFresh` hold; `ReadsEnd` holds under weak fairness of
`Driver` (the kernel does nothing else meanwhile) and of `Controller` (every command
ends; the code has no timeouts and relies on it).

## 10. Volume and Files

`Volume` reads files and directories. A byte is named by its place on the disk, so a
wrong block, cluster or pointer gives a different byte. `fat_table` packs the
cluster chains as FAT12 and FAT16 do and `next_cluster` unpacks them; `ext2_read`
goes through direct and three levels of indirect pointers, each of which ends its loop
when it is 0, as it is in a sparse file (`BeforeHole`, `Visited`); `ext2_read_bgd` and
`ext2_read_inode` go through the inode tables. `fs_readdir` is the slots of a directory
as each driver finds and skips them: ext2_readdir reads them through ext2_read, whose
lookup past the direct blocks starts at the wrong pointer (`BlockRead`, `Searched`), and
fat_readdir sees the first sector of each cluster only (`FirstSector`).

`Files` has the mounting at boot (`fat_init`, `ext2_init`, `iso9660_init`,
`vfs_mount`, each of which may fail), the walk `vfs_stat`, and open, read, write,
lseek, close, chdir and fchdir as actions. `seen` is a history variable: the path a
program opened, what it has read since, and whether that read is one of the named
exceptions. A disk error may come at any directory block (`Failures`), at an open
(`OpenLost`) or at a mount. ext2_read_inode does not look whether the group descriptor
could be read and goes on with an uninitialised one, so that a component of a path may
turn into any other inode (`StepLost`, `Mistaken`) or into none (`OpenWild`, which is
followed no further), and a listed entry may tell of another inode.

`WellFormed` says what mkfs and the image build leave on a disk: a cluster belongs to
one file, inodes have places of their own, an ISO 9660 file is one extent, directories
are told apart by their inode numbers, and below a FAT's root and on ISO 9660 only free
slots follow a free one in a block; a directory of ext2 has whole blocks and no holes.
`NamesAssumption` adds that no program asks for
the name of a volume label, of a deleted file, or for the empty name, and that /dev, /proc and
/tmp are directories. `Safe` is where the drivers' reads are right: within a block, or
from the begin of one; on ext2 in a file without holes and within the direct blocks or
from the begin of the file; on a FAT with several sectors to a cluster in the first
sector. `Plain` is which directories the drivers list whole: on ext2 those of direct
blocks only, on FAT those without deleted files and, below the root, without labels and
within the first sectors of their clusters, on ISO 9660 those of one block.
`MaxOffset` bounds the offset an lseek leads to.

Run `files`: FAT12, FAT16, ext2 and ISO 9660 volumes with the same tree; files over
odd and even clusters out of order, over direct to triply indirect blocks, a sparse file
with a hole at every level, directories over two blocks with free slots, one of all
direct blocks and one of more, inodes at both ends of their tables in
three groups. Blocks of four bytes with two pointers; one sector to a cluster, as in the
repository's images. One descriptor is enough,
opened up to three times: descriptors share nothing but the search for a free one.
Reads of 4 and 40 bytes stop at a block's end and cross many. `OpenedIsNamed`,
`MissingIsMissing`, `StreamIsFile`, `DirectoryIsListed` hold, outside the exceptions
their comments name and section 13 lists. `VIEW View` drops the working directory,
which nothing reads, what a closed descriptor stood for, and the last call's result
unless it is a missing path.

## 11. Library, Printf, Screen, HeapSearch

`Strings` and `Numbers` are the functions of string.c, ctype.c, stdlib.c, bits.c and
the page-wise copies of mmu.c; `Library` calls one of them and says in `Right`, by
quantifiers and without an algorithm, what it is for. `Printf` is the loop of
vsprintf, an iteration a step; `Meaning` is what a list of directives should print.
`Screen` writes characters to the cells as tty.c does and, beside it, to an endless
`tape` of which the screen should show the last rows. char is signed in this build, so a
byte from 0x80 on is negative: stored as a cell its sign covers the colour (`Cell`), and
drawn in a graphics mode its shape lies before the font (`Glyph`); `Shown` excepts the
half that is lost. `ScreenAssumption` says that no
caller of tty_gotoxy goes further back from an edge than the screen is wide or high;
the calls in the code are (0, 0), (0, -1), (0, 4) and (-19, 0).

`Printf` takes the destination of vsprintf to be full of zeros: texts are appended at the
first zero from the place counted so far, single characters are stored at that place,
and nothing is put behind the last. Every caller's buffer is cleared but the static one of
printuuid, which is not from its second call on (section 13). left_align is reset
neither in the code nor in the model; the lists of the run have no %s that gives a width
without "-", which alone would show it.

Run `algorithms`: longs of 11 bits with the values at their ends, strings up to three characters
with copies that overlap both ways in all widths, every pair of printf directives, a
screen of 3 by 2 with tab stops of 2 and seven characters, which scrolls more than
once. `LibraryIsReference`, `PrintedIsMeant`, `ScreenIsText`, `SearchIsFind` hold;
`SearchEnds` holds under weak fairness of the search's own step, which says that the
call runs on.

## 12. Boot

The stages of kernel_main in their order (`Order`), each with what it uses, what it
sets up and how it gives up; interrupts may come between any two stages once they
are enabled (`Interrupt`), and use what their handler uses. The PCI scan, the ACPI
start, the command line with root and memtest, and the way to the root file system
are modelled; `setup` is the machine. What memcpy may use is "wide" once get_cpuid_info
has found SSE, and works once sse_init ran; its 8-byte MMX moves, which begin with the
message after get_cpuid_info, work unless the loader left CR0.EM or CR0.TS set, which it
is taken not to do. `NothingTooEarly`: no stage or handler uses
what is not there yet, unless the loader is not multiboot2 or tells nothing about
memory. `BootedAsAsked`: a machine with what it needs comes up with the root it was
told, and every device the scan should find is given to its driver, once.

`pci_check_bus` is the recursion of the scan over the numbers of the buses.
`Numbered` says that a bridge leads to a bus with a larger number than its own and that
no two lead to the same, as the firmware numbers them; a bridge that leads back makes
the code recurse for ever. `Behind` and `Expected` say without the scan which
functions it should find. A host bridge that is absent reads as all ones, so as one with
several functions, and the code then takes the missing functions of device 0 for
buses; `BootedAsAsked` excepts it. Run `algorithms`
starts about 190 machines: four buses of four devices with three functions, ten PCI trees (bridges in bridges, gaps, multi-function
devices, two cards on two lines, no host), eight roots, missing tags, ACPI that never
answers, bad options.

## 13. Where the code disagrees with its own text

| Run | What happens |
|---|---|
| `waitpid_fault` | an exception other than a page fault ends the child and tells nobody; its parent waits for ever |
| `write_returns` | a key pressed while a write is shown makes it go on for ever |

`findings` in `PROJECT.json` quotes the lines. The models follow the code in the
cases below too, and the properties that would meet them name them as exceptions or
the bounds stay on the near side.

*Processes.* Any signal to a child ends its parent's waitpid although the child
lives (`syscall.c:386`); waitpid after the child's exit returns -ESRCH, its zombie
branch is dead code (`syscall.c:347`); processes that wait for each other or for
themselves are never resumed (`:358`); a delivered signal stays pending and is
delivered at every switch (`process.c:222`); the scheduler is off during device
waits (`syscall.c:32`); pause starves its caller's juniors (`:257`); the result of a
call that turned to idle lands in idle's eax and may make it panic
(`syscall.asm:55`); a tick inside a network answer saves a frame of the kernel as the
process's (`process.c:191`, `e1000.c:348`); the round robin stops when timer_ticks has
overflowed (`timer.c:54`).

*Memory and heap.* The last page of a loaded file may hold other live cells of the
heap and is freed with the process (`process.c:405`, `stdlib.c:361`), and the other
pages may be given to others while the heap still counts them; a child's page directory may lack the page table of
its own record (`:339`); malloc asks for a block that cannot hold a request just
below the block's size, and keeps it (`stdlib.c:333`); an interrupt that allocates
while malloc holds its lock spins for ever (`:324`).

*Terminal and screen.* A terminal refuses every key, Backspace too, after 1024
characters in all (`tty.c:303`). A tab that reaches the right edge leaves the cursor
behind it, a newline there is swallowed, and a tab in the row below the last writes
past text_buffer (`:169`). In graphics modes scrolling leaves the back buffer alone. A
byte from 0x80 on sets its colour to 0xFF (`tty.c:143`, `framebuffer.c:32`) and is drawn
with what lies before the font (`tty.c:92`).

*Network.* The ARP table's limit is its size in bytes (`arp.c:121`), tcp_syn_cache
has none (`tcp.c:95`); packets to known neighbours go to the gateway (`ip.c:47`),
and before DHCP every address is a neighbour; offers survive to a second interface
(`dhcp.c:20`) and are taken whoever they are for (`:97`); a second connection sees
the first one's SYN (`tcp.c:102`); a DNS answer's records other than A are not
skipped, its name is uninitialised (`dns.c:55`, `:86`); an acknowledgement number of 0
is answered with a new number (`tcp.c:76`).

*e1000.* The last read of ICR loses the causes that came meanwhile (`e1000.c:472`);
a bad frame is not cleared and is met again after a turn of the ring (`:364`);
interrupts are off only after both descriptors are written, so an answer of the
handler may tear a frame, be overwritten, or leave the main line waiting for ever with
interrupts off (`:331`).

*Disks.* Blocks of ext2 past 4 GiB are read from elsewhere (`ext2.c:24`); a drive that is
not found is used as device -1 (`kernel.c:57`); a DMA read
does not look at the drive's own error (`ide.c:561`); the retry of
iso9660_read_block reads the next sector (`iso9660.c:20`); PIO writes call insw
(`ide.c:578`); a failed DMA set-up leaves the floppy's motor on; the control port at
0x3F6 is taken for a memory address, so "Disable interrupts" writes to the floppy
controller (`ide.c:32`, `pci.c:24`).

*File systems.* A read that crosses a block from its middle, or enters an ext2
file's indirect blocks from the middle of the file, returns the wrong bytes; so entries
of an ext2 directory past its direct blocks are missing (`ext2.c:256`, `:447`); a read
of a sparse ext2 file stops at a hole, or goes on with the bytes behind it (`:318`);
an unreadable group descriptor is used as it is (`:77`); FAT
reads one sector per cluster and loops for ever when its FAT could not be read
(`fat.c:73`); deleted entries of FAT subdirectories are listed; ext2 assumes inodes
of 128 bytes, as the images have; ISO 9660 directories are read for one block and
end with a nameless entry; a disk error in a FAT or ext2 directory reads as its end;
a missing root directory is copied unchecked.

*Paths and descriptors.* The walk ignores the working directory, goes on after a
file, stops at an empty component (`vfs.c:153`) and leaves the mount unset for "/"
(`:131`); a descriptor keeps the rights and the terminal of its former file
(`process.c:568`) and stays used when its device is missing (`:585`, `:595`);
reading the framebuffer writes to it (`stdio.c:76`); read and write do not test the
descriptor's bounds and pass on only the first page of the buffer (`syscall.c:63`).

*Library.* mmu_readl and its kin translate only the first byte's page; strrchr of an
absent character never ends; strcmp loses the sign, strncmp reads past both ends;
lftoa loses signs and zeros of fractions; strtol returns 0 for any junk; printf
keeps its alignment and padding for the next directive, ignores the width of plain
numbers, prints %X and %o as signed, and appends behind what the destination already
holds, so that the second printuuid writes past its buffer (`stdio.c:315`, `uuid.c:6`).

*Start.* Function 0 of a multi-function PCI device gets no driver (`pci.c:169`), a
multi-function host bridge hides the bus (`:208`), an absent one makes the scan go over buses 0 to 7, a bridge to bus 0 recurses for
ever; the later of two handlers of a line replaces the earlier (`irq.c:10`); hd96
becomes a disc and fd128 a disk (`cmdline.c:58`), any one-character memtest option
passes (`:104`) and a missing one panics; a partition above 3 is read out of bounds;
a panic before tty_init has no terminal (`kernel.c:110`); memcpy tests the SSE bit
and uses an instruction of SSE2 (`string.c:18`).

## 14. What is proved

`ProcessProofs` (for every `MaxPid` and `Calls`; assumptions `MaxPidAssumption`,
`CallsAssumption`): `TypeCorrect`, `QueueStaysOrdered`, `OneProcessRuns`,
`WakersExist`, `NoDanglingParent`. They follow from one inductive invariant `IInv ==
TypeOK /\ Unborn /\ Safety /\ SleepsInUser`. The four safety invariants are not inductive alone:
unlinking keeps the order only if the victim is in the queue, which `OneRunning`
says of the current process; re-parenting to a live process needs `ParentsLive` of
the victim; a waiter keeps a waker only if suspension has one reason. `Unborn` says
that the records beyond `process_next_pid` are fresh: the code clears a record when
process_create allocates it, the model has all records from the start, so the proof
must know that nobody touched the next one. There is a step per action, and lemmas
for `Link`, `Unlink` and the scan.

`SchedulerIsInvisible` is the refinement `ProcessesAreIndependent`, step by step: with
`Reg(q)`, what q finds in its registers when it runs next, every action is a step of
one process that leaves `Reg` of the others alone, except for the waiters that
`Notify` gives a result and a process that a signal sends to its handler, or it
changes no `Reg` at all (a switch saves and restores the same frame), or it is a tick
inside a network answer and changes the `Reg` of the process it interrupted
(`Abandoned`). `IInv` is used throughout: a frame may be saved only for the process that
has the CPU, and the one that sleeps in a device wait does not sleep in the middle of a
handler (`SleepsInUser`).

`MemoryProofs` (for any number of processes, frames and page counts that satisfy
`MemoryAssumption`): `TypeCorrect`, `FramesHaveOneOwner`, `NothingElseLeaks`, from
`IInv == TypeOK /\ OneOwner /\ MarkedIsOwned /\ NoGhosts`. `OneOwner` needs
`MarkedIsOwned`: a frame found free in the bitmap is nobody's, unless it was a shared
last page, and then `shared` still names it. `NoGhosts` (a slot
without a process has no address space) is needed because fork takes such a slot.

`WildIsDue` proves `WildOnlyWhenShort`. It needs no further invariant but an argument
about the searches: `FirstFit` and `Lowest` take the lowest frames they can use, so a
run of m free frames keeps m - n of them free after n frames were asked for
(`Leaves`), and the n frames are found as long as there is a run of n. So when a run
of `Need` frames is free before an operation, each of its allocations in turn
succeeds (`NewSpaceFits`, `MallocLeaves`, `ShortStep`).

`HeapProofs` (for any sizes that satisfy `HeapAssumption`):
`AllocationsAreDisjoint`, `BitmapIsExact`, `UsedIsExact`, `TypeCorrect`, from an
invariant `IInv` over the blocks, what is held and what is lost. Its key part is
`Delimited`: the cells of an allocation share an id and the cell after it has
another one. free relies on just that, and heap_get_new_id keeps it by avoiding both
neighbours; the assumption of more than three id values is what makes this possible.
`RefusalsAreDue` adds that malloc gives up only on what an empty block could not hold
(`FreshServes`: in a fresh block the search begins at the first cell behind the
bitmap).

`KernelProofs` (for buffers and messages of any size, `TerminalAssumption`):
`TypeCorrect`, `InputStaysExact`, `OutputStaysExact`. `InputInv` relates the text,
the buffer and what was delivered character by character; `OutputInv` splits the
message into what was shown, what is buffered and what is left to do, at every step
of a write. `Idle`, `Room` and `Busy` say where out_buffer_end and the rest of the
message are at each step, interrupted or not. A read that has tested for a character and
not yet copied it ("take") knows that there is one, unless a Backspace came: that is
where `overrun` begins.

`NetProofs` (for any stations, servers, options, names, poll counts and table sizes;
`NetAssumption`): `FramesAreResolved`, `ClaimsAreProbed`, `LeaseIsOne`,
`AnswersAreForNames`, `OpenStaysAcked`, from one `IInv`. `Tables` says that the tables
hold only what some station said; `BootShape` and `SentShape` what the boot code is
waiting for and what can be answered. `Probing` remembers, while an address is being
probed, that its ARP request is out and how far the table was searched without
finding it: this is what makes `ClaimProbed` inductive. `OneRequest` (dhcp_init asks
one server) and `Settings` (the settings are the initial ones or that server's) give
`OneLease`; `Asked` ties the name being resolved to the query; `OnlyFirst` (the search
of tcp_syn_cache marks only the first entry of a port) gives `OpenIsAcked`.

`LinkProofs` (for receive rings of more than one and transmit rings of more than two
descriptors, any number of frames and sends; `LinkAssumption`): `FramesInOrder` and
`OwnedStaysUntouched`, which are action properties, and `FramesAreWhole`. `RxInv`
measures each receive descriptor by its distance from the next one the driver reads:
the good frames lie before the card's head, all that were not taken, in ascending
order. `WholeInv` says of the transmit side, as long as no handler sent inside a
send, that at most one context is sending, how many descriptors from TDH on it has
written at each of its places, which half of its packet each of them holds, that the
value of tx_tail it has read is still the one stored, and which descriptor it waits for.
That the handler cannot come in between the read and the use without `nested` is what
makes it inductive.

`DiskProofs` (for any wiring, geometry, register width and blocks that a sector
number can name; `DiskAssumption`): `IdeAddressIsExact`, `BlocksAreRead`,
`InterruptsAreFresh`. `Found` says that the search ended at the drive the boot number
means, `OneIrq` that an interrupt is counted exactly between the end of a command and
the end of its wait, `Addressed` that the registers name the wanted sector while a
command is out, `Advance` which sectors the buffer holds. The arithmetic is in
`IdeAddressIsExact` and a lemma for the floppy: division by the geometry and by the
radix of the registers, undone by the drive; and a block whose byte offset does not wrap
begins at the sector `SectorOf` says.

`HeapProofs` also has `SearchFinds` (for every bitmap, lfb and request;
`SearchAssumption`), from the invariant that nothing the loop has passed would fit,
before and after the wrap; the skip over a run that is too short is right because no
cell in it begins a longer one. `KernelProofs` has `ScreenShowsText` (for every screen,
tab width, text and order of calls; `ScreenAssumption`), from `ScreenInv`: until a tab
goes astray the cursor is on the screen or at the begin of the row below it, which is
where the code delays the scroll, and every cell shows its place of the tape.

`FilesProofs` (for any set of well-formed volumes, paths, devices, descriptors and
counts; `VolumeAssumption`, `FilesAssumption`, `NamesAssumption`): `OpensWhatIsNamed`,
`OpensWhatExists`, `ReadsTheFile`, `ListsTheDirectory`, from one inductive invariant
`FilesInv`. It says of every descriptor, used or not, what it stands for
(`StandsFor`), that what was read is the file between `from` and the offset
(`Streams`), or the first entries of the listing up to the offset (`Lists`); and of the
mounts (`BootInv`) that each is on a directory below the root and is found by its inode
number, and that a cached FAT is the one on the disk. The argument has four layers:

- *Unpacking.* `next_cluster` of a packed table gives the entry back, for odd and even
  clusters; so `Chain` follows the blocks of the file. `ext2_read_inode` gives the
  node back whose inode lies at the place computed from its number.
- *Reading.* Each driver's `Chunks` are the bytes `Where` says, under `Safe`. For ext2
  the loop over the indirect blocks is followed with an invariant on how much has been
  read after the k-th: it begins each block of pointers where the one before ended.
- *Listing.* `Kept` of two equal sets of slots is equal, and keeps the order; the sets
  the drivers test for are the entries in a `Plain` directory. On ext2 the blocks that are
  searched one after the other (`Searched`) are, up to DIRECT of them, the directory's.
- *Walking.* After k components the walk stands where `Lookup` does, or both have
  failed; a mounted directory is recognised because directories have different inode
  numbers. A walk on a failing disk (`Lost`) may end at any node, which leaves the types
  and the other descriptors as they were (`LostTypes`, `LostStep`).

`KernelProofs` also has `StartsInOrder` and `StartsAsAsked` (for every machine that
`BootAssumption` allows, with any number of buses, devices and functions). The first
follows from `Services`, at which place of `Order` each service is ready and stays so, and
`Handlers`, which handlers can be installed at which place: an interrupt comes only
after interrupts_enable, but a network card's only after the protocols it calls. The
second needs what the scan returns: `ScanIs` shows, from the last bus upwards, that
`pci_check_bus` gives a sequence without repetitions of exactly the functions it should
on the buses `Behind` it. Without repetitions because buses behind different bridges
are different (`BehindApart`), which is where the numbering of the buses is used.
`AskedInv` then carries what has been found and what each stage that was passed has
tested.

The type invariants are stated by `TypeCorrect` and, for `Net`, `Link` and `Disk`, by
`NetInvariant`, `LinkInvariant` and `DiskInvariant`, and need no run of their own.

*Recursion.* The recursive functions of `Volume`, `Files` and `Boot` (a chain of
clusters, the blocks of ext2, the walk of a path, the PCI scan) and the community
module's `FlattenSeq` are defined by CHOOSE, so nothing is known of them at first. The
proofs show that each satisfies its equation: were there a least length, or a
greatest bus, without such a function, the one for the length before could be
extended. What it computes is then shown the same way, by the least index at which the
claim fails (`LeastNat`, `Upwards`, `Downwards`), which needs only that every set of
natural numbers has a least element, and no induction theorem with an operator as
parameter.

Only model-checked: everything about liveness (`NoStarvation`, `LineIsRead`,
`CallsReturn`, `RaisedIsDelivered`, `ReadsEnd`, `SearchEnds`), which is out of the
prover's reach; and `LibraryIsReference` and `PrintedIsMeant`. These two are about
some forty functions at once, each with a fold or a recursion of its own over strings
and digits, and the quicksort of `Numbers` is a recursive operator, which the prover
cannot take. The `MC` modules check the invariants that are proved on small instances
as well.

## 15. Not modelled

- The boot loader, straight-line real-mode code; user programs, which are the
  environment of `Process`.
- The ne2k driver, whose receive side is unfinished; ICMP echo, checksums and packet
  layout.
- Writing to disks (no file system writes), AHCI, SCSI and USB (stubs), the RAM disk
  (nothing creates one).
- Semaphores, the task queue (its producer syscall_on_idle is never called),
  realloc, vfs_open to vfs_unmount, the drivers' stat functions, irq_mask and
  irq_unmask, the kblayout option: no code uses them.
- malloc's lock: on one CPU it is free or held by what was interrupted, in which
  case it is never released.
- Large pages, the loop of the memory test, contents of pages, user and group ids
  (nothing checks them), stat and fstat (they change nothing).
- Switching of terminals, escape sequences, pixels and glyphs, debug output, the
  panic screen's text.
- Floating-point mathematics and the clock.
