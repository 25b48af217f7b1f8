-------------------------------- MODULE Boot --------------------------------
(***************************************************************************)
(* The start of the kernel (kernel.c): the stages of kernel_main in their   *)
(* order, the interrupts that come in between once they are enabled, the    *)
(* search for devices (drivers/pci.c) and the way from the command line to  *)
(* the root file system.  A stage is one step; what matters of it is what   *)
(* it uses, what it sets up and whether it gives up.                        *)
(***************************************************************************)
EXTENDS Integers, Sequences, SequencesExt, FiniteSets

CONSTANTS
    Setups,        \* the machines: see MCAlgorithms
    BusCount,      \* the numbers of buses (256)
    DeviceCount,   \* the devices of a bus (32)
    FunctionCount  \* the functions of a device (8)

BusNumbers == 0 .. BusCount - 1
\* The buses are numbered as the firmware does it: the bus behind a bridge has a
\* larger number than the bus the bridge is on, and no other bridge leads to it.
Numbered(pci) ==
    /\ DOMAIN pci \subseteq BusNumbers \X (0 .. DeviceCount - 1) \X (0 .. FunctionCount - 1)
    /\ \A f \in DOMAIN pci :
          /\ pci[f].multi \in BOOLEAN
          /\ pci[f].class = "bridge" => pci[f].secondary \in f[1] + 1 .. BusCount - 1
    /\ \A f, g \in DOMAIN pci :
          pci[f].class = "bridge" /\ pci[g].class = "bridge" /\ pci[f].secondary = pci[g].secondary => f = g

Kinds == {"fd", "hd", "cd"}
ASSUME BootAssumption ==
    /\ BusCount \in Nat /\ DeviceCount \in Nat /\ FunctionCount \in Nat
    /\ FunctionCount \in 1 .. BusCount /\ DeviceCount > 0
    /\ \A m \in Setups :
          /\ m.tags \in Seq(STRING)
          /\ m.memtest \in {"0", "1", "x", "junk", "absent"}
          /\ m.root.kind \in Kinds \cup {"bad"} /\ m.root.disk \in Nat /\ m.root.partition \in Nat
          /\ m.drives \subseteq Kinds \X (0 .. 95)
          /\ Numbered(m.pci)

VARIABLES
    setup,         \* the machine that is started
    at,            \* the place of kernel_main in Order
    tags,          \* the multiboot tags not read yet
    ready,         \* what has been set up
    routines,      \* irq_routines
    eth,           \* the network interfaces
    found,         \* the functions pci_device_found was called for
    root,          \* what was mounted as root: <<drive, partition>>
    outcome,       \* "running", "up", "panic", "hung", "wild"
    early          \* what was used before it was set up

bootvars == <<setup, at, tags, ready, routines, eth, found, root, outcome, early>>

\* A fault: the devices are searched before the network is set up.
OrderDevicesFirst == <<
    "serial_init", "check_multiboot2", "tags", "mmu_init", "kernel_malloc_init", "framebuffer_setup", "tty_init",
    "checks", "get_cpuid_info", "fpu_init", "gdt_init", "idt_init", "isr_init", "irq_init", "pic_remap",
    "alloctest", "syscall_init", "timer_init", "keyboard_init", "interrupts_enable", "acpi_init", "memtest",
    "dev_init", "proc_init", "tmp_init", "process_init", "pci_init", "udp_init", "tcp_init", "dns_init", "fs_init", "vfs_init",
    "vfs_mount", "system">>
\* kernel_main.
Order == <<
    "serial_init", "check_multiboot2", "tags", "mmu_init", "kernel_malloc_init", "framebuffer_setup", "tty_init",
    "checks", "get_cpuid_info", "fpu_init", "gdt_init", "idt_init", "isr_init", "irq_init", "pic_remap",
    "alloctest", "syscall_init", "timer_init", "keyboard_init", "interrupts_enable", "acpi_init", "memtest",
    "dev_init", "proc_init", "tmp_init", "process_init", "udp_init", "tcp_init", "dns_init", "pci_init", "fs_init", "vfs_init",
    "vfs_mount", "system">>

NoRoutines == [line \in 0 .. 15 |-> "none"]

BootInit ==
    /\ setup \in Setups
    /\ at = 1
    /\ tags = setup.tags
    /\ ready = {"wide"}
    /\ routines = NoRoutines
    /\ eth = <<>>
    /\ found = <<>>
    /\ root = <<>>
    /\ outcome = "running"
    /\ early = {}

Stage(s) == outcome = "running" /\ Order[at] = s
Use(services) == early' = early \cup (services \ ready)
Continue == at' = at + 1 /\ UNCHANGED outcome
\* panic writes to the terminal and waits for a key.
Panic(services) ==
    /\ Use(services \cup {"tty"})
    /\ outcome' = "panic"
    /\ UNCHANGED <<at, ready, routines, eth, found, root>>
RestOfBoot == UNCHANGED <<setup, tags, routines, eth, found, root>>

\* A stage that only uses and sets up something.  "wide" is that memcpy may move 16
\* bytes at once: see get_cpuid_info.
Sets(s, uses, gives) ==
    /\ Stage(s)
    /\ Use(uses)
    /\ ready' = ready \cup gives
    /\ Continue
    /\ RestOfBoot

mmu_init == Sets("mmu_init", {"bitmap"}, {"mmu"})
kernel_malloc_init == Sets("kernel_malloc_init", {"mmu", "bitmap"}, {"heap"})
framebuffer_setup == Sets("framebuffer_setup", {"mmu", "heap"}, {"fb"})
tty_init == Sets("tty_init", {"heap", "fb"}, {"tty"})
gdt_init == Sets("gdt_init", {}, {"gdt"})
pic_remap == Sets("pic_remap", {"tty"}, {"pic"})
alloctest == Sets("alloctest", {"heap", "tty"}, {})
dev_init == Sets("dev_init", {"heap"}, {"devfs"})
proc_init == Sets("proc_init", {"heap"}, {"procfs"})
tmp_init == Sets("tmp_init", {"heap"}, {"tmpfs"})
process_init == Sets("process_init", {"heap", "mmu", "wide"}, {"process"})
udp_init == Sets("udp_init", {"heap"}, {"udp"})
tcp_init == Sets("tcp_init", {"heap"}, {"tcp"})
dns_init == Sets("dns_init", {"heap", "udp"}, {"dns"})
vfs_init == Sets("vfs_init", {"heap", "rootfs", "wide"}, {"vfs"})
vfs_mount == Sets("vfs_mount", {"vfs", "devfs", "procfs", "tmpfs", "wide"}, {"mounts"})

\* A port that does not echo stays off, and what is sent to it is dropped.
serial_init == Stage("serial_init") /\ Continue /\ RestOfBoot /\ UNCHANGED <<ready, early>>

check_multiboot2 ==
    /\ Stage("check_multiboot2")
    /\ \/ setup.magic /\ Continue /\ UNCHANGED <<ready, routines, eth, found, root, early>>
       \/ ~setup.magic /\ Panic({})
    /\ UNCHANGED <<setup, tags>>

\* The memory tag sets up the bitmap of the frames, the others are only noted.
ReadTag ==
    /\ Stage("tags")
    /\ tags # <<>>
    /\ tags' = Tail(tags)
    /\ ready' = IF Head(tags) = "meminfo" THEN ready \cup {"bitmap"} ELSE ready
    /\ UNCHANGED <<setup, at, routines, eth, found, root, outcome, early>>
TagsRead == Stage("tags") /\ tags = <<>> /\ Continue /\ RestOfBoot /\ UNCHANGED <<ready, early>>
Told(tag) == tag \in ToSet(setup.tags)

Checks ==
    /\ Stage("checks")
    /\ \/ Told("bootdev") /\ Told("meminfo") /\ setup.ram /\ setup.cpuid /\ Use({"tty"}) /\ Continue
          /\ UNCHANGED <<ready, routines, eth, found, root>>
       \/ ~(Told("bootdev") /\ Told("meminfo") /\ setup.ram /\ setup.cpuid) /\ Panic({"tty"})
    /\ UNCHANGED <<setup, tags>>

\* From here on memcpy uses the 16-byte registers of a processor that has them, but
\* they only work once sse_init has enabled them.  The 8-byte ones (MMX) it uses too,
\* in the message that follows already; they work unless the loader left CR0.EM or
\* CR0.TS set, which is taken not to be so.
get_cpuid_info ==
    /\ Stage("get_cpuid_info")
    /\ Use({"tty"})
    /\ ready' = IF setup.sse THEN ready \ {"wide"} ELSE ready
    /\ Continue
    /\ RestOfBoot

\* Without an FPU nothing is enabled, but then there is no SSE and nothing is missing.
fpu_init ==
    /\ Stage("fpu_init")
    /\ Use({"tty"})
    /\ ready' = ready \cup {"wide"}
    /\ Continue
    /\ RestOfBoot

idt_init ==
    /\ Stage("idt_init")
    /\ ready' = (ready \ {"exceptions", "irqs", "syscall"}) \cup {"idt"}
    /\ Continue
    /\ RestOfBoot
    /\ UNCHANGED early
\* The gates of the interrupt table, which idt_init clears.
isr_init == Sets("isr_init", {"idt"}, {"exceptions"})
irq_init == Sets("irq_init", {"idt"}, {"irqs"})
syscall_init == Sets("syscall_init", {"idt"}, {"syscall"})

\* One handler for each line: a later one takes the place of the one before it.
irq_install_handler(handlers) == routines' = [line \in DOMAIN routines |-> IF line \in DOMAIN handlers THEN handlers[line] ELSE routines[line]]
Installs(s, line, uses, gives) ==
    /\ Stage(s)
    /\ irq_install_handler([l \in {line} |-> s])
    /\ Use(uses)
    /\ ready' = ready \cup gives
    /\ Continue
    /\ UNCHANGED <<setup, tags, eth, found, root>>
timer_init == Installs("timer_init", 0, {"tty"}, {"timer"})
keyboard_init == Installs("keyboard_init", 1, {"tty"}, {})

interrupts_enable ==
    /\ Stage("interrupts_enable")
    /\ ready' = ready \cup {"interrupts"}
    /\ Use({"tty"})
    /\ Continue
    /\ RestOfBoot

\* An interrupt between two steps; without a gate it would be a fault, before
\* pic_remap it would have the number of an exception.
HandlerUses(routine) ==
    CASE routine = "keyboard_init" -> {"tty", "heap"}
      [] routine = "ethernet_handler" -> {"heap", "udp", "tcp", "dns", "wide"}
      [] OTHER -> {}
Interrupt ==
    /\ outcome = "running"
    /\ "interrupts" \in ready
    /\ \E line \in DOMAIN routines : Use({"gdt", "idt", "irqs", "pic"} \cup HandlerUses(routines[line]))
    /\ UNCHANGED <<setup, at, tags, ready, routines, eth, found, root, outcome>>

\* The tables are only read when their sums are right.  The wait for the firmware
\* to hand over has no end of its own.
acpi_read_fadt ==
    \/ setup.acpi = "stuck" /\ outcome' = "hung" /\ UNCHANGED <<at, routines>>
    \/ setup.acpi # "stuck" /\ irq_install_handler([l \in {9} |-> "acpi_sci_handler"]) /\ Continue
acpi_read_rsdt ==
    \/ setup.acpi = "bad" /\ UNCHANGED routines /\ Continue
    \/ setup.acpi # "bad" /\ acpi_read_fadt
acpi_init ==
    /\ Stage("acpi_init")
    /\ \/ ~Told("acpi") /\ UNCHANGED routines /\ Continue
       \/ Told("acpi") /\ acpi_read_rsdt
    /\ Use({"mmu", "bitmap"})
    /\ UNCHANGED <<setup, tags, ready, eth, found, root>>

\* The option has to be there, and be 0 or 1; but only a longer text that begins
\* with neither is refused, and one other character ("x") counts as 0.
validate_cmdline_memtest(option) == option \notin {"absent", "junk"}
memtest ==
    /\ Stage("memtest")
    /\ \/ ~validate_cmdline_memtest(setup.memtest) /\ Panic({"tty"})
       \/ /\ validate_cmdline_memtest(setup.memtest)
          /\ Use(IF setup.memtest = "1" THEN {"heap", "bitmap", "tty"} ELSE {})
          /\ Continue
          /\ UNCHANGED <<ready, routines, eth, found, root>>
    /\ UNCHANGED <<setup, tags>>

-----------------------------------------------------------------------------
(***************************************************************************)
(* The PCI bus: setup.pci maps the functions that exist, <<bus, device,     *)
(* function>>, to their headers.                                            *)
(***************************************************************************)

Present(f) == f \in DOMAIN setup.pci

\* The functions that pci_device_found is called for, in order.  The function 0 of
\* a device with several functions is asked for bridges and passed over.  buses is
\* what pci_check_bus finds on each bus.
pci_check_function(f, buses) ==
    IF setup.pci[f].class = "bridge" THEN buses[setup.pci[f].secondary] ELSE <<>>
CheckOther(f, buses) == IF Present(f) THEN <<f>> \o pci_check_function(f, buses) ELSE <<>>
\* A fault: the search of a device ends at the first function it does not have.
CheckDeviceToGap(bus, device, buses) ==
    IF ~Present(<<bus, device, 0>>) THEN <<>>
    ELSE pci_check_function(<<bus, device, 0>>, buses) \o
         IF setup.pci[<<bus, device, 0>>].multi
         THEN FlattenSeq([n \in 1 .. FunctionCount - 1 |->
                 IF \A k \in 1 .. n : Present(<<bus, device, k>>) THEN CheckOther(<<bus, device, n>>, buses) ELSE <<>>])
         ELSE <<<<bus, device, 0>>>>
pci_check_device(bus, device, buses) ==
    IF ~Present(<<bus, device, 0>>) THEN <<>>
    ELSE pci_check_function(<<bus, device, 0>>, buses) \o
         IF setup.pci[<<bus, device, 0>>].multi
         THEN FlattenSeq([n \in 1 .. FunctionCount - 1 |-> CheckOther(<<bus, device, n>>, buses)])
         ELSE <<<<bus, device, 0>>>>
pci_check_bus[bus \in BusNumbers] == FlattenSeq([n \in 1 .. DeviceCount |-> pci_check_device(bus, n - 1, pci_check_bus)])
\* Behind a host with several functions nothing is looked at; a host that is not
\* there reads as one with several, and its missing functions are taken for buses.
pci_discover_devices ==
    IF Present(<<0, 0, 0>>) /\ ~setup.pci[<<0, 0, 0>>].multi THEN pci_check_bus[0]
    ELSE FlattenSeq([n \in 1 .. FunctionCount |-> IF \E k \in 0 .. n - 1 : Present(<<0, 0, k>>) THEN <<>> ELSE pci_check_bus[n - 1]])

\* One function is given to its driver.  The controller found last is ata_io; of the
\* network cards two get a place, unless the card is unknown.
ata_init(header) ==
    /\ irq_install_handler(IF header.native THEN [l \in {header.line} |-> "ata_secondary_handler"]
                           ELSE [l \in {14, 15} |-> IF l = 14 THEN "ata_primary_handler" ELSE "ata_secondary_handler"])
    /\ ready' = ready \cup {"ata"}
    /\ Use({"mmu", "heap", "wide"})
    /\ UNCHANGED eth
floppy_init(header) ==
    /\ irq_install_handler([l \in {header.line} |-> "floppy_handler"])
    /\ ready' = IF setup.floppy THEN ready \cup {"floppy"} ELSE ready
    /\ Use({"heap"})
    /\ UNCHANGED eth
ethernet_init(header) ==
    /\ IF header.known /\ Len(eth) < 2
       THEN /\ eth' = Append(eth, header.line)
            /\ irq_install_handler([l \in {header.line} |-> "ethernet_handler"])
            /\ Use({"heap", "mmu", "udp", "interrupts", "timer", "wide"})     \* dhcp_init
       ELSE UNCHANGED <<eth, routines, early>>
    /\ UNCHANGED ready
pci_device_found(f) ==
    LET header == setup.pci[f]
    IN  /\ found' = Append(found, f)
        /\ \/ header.class = "ide" /\ ata_init(header)
           \/ header.class = "floppy" /\ floppy_init(header)
           \/ header.class = "ethernet" /\ ethernet_init(header)
           \/ header.class \notin {"ide", "floppy", "ethernet"} /\ UNCHANGED <<routines, ready, eth, early>>
PciFound ==
    /\ Stage("pci_init")
    /\ Len(found) < Len(pci_discover_devices)
    /\ pci_device_found(pci_discover_devices[Len(found) + 1])
    /\ UNCHANGED <<setup, at, tags, root, outcome>>
PciDone ==
    /\ Stage("pci_init")
    /\ Len(found) = Len(pci_discover_devices)
    /\ Continue
    /\ UNCHANGED <<setup, tags, ready, routines, eth, found, root, early>>

-----------------------------------------------------------------------------
\* The option is well formed, and the number of the drive says what kind it is of.
validate_cmdline_root == setup.root.kind # "bad"
parse_cmdline_root(r) == CASE r.kind = "fd" -> r.disk [] r.kind = "hd" -> 128 + r.disk [] r.kind = "cd" -> 224 + r.disk
Drives == {parse_cmdline_root([kind |-> d[1], disk |-> d[2]]) : d \in setup.drives}

\* The driver for a drive, and whether it is there; the floppy is set up on demand.
\* Neither a drive that is not there nor a partition behind the table is noticed.
DriverOf(drive) == IF drive < 128 THEN "floppy" ELSE "ata"
iodriver_init(drive) ==
    \/ DriverOf(drive) \in ready /\ UNCHANGED routines
    \/ DriverOf(drive) = "floppy" /\ "floppy" \notin ready /\ setup.floppy /\ irq_install_handler([l \in {6} |-> "floppy_handler"])
Driverless(drive) == DriverOf(drive) \notin ready /\ ~(DriverOf(drive) = "floppy" /\ setup.floppy)

\* mbr_init with mbr_get_fs: the partition has a type there is a file system for.
mbr_init(partition) == setup.mbr[partition] = "known"

fs_init ==
    /\ Stage("fs_init")
    /\ LET drive == parse_cmdline_root(setup.root)
           partition == setup.root.partition
           Sound == validate_cmdline_root /\ ~Driverless(drive)
           Inside == drive \in Drives /\ partition <= 3
       IN  \/ ~validate_cmdline_root /\ Panic({"tty"})
           \/ validate_cmdline_root /\ Driverless(drive) /\ Panic({})
           \/ Sound /\ ~Inside /\ outcome' = "wild" /\ UNCHANGED <<at, ready, routines, found, eth, root, early>>
           \/ Sound /\ Inside /\ ~setup.resets /\ Panic({"interrupts"})
           \/ Sound /\ Inside /\ setup.resets /\ ~mbr_init(partition) /\ Panic({"interrupts", "wide", "heap"})
           \/ /\ Sound /\ Inside /\ setup.resets /\ mbr_init(partition)
              /\ iodriver_init(drive)
              /\ Use({"interrupts", "wide", "heap"})
              /\ ready' = ready \cup {"rootfs", DriverOf(drive)}
              /\ root' = <<drive, partition>>
              /\ Continue
              /\ UNCHANGED <<found, eth>>
    /\ UNCHANGED <<setup, tags>>

\* The first program is loaded and entered, or the kernel gives up.
system ==
    /\ Stage("system")
    /\ UNCHANGED <<setup, tags>>
    /\ \/ /\ setup.init
          /\ Use({"process", "vfs", "mmu", "heap", "gdt", "syscall", "exceptions", "interrupts", "wide"})
          /\ outcome' = "up"
          /\ UNCHANGED <<at, ready, routines, eth, found, root>>
       \/ ~setup.init /\ Panic({"process", "vfs", "mmu"})

BootNext ==
    \/ serial_init \/ check_multiboot2 \/ ReadTag \/ TagsRead \/ mmu_init \/ kernel_malloc_init \/ framebuffer_setup
    \/ tty_init \/ Checks \/ get_cpuid_info \/ fpu_init \/ gdt_init \/ idt_init \/ isr_init \/ irq_init \/ pic_remap
    \/ alloctest \/ syscall_init \/ timer_init \/ keyboard_init \/ interrupts_enable \/ Interrupt \/ acpi_init
    \/ memtest \/ dev_init \/ proc_init \/ tmp_init \/ process_init \/ udp_init \/ tcp_init \/ dns_init \/ PciFound \/ PciDone \/ fs_init
    \/ vfs_init \/ vfs_mount \/ system

BootSpec == BootInit /\ [][BootNext]_bootvars

-----------------------------------------------------------------------------
\* No stage of kernel_main, no driver it starts and no interrupt uses what is not
\* set up yet (kernel.c:215): the interrupt table before its gates, the listeners
\* before their table, the wide registers before they are enabled.  Excepted are a
\* loader that is not multiboot2, whose panic has no terminal, and a loader that
\* tells nothing about memory, which is noticed after memory was used.
NothingTooEarly == setup.magic /\ Told("meminfo") => early = {}

\* The functions whose header is read, and the buses behind the bridges among them.
HeaderRead(f) == Present(<<f[1], f[2], 0>>) /\ (f[3] = 0 \/ setup.pci[<<f[1], f[2], 0>>].multi)
Bridges(bus) == {f \in DOMAIN setup.pci : f[1] = bus /\ HeaderRead(f) /\ setup.pci[f].class = "bridge"}
Behind[bus \in BusNumbers] == {bus} \cup UNION {Behind[setup.pci[f].secondary] : f \in Bridges(bus)}
Expected ==
    {f \in DOMAIN setup.pci :
        f[1] \in Behind[0] /\ Present(<<f[1], f[2], 0>>) /\ (setup.pci[<<f[1], f[2], 0>>].multi = (f[3] # 0))}
Has(class) == \E f \in Expected : setup.pci[f].class = class
Bootable ==
    /\ Told("bootdev") /\ setup.ram /\ setup.cpuid /\ setup.memtest \in {"0", "1", "x"} /\ setup.init
    /\ setup.root.kind # "bad"
    /\ IF setup.root.kind = "fd" THEN setup.floppy ELSE Has("ide")
    /\ <<setup.root.kind, setup.root.disk>> \in setup.drives
    /\ setup.resets /\ setup.root.partition <= 3 /\ setup.mbr[setup.root.partition] = "known"

\* The kernel comes up when the machine has what the command line names, behind
\* bridges too, with that drive and partition as root, and every function on the
\* bus was given to its driver once; excepted are the function 0 of a device that
\* has several, a host with several functions or none, and a number that makes a hard
\* disk a CD-ROM or a floppy a hard disk (kernel.c:92, pci.c:159, cmdline.c:58).
BootedAsAsked ==
    setup.magic /\ Told("meminfo") /\ Present(<<0, 0, 0>>) /\ ~setup.pci[<<0, 0, 0>>].multi /\ setup.root.disk < 96 =>
        /\ outcome = "up" => Bootable /\ root = <<parse_cmdline_root(setup.root), setup.root.partition>>
        /\ outcome = "panic" => ~Bootable
        /\ outcome = "up" => ToSet(found) = Expected /\ IsInjective(found)
=============================================================================
