------------------------------- MODULE Memory -------------------------------
(***************************************************************************)
(* Physical memory: the frame bitmap (modules/bitmap.c), the address       *)
(* spaces built on it (cpu/mmu.c) as execve, fork and process_destroy of   *)
(* modules/process.c build and free them, and the growth of the kernel     *)
(* heap (malloc in libc/stdlib.c).                                         *)
(*                                                                         *)
(* A frame is its number.  An address space is abstracted to the frames it *)
(* consists of, by role: the page directory, its page tables, the pages    *)
(* mapped onto the loaded file and all other pages, and to the number of   *)
(* kernel page tables its directory has entries for.  What the pages hold  *)
(* is left out.  Each operation runs with interrupts or the scheduler off, *)
(* and no interrupt handler touches address spaces, so it is one action.   *)
(***************************************************************************)
EXTENDS Integers, FiniteSets

CONSTANTS
    Procs,            \* bound: the processes that exist at one time
    Frames,           \* frames: the number of frames
    WordBits,         \* bits per word of the bitmap (32)
    BootTables,       \* page tables mmu_init fills
    ImagePages,       \* pages of a loaded file that are mapped
    HeapPages,        \* pages of the user heap (1024)
    BlockPages,       \* pages by which the kernel heap grows (256)
    BlocksPerTable,   \* blocks of the kernel heap that one page table maps
    MaxBlocks         \* bound: the blocks the kernel heap may get

StackPages == 2
ArgPages   == 4       \* argv, its strings, envp, its strings

\* Only whole words of the bitmap are searched.
Limit == (Frames \div WordBits) * WordBits
Frame == 0 .. Limit - 1

\* The memory holds the kernel and the first block of its heap.
ASSUME MemoryAssumption ==
    /\ {Frames, WordBits, BootTables, ImagePages, HeapPages, BlockPages, BlocksPerTable}
          \subseteq Nat \ {0}
    /\ MaxBlocks \in Nat
    /\ WordBits + BootTables + BlockPages < Limit

VARIABLES
    bitmap,     \* the frames whose bit is set
    live,       \* the processes that exist
    space,      \* their address spaces
    record,     \* the block of the kernel heap that holds the process_t
    kheap,      \* the frames of the kernel heap
    spare,      \* those of kheap in which a loaded file may be put
    shared,     \* history: last pages of loaded files that hold other cells of the heap too
    blocks,     \* the number of blocks the kernel heap has
    kernel,     \* the bitmap itself, the kernel's page directory and page tables
    lost,       \* history: frames that stay marked with nothing referring to them
    status      \* "boot", "ok", or how the kernel went wrong: "wild", "fault"

vars == <<bitmap, live, space, record, kheap, spare, shared, blocks, kernel, lost, status>>

\* No page directory.
Null == [pdt |-> {}, tables |-> {}, image |-> {}, pages |-> {}, ktables |-> 0]
HasSpace == {p \in live : space[p].pdt # {}}

-----------------------------------------------------------------------------
(* The bitmap.                                                             *)

\* bitmap_alloc_contiguous_pages: the n frames from s on are free.
FitsShort(b, s, n) == \A k \in {0} \cup 1 .. n - 2 : s + k < Limit /\ s + k \notin b
FitsPastEnd(b, s, n) == \A k \in 0 .. n - 1 : s + k \notin b
Fits(b, s, n) == \A k \in 0 .. n - 1 : s + k < Limit /\ s + k \notin b

\* The first n frames in a row that are free, or none: the result of
\* bitmap_alloc_contiguous_pages, and for n = 1 of bitmap_alloc_page.
FirstHoleOnly(b, n) ==
    LET holes == {s \in Frame : \A t \in Frame \ b : s <= t}
    IN  UNION {s .. s + n - 1 : s \in {s \in holes \ b : Fits(b, s, n)}}
FirstFit(b, n) ==
    LET starts == {s \in Frame : Fits(b, s, n)}
    IN  UNION {s .. s + n - 1 : s \in {s \in starts : \A t \in starts : s <= t}}

\* The position of f among the free frames, from 0.
Rank(b, f) == Cardinality({g \in Frame \ b : g < f})

\* The first n free frames, as n calls of bitmap_alloc_page return them, or
\* fewer if the memory is exhausted.
Lowest(b, n) == {f \in Frame \ b : Rank(b, f) < n}

-----------------------------------------------------------------------------
(* The kernel heap.                                                        *)

\* The kernel page table that maps the end of block k of the heap.
TableOf(k) == (k - 1) \div BlocksPerTable

\* malloc finds room, over bitmap b.
Fitted(b) == [bitmap |-> b, run |-> {}, pt |-> {}, blocks |-> blocks, ok |-> TRUE]

\* malloc finds no room: mmu_alloc_pages takes the frames of a block, and
\* mmu_map_pages a page table if the block reaches into a new one.
Grown(b) ==
    LET run == FirstFit(b, BlockPages)
        new == TableOf(blocks + 1) # TableOf(blocks)
        pt  == IF new THEN FirstFit(b \cup run, 1) ELSE {}
    IN  [bitmap |-> b \cup run \cup pt, run |-> run, pt |-> pt, blocks |-> blocks + 1,
         ok |-> run # {} /\ (new => pt # {})]

\* What the allocations of one operation may do to the heap: one growth at most.
Mallocs(b) == {Fitted(b)} \cup (IF blocks < MaxBlocks THEN {Grown(b)} ELSE {})

\* The kernel heap after h.
KeepHeap(h) ==
    /\ kheap' = kheap \cup h.run
    /\ blocks' = h.blocks
    /\ kernel' = kernel \cup h.pt

\* Out of memory, and the caller uses NULL: a page directory, page table, stack or
\* heap block is written at physical address 0.
GoWild ==
    /\ status' = "wild"
    /\ UNCHANGED <<bitmap, live, space, record, kheap, spare, shared, blocks, kernel, lost>>

-----------------------------------------------------------------------------
(* Address spaces.                                                         *)

\* The frames of an address space.
Parts(a) == a.pdt \cup a.tables \cup a.image \cup a.pages

\* mmu_free_pages of the user half, then bitmap_free_pages of the directory: the
\* page tables are not freed.
FreedButDirectory(a) == a.image \cup a.pages
Freed(a) == a.image \cup a.pages \cup a.pdt

\* What execve allocates over bitmap b, in its order.  (Once a single frame is
\* missing, the last ones are missing too.)
NewSpace(b) ==
    LET pdt   == FirstFit(b, 1)
        stack == FirstFit(b \cup pdt, StackPages)
        b1    == b \cup pdt \cup stack
        pts   == Lowest(b1, 2)                            \* for the file and the stack
        b2    == b1 \cup pts
        heap  == FirstFit(b2, HeapPages)
        b3    == b2 \cup heap
        hpt   == FirstFit(b3, 1)                          \* for the heap
        b4    == b3 \cup hpt
        argv  == Lowest(b4, 2)
        b5    == b4 \cup argv
        apt   == FirstFit(b5, 1)                          \* for the arguments
        envp  == Lowest(b5 \cup apt, 2)
    IN  [pdt |-> pdt, tables |-> pts \cup hpt \cup apt,
         pages |-> stack \cup heap \cup argv \cup envp,
         ok |-> stack # {} /\ heap # {} /\ Cardinality(argv \cup envp) = ArgPages]

\* The runs of frames among S that a file may occupy: malloc_align puts it at the
\* start of a page, and it ends anywhere in its last one.
FileRuns(S) == {r \in {s .. s + ImagePages - 1 : s \in Frame} : r \subseteq S}

\* Other allocations of the heap may lie behind the end of the file, in a page that
\* is mapped, and will be freed, as a whole.
Tails(img) == {{}, {f \in img : \A g \in img : g <= f}}

\* process_execve succeeds: the file is loaded into the kernel heap h at img and
\* mapped from there, the address space n is allocated, the kernel's page tables
\* are copied, and the old address space is freed.
Load(p, old, h, n, img) ==
    /\ space' = [space EXCEPT ![p] =
                    [pdt |-> n.pdt, tables |-> n.tables, image |-> img, pages |-> n.pages,
                     ktables |-> TableOf(h.blocks)]]
    /\ spare' = (spare \cup h.run) \ img
    /\ \E tail \in Tails(img) : shared' = shared \cup tail
    /\ bitmap' = (h.bitmap \cup n.pdt \cup n.tables \cup n.pages) \ Freed(old)
    /\ lost' = lost \cup old.tables
    /\ KeepHeap(h)
    /\ status' = "ok"

\* process_execve over bitmap b: everything is allocated, or NULL is used.
Execve(p, old, b) ==
    \E h \in Mallocs(b) :
        LET n == NewSpace(h.bitmap) IN
        \/ h.ok /\ n.ok /\ \E img \in FileRuns(spare \cup h.run) : Load(p, old, h, n, img)
        \/ ~(h.ok /\ n.ok) /\ GoWild

-----------------------------------------------------------------------------
(* The operations.                                                         *)

\* kernel_main after bitmap_init, mmu_init and kernel_malloc_init.
Init ==
    /\ kernel = 0 .. WordBits + BootTables
    /\ kheap = WordBits + BootTables + 1 .. WordBits + BootTables + BlockPages
    /\ spare = kheap /\ shared = {}
    /\ bitmap = kernel \cup kheap
    /\ blocks = 1
    /\ live = {}
    /\ space = [p \in Procs |-> Null]
    /\ record = [p \in Procs |-> 1]
    /\ lost = {}
    /\ status = "boot"

\* system(): an empty page directory, then execve of init.
System(p) ==
    LET d == FirstFit(bitmap, 1) IN
    /\ status = "boot"
    /\ Execve(p, [Null EXCEPT !.pdt = d], bitmap \cup d)
    /\ live' = IF status' = "ok" THEN {p} ELSE {}
    /\ UNCHANGED record

Exec(p) ==
    /\ status = "ok"
    /\ p \in HasSpace
    /\ Execve(p, space[p], bitmap)
    /\ UNCHANGED <<live, record>>

\* execve of a file that is not a program: -ENOEXEC, and the file stays in the heap.
ExecFails(p) ==
    /\ status = "ok"
    /\ p \in HasSpace
    /\ \E h \in Mallocs(bitmap) :
          \/ /\ h.ok
             /\ \E img \in FileRuns(spare \cup h.run) :
                   /\ spare' = (spare \cup h.run) \ img
                   /\ lost' = lost \cup img
             /\ bitmap' = h.bitmap
             /\ KeepHeap(h)
             /\ UNCHANGED <<live, space, record, shared, status>>
          \/ ~h.ok /\ GoWild

\* mmu_clone_pdt takes the directory, then for each page table of the user half the
\* table and its pages: the arguments, the heap, the file, the stack.
TablePlaces == {1, ArgPages + 2, ArgPages + HeapPages + 3,
                ArgPages + HeapPages + ImagePages + 4}
CloneFrames == 5 + ArgPages + HeapPages + ImagePages + StackPages
Clone(b) ==
    LET got == Lowest(b, CloneFrames) IN
    IF Cardinality(got) < CloneFrames THEN Null
    ELSE [pdt     |-> {f \in got : Rank(b, f) = 0},
          tables  |-> {f \in got : Rank(b, f) \in TablePlaces},
          image   |-> {},
          pages   |-> {f \in got : Rank(b, f) \notin TablePlaces \cup {0}},
          ktables |-> TableOf(blocks)]

\* fork: the child's space first, then its record.  If the memory is exhausted while
\* cloning, the child exists without a page directory.
Fork(p, c) ==
    LET got == Lowest(bitmap, CloneFrames)
        a   == Clone(bitmap)
    IN
    /\ status = "ok"
    /\ p \in HasSpace
    /\ c \in Procs \ live
    /\ \E h \in Mallocs(bitmap \cup got) :
          \/ /\ got # {} /\ h.ok
             /\ live' = live \cup {c}
             /\ space' = [space EXCEPT ![c] = a]
             /\ \E k \in 1 .. h.blocks : record' = [record EXCEPT ![c] = k]
             /\ spare' = spare \cup h.run
             /\ lost' = IF a = Null THEN lost \cup got ELSE lost
             /\ bitmap' = h.bitmap
             /\ KeepHeap(h)
             /\ UNCHANGED <<shared, status>>
          \/ ~(got # {} /\ h.ok) /\ GoWild

\* process_destroy; without a page directory it walks the memory at address 0.
Destroy(p) ==
    /\ status = "ok"
    /\ p \in live
    /\ \/ /\ p \in HasSpace
          /\ bitmap' = bitmap \ Freed(space[p])
          /\ lost' = lost \cup space[p].tables
          /\ live' = live \ {p}
          /\ space' = [space EXCEPT ![p] = Null]
          /\ UNCHANGED <<record, kheap, spare, shared, blocks, kernel, status>>
       \/ p \notin HasSpace /\ GoWild

\* process_switch loads p's page directory: there is none, or process_reload then
\* reads a record that the directory does not map.
Schedule(p) ==
    /\ status = "ok"
    /\ p \in live
    /\ \/ p \notin HasSpace /\ status' = "wild"
       \/ p \in HasSpace /\ TableOf(record[p]) > space[p].ktables /\ status' = "fault"
    /\ UNCHANGED <<bitmap, live, space, record, kheap, spare, shared, blocks, kernel, lost>>

\* Any other malloc of the kernel that makes the heap grow.
Malloc ==
    LET h == Grown(bitmap) IN
    /\ status = "ok"
    /\ blocks < MaxBlocks
    /\ \/ /\ h.ok
          /\ bitmap' = h.bitmap
          /\ spare' = spare \cup h.run
          /\ KeepHeap(h)
          /\ UNCHANGED <<live, space, record, shared, lost, status>>
       \/ ~h.ok /\ GoWild

\* The kernel has crashed, or init and all others are gone and idle panics.
Stopped == status \in {"wild", "fault"} \/ (status = "ok" /\ live = {})
Stop == Stopped /\ UNCHANGED vars

Next ==
    \/ \E p \in Procs : \/ System(p) \/ Exec(p) \/ ExecFails(p) \/ Destroy(p)
                        \/ Schedule(p) \/ \E c \in Procs : Fork(p, c)
    \/ Malloc
    \/ Stop

Spec == Init /\ [][Next]_vars

-----------------------------------------------------------------------------
(* Properties.                                                             *)

Spaces == [pdt : SUBSET Frame, tables : SUBSET Frame, image : SUBSET Frame,
           pages : SUBSET Frame, ktables : Int]

\* Every variable has its type.
TypeOK ==
    /\ {bitmap, kheap, spare, shared, kernel, lost} \subseteq SUBSET Frame
    /\ live \subseteq Procs
    /\ space \in [Procs -> Spaces]
    /\ record \in [Procs -> Nat \ {0}]
    /\ blocks \in Nat \ {0}
    /\ status \in {"boot", "ok", "wild", "fault"}

\* A frame is the kernel's, the heap's, lost, or it belongs to one process.
Kernels == kernel \cup spare \cup lost

\* However execve, fork, exit and the growth of the kernel heap are interleaved, no
\* frame has two owners or two roles: what mmu_free_pages and bitmap_free_pages give
\* back belonged to the process that ends, and to nobody else.  The one exception is
\* the last page of a loaded file (process_execve maps whole pages of the heap).
Apart(S, T) == S \cap T \subseteq shared
OneOwner ==
    /\ \A p \in Procs :
          /\ Apart(space[p].tables, Freed(space[p]))
          /\ Apart(Parts(space[p]), Kernels)
          /\ \A q \in Procs \ {p} : Apart(Parts(space[p]), Parts(space[q]))
    /\ Apart(spare, kernel \cup lost) /\ Apart(kernel, lost)

\* The bitmap marks exactly the frames that somebody owns, and the lost ones: no
\* other frame leaks in process_destroy, process_execve or process_fork, and no
\* frame in use is free to be allocated again.  A last page that holds cells of the
\* heap too is freed with its process and may then be anybody's.
MarkedIsOwned ==
    bitmap \ shared = (Kernels \cup UNION {Parts(space[p]) : p \in Procs}) \ shared

\* The kernel runs into a NULL page only when the memory is short: as long as each
\* process has its address space, some free run would have held everything the
\* operation asks for.  (The lowest-first search of bitmap_alloc_contiguous_pages
\* does not waste a run that is long enough for all of it.)
Need == BlockPages + 1 + CloneFrames
WildOnlyWhenShort ==
    status = "wild" /\ HasSpace = live => \A s \in Frame : ~Fits(bitmap, s, Need)
=============================================================================
