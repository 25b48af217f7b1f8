-------------------------------- MODULE Heap --------------------------------
(***************************************************************************)
(* The kernel heap: the bitmap allocator of modules/heap.c and malloc,     *)
(* malloc_align, calloc_align and free of libc/stdlib.c on top of it.      *)
(*                                                                         *)
(* The heap is a list of blocks.  A block is divided into cells, and its   *)
(* bitmap has one byte per cell: 0 if the cell is free, otherwise an id    *)
(* that the cells of one allocation share.  Nothing else records where an  *)
(* allocation ends: free clears the bytes as long as they show the id of   *)
(* the first.  The bitmap lies in the first cells of the block itself.     *)
(*                                                                         *)
(* malloc_lock makes each call one action.  What the memory holds is left  *)
(* out; memory running out below mmu_alloc_pages is in module Memory.      *)
(***************************************************************************)
EXTENDS Integers, Sequences, FiniteSets

CONSTANTS
    PageBytes,     \* BITMAP_PAGE_SIZE (4096)
    CellBytes,     \* block_size, and _MIN_MALLOC_SIZE (16)
    HeaderBytes,   \* sizeof(heap_block) (20)
    FirstPages,    \* pages of the first block (256)
    BlockPages,    \* pages of a block: 256 and its doubles below 4096
    IdCount,       \* values of a byte of the bitmap (256)
    ReservedId,    \* the id of the bitmap's own cells (5)
    Sizes,         \* the sizes asked for, in bytes
    Aligns,        \* the alignments asked for, in bytes
    MaxBlocks      \* bound: the number of blocks

Ids == 0 .. IdCount - 1

\* A new id is neither 0 nor one of its two neighbours.
ASSUME HeapAssumption ==
    /\ {PageBytes, CellBytes, HeaderBytes, MaxBlocks} \cup BlockPages \cup Sizes \cup Aligns
          \subseteq Nat \ {0}
    /\ FirstPages \in BlockPages
    /\ \A p \in BlockPages : p * PageBytes >= HeaderBytes + CellBytes
    /\ IdCount \in Nat /\ IdCount > 3
    /\ ReservedId \in Ids \ {0}

VARIABLES
    blocks,    \* the blocks in the order of their creation; the last is first_block
    held,      \* history: the allocations not freed yet
    lost,      \* history: cells before the pointer of a freed aligned allocation
    refused    \* history: the size for which malloc just returned NULL, or 0

vars == <<blocks, held, lost, refused>>

-----------------------------------------------------------------------------
(* One block: its header and its bitmap.                                   *)

Ceil(n) == IF (n \div CellBytes) * CellBytes < n THEN n \div CellBytes + 1 ELSE n \div CellBytes

Count(h) == h.size \div CellBytes
Cells(h) == 0 .. Count(h) - 1

\* The cells that hold the bitmap of c bytes.
Reserved(c) == Ceil(c)

\* heap_add_block: a block of n bytes with nothing allocated.
FreshLate(n) ==
    LET c == (n - HeaderBytes) \div CellBytes
    IN  [size |-> n - HeaderBytes, used |-> Reserved(c), lfb |-> Reserved(c),
         bitmap |-> [x \in 0 .. c - 1 |-> IF x < Reserved(c) THEN ReservedId ELSE 0]]
Fresh(n) ==
    LET c == (n - HeaderBytes) \div CellBytes
    IN  [size |-> n - HeaderBytes, used |-> Reserved(c), lfb |-> Reserved(c) - 1,
         bitmap |-> [x \in 0 .. c - 1 |-> IF x < Reserved(c) THEN ReservedId ELSE 0]]

\* heap_get_new_id: the first id after a, modulo the byte, that is not b or 0.
NewIdOfLeft(a, b) == IF a + 1 = IdCount THEN 1 ELSE a + 1
NewId(a, b) ==
    LET c(k) == (a + k) % IdCount
        good(k) == c(k) # b /\ c(k) # 0
    IN  IF good(1) THEN c(1) ELSE IF good(2) THEN c(2) ELSE c(3)

\* The n cells from x on are free.
FitsShort(h, x, n) ==
    x + n - 1 < Count(h) /\ \A k \in {x} \cup x .. x + n - 2 : h.bitmap[k] = 0
FitsPastEnd(h, x, n) == \A k \in x .. x + n - 1 : k >= Count(h) \/ h.bitmap[k] = 0
Fits(h, x, n) == \A k \in x .. x + n - 1 : k < Count(h) /\ h.bitmap[k] = 0

\* heap_alloc searches from the cell after lfb to the end, then from 0 up to lfb.
\* (HeapSearch has the loop itself.)
From(h) == IF h.lfb + 1 >= Count(h) THEN 0 ELSE h.lfb + 1
Ahead(h, n)  == {x \in Cells(h) : x >= From(h) /\ Fits(h, x, n)}
Behind(h, n) == {x \in Cells(h) : x < h.lfb /\ Fits(h, x, n)}
Least(S) == {x \in S : \A y \in S : x <= y}
Find(h, n) == IF Ahead(h, n) # {} THEN Least(Ahead(h, n)) ELSE Least(Behind(h, n))

\* heap_alloc only searches blocks with enough free bytes.
HasRoom(h, size) == h.size - h.used * CellBytes >= size
Serves(h, size) == HasRoom(h, size) /\ Find(h, Ceil(size)) # {}

\* The byte of the bitmap at x.  The one past its end lies in the last reserved
\* cell and was never written.
ByteAt(h, x) == IF x < Count(h) THEN {h.bitmap[x]} ELSE Ids

\* heap_alloc marks n cells from x on, with an id that neither neighbour has.
Marked(h, x, n, right) ==
    LET id == NewId(h.bitmap[x - 1], right)
    IN  [h EXCEPT !.bitmap = [k \in Cells(h) |-> IF k \in x .. x + n - 1 THEN id ELSE @[k]],
                  !.lfb = x + n - 2,
                  !.used = @ + n]

\* heap_free clears the cells from x on that show the id at x.
SameId(h, x) == {y \in Cells(h) : y >= x /\ \A k \in x .. y : h.bitmap[k] = h.bitmap[x]}
ClearedUncounted(h, x) ==
    [h EXCEPT !.bitmap = [k \in Cells(h) |-> IF k \in SameId(h, x) THEN 0 ELSE @[k]],
              !.used = @ - 1]
Cleared(h, x) ==
    [h EXCEPT !.bitmap = [k \in Cells(h) |-> IF k \in SameId(h, x) THEN 0 ELSE @[k]],
              !.used = @ - Cardinality(SameId(h, x))]

-----------------------------------------------------------------------------
(* The operations.                                                         *)

\* kernel_malloc_init.
Init ==
    /\ blocks = <<Fresh(FirstPages * PageBytes)>>
    /\ held = {}
    /\ lost = {}
    /\ refused = 0

\* heap_alloc of size bytes in block b of list: the caller gets a pointer that is at
\* most align bytes after the first cell.
Take(list, b, size, align) ==
    LET n == Ceil(size) IN
    \E x \in Find(list[b], n) : \E right \in ByteAt(list[b], x + n) :
        /\ blocks' = [list EXCEPT ![b] = Marked(@, x, n, right)]
        /\ \E at \in x .. x + align \div CellBytes :
              held' = held \cup {[block |-> b, lo |-> x, hi |-> x + n - 1, at |-> at]}
        /\ refused' = 0
        /\ UNCHANGED lost

\* heap_alloc takes the newest block that serves.
MallocFits(size, align) ==
    \E b \in 1 .. Len(blocks) :
        /\ Serves(blocks[b], size)
        /\ \A c \in b + 1 .. Len(blocks) : ~Serves(blocks[c], size)
        /\ Take(blocks, b, size, align)

\* The pages malloc asks for: doubled until they hold size bytes; none if it gives up.
Pages(size) == Least({p \in BlockPages : p * PageBytes >= size})

\* malloc returns NULL.
Refuse(size) == refused' = size /\ UNCHANGED <<held, lost>>

\* malloc adds a block and tries again; a block that cannot hold the size either
\* stays in the list.
MallocGrows(size, align) ==
    /\ \A b \in 1 .. Len(blocks) : ~Serves(blocks[b], size)
    /\ Len(blocks) < MaxBlocks
    /\ \E p \in Pages(size) :
          LET h    == Fresh(p * PageBytes)
              more == Append(blocks, h)
          IN  \/ Serves(h, size) /\ Take(more, Len(more), size, align)
              \/ ~Serves(h, size) /\ blocks' = more /\ Refuse(size)

\* malloc gives up without adding a block.
MallocTooLarge(size) ==
    /\ \A b \in 1 .. Len(blocks) : ~Serves(blocks[b], size)
    /\ Pages(size) = {}
    /\ Refuse(size)
    /\ UNCHANGED blocks

\* malloc of at least _MIN_MALLOC_SIZE.
AtLeast(size) == IF size < CellBytes THEN CellBytes ELSE size
Malloc(size) ==
    LET s == AtLeast(size) IN MallocFits(s, 0) \/ MallocGrows(s, 0) \/ MallocTooLarge(s)

\* malloc_align, calloc_align: room for align more bytes, and a pointer into it.
MallocAlign(size, align) ==
    LET s == AtLeast(size + align) IN
    MallocFits(s, align) \/ MallocGrows(s, align) \/ MallocTooLarge(s)

\* free of a pointer that malloc or malloc_align returned: what is before an
\* aligned pointer stays marked.
Free(a) ==
    /\ blocks' = [blocks EXCEPT ![a.block] = Cleared(blocks[a.block], a.at)]
    /\ held' = held \ {a}
    /\ lost' = lost \cup {<<a.block, x>> : x \in a.lo .. a.at - 1}
    /\ refused' = 0

Next ==
    \/ \E size \in Sizes : Malloc(size)
    \/ \E size \in Sizes, align \in Aligns : MallocAlign(size, align)
    \/ \E a \in held : Free(a)

Spec == Init /\ [][Next]_vars

-----------------------------------------------------------------------------
(* Properties.                                                             *)

\* Every variable has its type; the header and the bitmap of a block belong together.
BlockOK(h) ==
    /\ h.size \in Nat /\ h.used \in Nat /\ h.lfb \in Int
    /\ h.bitmap \in [Cells(h) -> Ids]
TypeOK ==
    /\ \A b \in 1 .. Len(blocks) : BlockOK(blocks[b])
    /\ \A a \in held : /\ a.block \in 1 .. Len(blocks)
                       /\ {a.lo, a.hi, a.at} \subseteq Cells(blocks[a.block])
                       /\ a.lo <= a.at /\ a.at <= a.hi
    /\ \A c \in lost : c[1] \in 1 .. Len(blocks) /\ c[2] \in Cells(blocks[c[1]])
    /\ refused \in Nat

\* The cells of block b that somebody owns: the bitmap, an allocation, or nobody any
\* more.
Owned(b) ==
    0 .. Reserved(Count(blocks[b])) - 1
      \cup (UNION {a.lo .. a.hi : a \in {a \in held : a.block = b}})
      \cup {x \in Cells(blocks[b]) : <<b, x>> \in lost}

\* No allocation that malloc handed out and nobody freed overlaps another one, the
\* bitmap of its block, or what is lost, after any sequence of malloc, malloc_align
\* and free.
HeldIsDisjoint ==
    \A a \in held :
        /\ a.lo >= Reserved(Count(blocks[a.block]))
        /\ \A x \in a.lo .. a.hi : <<a.block, x>> \notin lost
        /\ \A e \in held \ {a} : e.block = a.block => e.hi < a.lo \/ a.hi < e.lo

\* The bitmap marks exactly what is owned: free gives back the whole allocation from
\* the pointer on and not a cell of its neighbour, although it only compares ids.
MarkedIsOwned ==
    \A b \in 1 .. Len(blocks) :
        {x \in Cells(blocks[b]) : blocks[b].bitmap[x] # 0} = Owned(b) \cap Cells(blocks[b])

\* The counter that heap_alloc trusts to skip a block agrees with its bitmap.
UsedIsCounted ==
    \A b \in 1 .. Len(blocks) :
        blocks[b].used = Cardinality({x \in Cells(blocks[b]) : blocks[b].bitmap[x] # 0})

\* malloc returns NULL only for a size that an empty block of the pages it asks for
\* cannot hold beside its header and bitmap.
Capacity(h) == Count(h) - Reserved(Count(h))
RefusedIsTooLarge ==
    refused # 0 =>
        \A p \in Pages(refused) : Ceil(refused) > Capacity(Fresh(p * PageBytes))
=============================================================================
