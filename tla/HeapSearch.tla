----------------------------- MODULE HeapSearch -----------------------------
(***************************************************************************)
(* The search loop of heap_alloc, iteration by iteration, over any bitmap: *)
(* it ends, and what it returns is what Find of module Heap says.          *)
(***************************************************************************)
EXTENDS Integers

CONSTANTS
    MaxCells,    \* bound: cells of the block
    MaxNeeded    \* bound: cells asked for

ASSUME SearchAssumption == MaxCells \in Nat /\ MaxNeeded \in Nat

\* The definitions of the heap for cells of one byte.
H == INSTANCE Heap WITH
    PageBytes <- 1, CellBytes <- 1, HeaderBytes <- 1, FirstPages <- 2, BlockPages <- {2},
    IdCount <- 4, ReservedId <- 1, Sizes <- {}, Aligns <- {}, MaxBlocks <- 1,
    blocks <- <<>>, held <- {}, lost <- {}, refused <- 0

VARIABLES
    hb,              \* the heap_block
    blocks_needed,
    x,
    wrapped,
    result           \* Searching, the cell that is returned, or NotHere

Searching == -2
NotHere == -1

svars == <<hb, blocks_needed, x, wrapped, result>>

block_count == H!Count(hb)

\* Any bitmap whose first cell is reserved and any place for lfb before the last cell.
SearchInit ==
    /\ \E n \in 2 .. MaxCells :
          \E marked \in SUBSET (1 .. n - 1), lfb \in 0 .. n - 2 :
             hb = [size |-> n, lfb |-> lfb,
                   bitmap |-> [c \in 0 .. n - 1 |-> IF c \in marked \cup {0} THEN 1 ELSE 0]]
    /\ blocks_needed \in 1 .. MaxNeeded
    /\ x = H!From(hb)
    /\ wrapped = FALSE
    /\ result = Searching

\* The free cells from c on, counted up to blocks_needed.
Run(c) ==
    CHOOSE y \in 0 .. blocks_needed :
        /\ H!Fits(hb, c, y)
        /\ y = blocks_needed \/ ~H!Fits(hb, c, y + 1)

\* One iteration at cell c, after the wrap.
LookAt(c) ==
    \/ /\ hb.bitmap[c] # 0
       /\ x' = c + 1
       /\ UNCHANGED result
    \/ /\ hb.bitmap[c] = 0
       /\ Run(c) = blocks_needed
       /\ result' = c
       /\ x' = c
    \/ /\ hb.bitmap[c] = 0
       /\ Run(c) < blocks_needed
       /\ x' = c + (Run(c) - 1) + 1
       /\ UNCHANGED result

\* The condition x != lfb is tested before an iteration, and x not again after it was
\* set to 0.
IterateEndless ==
    /\ result = Searching
    /\ x # hb.lfb
    /\ \/ x < block_count /\ LookAt(x) /\ UNCHANGED wrapped
       \/ x >= block_count /\ wrapped' = TRUE /\ LookAt(0)
    /\ UNCHANGED <<hb, blocks_needed>>
Iterate ==
    /\ result = Searching
    /\ x # hb.lfb
    /\ \/ x < block_count /\ LookAt(x) /\ UNCHANGED wrapped
       \/ x >= block_count /\ ~wrapped /\ wrapped' = TRUE /\ LookAt(0)
    /\ UNCHANGED <<hb, blocks_needed>>

\* The loop ends without a result: back at lfb, or at the end for the second time.
GiveUpEarly ==
    /\ result = Searching
    /\ x = hb.lfb \/ x >= block_count
    /\ result' = NotHere
    /\ UNCHANGED <<hb, blocks_needed, x, wrapped>>
GiveUp ==
    /\ result = Searching
    /\ x = hb.lfb \/ (x >= block_count /\ wrapped)
    /\ result' = NotHere
    /\ UNCHANGED <<hb, blocks_needed, x, wrapped>>

SearchNext == Iterate \/ GiveUp
SearchSpec == SearchInit /\ [][SearchNext]_svars

\* The loop stops in every block, whatever was freed around lfb: jumping over a run
\* of free cells may also jump over lfb, and then only wrapped ends it.
SearchEnds == <>(result # Searching)

\* heap_alloc returns the cell that Find names, or nothing when Find has none.
SearchIsFind ==
    result # Searching =>
        H!Find(hb, blocks_needed) = IF result = NotHere THEN {} ELSE {result}
=============================================================================
