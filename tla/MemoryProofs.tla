---------------------------- MODULE MemoryProofs ----------------------------
(***************************************************************************)
(* For any number of frames, processes and pages, and any order of execve, *)
(* fork, exit and growth of the kernel heap, each marked frame has exactly *)
(* one owner, but for the last pages of loaded files, which hold cells of  *)
(* the kernel heap too.                                                    *)
(***************************************************************************)
EXTENDS Memory, FiniteSetTheorems, NaturalsInduction, TLAPS

-----------------------------------------------------------------------------
(* What the allocators return.                                             *)

\* bitmap_alloc_contiguous_pages and bitmap_alloc_page return free frames.
LEMMA AllocFree ==
    ASSUME NEW b, NEW n \in Nat
    PROVE  /\ FirstFit(b, n) \subseteq Frame \ b
           /\ Lowest(b, n) \subseteq Frame \ b
<1>1. Lowest(b, n) \subseteq Frame \ b
  BY DEF Lowest
<1>2. Limit \in Int
  BY MemoryAssumption DEF Limit
<1>3. ASSUME NEW f \in FirstFit(b, n) PROVE f \in Frame \ b
  <2>1. PICK s \in Frame : Fits(b, s, n) /\ f \in s .. s + n - 1
    BY <1>3 DEF FirstFit
  <2>2. s \in Nat
    BY <1>2, <2>1 DEF Frame
  <2>3. f - s \in 0 .. n - 1 /\ s + (f - s) = f /\ f \in Int /\ f >= 0
    BY <2>1, <2>2
  <2>4. f < Limit /\ f \notin b
    BY <2>1, <2>3 DEF Fits
  <2> QED BY <1>2, <2>3, <2>4 DEF Frame
<1> QED BY <1>1, <1>3

\* The constants are numbers of pages.
LEMMA Sizes ==
    /\ StackPages \in Nat /\ ArgPages \in Nat
    /\ ImagePages \in Nat /\ HeapPages \in Nat /\ BlockPages \in Nat
    /\ BlocksPerTable \in Nat \ {0} /\ CloneFrames \in Nat
  BY MemoryAssumption DEF StackPages, ArgPages, CloneFrames

\* malloc: whatever the heap gets was free, and is marked afterwards.
LEMMA HeapGets ==
    ASSUME blocks \in Nat \ {0}, NEW b, NEW h \in Mallocs(b)
    PROVE  /\ h.run \subseteq Frame \ b /\ h.pt \subseteq Frame \ b
           /\ h.run \cap h.pt = {}
           /\ h.bitmap = b \cup h.run \cup h.pt
           /\ h.blocks \in Nat \ {0}
<1>1. CASE h = Fitted(b)
  BY <1>1 DEF Fitted
<1>2. CASE h = Grown(b)
  <2> DEFINE run == FirstFit(b, BlockPages)
             pt  == IF TableOf(blocks + 1) # TableOf(blocks) THEN FirstFit(b \cup run, 1) ELSE {}
  <2>1. h.run = run /\ h.pt = pt /\ h.bitmap = b \cup run \cup pt /\ h.blocks = blocks + 1
    BY <1>2 DEF Grown
  <2>2. run \subseteq Frame \ b
    BY AllocFree, Sizes
  <2>3. FirstFit(b \cup run, 1) \subseteq Frame \ (b \cup run)
    BY AllocFree
  <2> HIDE DEF run
  <2> QED BY <2>1, <2>2, <2>3
<1> QED BY <1>1, <1>2 DEF Mallocs

\* process_execve: the frames of the new address space were free, and each has
\* one role.
LEMMA NewSpaceFree ==
    ASSUME NEW b
    PROVE  LET n == NewSpace(b) IN
           /\ n.pdt \subseteq Frame \ b
           /\ n.tables \subseteq Frame \ b
           /\ n.pages \subseteq Frame \ b
           /\ n.tables \cap (n.pdt \cup n.pages) = {}
<1> DEFINE pdt   == FirstFit(b, 1)
           stack == FirstFit(b \cup pdt, StackPages)
           b1    == b \cup pdt \cup stack
           pts   == Lowest(b1, 2)
           b2    == b1 \cup pts
           heap  == FirstFit(b2, HeapPages)
           b3    == b2 \cup heap
           hpt   == FirstFit(b3, 1)
           b4    == b3 \cup hpt
           argv  == Lowest(b4, 2)
           b5    == b4 \cup argv
           apt   == FirstFit(b5, 1)
           envp  == Lowest(b5 \cup apt, 2)
           n     == NewSpace(b)
<1>1. /\ n.pdt = pdt /\ n.tables = pts \cup hpt \cup apt
      /\ n.pages = stack \cup heap \cup argv \cup envp
  BY DEF NewSpace
<1>2. /\ pdt \subseteq Frame \ b
      /\ stack \subseteq Frame \ (b \cup pdt)
  BY AllocFree, Sizes
<1>3. pts \subseteq Frame \ b1 /\ heap \subseteq Frame \ b2 /\ hpt \subseteq Frame \ b3
  <2> HIDE DEF b1
  <2> QED BY AllocFree, Sizes
<1>4. argv \subseteq Frame \ b4 /\ apt \subseteq Frame \ b5 /\ envp \subseteq Frame \ (b5 \cup apt)
  <2> HIDE DEF b4
  <2> QED BY AllocFree, Sizes
<1> HIDE DEF pdt, stack, pts, heap, hpt, argv, apt, envp, n
<1>5. /\ n.pdt \subseteq Frame \ b
      /\ n.tables \subseteq Frame \ b
      /\ n.pages \subseteq Frame \ b
      /\ n.tables \cap (n.pdt \cup n.pages) = {}
  BY <1>1, <1>2, <1>3, <1>4
<1> QED BY <1>5 DEF n

\* mmu_clone_pdt: the child's frames are the ones it got, or it has no space.
LEMMA CloneGets ==
    ASSUME NEW b, blocks \in Nat \ {0}
    PROVE  LET got == Lowest(b, CloneFrames)
               a   == Clone(b)
           IN  /\ a \in Spaces
               /\ a.tables \cap Freed(a) = {}
               /\ got \subseteq Frame \ b
               /\ Parts(a) \subseteq got
               /\ a # Null => Parts(a) = got
<1> DEFINE got == Lowest(b, CloneFrames)
           a   == Clone(b)
<1>1. got \subseteq Frame \ b
  BY AllocFree, Sizes
<1>2. CASE a = Null
  BY <1>1, <1>2 DEF Null, Spaces, Freed, Parts
<1>3. CASE a # Null
  <2> DEFINE tables == {f \in got : Rank(b, f) \in TablePlaces}
             pdt    == {f \in got : Rank(b, f) = 0}
             pages  == {f \in got : Rank(b, f) \notin TablePlaces \cup {0}}
  <2>1. a = [pdt |-> pdt, tables |-> tables, image |-> {}, pages |-> pages,
             ktables |-> TableOf(blocks)]
    BY <1>3 DEF Clone
  <2>2. 0 \notin TablePlaces
    BY MemoryAssumption DEF TablePlaces, ArgPages
  <2>3. TableOf(blocks) \in Int
    BY Sizes DEF TableOf
  <2>4. /\ pdt \subseteq got /\ tables \subseteq got /\ pages \subseteq got
        /\ pdt \cup tables \cup pages = got /\ tables \cap (pdt \cup pages) = {}
    BY <2>2
  <2> HIDE DEF got, a, pdt, tables, pages
  <2>5. a \in Spaces
    BY <1>1, <2>1, <2>3, <2>4 DEF Spaces
  <2>6. Parts(a) = got /\ a.tables \cap Freed(a) = {}
    BY <2>1, <2>4 DEF Parts, Freed
  <2> QED BY <1>1, <2>5, <2>6 DEF got, a
<1> QED BY <1>2, <1>3

-----------------------------------------------------------------------------
(* The inductive invariant.  A process that does not exist owns nothing:   *)
(* otherwise fork, which takes an unused record, would forget frames.      *)

NoGhosts ==
    /\ \A p \in Procs \ live : Parts(space[p]) = {}
    /\ status = "boot" => live = {}

IInv == TypeOK /\ OneOwner /\ MarkedIsOwned /\ NoGhosts

\* The frames of all processes but p.
Others(p) == UNION {Parts(space[q]) : q \in Procs \ {p}}

\* Seen from p, the marked frames are the kernel's, p's and those of others.
LEMMA Split ==
    ASSUME IInv, NEW p \in Procs
    PROVE  /\ bitmap \ shared = (Kernels \cup Parts(space[p]) \cup Others(p)) \ shared
           /\ Others(p) \cap (Kernels \cup Parts(space[p])) \subseteq shared
           /\ Parts(space[p]) \cap Kernels \subseteq shared
           /\ space[p].tables \cap Freed(space[p]) \subseteq shared
           /\ bitmap \subseteq Frame
<1>1. bitmap \ shared = (Kernels \cup Parts(space[p]) \cup Others(p)) \ shared
  <2>1. UNION {Parts(space[q]) : q \in Procs} = Parts(space[p]) \cup Others(p)
    BY DEF Others
  <2> QED BY <2>1 DEF IInv, MarkedIsOwned
<1>2. Others(p) \cap (Kernels \cup Parts(space[p])) \subseteq shared
  <2>1. \A q \in Procs \ {p} : Parts(space[q]) \cap (Kernels \cup Parts(space[p])) \subseteq shared
    BY DEF IInv, OneOwner, Apart
  <2> QED BY <2>1 DEF Others
<1>3. Parts(space[p]) \cap Kernels \subseteq shared /\ space[p].tables \cap Freed(space[p]) \subseteq shared
  BY DEF IInv, OneOwner, Apart
<1>4. bitmap \subseteq Frame
  BY DEF IInv, TypeOK
<1> QED BY <1>1, <1>2, <1>3, <1>4

\* Only p's address space and the kernel's frames change, and they stay apart.
LEMMA Join ==
    ASSUME IInv, NEW p \in Procs, NEW a \in Spaces,
           space' = [space EXCEPT ![p] = a], shared \subseteq shared',
           a.tables \cap Freed(a) \subseteq shared',
           Parts(a) \cap Kernels' \subseteq shared',
           Others(p) \cap (Kernels' \cup Parts(a)) \subseteq shared',
           bitmap' \ shared' = (Kernels' \cup Parts(a) \cup Others(p)) \ shared',
           spare' \cap (kernel' \cup lost') \subseteq shared', kernel' \cap lost' \subseteq shared'
    PROVE  OneOwner' /\ MarkedIsOwned'
<1>1. space \in [Procs -> Spaces]
  BY DEF IInv, TypeOK
<1>2. space'[p] = a /\ \A q \in Procs \ {p} : space'[q] = space[q]
  BY <1>1
<1>3. \A q \in Procs \ {p} : Parts(space[q]) \subseteq Others(p)
  BY DEF Others
<1>4. \A q \in Procs \ {p} : Parts(space[q]) \cap (Kernels' \cup Parts(a)) \subseteq shared'
  BY <1>3
<1>5. \A q, r \in Procs : q # r => Parts(space[q]) \cap Parts(space[r]) \subseteq shared
  BY DEF IInv, OneOwner, Apart
<1>6. \A q \in Procs : space[q].tables \cap Freed(space[q]) \subseteq shared
  BY DEF IInv, OneOwner, Apart
<1> DEFINE P(q) == Parts(space'[q])
<1>7. P(p) = Parts(a) /\ \A q \in Procs \ {p} : P(q) = Parts(space[q])
  BY <1>2
<1>8. \A q \in Procs : space'[q].tables \cap Freed(space'[q]) \subseteq shared'
  BY <1>2, <1>6
<1> HIDE DEF P
<1>9. /\ \A q \in Procs : P(q) \cap Kernels' \subseteq shared'
      /\ \A q \in Procs : \A r \in Procs \ {q} : P(q) \cap P(r) \subseteq shared'
  BY <1>4, <1>5, <1>7
<1>10. OneOwner'
  BY <1>8, <1>9 DEF P, OneOwner, Apart, Parts, Freed
<1>11. UNION {P(q) : q \in Procs} = Parts(a) \cup Others(p)
  BY <1>7 DEF Others
<1>12. MarkedIsOwned'
  BY <1>11 DEF P, MarkedIsOwned, Parts
<1> QED BY <1>10, <1>12

\* Only the kernel's frames change, by frames that were free.
LEMMA KernelGrows ==
    ASSUME IInv, UNCHANGED <<space, shared>>, NEW new, new \cap bitmap = {},
           Kernels' = Kernels \cup new, bitmap' = bitmap \cup new,
           spare' \cap (kernel' \cup lost') \subseteq shared', kernel' \cap lost' \subseteq shared'
    PROVE  OneOwner' /\ MarkedIsOwned'
<1>1. \A p \in Procs : Parts(space[p]) \ shared \subseteq bitmap
  BY DEF IInv, MarkedIsOwned
<1>2. \A p \in Procs : Parts(space[p]) \cap Kernels' \subseteq shared'
  BY <1>1 DEF IInv, OneOwner, Apart
<1>3. OneOwner'
  BY <1>2 DEF IInv, OneOwner, Apart, Parts, Freed
<1>4. MarkedIsOwned'
  BY DEF IInv, MarkedIsOwned, Parts
<1> QED BY <1>3, <1>4

\* Everything the type invariant says, unpacked.
LEMMA Types ==
    ASSUME TypeOK
    PROVE  /\ bitmap \subseteq Frame /\ kheap \subseteq Frame /\ spare \subseteq Frame
           /\ shared \subseteq Frame /\ kernel \subseteq Frame /\ lost \subseteq Frame
           /\ live \subseteq Procs /\ space \in [Procs -> Spaces]
           /\ record \in [Procs -> Nat \ {0}] /\ blocks \in Nat \ {0}
  BY DEF TypeOK

LEMMA InitInv == Init => IInv
<1> SUFFICES ASSUME Init PROVE IInv
  OBVIOUS
<1>1. /\ Limit \in Int /\ WordBits \in Nat /\ BootTables \in Nat /\ BlockPages \in Nat
      /\ WordBits + BootTables + BlockPages < Limit
  BY MemoryAssumption DEF Limit
<1>2. kernel \subseteq Frame /\ kheap \subseteq Frame /\ kernel \cap kheap = {}
  BY <1>1 DEF Init, Frame
<1>3. Null \in Spaces /\ Parts(Null) = {} /\ Null.tables \cap Freed(Null) = {}
  BY DEF Null, Spaces, Parts, Freed
<1>4. \A p \in Procs : space[p] = Null
  BY DEF Init
<1>5. TypeOK
  BY <1>2, <1>3 DEF Init, TypeOK
<1>6. OneOwner
  BY <1>2, <1>3, <1>4 DEF Init, OneOwner, Apart, Kernels
<1>7. MarkedIsOwned
  <2>1. UNION {Parts(space[p]) : p \in Procs} = {}
    BY <1>3, <1>4
  <2> QED BY <2>1 DEF Init, MarkedIsOwned, Kernels
<1>8. NoGhosts
  BY <1>3, <1>4 DEF Init, NoGhosts
<1> QED BY <1>5, <1>6, <1>7, <1>8 DEF IInv

\* Nothing but the status changes.
LEMMA StatusStep ==
    ASSUME IInv, status' \in {"wild", "fault", status},
           UNCHANGED <<bitmap, live, space, record, kheap, spare, shared, blocks, kernel, lost>>
    PROVE  IInv'
<1>1. TypeOK'
  BY DEF IInv, TypeOK
<1>2. OneOwner' /\ MarkedIsOwned'
  BY DEF IInv, OneOwner, Apart, MarkedIsOwned, Kernels, Parts, Freed
<1>3. NoGhosts'
  BY DEF IInv, NoGhosts, Parts
<1> QED BY <1>1, <1>2, <1>3 DEF IInv

\* process_execve over the bitmap b, in which old is the address space to be freed.
LEMMA LoadStep ==
    ASSUME IInv, NEW p \in Procs, NEW old, NEW b, NEW h \in Mallocs(b), NEW img,
           b \ shared = (Kernels \cup Parts(old) \cup Others(p)) \ shared, b \subseteq Frame,
           Others(p) \cap (Kernels \cup Parts(old)) \subseteq shared,
           Parts(old) \cap Kernels \subseteq shared, old.tables \cap Freed(old) \subseteq shared,
           img \in FileRuns(spare \cup h.run),
           Load(p, old, h, NewSpace(h.bitmap), img),
           live' \subseteq Procs, live \cup {p} \subseteq live', UNCHANGED record
    PROVE  IInv'
<1> DEFINE n == NewSpace(h.bitmap)
           a == [pdt |-> n.pdt, tables |-> n.tables, image |-> img, pages |-> n.pages,
                 ktables |-> TableOf(h.blocks)]
<1>1. /\ h.run \subseteq Frame \ b /\ h.pt \subseteq Frame \ b /\ h.run \cap h.pt = {}
      /\ h.bitmap = b \cup h.run \cup h.pt /\ h.blocks \in Nat \ {0}
  BY HeapGets, Types DEF IInv
<1>2. /\ n.pdt \subseteq Frame \ h.bitmap /\ n.tables \subseteq Frame \ h.bitmap
      /\ n.pages \subseteq Frame \ h.bitmap /\ n.tables \cap (n.pdt \cup n.pages) = {}
  BY NewSpaceFree
<1>3. img \subseteq spare \cup h.run
  BY DEF FileRuns
<1>4. TableOf(h.blocks) \in Int
  BY <1>1, Sizes DEF TableOf
<1>5. /\ space' = [space EXCEPT ![p] = a]
      /\ spare' = (spare \cup h.run) \ img
      /\ \E tail \in Tails(img) : shared' = shared \cup tail
      /\ bitmap' = (h.bitmap \cup n.pdt \cup n.tables \cup n.pages) \ Freed(old)
      /\ lost' = lost \cup old.tables
      /\ kheap' = kheap \cup h.run /\ blocks' = h.blocks /\ kernel' = kernel \cup h.pt
      /\ status' = "ok"
  BY DEF Load, KeepHeap
<1>6. /\ a.pdt = n.pdt /\ a.tables = n.tables /\ a.image = img /\ a.pages = n.pages
      /\ a.ktables = TableOf(h.blocks)
  OBVIOUS
<1>7. /\ spare \cap (kernel \cup lost) \subseteq shared /\ kernel \cap lost \subseteq shared
      /\ Kernels = kernel \cup spare \cup lost
      /\ Kernels' = kernel' \cup spare' \cup lost'
  BY DEF IInv, OneOwner, Apart, Kernels
<1>8. Parts(old) = old.tables \cup Freed(old)
  BY DEF Parts, Freed
<1>9. spare \subseteq Frame /\ shared \subseteq Frame /\ kernel \subseteq Frame /\ lost \subseteq Frame /\ kheap \subseteq Frame
  BY Types DEF IInv
<1>10. a \in Spaces
  <2>1. n.pdt \subseteq Frame /\ n.tables \subseteq Frame /\ img \subseteq Frame /\ n.pages \subseteq Frame
    BY <1>1, <1>2, <1>3, <1>9
  <2> HIDE DEF n
  <2> QED BY <1>4, <2>1 DEF Spaces
<1>20. shared \subseteq shared' /\ shared' \subseteq shared \cup img
  BY <1>5 DEF Tails
<1>11. Parts(a) = n.pdt \cup n.tables \cup img \cup n.pages /\ Freed(a) = img \cup n.pages \cup n.pdt
  BY <1>6 DEF Parts, Freed
<1> HIDE DEF n, a
<1>12. a.tables \cap Freed(a) \subseteq shared'
  BY <1>1, <1>2, <1>3, <1>6, <1>7, <1>11, <1>20
<1>13. Parts(a) \cap Kernels' \subseteq shared'
  BY <1>1, <1>2, <1>3, <1>5, <1>7, <1>8, <1>11, <1>20
<1>14. Others(p) \cap (Kernels' \cup Parts(a)) \subseteq shared'
  BY <1>1, <1>2, <1>3, <1>5, <1>7, <1>8, <1>11, <1>20
<1>15. bitmap' \ shared' = (Kernels' \cup Parts(a) \cup Others(p)) \ shared'
  BY <1>1, <1>2, <1>3, <1>5, <1>7, <1>8, <1>11, <1>20
<1>16. spare' \cap (kernel' \cup lost') \subseteq shared' /\ kernel' \cap lost' \subseteq shared'
  BY <1>1, <1>5, <1>7, <1>8, <1>20
<1>17. OneOwner' /\ MarkedIsOwned'
  BY <1>5, <1>10, <1>12, <1>13, <1>14, <1>15, <1>16, <1>20, Join
<1>18. TypeOK'
  <2>1. bitmap' \subseteq Frame /\ lost' \subseteq Frame /\ spare' \subseteq Frame /\ kernel' \subseteq Frame
        /\ kheap' \subseteq Frame /\ shared' \subseteq Frame
    BY <1>1, <1>2, <1>3, <1>5, <1>8, <1>9, <1>20
  <2>2. space' \in [Procs -> Spaces] /\ record' \in [Procs -> Nat \ {0}]
    BY <1>5, <1>10, Types DEF IInv
  <2> QED BY <1>1, <1>5, <2>1, <2>2 DEF TypeOK
<1>19. NoGhosts'
  <2>1. \A q \in Procs \ live' : space'[q] = space[q] /\ q \notin live
    BY <1>5, Types DEF IInv
  <2>2. \A q \in Procs \ live' : Parts(space'[q]) = {}
    BY <2>1 DEF IInv, NoGhosts
  <2> QED BY <1>5, <2>2 DEF NoGhosts, Parts
<1> QED BY <1>17, <1>18, <1>19 DEF IInv

\* system(): the empty page directory of init is freed by its execve.
LEMMA SystemStep ==
    ASSUME IInv, NEW p \in Procs, System(p)
    PROVE  IInv'
<1> DEFINE d   == FirstFit(bitmap, 1)
           old == [Null EXCEPT !.pdt = d]
           b   == bitmap \cup d
<1>1. PICK h \in Mallocs(b) :
          \/ h.ok /\ NewSpace(h.bitmap).ok
             /\ \E img \in FileRuns(spare \cup h.run) : Load(p, old, h, NewSpace(h.bitmap), img)
          \/ GoWild
  BY DEF System, Execve
<1>2. status = "boot" /\ live = {} /\ UNCHANGED record
  BY DEF System, IInv, NoGhosts
<1>3. live' = IF status' = "ok" THEN {p} ELSE {}
  BY DEF System
<1>4. CASE GoWild
  BY <1>4, StatusStep DEF GoWild
<1>5. ASSUME NEW img \in FileRuns(spare \cup h.run), Load(p, old, h, NewSpace(h.bitmap), img)
      PROVE  IInv'
  <2>1. d \subseteq Frame \ bitmap
    BY AllocFree
  <2>2. old.pdt = d /\ old.tables = {} /\ old.image = {} /\ old.pages = {}
    BY DEF Null
  <2>3. Parts(old) = d /\ Freed(old) = d
    BY <2>2 DEF Parts, Freed
  <2>4. Parts(space[p]) = {}
    BY <1>2 DEF IInv, NoGhosts
  <2>5. /\ bitmap \ shared = (Kernels \cup Others(p)) \ shared /\ Others(p) \cap Kernels \subseteq shared
        /\ bitmap \subseteq Frame
    BY <2>4, Split
  <2>6. status' = "ok"
    BY <1>5 DEF Load
  <2>7. live' = {p}
    BY <1>3, <2>6
  <2> HIDE DEF d, old
  <2>8. /\ b \ shared = (Kernels \cup Parts(old) \cup Others(p)) \ shared /\ b \subseteq Frame
        /\ Others(p) \cap (Kernels \cup Parts(old)) \subseteq shared
        /\ Parts(old) \cap Kernels \subseteq shared /\ old.tables \cap Freed(old) \subseteq shared
    BY <2>1, <2>2, <2>3, <2>5
  <2> HIDE DEF b
  <2> QED BY <1>2, <1>5, <2>7, <2>8, LoadStep
<1> QED BY <1>1, <1>4, <1>5

LEMMA ExecStep ==
    ASSUME IInv, NEW p \in Procs, Exec(p)
    PROVE  IInv'
<1>1. PICK h \in Mallocs(bitmap) :
          \/ \E img \in FileRuns(spare \cup h.run) :
                Load(p, space[p], h, NewSpace(h.bitmap), img)
          \/ GoWild
  BY DEF Exec, Execve
<1>2. UNCHANGED <<live, record>> /\ p \in live /\ live \subseteq Procs
  BY Types DEF Exec, HasSpace, IInv
<1>3. CASE GoWild
  BY <1>3, StatusStep DEF GoWild
<1>4. ASSUME NEW img \in FileRuns(spare \cup h.run),
             Load(p, space[p], h, NewSpace(h.bitmap), img)
      PROVE  IInv'
  BY <1>2, <1>4, Split, LoadStep
<1> QED BY <1>1, <1>3, <1>4

\* -ENOEXEC: the heap may have grown, and the frames of the file are lost.
LEMMA ExecFailsStep ==
    ASSUME IInv, NEW p \in Procs, ExecFails(p)
    PROVE  IInv'
<1>1. PICK h \in Mallocs(bitmap) :
          \/ /\ \E img \in FileRuns(spare \cup h.run) :
                   /\ spare' = (spare \cup h.run) \ img
                   /\ lost' = lost \cup img
             /\ bitmap' = h.bitmap
             /\ KeepHeap(h)
             /\ UNCHANGED <<live, space, record, shared, status>>
          \/ GoWild
  BY DEF ExecFails
<1>2. CASE GoWild
  BY <1>2, StatusStep DEF GoWild
<1>3. ASSUME NEW img \in FileRuns(spare \cup h.run),
             spare' = (spare \cup h.run) \ img, lost' = lost \cup img,
             bitmap' = h.bitmap, KeepHeap(h), UNCHANGED <<live, space, record, shared, status>>
      PROVE  IInv'
  <2>1. /\ h.run \subseteq Frame \ bitmap /\ h.pt \subseteq Frame \ bitmap /\ h.run \cap h.pt = {}
        /\ h.bitmap = bitmap \cup h.run \cup h.pt /\ h.blocks \in Nat \ {0}
    BY HeapGets, Types DEF IInv
  <2>2. kheap' = kheap \cup h.run /\ blocks' = h.blocks /\ kernel' = kernel \cup h.pt
    BY <1>3 DEF KeepHeap
  <2>3. /\ spare \cap (kernel \cup lost) \subseteq shared /\ kernel \cap lost \subseteq shared
        /\ Kernels = kernel \cup spare \cup lost
        /\ Kernels' = kernel' \cup spare' \cup lost'
        /\ Kernels \ shared \subseteq bitmap
    BY DEF IInv, OneOwner, Apart, MarkedIsOwned, Kernels
  <2>4. img \subseteq spare \cup h.run
    BY DEF FileRuns
  <2>5. spare' \cap (kernel' \cup lost') \subseteq shared' /\ kernel' \cap lost' \subseteq shared'
    BY <1>3, <2>1, <2>2, <2>3, <2>4
  <2>6. Kernels' = Kernels \cup (h.run \cup h.pt)
    BY <1>3, <2>2, <2>3, <2>4
  <2>7. OneOwner' /\ MarkedIsOwned'
    <3>1. (h.run \cup h.pt) \cap bitmap = {} /\ bitmap' = bitmap \cup (h.run \cup h.pt)
      BY <1>3, <2>1
    <3> QED BY <1>3, <2>5, <2>6, <3>1, KernelGrows
  <2>8. TypeOK'
    <3>1. bitmap' \subseteq Frame /\ lost' \subseteq Frame /\ spare' \subseteq Frame
          /\ kernel' \subseteq Frame /\ kheap' \subseteq Frame
      BY <1>3, <2>1, <2>2, <2>4, Types DEF IInv
    <3> QED BY <1>3, <2>1, <2>2, <3>1 DEF IInv, TypeOK
  <2>9. NoGhosts'
    BY <1>3 DEF IInv, NoGhosts, Parts
  <2> QED BY <2>7, <2>8, <2>9 DEF IInv
<1> QED BY <1>1, <1>2, <1>3

LEMMA MallocStep ==
    ASSUME IInv, Malloc
    PROVE  IInv'
<1> DEFINE h == Grown(bitmap)
<1>1. CASE GoWild
  BY <1>1, StatusStep DEF GoWild
<1>2. ASSUME bitmap' = h.bitmap, spare' = spare \cup h.run, KeepHeap(h),
             UNCHANGED <<live, space, record, shared, lost, status>>
      PROVE  IInv'
  <2>0. h \in Mallocs(bitmap)
    BY DEF Malloc, Mallocs
  <2>1. /\ h.run \subseteq Frame \ bitmap /\ h.pt \subseteq Frame \ bitmap /\ h.run \cap h.pt = {}
        /\ h.bitmap = bitmap \cup h.run \cup h.pt /\ h.blocks \in Nat \ {0}
    BY <2>0, HeapGets, Types DEF IInv
  <2>2. kheap' = kheap \cup h.run /\ blocks' = h.blocks /\ kernel' = kernel \cup h.pt
    BY <1>2 DEF KeepHeap
  <2>3. /\ spare \cap (kernel \cup lost) \subseteq shared /\ kernel \cap lost \subseteq shared
        /\ Kernels = kernel \cup spare \cup lost
        /\ Kernels' = kernel' \cup spare' \cup lost'
        /\ Kernels \ shared \subseteq bitmap
    BY DEF IInv, OneOwner, Apart, MarkedIsOwned, Kernels
  <2> HIDE DEF h
  <2>4. spare' \cap (kernel' \cup lost') \subseteq shared' /\ kernel' \cap lost' \subseteq shared'
    BY <1>2, <2>1, <2>2, <2>3
  <2>5. /\ Kernels' = Kernels \cup (h.run \cup h.pt)
        /\ (h.run \cup h.pt) \cap bitmap = {} /\ bitmap' = bitmap \cup (h.run \cup h.pt)
    BY <1>2, <2>1, <2>2, <2>3
  <2>6. OneOwner' /\ MarkedIsOwned'
    BY <1>2, <2>4, <2>5, KernelGrows
  <2>7. TypeOK'
    <3>1. bitmap' \subseteq Frame /\ spare' \subseteq Frame
          /\ kernel' \subseteq Frame /\ kheap' \subseteq Frame
      BY <1>2, <2>1, <2>2, Types DEF IInv
    <3> QED BY <1>2, <2>1, <2>2, <3>1 DEF IInv, TypeOK
  <2>8. NoGhosts'
    BY <1>2 DEF IInv, NoGhosts, Parts
  <2> QED BY <2>6, <2>7, <2>8 DEF IInv
<1> QED BY <1>1, <1>2 DEF Malloc

\* fork: the clone and the growth of the heap for the record take free frames; what
\* an interrupted clone took is lost.
LEMMA ForkStep ==
    ASSUME IInv, NEW p \in Procs, NEW c \in Procs, Fork(p, c)
    PROVE  IInv'
<1> DEFINE got == Lowest(bitmap, CloneFrames)
           a   == Clone(bitmap)
           b   == bitmap \cup got
<1>1. PICK h \in Mallocs(b) :
          \/ /\ live' = live \cup {c}
             /\ space' = [space EXCEPT ![c] = a]
             /\ \E k \in 1 .. h.blocks : record' = [record EXCEPT ![c] = k]
             /\ spare' = spare \cup h.run
             /\ lost' = IF a = Null THEN lost \cup got ELSE lost
             /\ bitmap' = h.bitmap
             /\ KeepHeap(h)
             /\ UNCHANGED <<shared, status>>
          \/ GoWild
  BY DEF Fork
<1>2. CASE GoWild
  BY <1>2, StatusStep DEF GoWild
<1>3. ASSUME live' = live \cup {c}, space' = [space EXCEPT ![c] = a],
             NEW k \in 1 .. h.blocks, record' = [record EXCEPT ![c] = k],
             spare' = spare \cup h.run,
             lost' = IF a = Null THEN lost \cup got ELSE lost,
             bitmap' = h.bitmap, KeepHeap(h), UNCHANGED <<shared, status>>
      PROVE  IInv'
  <2>1. /\ a \in Spaces /\ a.tables \cap Freed(a) \subseteq shared' /\ got \subseteq Frame \ bitmap
        /\ Parts(a) \subseteq got /\ (a # Null => Parts(a) = got)
    BY CloneGets, Types DEF IInv
  <2>2. Parts(Null) = {}
    BY DEF Parts, Null
  <2>3. status = "ok" /\ Parts(space[c]) = {}
    BY DEF Fork, IInv, NoGhosts
  <2>4. /\ bitmap \ shared = (Kernels \cup Others(c)) \ shared /\ Others(c) \cap Kernels \subseteq shared
        /\ bitmap \subseteq Frame
    BY <2>3, Split
  <2>5. /\ h.run \subseteq Frame \ b /\ h.pt \subseteq Frame \ b /\ h.run \cap h.pt = {}
        /\ h.bitmap = b \cup h.run \cup h.pt /\ h.blocks \in Nat \ {0}
    <3> HIDE DEF b
    <3> QED BY HeapGets, Types DEF IInv
  <2>6. kheap' = kheap \cup h.run /\ blocks' = h.blocks /\ kernel' = kernel \cup h.pt
    BY <1>3 DEF KeepHeap
  <2>7. /\ spare \cap (kernel \cup lost) \subseteq shared /\ kernel \cap lost \subseteq shared
        /\ Kernels = kernel \cup spare \cup lost
        /\ Kernels' = kernel' \cup spare' \cup lost'
    BY DEF IInv, OneOwner, Apart, Kernels
  <2> HIDE DEF got, a
  <2>8. /\ lost' = lost \cup (got \ Parts(a))
    BY <1>3, <2>1, <2>2
  <2>9. spare' \cap (kernel' \cup lost') \subseteq shared' /\ kernel' \cap lost' \subseteq shared'
    BY <1>3, <2>1, <2>4, <2>5, <2>6, <2>7, <2>8
  <2>10. /\ Parts(a) \cap Kernels' \subseteq shared'
         /\ Others(c) \cap (Kernels' \cup Parts(a)) \subseteq shared'
    BY <1>3, <2>1, <2>4, <2>5, <2>6, <2>7, <2>8
  <2>11. bitmap' \ shared' = (Kernels' \cup Parts(a) \cup Others(c)) \ shared'
    BY <1>3, <2>1, <2>4, <2>5, <2>6, <2>7, <2>8
  <2>12. OneOwner' /\ MarkedIsOwned'
    BY <1>3, <2>1, <2>9, <2>10, <2>11, Join
  <2>13. TypeOK'
    <3>1. bitmap' \subseteq Frame /\ lost' \subseteq Frame /\ spare' \subseteq Frame
          /\ kernel' \subseteq Frame /\ kheap' \subseteq Frame
      BY <1>3, <2>1, <2>4, <2>5, <2>6, <2>8, Types DEF IInv
    <3>2. space' \in [Procs -> Spaces] /\ record' \in [Procs -> Nat \ {0}] /\ live' \subseteq Procs
      BY <1>3, <2>1, <2>5, Types DEF IInv
    <3> QED BY <1>3, <2>3, <2>5, <2>6, <3>1, <3>2 DEF IInv, TypeOK
  <2>14. NoGhosts'
    <3>1. \A q \in Procs \ live' : space'[q] = space[q] /\ q \notin live
      BY <1>3, Types DEF IInv
    <3>2. \A q \in Procs \ live' : Parts(space'[q]) = {}
      BY <3>1 DEF IInv, NoGhosts
    <3> QED BY <1>3, <2>3, <3>2 DEF NoGhosts, Parts
  <2> QED BY <2>12, <2>13, <2>14 DEF IInv
<1> QED BY <1>1, <1>2, <1>3

\* process_destroy: what is freed was p's; its page tables are lost.
LEMMA DestroyStep ==
    ASSUME IInv, NEW p \in Procs, Destroy(p)
    PROVE  IInv'
<1>1. CASE GoWild
  BY <1>1, StatusStep DEF GoWild
<1>2. ASSUME bitmap' = bitmap \ Freed(space[p]), lost' = lost \cup space[p].tables,
             live' = live \ {p}, space' = [space EXCEPT ![p] = Null],
             UNCHANGED <<record, kheap, spare, shared, blocks, kernel, status>>
      PROVE  IInv'
  <2> DEFINE old == space[p]
  <2>1. /\ Null \in Spaces /\ Parts(Null) = {} /\ Null.tables \cap Freed(Null) = {}
        /\ Parts(old) = old.tables \cup Freed(old)
    BY DEF Null, Spaces, Parts, Freed
  <2>2. /\ bitmap \ shared = (Kernels \cup Parts(old) \cup Others(p)) \ shared /\ bitmap \subseteq Frame
        /\ Others(p) \cap (Kernels \cup Parts(old)) \subseteq shared
        /\ Parts(old) \cap Kernels \subseteq shared /\ old.tables \cap Freed(old) \subseteq shared
    BY Split
  <2>3. /\ spare \cap (kernel \cup lost) \subseteq shared /\ kernel \cap lost \subseteq shared
        /\ Kernels = kernel \cup spare \cup lost
        /\ Kernels' = kernel' \cup spare' \cup lost'
    BY DEF IInv, OneOwner, Apart, Kernels
  <2>4. bitmap' = bitmap \ Freed(old) /\ lost' = lost \cup old.tables
    BY <1>2
  <2> HIDE DEF old
  <2>5. Others(p) \cap Kernels' \subseteq shared' /\ bitmap' \ shared' = (Kernels' \cup Others(p)) \ shared'
    BY <1>2, <2>1, <2>2, <2>3, <2>4
  <2>6. spare' \cap (kernel' \cup lost') \subseteq shared' /\ kernel' \cap lost' \subseteq shared'
    BY <1>2, <2>1, <2>2, <2>3, <2>4
  <2>7. OneOwner' /\ MarkedIsOwned'
    BY <1>2, <2>1, <2>5, <2>6, Join
  <2>8. TypeOK'
    <3>1. bitmap' \subseteq Frame /\ lost' \subseteq Frame
      BY <2>1, <2>2, <2>4, Types DEF IInv
    <3>2. space' \in [Procs -> Spaces] /\ live' \subseteq Procs
      BY <1>2, <2>1, Types DEF IInv
    <3> QED BY <1>2, <3>1, <3>2 DEF IInv, TypeOK
  <2>9. NoGhosts'
    <3>1. space'[p] = Null /\ \A q \in Procs \ {p} : space'[q] = space[q]
      BY <1>2, Types DEF IInv
    <3>2. \A q \in Procs \ live' : Parts(space'[q]) = {}
      BY <1>2, <2>1, <3>1 DEF IInv, NoGhosts
    <3>3. status' = "boot" => live' = {}
      BY <1>2 DEF IInv, NoGhosts
    <3> QED BY <3>2, <3>3 DEF NoGhosts, Parts
  <2> QED BY <2>7, <2>8, <2>9 DEF IInv
<1> QED BY <1>1, <1>2 DEF Destroy

LEMMA NextInv == IInv /\ [Next]_vars => IInv'
<1> SUFFICES ASSUME IInv, [Next]_vars PROVE IInv'
  OBVIOUS
<1>1. ASSUME NEW p \in Procs, System(p) PROVE IInv'
  BY <1>1, SystemStep
<1>2. ASSUME NEW p \in Procs, Exec(p) PROVE IInv'
  BY <1>2, ExecStep
<1>3. ASSUME NEW p \in Procs, ExecFails(p) PROVE IInv'
  BY <1>3, ExecFailsStep
<1>4. ASSUME NEW p \in Procs, Destroy(p) PROVE IInv'
  BY <1>4, DestroyStep
<1>5. ASSUME NEW p \in Procs, Schedule(p) PROVE IInv'
  BY <1>5, StatusStep DEF Schedule
<1>6. ASSUME NEW p \in Procs, NEW c \in Procs, Fork(p, c) PROVE IInv'
  BY <1>6, ForkStep
<1>7. CASE Malloc
  BY <1>7, MallocStep
<1>8. CASE Stop \/ UNCHANGED vars
  BY <1>8, StatusStep DEF Stop, vars
<1> QED BY <1>1, <1>2, <1>3, <1>4, <1>5, <1>6, <1>7, <1>8 DEF Next

\* The inductive invariant holds in every state the kernel reaches.
THEOREM Invariant == Spec => []IInv
  BY InitInv, NextInv, PTL DEF Spec

\* For any memory and any number of processes, no frame has two owners or two roles,
\* but for the last page of a loaded file that the heap goes on using (bitmap_alloc_page, bitmap_alloc_contiguous_pages, process_execve, mmu_clone_pdt,
\* process_destroy).
THEOREM FramesHaveOneOwner == Spec => []OneOwner
<1>1. IInv => OneOwner
  BY DEF IInv
<1> QED BY <1>1, Invariant, PTL

\* For any memory and any number of processes, the bitmap marks exactly the frames
\* in use, and the ones known to leak, again but for those last pages
\* (bitmap_free_pages, mmu_free_pages).
THEOREM NothingElseLeaks == Spec => []MarkedIsOwned
<1>1. IInv => MarkedIsOwned
  BY DEF IInv
<1> QED BY <1>1, Invariant, PTL

\* The type invariant, for every value of the constants.
THEOREM TypeCorrect == Spec => []TypeOK
<1>1. IInv => TypeOK
  BY DEF IInv
<1> QED BY <1>1, Invariant, PTL

-----------------------------------------------------------------------------
(* Allocation fails only when the memory is short: every allocator takes   *)
(* the lowest frames it can use, so a run of free frames loses no more     *)
(* than what was asked for.                                                *)

\* n free frames in a row, somewhere.
Room(b, n) == \E s \in Nat : Fits(b, s, n)

\* A set of naturals has a least element.
LEMMA LeastIn ==
    ASSUME NEW I \in SUBSET Nat, I # {}
    PROVE  \E x \in I : \A y \in I : x <= y
<1> DEFINE R == OpToRel(<, Nat)
<1>1. PICK x \in I : \A y \in I : ~ (<<y, x>> \in R)
  BY NatLessThanWellFounded, WFMin, Zenon
<1>2. \A y \in I : ~ (y < x)
  BY <1>1 DEF OpToRel
<1> QED BY <1>2

\* A longer run holds a shorter one.
LEMMA RoomFor ==
    ASSUME NEW b, NEW m \in Nat, NEW n \in 0 .. m, Room(b, m)
    PROVE  Room(b, n)
<1>1. PICK s \in Nat : Fits(b, s, m)
  BY DEF Room
<1>2. Fits(b, s, n)
  BY <1>1 DEF Fits
<1> QED BY <1>2 DEF Room

\* bitmap_alloc_contiguous_pages finds the frames, and what is left of the run holds
\* the rest: the run it takes lies before this one or begins inside the part it uses.
LEMMA FirstFitLeaves ==
    ASSUME NEW b, NEW m \in Nat, NEW n \in 1 .. m, Room(b, m)
    PROVE  FirstFit(b, n) # {} /\ Room(b \cup FirstFit(b, n), m - n)
<1>1. PICK s \in Nat : Fits(b, s, m)
  BY DEF Room
<1>2. Limit \in Int
  BY MemoryAssumption DEF Limit
<1> DEFINE starts == {t \in Frame : Fits(b, t, n)}
<1>3. \A t \in Nat : Fits(b, t, n) => t \in starts
  BY <1>2 DEF Fits, Frame
<1>4. s \in starts
  <2>1. Fits(b, s, n)
    BY <1>1 DEF Fits
  <2> QED BY <1>3, <2>1
<1>5. starts \in SUBSET Nat
  BY <1>2 DEF Frame
<1>6. PICK t \in starts : \A u \in starts : t <= u
  BY <1>4, <1>5, LeastIn
<1>7. {u \in starts : \A v \in starts : u <= v} = {t}
  BY <1>5, <1>6
<1>8. FirstFit(b, n) = t .. t + n - 1
  BY <1>7 DEF FirstFit
<1>9. t \in Nat /\ t <= s
  BY <1>4, <1>5, <1>6
<1> HIDE DEF starts
<1> DEFINE from == IF t + n <= s THEN s ELSE t + n
<1>10. from \in Nat /\ s <= from /\ from + (m - n) <= s + m
  BY <1>9
<1>11. \A k \in 0 .. m - n - 1 : from + k < Limit /\ from + k \notin b \cup (t .. t + n - 1)
  <2> SUFFICES ASSUME NEW k \in 0 .. m - n - 1
               PROVE  from + k < Limit /\ from + k \notin b \cup (t .. t + n - 1)
    OBVIOUS
  <2>1. CASE t + n <= s
    <3>1. k \in 0 .. m - 1 /\ from = s /\ ~(from + k <= t + n - 1)
      BY <1>9, <2>1
    <3>2. s + k < Limit /\ s + k \notin b
      BY <1>1, <3>1 DEF Fits
    <3> QED BY <1>9, <3>1, <3>2
  <2>2. CASE ~(t + n <= s)
    <3>1. from = t + n /\ (from + k) - s \in 0 .. m - 1 /\ s + ((from + k) - s) = from + k
      BY <1>9, <2>2
    <3>2. from + k < Limit /\ from + k \notin b
      BY <1>1, <3>1 DEF Fits
    <3> QED BY <1>9, <3>1, <3>2
  <2> QED BY <2>1, <2>2
<1>12. Room(b \cup (t .. t + n - 1), m - n)
  BY <1>10, <1>11 DEF Room, Fits
<1>13. t \in t .. t + n - 1
  BY <1>9
<1> QED BY <1>8, <1>12, <1>13

\* The free frames before one of them.
Before(b, f) == {g \in Frame \ b : g < f}

LEMMA BeforeFinite ==
    ASSUME NEW b, NEW f \in Frame
    PROVE  IsFiniteSet(Before(b, f)) /\ Rank(b, f) = Cardinality(Before(b, f)) /\ Rank(b, f) \in Nat
<1>1. Limit \in Int
  BY MemoryAssumption DEF Limit
<1>2. IsFiniteSet(Frame)
  BY <1>1, FS_Interval DEF Frame
<1>3. Before(b, f) \in SUBSET Frame
  BY DEF Before
<1>4. IsFiniteSet(Before(b, f))
  BY <1>2, <1>3, FS_Subset
<1> QED BY <1>4, FS_CardinalityType DEF Rank, Before

\* n calls of bitmap_alloc_page use at most the first n frames of the run.
LEMMA LowestLeaves ==
    ASSUME NEW b, NEW m \in Nat, NEW n \in 1 .. m, Room(b, m)
    PROVE  Lowest(b, n) # {} /\ Room(b \cup Lowest(b, n), m - n)
<1>1. PICK s \in Nat : Fits(b, s, m)
  BY DEF Room
<1>2. Limit \in Int
  BY MemoryAssumption DEF Limit
<1>3. \A k \in 0 .. m - 1 : s + k \in Frame \ b
  BY <1>1, <1>2 DEF Fits, Frame
<1>4. ASSUME NEW k \in n .. m - 1 PROVE s + k \notin Lowest(b, n)
  <2>1. s .. s + n - 1 \in SUBSET Before(b, s + k)
    <3> SUFFICES ASSUME NEW g \in s .. s + n - 1 PROVE g \in Before(b, s + k)
      OBVIOUS
    <3>1. g - s \in 0 .. m - 1 /\ s + (g - s) = g /\ g < s + k
      BY <1>4
    <3> QED BY <1>3, <3>1 DEF Before
  <2>2. Cardinality(s .. s + n - 1) = n
    BY FS_Interval
  <2>3. s + k \in Frame
    BY <1>3, <1>4
  <2>4. IsFiniteSet(Before(b, s + k)) /\ Rank(b, s + k) = Cardinality(Before(b, s + k))
        /\ Rank(b, s + k) \in Nat
    BY <2>3, BeforeFinite
  <2>5. Cardinality(s .. s + n - 1) <= Cardinality(Before(b, s + k))
    BY <2>1, <2>4, FS_Subset
  <2>6. ~(Rank(b, s + k) < n)
    BY <2>2, <2>4, <2>5
  <2> QED BY <2>6 DEF Lowest
<1>5. ASSUME NEW k \in 0 .. m - n - 1
      PROVE  (s + n) + k < Limit /\ (s + n) + k \notin b \cup Lowest(b, n)
  <2>1. n + k \in n .. m - 1 /\ n + k \in 0 .. m - 1 /\ s + (n + k) = (s + n) + k
    BY <1>5
  <2> QED BY <1>3, <1>4, <1>2, <2>1 DEF Frame
<1>6. Room(b \cup Lowest(b, n), m - n)
  <2>1. s + n \in Nat
    OBVIOUS
  <2> QED BY <1>5, <2>1 DEF Room, Fits
<1>7. Lowest(b, n) # {}
  <2>1. s \in Frame \ b /\ Frame \ b \in SUBSET Nat
    BY <1>2, <1>3 DEF Frame
  <2>2. PICK f \in Frame \ b : \A g \in Frame \ b : f <= g
    BY <2>1, LeastIn
  <2>3. Before(b, f) = {}
    BY <2>1, <2>2 DEF Before
  <2>4. Rank(b, f) = 0
    BY <2>3, BeforeFinite, FS_EmptySet
  <2> QED BY <2>2, <2>4 DEF Lowest
<1> QED BY <1>6, <1>7

\* Both, with the rest of the run named.
LEMMA Leaves ==
    ASSUME NEW b, NEW m \in Nat, NEW n \in Nat \ {0}, NEW k \in Nat, m = n + k, Room(b, m)
    PROVE  /\ FirstFit(b, n) # {} /\ Room(b \cup FirstFit(b, n), k)
           /\ Lowest(b, n) # {} /\ Room(b \cup Lowest(b, n), k)
<1>1. n \in 1 .. m /\ k = m - n
  OBVIOUS
<1> QED BY <1>1, FirstFitLeaves, LowestLeaves

\* Two calls of bitmap_alloc_page return two frames.
LEMMA LowestTwo ==
    ASSUME NEW b, NEW m \in Nat, m >= 2, Room(b, m)
    PROVE  IsFiniteSet(Lowest(b, 2)) /\ Cardinality(Lowest(b, 2)) = 2
<1>1. PICK s \in Nat : Fits(b, s, m)
  BY DEF Room
<1>2. Limit \in Int
  BY MemoryAssumption DEF Limit
<1>3. s \in Frame \ b /\ s + 1 \in Frame \ b /\ Frame \ b \in SUBSET Nat
  <2>1. 0 \in 0 .. m - 1 /\ 1 \in 0 .. m - 1
    OBVIOUS
  <2>2. s + 0 < Limit /\ s + 0 \notin b /\ s + 1 < Limit /\ s + 1 \notin b
    BY <1>1, <2>1 DEF Fits
  <2> QED BY <1>2, <2>2 DEF Frame
<1>4. PICK f \in Frame \ b : \A x \in Frame \ b : f <= x
  BY <1>3, LeastIn
<1> DEFINE rest == (Frame \ b) \ {f}
<1>5. rest \in SUBSET Nat /\ rest # {}
  BY <1>3
<1>6. PICK g \in rest : \A x \in rest : g <= x
  BY <1>5, LeastIn
<1>7. f \in Nat /\ g \in Nat /\ f < g /\ f \in Frame \ b /\ g \in Frame \ b /\ f # g
  BY <1>3, <1>4, <1>6
<1>8. Before(b, f) = {}
  BY <1>3, <1>4 DEF Before
<1>9. Before(b, g) = {f}
  BY <1>3, <1>6, <1>7 DEF Before
<1>10. Rank(b, f) = 0 /\ Rank(b, g) = 1
  BY <1>7, <1>8, <1>9, BeforeFinite, FS_EmptySet, FS_Singleton
<1>11. Cardinality({f, g}) = 2 /\ IsFiniteSet({f, g})
  <2>1. IsFiniteSet({f}) /\ Cardinality({f}) = 1
    BY FS_Singleton
  <2>2. {f, g} = {f} \cup {g} /\ g \notin {f}
    BY <1>7
  <2> QED BY <2>1, <2>2, FS_AddElement
<1>12. ASSUME NEW x \in (Frame \ b) \ {f, g} PROVE ~(Rank(b, x) < 2)
  <2>1. {f, g} \in SUBSET Before(b, x)
    BY <1>3, <1>4, <1>6, <1>7, <1>12 DEF Before
  <2>2. IsFiniteSet(Before(b, x)) /\ Rank(b, x) = Cardinality(Before(b, x)) /\ Rank(b, x) \in Nat
    BY <1>12, BeforeFinite
  <2>3. Cardinality({f, g}) <= Cardinality(Before(b, x))
    BY <2>1, <2>2, FS_Subset
  <2> QED BY <1>11, <2>2, <2>3
<1>13. Lowest(b, 2) = {f, g}
  <2>1. f \in Lowest(b, 2) /\ g \in Lowest(b, 2)
    BY <1>7, <1>10 DEF Lowest
  <2>2. \A x \in Lowest(b, 2) : x \in {f, g}
    BY <1>12 DEF Lowest
  <2> QED BY <2>1, <2>2
<1> QED BY <1>11, <1>13

\* A malloc succeeds in a run that holds a block and a page table, and leaves the rest.
LEMMA MallocLeaves ==
    ASSUME blocks \in Nat \ {0}, NEW b, NEW h \in Mallocs(b), NEW k \in Nat,
           Room(b, BlockPages + 1 + k)
    PROVE  h.ok /\ Room(h.bitmap, k)
<1>0. BlockPages \in Nat \ {0}
  BY MemoryAssumption
<1>1. CASE h = Fitted(b)
  <2>1. k \in 0 .. BlockPages + 1 + k
    BY <1>0
  <2>2. Room(b, k)
    BY <1>0, <2>1, RoomFor
  <2> QED BY <1>1, <2>2 DEF Fitted
<1>2. CASE h = Grown(b)
  <2> DEFINE run == FirstFit(b, BlockPages)
             new == TableOf(blocks + 1) # TableOf(blocks)
             one == FirstFit(b \cup run, 1)
             pt  == IF new THEN one ELSE {}
             m   == BlockPages + 1 + k
  <2>1. h.bitmap = b \cup run \cup pt /\ h.ok = (run # {} /\ (new => pt # {}))
    BY <1>2 DEF Grown
  <2>2. m \in Nat /\ BlockPages \in 1 .. m /\ m - BlockPages = k + 1
    BY <1>0
  <2> HIDE DEF m
  <2>3. run # {} /\ Room(b \cup run, k + 1)
    BY <2>2, FirstFitLeaves DEF m
  <2>4. 1 \in 1 .. k + 1 /\ k + 1 \in Nat /\ (k + 1) - 1 = k /\ k \in 0 .. k + 1
    OBVIOUS
  <2> HIDE DEF run
  <2>5. one # {} /\ Room(b \cup run \cup one, k)
    BY <2>3, <2>4, FirstFitLeaves
  <2>6. Room(b \cup run, k)
    BY <2>3, <2>4, RoomFor
  <2> HIDE DEF one, new
  <2>7. Room(b \cup run \cup pt, k)
    BY <2>5, <2>6
  <2> QED BY <2>1, <2>3, <2>5, <2>7
<1> QED BY <1>1, <1>2 DEF Mallocs

\* What execve allocates in all.
SpaceFrames == 11 + HeapPages

LEMMA NewSpaceFits ==
    ASSUME NEW b, NEW m \in Nat, m >= SpaceFrames, Room(b, m)
    PROVE  NewSpace(b).ok
<1> DEFINE pdt   == FirstFit(b, 1)
           stack == FirstFit(b \cup pdt, StackPages)
           b1    == b \cup pdt \cup stack
           pts   == Lowest(b1, 2)
           b2    == b1 \cup pts
           heap  == FirstFit(b2, HeapPages)
           b3    == b2 \cup heap
           hpt   == FirstFit(b3, 1)
           b4    == b3 \cup hpt
           argv  == Lowest(b4, 2)
           b5    == b4 \cup argv
           apt   == FirstFit(b5, 1)
           b6    == b5 \cup apt
           envp  == Lowest(b6, 2)
<1>0. HeapPages \in Nat \ {0} /\ StackPages = 2 /\ ArgPages = 4
  BY MemoryAssumption DEF StackPages, ArgPages
<1>1. Room(b, 11 + HeapPages)
  BY <1>0, RoomFor DEF SpaceFrames
<1> DEFINE m10 == 10 + HeapPages
           m8  == 8 + HeapPages
           m6  == 6 + HeapPages
<1>s. /\ 1 \in Nat \ {0} /\ 2 \in Nat \ {0} /\ m10 \in Nat /\ m8 \in Nat /\ m6 \in Nat /\ 11 + HeapPages \in Nat
      /\ 11 + HeapPages = 1 + m10 /\ m10 = 2 + m8 /\ m8 = 2 + m6 /\ m6 = HeapPages + 6
  BY <1>0
<1> HIDE DEF m10, m8, m6
<1>2. Room(b \cup pdt, m10)
  BY <1>1, <1>s, Leaves, Zenon
<1>3. stack # {} /\ Room(b1, m8)
  <2> DEFINE c == b \cup pdt
  <2>1. Room(c, m10)
    BY <1>2
  <2> HIDE DEF c
  <2>2. FirstFit(c, 2) # {} /\ Room(c \cup FirstFit(c, 2), m8)
    BY <1>s, <2>1, Leaves, Zenon
  <2> QED BY <1>0, <2>2 DEF c
<1> HIDE DEF b1
<1>4. Room(b2, m6)
  BY <1>3, <1>s, Leaves, Zenon
<1> HIDE DEF b2
<1>5. heap # {} /\ Room(b3, 6)
  BY <1>0, <1>4, <1>s, Leaves
<1> HIDE DEF b3
<1>6. Room(b4, 5)
  BY <1>5, FirstFitLeaves
<1> HIDE DEF b4
<1>7. Room(b5, 3) /\ IsFiniteSet(argv) /\ Cardinality(argv) = 2
  BY <1>6, LowestLeaves, LowestTwo
<1>8. argv \subseteq b5
  OBVIOUS
<1> HIDE DEF b5, argv
<1>9. Room(b6, 2)
  BY <1>7, FirstFitLeaves
<1>10. argv \subseteq b6
  BY <1>8
<1> HIDE DEF b6
<1>11. IsFiniteSet(envp) /\ Cardinality(envp) = 2 /\ envp \subseteq Frame \ b6
  BY <1>9, LowestTwo, AllocFree
<1> HIDE DEF envp
<1>12. argv \cap envp = {}
  BY <1>10, <1>11
<1>13. Cardinality(argv \cup envp) = 4
  BY <1>7, <1>11, <1>12, FS_Union, FS_EmptySet
<1> QED BY <1>0, <1>3, <1>5, <1>13 DEF NewSpace, b1, b2, b3, b4, b5, b6, argv, envp

LEMMA NeedIs ==
    /\ BlockPages \in Nat \ {0} /\ HeapPages \in Nat \ {0} /\ ImagePages \in Nat \ {0}
    /\ SpaceFrames \in Nat /\ CloneFrames \in Nat /\ Need \in Nat
    /\ Need = BlockPages + 1 + CloneFrames /\ CloneFrames >= SpaceFrames + 1
  BY MemoryAssumption DEF Need, CloneFrames, SpaceFrames, ArgPages, StackPages

\* An operation of the kernel that runs out of memory had no run that holds Need frames.
LEMMA ShortStep ==
    ASSUME IInv, Next, status # "wild", status' = "wild", HasSpace' = live'
    PROVE  ~Room(bitmap, Need)
<1> SUFFICES ASSUME Room(bitmap, Need) PROVE FALSE
  OBVIOUS
<1>0. blocks \in Nat \ {0} /\ status \in {"boot", "ok", "fault"}
  BY DEF IInv, TypeOK
<1>1. ASSUME NEW k \in Nat, Room(bitmap, BlockPages + 1 + k), NEW h \in Mallocs(bitmap)
      PROVE  h.ok /\ Room(h.bitmap, k)
  BY <1>0, <1>1, MallocLeaves
<1>2. ASSUME NEW h \in Mallocs(bitmap) PROVE h.ok /\ NewSpace(h.bitmap).ok
  <2>1. h.ok /\ Room(h.bitmap, CloneFrames)
    BY <1>1, <1>2, NeedIs
  <2> QED BY <2>1, NeedIs, NewSpaceFits
<1>3. ASSUME NEW p \in Procs, System(p) PROVE FALSE
  <2> DEFINE d == FirstFit(bitmap, 1)
             b == bitmap \cup d
             k == CloneFrames - 1
  <2>1. k \in Nat /\ k >= SpaceFrames /\ 1 \in 1 .. Need /\ Need - 1 = BlockPages + 1 + k
    BY NeedIs
  <2>2. Room(b, Need - 1)
    BY <2>1, NeedIs, FirstFitLeaves
  <2>3. Room(b, BlockPages + 1 + k)
    BY <2>1, <2>2
  <2> HIDE DEF k, b
  <2>4. ASSUME NEW h \in Mallocs(b) PROVE h.ok /\ NewSpace(h.bitmap).ok
    <3>1. h.ok /\ Room(h.bitmap, k)
      BY <1>0, <2>1, <2>3, <2>4, MallocLeaves
    <3> QED BY <2>1, <3>1, NewSpaceFits
  <2>5. Execve(p, [Null EXCEPT !.pdt = d], b)
    BY <1>3 DEF System, b
  <2> QED BY <2>4, <2>5 DEF Execve, Load
<1>4. ASSUME NEW p \in Procs, Exec(p) PROVE FALSE
  BY <1>2, <1>4 DEF Exec, Execve, Load
<1>5. ASSUME NEW p \in Procs, ExecFails(p) PROVE FALSE
  BY <1>2, <1>5 DEF ExecFails
<1>6. ASSUME NEW p \in Procs, Destroy(p) PROVE FALSE
  BY <1>6 DEF Destroy, GoWild, HasSpace
<1>7. ASSUME NEW p \in Procs, Schedule(p) PROVE FALSE
  BY <1>7 DEF Schedule, HasSpace
<1>8. ASSUME NEW p \in Procs, NEW c \in Procs, Fork(p, c) PROVE FALSE
  <2> DEFINE got == Lowest(bitmap, CloneFrames)
             b   == bitmap \cup got
  <2>1. CloneFrames \in 1 .. Need /\ Need - CloneFrames = BlockPages + 1 + 0
    BY NeedIs
  <2>2. got # {} /\ Room(b, BlockPages + 1 + 0)
    BY <2>1, NeedIs, LowestLeaves
  <2> HIDE DEF b
  <2>3. ASSUME NEW h \in Mallocs(b) PROVE h.ok
    BY <1>0, <2>2, <2>3, MallocLeaves
  <2> QED BY <1>8, <2>2, <2>3 DEF Fork, b
<1>9. CASE Malloc
  <2>1. Grown(bitmap) \in Mallocs(bitmap)
    BY <1>9 DEF Malloc, Mallocs
  <2>2. Grown(bitmap).ok
    BY <1>2, <2>1
  <2> QED BY <1>9, <2>2 DEF Malloc
<1>10. CASE Stop
  BY <1>10 DEF Stop, vars
<1> QED BY <1>3, <1>4, <1>5, <1>6, <1>7, <1>8, <1>9, <1>10 DEF Next

\* The kernel goes wild in a step that leaves the bitmap as it was, and stays where
\* it is.
LEMMA WildStep ==
    ASSUME IInv, [Next]_vars, WildOnlyWhenShort
    PROVE  WildOnlyWhenShort'
<1>1. CASE status = "wild" \/ UNCHANGED vars
  <2>1. UNCHANGED vars
    BY <1>1 DEF Next, System, Exec, ExecFails, Destroy, Schedule, Fork, Malloc, Stop
  <2> QED BY <2>1 DEF vars, WildOnlyWhenShort, HasSpace
<1>2. CASE Next /\ status # "wild"
  <2> SUFFICES ASSUME status' = "wild", HasSpace' = live', NEW s \in Frame
               PROVE  ~Fits(bitmap', s, Need)
    BY DEF WildOnlyWhenShort
  <2>1. ~Room(bitmap, Need)
    BY <1>2, ShortStep
  <2>2. bitmap' = bitmap
    BY <1>2 DEF Next, System, Exec, ExecFails, Destroy, Schedule, Fork, Malloc, Stop, Execve, Load,
                GoWild, vars
  <2>3. Frame \subseteq Nat
    BY MemoryAssumption DEF Frame, Limit
  <2> QED BY <2>1, <2>2, <2>3 DEF Room
<1> QED BY <1>1, <1>2

\* For any memory and any order of execve, fork and exit: as long as every process
\* has its address space, the kernel uses a NULL page only when no run of free frames
\* would have held all the frames an operation can ask for.
THEOREM WildIsDue == Spec => []WildOnlyWhenShort
<1>1. Init => WildOnlyWhenShort
  BY DEF Init, WildOnlyWhenShort
<1>2. IInv /\ WildOnlyWhenShort /\ [Next]_vars => WildOnlyWhenShort'
  BY WildStep
<1> QED BY <1>1, <1>2, Invariant, PTL DEF Spec
=============================================================================
