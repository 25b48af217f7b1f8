----------------------------- MODULE HeapProofs -----------------------------
(***************************************************************************)
(* The kernel heap never hands out a cell twice, for every size of pages,  *)
(* cells, blocks and requests; and the search loop of heap_alloc finds the *)
(* run that module Heap assumes it to find.                                *)
(***************************************************************************)
EXTENDS Heap, HeapSearch, FiniteSetTheorems, NaturalsInduction, WellFoundedInduction, TLAPS

-----------------------------------------------------------------------------
(* Arithmetic of cells.                                                    *)

\* Division by the cell size rounds down.
LEMMA DivFacts ==
    ASSUME NEW n \in Nat
    PROVE  /\ n \div CellBytes \in Nat
           /\ (n \div CellBytes) * CellBytes <= n
           /\ n < (n \div CellBytes) * CellBytes + CellBytes
  <1>1. CellBytes \in Nat \ {0}
    BY HeapAssumption
  <1> QED
    BY <1>1, SMT

\* Ceil(n) cells hold n bytes.
LEMMA CeilFacts ==
    ASSUME NEW n \in Nat
    PROVE  /\ Ceil(n) \in Nat
           /\ Ceil(n) * CellBytes >= n
           /\ n > 0 => Ceil(n) > 0
  <1>1. CellBytes \in Nat \ {0}
    BY HeapAssumption
  <1> DEFINE q == n \div CellBytes
  <1>2. q \in Nat /\ n < q * CellBytes + CellBytes
    BY DivFacts
  <1>3. Ceil(n) = IF q * CellBytes < n THEN q + 1 ELSE q
    BY DEF Ceil
  <1> HIDE DEF q
  <1>4. (q + 1) * CellBytes = q * CellBytes + CellBytes
    BY <1>1, <1>2, SMT
  <1> QED
    BY <1>1, <1>2, <1>3, <1>4, SMT

\* A pointer that align bytes precede lies in one of the cells of the request.
LEMMA AlignFits ==
    ASSUME NEW align \in Nat, NEW n \in Nat, n > align
    PROVE  align \div CellBytes < Ceil(n)
  <1>1. CellBytes \in Nat \ {0}
    BY HeapAssumption
  <1> DEFINE q == align \div CellBytes
             c == Ceil(n)
  <1>2. q \in Nat /\ q * CellBytes <= align
    BY DivFacts
  <1>3. c \in Nat /\ c * CellBytes >= n
    BY CeilFacts
  <1> HIDE DEF q, c
  <1>4. c <= q => c * CellBytes <= q * CellBytes
    BY <1>1, <1>2, <1>3, SMT
  <1> QED
    BY <1>1, <1>2, <1>3, <1>4, SMT DEF q, c

\* heap_get_new_id returns a byte that is not 0 and not the id of a neighbour.
LEMMA NewIdDiffers ==
    ASSUME NEW a \in Ids, NEW b \in Ids
    PROVE  NewId(a, b) \in Ids \ {0, a, b}
  <1>1. IdCount \in Nat /\ IdCount > 3
    BY HeapAssumption
  <1>2. \A k \in 1 .. 3 : (a + k) % IdCount = IF a + k < IdCount THEN a + k ELSE a + k - IdCount
    BY <1>1, SMT DEF Ids
  <1> QED
    BY <1>1, <1>2, SMT DEF NewId, Ids

-----------------------------------------------------------------------------
(* The inductive invariant, of any list of blocks and any histories.       *)

Maps == UNION {[0 .. c - 1 -> Ids] : c \in Nat}
Block == [size : Nat, used : Int, lfb : Int, bitmap : Maps]
R(h) == Reserved(Count(h))

\* The blocks are well formed; one cell at least, which holds the bitmap's beginning.
WellFormed(B) ==
    /\ B \in Seq(Block)
    /\ \A b \in 1 .. Len(B) : /\ Count(B[b]) \in Nat \ {0}
                              /\ R(B[b]) \in Nat \ {0}
                              /\ B[b].bitmap \in [Cells(B[b]) -> Ids]

\* The histories speak of cells behind the bitmap.
Placed(B, Hd, L) ==
    /\ \A a \in Hd : /\ a \in [block : 1 .. Len(B), lo : Int, hi : Int, at : Int]
                     /\ R(B[a.block]) <= a.lo /\ a.lo <= a.at /\ a.at <= a.hi
                     /\ a.hi < Count(B[a.block])
    /\ L \subseteq (1 .. Len(B)) \X Nat
    /\ \A b \in 1 .. Len(B) : \A u \in Nat : <<b, u>> \in L => u < Count(B[b])

\* An allocation has its cells for itself.
Apart(Hd, L) ==
    \A a \in Hd :
        /\ \A u \in a.lo .. a.hi : <<a.block, u>> \notin L
        /\ \A e \in Hd \ {a} : e.block = a.block => e.hi < a.lo \/ a.hi < e.lo

\* The bytes that are not 0.
InUse(B, Hd, L, b, u) ==
    \/ u < R(B[b])
    \/ <<b, u>> \in L
    \/ \E a \in Hd : a.block = b /\ u \in a.lo .. a.hi
Exact(B, Hd, L) ==
    \A b \in 1 .. Len(B) : \A u \in Cells(B[b]) :
        B[b].bitmap[u] # 0 <=> InUse(B, Hd, L, b, u)

\* What free relies on: the cells of an allocation share an id, and the next cell
\* has another.
Delimited(B, Hd) ==
    \A a \in Hd :
        /\ \A u \in a.lo .. a.hi : B[a.block].bitmap[u] = B[a.block].bitmap[a.at]
        /\ a.hi + 1 < Count(B[a.block]) =>
              B[a.block].bitmap[a.hi + 1] # B[a.block].bitmap[a.at]

\* heap_block.used.
NonZero(h) == {u \in Cells(h) : h.bitmap[u] # 0}
Counted(B) == \A b \in 1 .. Len(B) : B[b].used = Cardinality(NonZero(B[b]))

Good(B, Hd, L) ==
    /\ WellFormed(B)
    /\ Placed(B, Hd, L)
    /\ Apart(Hd, L)
    /\ Exact(B, Hd, L)
    /\ Delimited(B, Hd)
    /\ Counted(B)

IInv == Good(blocks, held, lost) /\ refused \in Nat

-----------------------------------------------------------------------------
(* What the operations on one block return.                                *)

\* A new block.
LEMMA FreshBlock ==
    ASSUME NEW p \in BlockPages
    PROVE  LET h == Fresh(p * PageBytes) IN
           /\ h \in Block
           /\ Count(h) \in Nat \ {0}
           /\ R(h) \in Nat \ {0}
           /\ h.bitmap \in [Cells(h) -> Ids]
           /\ \A u \in Cells(h) : h.bitmap[u] # 0 <=> u < R(h)
           /\ h.used = R(h)
           /\ R(h) <= Count(h)
  <1> DEFINE m == p * PageBytes - HeaderBytes
             c == m \div CellBytes
             h == Fresh(p * PageBytes)
  <1>1. CellBytes \in Nat \ {0} /\ ReservedId \in Ids \ {0} /\ 0 \in Ids
    BY HeapAssumption DEF Ids
  <1>2. m \in Nat /\ m >= CellBytes
    <2>1. /\ p \in Nat /\ PageBytes \in Nat /\ HeaderBytes \in Nat
          /\ p * PageBytes >= HeaderBytes + CellBytes
      BY HeapAssumption
    <2> DEFINE z == p * PageBytes
    <2>2. z \in Nat
      BY <2>1, SMT
    <2> HIDE DEF z
    <2>3. z - HeaderBytes \in Nat /\ z - HeaderBytes >= CellBytes
      BY <1>1, <2>1, <2>2, SMT DEF z
    <2> QED
      BY <2>3 DEF z
  <1>3. c \in Nat \ {0}
    <2> HIDE DEF m
    <2>1. c \in Nat /\ m < c * CellBytes + CellBytes
      BY <1>2, DivFacts
    <2> HIDE DEF c
    <2>2. c = 0 => c * CellBytes = 0
      BY <1>1, SMT
    <2> QED
      BY <1>1, <1>2, <2>1, <2>2, SMT
  <1>4. h = [size |-> m, used |-> Reserved(c), lfb |-> Reserved(c) - 1,
             bitmap |-> [u \in 0 .. c - 1 |-> IF u < Reserved(c) THEN ReservedId ELSE 0]]
    BY DEF Fresh
  <1> HIDE DEF h
  <1>5. Count(h) = c
    BY <1>4 DEF Count
  <1> HIDE DEF c, m
  <1>6. Reserved(c) \in Nat \ {0}
    BY <1>3, CeilFacts DEF Reserved
  <1>7. Reserved(c) <= c
    <2> DEFINE q == c \div CellBytes
    <2>1. q \in Nat /\ q * CellBytes <= c
      BY <1>3, DivFacts
    <2>2. Ceil(c) = IF q * CellBytes < c THEN q + 1 ELSE q
      BY DEF Ceil
    <2> HIDE DEF q
    <2>3. q <= q * CellBytes
      BY <1>1, <2>1, SMT
    <2> QED
      BY <1>1, <1>3, <2>1, <2>2, <2>3, SMT DEF Reserved
  <1>8. h.bitmap = [u \in 0 .. c - 1 |-> IF u < Reserved(c) THEN ReservedId ELSE 0]
    BY <1>4
  <1>9. h.bitmap \in [0 .. c - 1 -> Ids]
    BY <1>1, <1>8
  <1>10. h \in Block
    <2>1. h.bitmap \in Maps
      BY <1>3, <1>9 DEF Maps
    <2> QED
      BY <1>2, <1>3, <1>4, <1>6, <2>1 DEF Block
  <1>11. \A u \in 0 .. c - 1 : h.bitmap[u] # 0 <=> u < Reserved(c)
    BY <1>1, <1>8
  <1> QED
    BY <1>3, <1>4, <1>5, <1>6, <1>7, <1>9, <1>10, <1>11 DEF R, Cells, h

\* Find names n free cells behind the bitmap.
LEMMA FindFits ==
    ASSUME NEW h, NEW n \in Nat \ {0}, NEW u \in Find(h, n), Count(h) \in Nat,
           R(h) \in Nat \ {0}, h.bitmap \in [Cells(h) -> Ids],
           \A y \in Cells(h) : y < R(h) => h.bitmap[y] # 0
    PROVE  /\ u \in Cells(h) /\ u >= R(h) /\ u + n - 1 < Count(h)
           /\ \A k \in u .. u + n - 1 : k \in Cells(h) /\ h.bitmap[k] = 0
  <1>1. u \in Cells(h) /\ Fits(h, u, n)
    BY DEF Find, Least, Ahead, Behind
  <1>2. u \in Nat
    BY <1>1 DEF Cells
  <1>3. \A k \in u .. u + n - 1 : k \in Cells(h) /\ h.bitmap[k] = 0
    BY <1>1, <1>2 DEF Fits, Cells
  <1>4. u \in u .. u + n - 1 /\ u + n - 1 \in u .. u + n - 1
    BY <1>2
  <1> QED
    BY <1>1, <1>2, <1>3, <1>4 DEF Cells

\* heap_alloc changes the bitmap in the cells it takes and nowhere else.
LEMMA MarkedBlock ==
    ASSUME NEW h \in Block, NEW n \in Nat \ {0}, NEW u \in Find(h, n),
           NEW right \in ByteAt(h, u + n), Count(h) \in Nat, R(h) \in Nat \ {0},
           h.bitmap \in [Cells(h) -> Ids],
           \A y \in Cells(h) : y < R(h) => h.bitmap[y] # 0
    PROVE  LET g == Marked(h, u, n, right) IN
           /\ g \in Block /\ Count(g) = Count(h) /\ g.used = h.used + n
           /\ g.bitmap \in [Cells(h) -> Ids]
           /\ \A k \in Cells(h) : k \notin u .. u + n - 1 => g.bitmap[k] = h.bitmap[k]
           /\ \A k \in u .. u + n - 1 : g.bitmap[k] = g.bitmap[u] /\ g.bitmap[k] # 0
           /\ g.bitmap[u] # h.bitmap[u - 1]
           /\ u + n < Count(h) => g.bitmap[u] # h.bitmap[u + n]
  <1> DEFINE g  == Marked(h, u, n, right)
             id == NewId(h.bitmap[u - 1], right)
  <1>1. /\ u \in Cells(h) /\ u >= R(h) /\ u + n - 1 < Count(h)
        /\ \A k \in u .. u + n - 1 : k \in Cells(h)
    BY FindFits
  <1>2. u \in Nat /\ u - 1 \in Cells(h) /\ u \in u .. u + n - 1
    BY <1>1 DEF Cells
  <1>3. h.bitmap[u - 1] \in Ids
    BY <1>2
  <1>4. right \in Ids /\ (u + n < Count(h) => right = h.bitmap[u + n])
    <2>1. CASE u + n < Count(h)
      <3>1. u + n \in Cells(h)
        BY <1>2, <2>1 DEF Cells
      <3> QED
        BY <2>1, <3>1 DEF ByteAt
    <2>2. CASE ~(u + n < Count(h))
      BY <2>2 DEF ByteAt
    <2> QED
      BY <2>1, <2>2
  <1>5. id \in Ids /\ id # 0 /\ id # h.bitmap[u - 1] /\ id # right
    BY <1>3, <1>4, NewIdDiffers
  <1> DEFINE f == [k \in Cells(h) |-> IF k \in u .. u + n - 1 THEN id ELSE h.bitmap[k]]
  <1>6. g = [h EXCEPT !.bitmap = f, !.lfb = u + n - 2, !.used = h.used + n]
    BY DEF Marked
  <1> HIDE DEF g, id
  <1>7. f \in [Cells(h) -> Ids]
    BY <1>5
  <1>8. /\ g.size = h.size /\ g.bitmap = f /\ g.used = h.used + n
        /\ g = [size |-> h.size, used |-> h.used + n, lfb |-> u + n - 2, bitmap |-> f]
    BY <1>6 DEF Block
  <1>9. Count(g) = Count(h)
    BY <1>8 DEF Count
  <1>10. g \in Block
    <2>1. f \in Maps
      BY <1>7 DEF Maps, Cells
    <2>2. h.size \in Nat /\ h.used + n \in Int /\ u + n - 2 \in Int
      BY <1>2 DEF Block
    <2> HIDE DEF f
    <2> QED
      BY <1>8, <2>1, <2>2 DEF Block
  <1>11. \A k \in Cells(h) : g.bitmap[k] = IF k \in u .. u + n - 1 THEN id ELSE h.bitmap[k]
    BY <1>8
  <1>12. \A k \in u .. u + n - 1 : g.bitmap[k] = id
    BY <1>1, <1>11
  <1> QED
    BY <1>2, <1>4, <1>5, <1>7, <1>8, <1>9, <1>10, <1>11, <1>12 DEF g

\* The cells of an interval, counted.
LEMMA Interval ==
    ASSUME NEW u \in Int, NEW n \in Nat \ {0}
    PROVE  IsFiniteSet(u .. u + n - 1) /\ Cardinality(u .. u + n - 1) = n
  <1>1. u + n - 1 \in Int
    OBVIOUS
  <1>2. IsFiniteSet(u .. u + n - 1)
    BY <1>1, FS_Interval
  <1>3. Cardinality(u .. u + n - 1) = IF u > u + n - 1 THEN 0 ELSE (u + n - 1) - u + 1
    BY <1>1, FS_Interval
  <1> QED
    BY <1>2, <1>3

\* heap_alloc keeps the invariant.
LEMMA MarkGood ==
    ASSUME NEW B, NEW Hd, NEW L, Good(B, Hd, L),
           NEW b \in 1 .. Len(B), NEW n \in Nat \ {0}, NEW u \in Find(B[b], n),
           NEW right \in ByteAt(B[b], u + n), NEW at \in u .. u + n - 1
    PROVE  Good([B EXCEPT ![b] = Marked(@, u, n, right)],
                Hd \cup {[block |-> b, lo |-> u, hi |-> u + n - 1, at |-> at]}, L)
  <1> DEFINE h   == B[b]
             g   == Marked(h, u, n, right)
             C   == [B EXCEPT ![b] = g]
             new == [block |-> b, lo |-> u, hi |-> u + n - 1, at |-> at]
             Hn  == Hd \cup {new}
  <1>1. /\ B \in Seq(Block) /\ h \in Block
        /\ Count(h) \in Nat \ {0} /\ R(h) \in Nat \ {0} /\ h.bitmap \in [Cells(h) -> Ids]
        /\ \A y \in Cells(h) : y < R(h) => h.bitmap[y] # 0
    <2>1. B \in Seq(Block) /\ h \in Block
      BY DEF Good, WellFormed
    <2>2. Count(h) \in Nat \ {0} /\ R(h) \in Nat \ {0} /\ h.bitmap \in [Cells(h) -> Ids]
      BY DEF Good, WellFormed
    <2>3. \A y \in Cells(h) : y < R(h) => h.bitmap[y] # 0
      BY DEF Good, Exact, InUse
    <2> QED
      BY <2>1, <2>2, <2>3
  <1> HIDE DEF h
  <1>2. /\ u \in Cells(h) /\ u >= R(h) /\ u + n - 1 < Count(h)
        /\ \A k \in u .. u + n - 1 : k \in Cells(h) /\ h.bitmap[k] = 0
    BY <1>1, FindFits DEF h
  <1>3. u \in Nat /\ at \in Nat /\ u - 1 \in Cells(h)
    BY <1>1, <1>2 DEF Cells
  <1>4. /\ g \in Block /\ Count(g) = Count(h) /\ g.used = h.used + n
        /\ g.bitmap \in [Cells(h) -> Ids]
        /\ \A k \in Cells(h) : k \notin u .. u + n - 1 => g.bitmap[k] = h.bitmap[k]
        /\ \A k \in u .. u + n - 1 : g.bitmap[k] = g.bitmap[u] /\ g.bitmap[k] # 0
        /\ g.bitmap[u] # h.bitmap[u - 1]
        /\ u + n < Count(h) => g.bitmap[u] # h.bitmap[u + n]
    BY <1>1, MarkedBlock DEF h
  <1> HIDE DEF g
  <1>5. /\ C \in Seq(Block) /\ Len(C) = Len(B) /\ C[b] = g
        /\ \A c \in 1 .. Len(B) : c # b => C[c] = B[c]
    BY <1>1, <1>4
  <1>6. /\ Cells(g) = Cells(h) /\ R(g) = R(h)
        /\ \A c \in 1 .. Len(B) : Count(C[c]) = Count(B[c]) /\ R(C[c]) = R(B[c])
                                  /\ Cells(C[c]) = Cells(B[c])
    BY <1>4, <1>5 DEF Cells, R, h
  <1> HIDE DEF C
  <1>7. \A k \in u .. u + n - 1 :
           <<b, k>> \notin L /\ \A a \in Hd : a.block = b => k \notin a.lo .. a.hi
    BY <1>2 DEF Good, Exact, InUse, h
  <1>8. \A a \in Hd : /\ a.block \in 1 .. Len(B) /\ a.lo \in Int /\ a.hi \in Int /\ a.at \in Int
                      /\ R(B[a.block]) <= a.lo /\ a.lo <= a.at /\ a.at <= a.hi
                      /\ a.hi < Count(B[a.block]) /\ a.lo \in Nat
    BY DEF Good, Placed, WellFormed
  <1>9. \A a \in Hd : a.block = b => a.hi < u \/ u + n - 1 < a.lo
    <2> SUFFICES ASSUME NEW a \in Hd, a.block = b, ~(a.hi < u), ~(u + n - 1 < a.lo)
                 PROVE  FALSE
      OBVIOUS
    <2>1. a.lo \in Int /\ a.hi \in Int /\ a.lo <= a.hi
      BY <1>8
    <2>2. CASE a.lo <= u
      <3>1. u \in u .. u + n - 1 /\ u \in a.lo .. a.hi
        BY <1>3, <2>1, <2>2
      <3> QED
        BY <1>7, <3>1
    <2>3. CASE u < a.lo
      <3>1. a.lo \in u .. u + n - 1 /\ a.lo \in a.lo .. a.hi
        BY <1>3, <2>1, <2>3
      <3> QED
        BY <1>7, <3>1
    <2> QED
      BY <1>3, <2>1, <2>2, <2>3
  <1>10. WellFormed(C)
    <2> SUFFICES ASSUME NEW c \in 1 .. Len(B)
                 PROVE  /\ Count(C[c]) \in Nat \ {0} /\ R(C[c]) \in Nat \ {0}
                        /\ C[c].bitmap \in [Cells(C[c]) -> Ids]
      BY <1>5 DEF WellFormed
    <2> QED
      BY <1>1, <1>4, <1>5, <1>6 DEF Good, WellFormed
  <1>11. Placed(C, Hn, L)
    <2>1. /\ new \in [block : 1 .. Len(B), lo : Int, hi : Int, at : Int]
          /\ R(B[b]) <= new.lo /\ new.lo <= new.at /\ new.at <= new.hi
          /\ new.hi < Count(B[b])
      BY <1>2, <1>3 DEF h
    <2> QED
      BY <1>5, <1>6, <2>1 DEF Good, Placed
  <1>12. Apart(Hn, L)
    BY <1>7, <1>9 DEF Good, Apart
  <1>13. Exact(C, Hn, L)
    <2> SUFFICES ASSUME NEW c \in 1 .. Len(B), NEW y \in Cells(B[c])
                 PROVE  C[c].bitmap[y] # 0 <=> InUse(C, Hn, L, c, y)
      BY <1>5, <1>6 DEF Exact
    <2>1. B[c].bitmap[y] # 0 <=> InUse(B, Hd, L, c, y)
      BY DEF Good, Exact
    <2>2. InUse(C, Hn, L, c, y) <=> InUse(B, Hd, L, c, y) \/ (c = b /\ y \in u .. u + n - 1)
      <3>1. (\E a \in Hn : a.block = c /\ y \in a.lo .. a.hi)
              <=> \/ \E a \in Hd : a.block = c /\ y \in a.lo .. a.hi
                  \/ new.block = c /\ y \in new.lo .. new.hi
        OBVIOUS
      <3>2. new.block = b /\ new.lo = u /\ new.hi = u + n - 1
        OBVIOUS
      <3> HIDE DEF new, Hn
      <3> QED
        BY <1>6, <3>1, <3>2 DEF InUse
    <2>3. CASE c # b
      BY <1>5, <2>1, <2>2, <2>3
    <2>4. CASE c = b /\ y \in u .. u + n - 1
      BY <1>4, <1>5, <2>2, <2>4
    <2>5. CASE c = b /\ y \notin u .. u + n - 1
      BY <1>4, <1>5, <2>1, <2>2, <2>5 DEF h
    <2> QED
      BY <2>3, <2>4, <2>5
  <1>14. Delimited(C, Hn)
    <2> SUFFICES ASSUME NEW a \in Hn
                 PROVE  /\ \A y \in a.lo .. a.hi :
                              C[a.block].bitmap[y] = C[a.block].bitmap[a.at]
                        /\ a.hi + 1 < Count(C[a.block]) =>
                              C[a.block].bitmap[a.hi + 1] # C[a.block].bitmap[a.at]
      BY DEF Delimited
    <2>1. CASE a = new
      <3>1. at \in u .. u + n - 1 /\ u + n - 1 + 1 = u + n
        BY <1>3
      <3>2. \A y \in u .. u + n - 1 : g.bitmap[y] = g.bitmap[at]
        BY <1>4, <3>1
      <3>3. u + n < Count(g) => g.bitmap[u + n] # g.bitmap[at]
        <4>1. u + n \notin u .. u + n - 1
          BY <1>3
        <4>2. u + n < Count(g) => u + n \in Cells(h)
          BY <1>1, <1>3, <1>4 DEF Cells
        <4> QED
          BY <1>4, <3>1, <4>1, <4>2
      <3> QED
        BY <1>5, <2>1, <3>1, <3>2, <3>3
    <2>2. CASE a \in Hd /\ a.block # b
      BY <1>5, <1>8, <2>2 DEF Good, Delimited
    <2>3. CASE a \in Hd /\ a.block = b
      <3>1. /\ a.lo \in Nat /\ a.hi \in Int /\ a.at \in Int /\ a.lo <= a.at /\ a.at <= a.hi
            /\ a.hi < Count(h)
        BY <1>8, <2>3 DEF h
      <3>2. \A y \in a.lo .. a.hi : y \in Cells(h) /\ y \notin u .. u + n - 1
        <4>1. a.hi < u \/ u + n - 1 < a.lo
          BY <1>9, <2>3
        <4> QED
          BY <1>1, <1>3, <3>1, <4>1 DEF Cells
      <3>3. \A y \in a.lo .. a.hi : g.bitmap[y] = h.bitmap[y]
        BY <1>4, <3>2
      <3>4. \A y \in a.lo .. a.hi : h.bitmap[y] = h.bitmap[a.at]
        BY <2>3 DEF Good, Delimited, h
      <3>5. a.at \in a.lo .. a.hi /\ a.hi \in a.lo .. a.hi
        BY <3>1
      <3>6. a.hi + 1 < Count(h) => g.bitmap[a.hi + 1] # g.bitmap[a.at]
        <4> SUFFICES ASSUME a.hi + 1 < Count(h) PROVE g.bitmap[a.hi + 1] # g.bitmap[a.at]
          OBVIOUS
        <4>1. a.hi + 1 \in Cells(h)
          BY <1>1, <3>1 DEF Cells
        <4>2. h.bitmap[a.hi + 1] # h.bitmap[a.at]
          BY <2>3 DEF Good, Delimited, h
        <4>3. CASE a.hi + 1 \notin u .. u + n - 1
          BY <1>4, <3>3, <3>5, <4>1, <4>2, <4>3
        <4>4. CASE a.hi + 1 \in u .. u + n - 1
          <5>1. a.hi + 1 = u
            BY <1>3, <3>1, <3>2, <3>5, <4>4
          <5>2. h.bitmap[u - 1] = h.bitmap[a.at]
            <6>1. u - 1 = a.hi
              BY <1>3, <3>1, <5>1
            <6> QED
              BY <3>4, <3>5, <6>1
          <5> QED
            BY <1>4, <3>3, <3>5, <5>1, <5>2
        <4> QED
          BY <4>3, <4>4
      <3> QED
        BY <1>4, <1>5, <2>3, <3>3, <3>4, <3>5, <3>6
    <2> QED
      BY <2>1, <2>2, <2>3
  <1>15. Counted(C)
    <2>1. h.used = Cardinality(NonZero(h))
      BY DEF Good, Counted, h
    <2>2. NonZero(g) = NonZero(h) \cup (u .. u + n - 1) /\ NonZero(h) \cap (u .. u + n - 1) = {}
      BY <1>2, <1>4, <1>6 DEF NonZero
    <2>3. IsFiniteSet(NonZero(h))
      <3>1. IsFiniteSet(Cells(h))
        BY <1>1, FS_Interval DEF Cells
      <3> QED
        BY <3>1, FS_Subset DEF NonZero
    <2>4. Cardinality(NonZero(g)) = Cardinality(NonZero(h)) + n
      <3>1. IsFiniteSet(u .. u + n - 1) /\ Cardinality(u .. u + n - 1) = n
        BY <1>3, Interval
      <3>2. IsFiniteSet(NonZero(h) \cap (u .. u + n - 1)) /\ Cardinality(NonZero(h) \cap (u .. u + n - 1)) = 0
        BY <2>2, FS_EmptySet
      <3>3. Cardinality(NonZero(h)) \in Nat
        BY <2>3, FS_CardinalityType
      <3>4. Cardinality(NonZero(h) \cup (u .. u + n - 1))
              = Cardinality(NonZero(h)) + Cardinality(u .. u + n - 1)
                - Cardinality(NonZero(h) \cap (u .. u + n - 1))
        BY <2>3, <3>1, FS_Union
      <3> QED
        BY <2>2, <3>1, <3>2, <3>3, <3>4
    <2> SUFFICES ASSUME NEW c \in 1 .. Len(B) PROVE C[c].used = Cardinality(NonZero(C[c]))
      BY <1>5 DEF Counted
    <2>5. CASE c = b
      BY <1>4, <1>5, <2>1, <2>4, <2>5
    <2>6. CASE c # b
      BY <1>5, <2>6 DEF Good, Counted
    <2> QED
      BY <2>5, <2>6
  <1> QED
    BY <1>10, <1>11, <1>12, <1>13, <1>14, <1>15 DEF Good, C, g, h

\* heap_add_block keeps the invariant.
LEMMA AddGood ==
    ASSUME NEW B, NEW Hd, NEW L, Good(B, Hd, L), NEW p \in BlockPages
    PROVE  Good(Append(B, Fresh(p * PageBytes)), Hd, L)
  <1> DEFINE h == Fresh(p * PageBytes)
             C == Append(B, h)
             l == Len(B)
  <1>1. /\ h \in Block /\ Count(h) \in Nat \ {0} /\ R(h) \in Nat \ {0}
        /\ h.bitmap \in [Cells(h) -> Ids]
        /\ \A u \in Cells(h) : h.bitmap[u] # 0 <=> u < R(h)
        /\ h.used = R(h) /\ R(h) <= Count(h)
    BY FreshBlock
  <1> HIDE DEF h
  <1>2. B \in Seq(Block) /\ l \in Nat
    BY DEF Good, WellFormed
  <1>3. /\ C \in Seq(Block) /\ Len(C) = l + 1 /\ C[l + 1] = h
        /\ \A c \in 1 .. l : C[c] = B[c]
    BY <1>1, <1>2
  <1> HIDE DEF C
  <1>4. \A a \in Hd : a.block \in 1 .. l
    BY DEF Good, Placed
  <1>5. \A u : <<l + 1, u>> \notin L
    BY <1>2 DEF Good, Placed
  <1>6. WellFormed(C)
    <2> SUFFICES ASSUME NEW c \in 1 .. l + 1
                 PROVE  /\ Count(C[c]) \in Nat \ {0} /\ R(C[c]) \in Nat \ {0}
                        /\ C[c].bitmap \in [Cells(C[c]) -> Ids]
      BY <1>3 DEF WellFormed
    <2>1. CASE c = l + 1
      BY <1>1, <1>3, <2>1
    <2>2. CASE c \in 1 .. l
      BY <1>3, <2>2 DEF Good, WellFormed
    <2> QED
      BY <1>2, <2>1, <2>2
  <1>7. Placed(C, Hd, L)
    <2>1. \A a \in Hd : /\ a \in [block : 1 .. l + 1, lo : Int, hi : Int, at : Int]
                        /\ R(C[a.block]) <= a.lo /\ a.lo <= a.at /\ a.at <= a.hi
                        /\ a.hi < Count(C[a.block])
      <3> SUFFICES ASSUME NEW a \in Hd
                   PROVE  /\ a \in [block : 1 .. l + 1, lo : Int, hi : Int, at : Int]
                          /\ R(C[a.block]) <= a.lo /\ a.lo <= a.at /\ a.at <= a.hi
                          /\ a.hi < Count(C[a.block])
        OBVIOUS
      <3>1. /\ a \in [block : 1 .. l, lo : Int, hi : Int, at : Int]
            /\ R(B[a.block]) <= a.lo /\ a.lo <= a.at /\ a.at <= a.hi
            /\ a.hi < Count(B[a.block])
        BY DEF Good, Placed
      <3>2. C[a.block] = B[a.block]
        BY <1>3, <1>4
      <3> QED
        BY <1>2, <3>1, <3>2
    <2>2. L \subseteq (1 .. l + 1) \X Nat
      BY <1>2 DEF Good, Placed
    <2>3. ASSUME NEW c \in 1 .. l + 1, NEW u \in Nat, <<c, u>> \in L
          PROVE  u < Count(C[c])
      <3>1. c \in 1 .. l
        BY <1>2, <1>5, <2>3
      <3> QED
        BY <1>3, <2>3, <3>1 DEF Good, Placed
    <2> QED
      BY <1>3, <2>1, <2>2, <2>3 DEF Placed
  <1>8. Exact(C, Hd, L)
    <2> SUFFICES ASSUME NEW c \in 1 .. l + 1, NEW u \in Cells(C[c])
                 PROVE  C[c].bitmap[u] # 0 <=> InUse(C, Hd, L, c, u)
      BY <1>3 DEF Exact
    <2>1. CASE c = l + 1
      <3>1. \A a \in Hd : a.block # c
        BY <1>2, <1>4, <2>1
      <3> QED
        BY <1>1, <1>3, <1>5, <2>1, <3>1 DEF InUse
    <2>2. CASE c \in 1 .. l
      BY <1>3, <2>2 DEF Good, Exact, InUse
    <2> QED
      BY <1>2, <2>1, <2>2
  <1>9. Delimited(C, Hd)
    BY <1>3, <1>4 DEF Good, Delimited
  <1>10. Counted(C)
    <2>1. NonZero(h) = 0 .. R(h) - 1
      BY <1>1 DEF NonZero, Cells
    <2>2. Cardinality(0 .. R(h) - 1) = R(h)
      <3>1. 0 + R(h) - 1 = R(h) - 1
        BY <1>1
      <3> QED
        BY <1>1, <3>1, Interval
    <2> SUFFICES ASSUME NEW c \in 1 .. l + 1 PROVE C[c].used = Cardinality(NonZero(C[c]))
      BY <1>3 DEF Counted
    <2>3. CASE c = l + 1
      BY <1>1, <1>3, <2>1, <2>2, <2>3
    <2>4. CASE c \in 1 .. l
      BY <1>3, <2>4 DEF Good, Counted
    <2> QED
      BY <1>2, <2>3, <2>4
  <1>11. Apart(Hd, L)
    BY DEF Good
  <1> QED
    BY <1>6, <1>7, <1>8, <1>9, <1>10, <1>11 DEF Good, C, h

\* heap_free of a held pointer clears the cells of that allocation from the pointer
\* on, and no others.
LEMMA FreesItsOwn ==
    ASSUME NEW B, NEW Hd, NEW L, Good(B, Hd, L), NEW a \in Hd
    PROVE  SameId(B[a.block], a.at) = a.at .. a.hi
  <1> DEFINE h == B[a.block]
  <1>1. /\ a.lo \in Int /\ a.hi \in Int /\ a.at \in Int /\ R(h) <= a.lo
        /\ a.lo <= a.at /\ a.at <= a.hi /\ a.hi < Count(h)
        /\ R(h) \in Nat /\ Count(h) \in Nat
    BY DEF Good, Placed, WellFormed
  <1>2. \A u \in a.lo .. a.hi : h.bitmap[u] = h.bitmap[a.at]
    BY DEF Good, Delimited
  <1>3. a.hi + 1 < Count(h) => h.bitmap[a.hi + 1] # h.bitmap[a.at]
    BY DEF Good, Delimited
  <1> HIDE DEF h
  <1>4. ASSUME NEW y \in a.at .. a.hi
        PROVE  y \in SameId(h, a.at)
    <2>1. y \in Cells(h) /\ y >= a.at
      BY <1>1 DEF Cells
    <2>2. \A k \in a.at .. y : k \in a.lo .. a.hi
      BY <1>1
    <2> QED
      BY <1>2, <2>1, <2>2 DEF SameId
  <1>5. ASSUME NEW y \in SameId(h, a.at)
        PROVE  y \in a.at .. a.hi
    <2>1. y \in Int /\ y < Count(h) /\ y >= a.at /\ \A k \in a.at .. y : h.bitmap[k] = h.bitmap[a.at]
      BY <1>1 DEF SameId, Cells
    <2>2. y > a.hi => a.hi + 1 \in a.at .. y /\ a.hi + 1 < Count(h)
      BY <1>1, <2>1
    <2> QED
      BY <1>1, <1>3, <2>1, <2>2
  <1> QED
    BY <1>4, <1>5 DEF h

\* The cells of an allocation are in use.
LEMMA InUseHeld ==
    ASSUME NEW B, NEW Hd, NEW L, NEW a \in Hd, NEW u \in a.lo .. a.hi
    PROVE  InUse(B, Hd, L, a.block, u)
  BY DEF InUse

\* The list of blocks and the lost cells after the free of a.
FreeIn(B, a) == [B EXCEPT ![a.block] = Cleared(B[a.block], a.at)]
LostBy(L, a) == L \cup {<<a.block, u>> : u \in a.lo .. a.at - 1}

\* heap_free of a held pointer keeps the invariant.
LEMMA FreeGood ==
    ASSUME NEW B, NEW Hd, NEW L, Good(B, Hd, L), NEW a \in Hd
    PROVE  Good(FreeIn(B, a), Hd \ {a}, LostBy(L, a))
  <1> DEFINE b  == a.block
             h  == B[b]
             g  == Cleared(h, a.at)
             C  == [B EXCEPT ![b] = g]
             Hn == Hd \ {a}
             Ln == L \cup {<<b, u>> : u \in a.lo .. a.at - 1}
  <1>1. /\ B \in Seq(Block) /\ b \in 1 .. Len(B) /\ h \in Block
        /\ Count(h) \in Nat \ {0} /\ R(h) \in Nat \ {0} /\ h.bitmap \in [Cells(h) -> Ids]
    <2>1. B \in Seq(Block) /\ b \in 1 .. Len(B)
      BY DEF Good, WellFormed, Placed
    <2>2. Count(h) \in Nat \ {0} /\ R(h) \in Nat \ {0} /\ h.bitmap \in [Cells(h) -> Ids]
      BY <2>1 DEF Good, WellFormed
    <2> QED
      BY <2>1, <2>2
  <1>2. /\ a.lo \in Int /\ a.hi \in Int /\ a.at \in Int /\ R(h) <= a.lo
        /\ a.lo <= a.at /\ a.at <= a.hi /\ a.hi < Count(h)
    BY DEF Good, Placed
  <1>3. a.lo \in Nat /\ a.at \in Nat /\ a.hi \in Nat /\ \A u \in a.lo .. a.hi : u \in Cells(h)
    BY <1>1, <1>2 DEF Cells
  <1>4. SameId(h, a.at) = a.at .. a.hi
    BY FreesItsOwn
  <1> DEFINE f == [k \in Cells(h) |-> IF k \in a.at .. a.hi THEN 0 ELSE h.bitmap[k]]
             m == Cardinality(a.at .. a.hi)
  <1>5. g = [h EXCEPT !.bitmap = f, !.used = h.used - m]
    BY <1>4 DEF Cleared
  <1>6. m \in Nat /\ IsFiniteSet(a.at .. a.hi)
    <2>1. IsFiniteSet(a.at .. a.hi)
      BY <1>2, FS_Interval
    <2> QED
      BY <2>1, FS_CardinalityType
  <1> HIDE DEF g, h, m, b
  <1>7. f \in [Cells(h) -> Ids]
    <2>1. 0 \in Ids
      BY HeapAssumption DEF Ids
    <2> QED
      BY <1>1, <2>1
  <1>8. /\ g.size = h.size /\ g.bitmap = f /\ g.used = h.used - m
        /\ g = [size |-> h.size, used |-> h.used - m, lfb |-> h.lfb, bitmap |-> f]
    BY <1>1, <1>5 DEF Block
  <1>9. Count(g) = Count(h) /\ Cells(g) = Cells(h) /\ R(g) = R(h)
    BY <1>8 DEF Count, Cells, R
  <1>10. g \in Block
    <2>1. f \in Maps
      BY <1>1, <1>7 DEF Maps, Cells
    <2>2. h.size \in Nat /\ h.used - m \in Int /\ h.lfb \in Int
      BY <1>1, <1>6 DEF Block
    <2> HIDE DEF f
    <2> QED
      BY <1>8, <2>1, <2>2 DEF Block
  <1>11. \A k \in Cells(h) : g.bitmap[k] = IF k \in a.at .. a.hi THEN 0 ELSE h.bitmap[k]
    BY <1>8
  <1>12. g.bitmap \in [Cells(h) -> Ids]
    BY <1>7, <1>8
  <1> HIDE DEF f
  <1>13. /\ C \in Seq(Block) /\ Len(C) = Len(B) /\ C[b] = g
         /\ \A c \in 1 .. Len(B) : c # b => C[c] = B[c]
    BY <1>1, <1>10
  <1>14. \A c \in 1 .. Len(B) : Count(C[c]) = Count(B[c]) /\ R(C[c]) = R(B[c])
                                /\ Cells(C[c]) = Cells(B[c])
    BY <1>9, <1>13 DEF h
  <1> HIDE DEF C
  <1>15. \A e \in Hd : /\ e.block \in 1 .. Len(B) /\ e.lo \in Int /\ e.hi \in Int
                       /\ e.at \in Int /\ e.lo <= e.at /\ e.at <= e.hi
                       /\ e.hi < Count(B[e.block]) /\ e.lo \in Nat
    BY DEF Good, Placed, WellFormed
  <1>16. \A e \in Hn : e.block = b => e.hi < a.lo \/ a.hi < e.lo
    BY DEF Good, Apart, b
  <1>17. \A c, u : <<c, u>> \in Ln <=> <<c, u>> \in L \/ (c = b /\ u \in a.lo .. a.at - 1)
    OBVIOUS
  <1>18. WellFormed(C)
    <2> SUFFICES ASSUME NEW c \in 1 .. Len(B)
                 PROVE  /\ Count(C[c]) \in Nat \ {0} /\ R(C[c]) \in Nat \ {0}
                        /\ C[c].bitmap \in [Cells(C[c]) -> Ids]
      BY <1>13 DEF WellFormed
    <2>1. CASE c = b
      BY <1>1, <1>9, <1>12, <1>13, <2>1
    <2>2. CASE c # b
      BY <1>13, <2>2 DEF Good, WellFormed
    <2> QED
      BY <2>1, <2>2
  <1>19. Placed(C, Hn, Ln)
    <2>1. \A e \in Hn : /\ e \in [block : 1 .. Len(C), lo : Int, hi : Int, at : Int]
                        /\ R(C[e.block]) <= e.lo /\ e.lo <= e.at /\ e.at <= e.hi
                        /\ e.hi < Count(C[e.block])
      BY <1>13, <1>14 DEF Good, Placed
    <2>2. Ln \subseteq (1 .. Len(C)) \X Nat
      <3>1. \A u \in a.lo .. a.at - 1 : u \in Nat
        BY <1>3
      <3> QED
        BY <1>1, <1>13, <3>1 DEF Good, Placed
    <2>3. ASSUME NEW c \in 1 .. Len(B), NEW u \in Nat, <<c, u>> \in Ln
          PROVE  u < Count(C[c])
      <3>1. CASE <<c, u>> \in L
        BY <1>14, <3>1 DEF Good, Placed
      <3>2. CASE c = b /\ u \in a.lo .. a.at - 1
        BY <1>1, <1>2, <1>9, <1>13, <3>2
      <3> QED
        BY <1>17, <2>3, <3>1, <3>2
    <2> HIDE DEF Ln
    <2> QED
      BY <1>13, <2>1, <2>2, <2>3 DEF Placed
  <1>20. Apart(Hn, Ln)
    <2> SUFFICES ASSUME NEW e \in Hn
                 PROVE  /\ \A u \in e.lo .. e.hi : <<e.block, u>> \notin Ln
                        /\ \A d \in Hn \ {e} : d.block = e.block => d.hi < e.lo \/ e.hi < d.lo
      BY DEF Apart
    <2>1. \A d \in Hn \ {e} : d.block = e.block => d.hi < e.lo \/ e.hi < d.lo
      BY DEF Good, Apart
    <2>2. ASSUME NEW u \in e.lo .. e.hi
          PROVE  <<e.block, u>> \notin Ln
      <3>1. <<e.block, u>> \notin L
        BY DEF Good, Apart
      <3>2. e.block = b => u \notin a.lo .. a.at - 1
        BY <1>2, <1>15, <1>16
      <3> HIDE DEF Ln
      <3> QED
        BY <1>17, <3>1, <3>2
    <2> QED
      BY <2>1, <2>2
  <1>21. Exact(C, Hn, Ln)
    <2> SUFFICES ASSUME NEW c \in 1 .. Len(B), NEW y \in Cells(B[c])
                 PROVE  C[c].bitmap[y] # 0 <=> InUse(C, Hn, Ln, c, y)
      BY <1>13, <1>14 DEF Exact
    <2>1. B[c].bitmap[y] # 0 <=> InUse(B, Hd, L, c, y)
      BY DEF Good, Exact
    <2>2. (\E e \in Hd : e.block = c /\ y \in e.lo .. e.hi)
            <=> \/ \E e \in Hn : e.block = c /\ y \in e.lo .. e.hi
                \/ b = c /\ y \in a.lo .. a.hi
      BY DEF b
    <2> HIDE DEF Hn, Ln
    <2>3. CASE c # b
      <3>1. InUse(C, Hn, Ln, c, y) <=> InUse(B, Hd, L, c, y)
        BY <1>14, <1>17, <2>2, <2>3 DEF InUse
      <3> QED
        BY <1>13, <2>1, <2>3, <3>1
    <2>4. CASE c = b /\ y \in a.at .. a.hi
      <3>1. y \in a.lo .. a.hi /\ y \notin a.lo .. a.at - 1 /\ y \in Cells(h) /\ ~(y < R(h))
        BY <1>1, <1>2, <1>3, <2>4
      <3>2. <<b, y>> \notin L
        BY <3>1 DEF Good, Apart, b
      <3>3. ~\E e \in Hn : e.block = b /\ y \in e.lo .. e.hi
        BY <1>2, <1>15, <1>16, <3>1 DEF Hn
      <3>4. ~InUse(C, Hn, Ln, b, y)
        BY <1>9, <1>13, <1>17, <3>1, <3>2, <3>3 DEF InUse
      <3> QED
        BY <1>11, <1>13, <2>4, <3>1, <3>4
    <2>5. CASE c = b /\ y \notin a.at .. a.hi
      <3>1. y \in Cells(h)
        BY <2>5 DEF h
      <3>2. y \in a.lo .. a.hi <=> y \in a.lo .. a.at - 1
        BY <1>2, <2>5
      <3>3. InUse(C, Hn, Ln, c, y) <=> InUse(B, Hd, L, c, y)
        BY <1>14, <1>17, <2>2, <2>5, <3>2 DEF InUse
      <3> QED
        BY <1>11, <1>13, <2>1, <2>5, <3>1, <3>3 DEF h
    <2> QED
      BY <2>3, <2>4, <2>5
  <1>22. Delimited(C, Hn)
    <2> SUFFICES ASSUME NEW e \in Hn
                 PROVE  /\ \A y \in e.lo .. e.hi :
                              C[e.block].bitmap[y] = C[e.block].bitmap[e.at]
                        /\ e.hi + 1 < Count(C[e.block]) =>
                              C[e.block].bitmap[e.hi + 1] # C[e.block].bitmap[e.at]
      BY DEF Delimited
    <2>1. CASE e.block # b
      BY <1>13, <1>15, <2>1 DEF Good, Delimited
    <2>2. CASE e.block = b
      <3>1. /\ e.lo \in Nat /\ e.hi \in Int /\ e.at \in Int /\ e.lo <= e.at /\ e.at <= e.hi
            /\ e.hi < Count(h)
        BY <1>15, <2>2 DEF h
      <3>2. \A y \in e.lo .. e.hi : y \in Cells(h) /\ y \notin a.at .. a.hi
        <4>1. e.hi < a.lo \/ a.hi < e.lo
          BY <1>16, <2>2
        <4> QED
          BY <1>1, <1>2, <3>1, <4>1 DEF Cells
      <3>3. \A y \in e.lo .. e.hi : g.bitmap[y] = h.bitmap[y]
        BY <1>11, <3>2
      <3>4. \A y \in e.lo .. e.hi : h.bitmap[y] = h.bitmap[e.at]
        BY <2>2 DEF Good, Delimited, h
      <3>5. e.at \in e.lo .. e.hi
        BY <3>1
      <3>6. h.bitmap[e.at] # 0
        <4>1. InUse(B, Hd, L, b, e.at)
          BY <2>2, <3>5, InUseHeld
        <4>2. e.at \in Cells(h)
          BY <3>2, <3>5
        <4> QED
          BY <1>1, <4>1, <4>2 DEF Good, Exact, h
      <3>7. e.hi + 1 < Count(h) => g.bitmap[e.hi + 1] # g.bitmap[e.at]
        <4> SUFFICES ASSUME e.hi + 1 < Count(h) PROVE g.bitmap[e.hi + 1] # g.bitmap[e.at]
          OBVIOUS
        <4>1. e.hi + 1 \in Cells(h)
          BY <1>1, <3>1 DEF Cells
        <4>2. h.bitmap[e.hi + 1] # h.bitmap[e.at]
          BY <2>2 DEF Good, Delimited, h
        <4> QED
          BY <1>11, <3>3, <3>5, <3>6, <4>1, <4>2
      <3> QED
        BY <1>9, <1>13, <2>2, <3>3, <3>4, <3>5, <3>7
    <2> QED
      BY <2>1, <2>2
  <1>23. Counted(C)
    <2>1. h.used = Cardinality(NonZero(h))
      BY <1>1 DEF Good, Counted, h
    <2>2. IsFiniteSet(NonZero(h))
      <3>1. IsFiniteSet(Cells(h))
        BY <1>1, FS_Interval DEF Cells
      <3> QED
        BY <3>1, FS_Subset DEF NonZero
    <2>3. a.at .. a.hi \subseteq NonZero(h)
      <3> SUFFICES ASSUME NEW y \in a.at .. a.hi PROVE y \in Cells(h) /\ h.bitmap[y] # 0
        BY DEF NonZero
      <3>1. y \in a.lo .. a.hi /\ y \in Cells(h)
        BY <1>2, <1>3
      <3> QED
        BY <1>1, <3>1, InUseHeld DEF Good, Exact, h, b
    <2>4. NonZero(g) = NonZero(h) \ (a.at .. a.hi)
      BY <1>9, <1>11 DEF NonZero
    <2>5. Cardinality(NonZero(g)) = Cardinality(NonZero(h)) - m
      <3>1. NonZero(h) \cap (a.at .. a.hi) = a.at .. a.hi
        BY <2>3
      <3> QED
        BY <2>2, <2>4, <3>1, FS_Difference DEF m
    <2> SUFFICES ASSUME NEW c \in 1 .. Len(B) PROVE C[c].used = Cardinality(NonZero(C[c]))
      BY <1>13 DEF Counted
    <2>6. CASE c = b
      BY <1>8, <1>13, <2>1, <2>5, <2>6
    <2>7. CASE c # b
      BY <1>13, <2>7 DEF Good, Counted
    <2> QED
      BY <2>6, <2>7
  <1> QED
    BY <1>18, <1>19, <1>20, <1>21, <1>22, <1>23 DEF Good, FreeIn, LostBy, C, g, h, b

-----------------------------------------------------------------------------
(* The specification.                                                      *)

\* kernel_malloc_init.
LEMMA InitGood == Init => IInv
  <1> SUFFICES ASSUME Init PROVE IInv
    OBVIOUS
  <1> DEFINE h == Fresh(FirstPages * PageBytes)
  <1>1. FirstPages \in BlockPages
    BY HeapAssumption
  <1>2. Good(<<>>, {}, {})
    BY DEF Good, WellFormed, Placed, Apart, Exact, Delimited, Counted
  <1>3. Good(Append(<<>>, h), {}, {})
    BY <1>1, <1>2, AddGood
  <1>4. Append(<<>>, h) = <<h>>
    OBVIOUS
  <1> HIDE DEF h
  <1> QED
    BY <1>3, <1>4 DEF IInv, Init, h

\* A successful heap_alloc in a list of blocks that satisfies the invariant.
LEMMA TakeGood ==
    ASSUME NEW B, Good(B, held, lost), NEW b \in 1 .. Len(B), NEW size \in Nat,
           NEW align \in Nat, size > align, Take(B, b, size, align)
    PROVE  IInv'
  <1> DEFINE n == Ceil(size)
  <1>1. n \in Nat \ {0} /\ align \div CellBytes < n /\ align \div CellBytes \in Nat
    BY CeilFacts, AlignFits, DivFacts
  <1>2. PICK u \in Find(B[b], n) : \E right \in ByteAt(B[b], u + n) :
           /\ blocks' = [B EXCEPT ![b] = Marked(@, u, n, right)]
           /\ \E at \in u .. u + align \div CellBytes :
                 held' = held \cup {[block |-> b, lo |-> u, hi |-> u + n - 1, at |-> at]}
           /\ refused' = 0 /\ lost' = lost
    BY DEF Take
  <1>3. PICK right \in ByteAt(B[b], u + n) :
           /\ blocks' = [B EXCEPT ![b] = Marked(@, u, n, right)]
           /\ \E at \in u .. u + align \div CellBytes :
                 held' = held \cup {[block |-> b, lo |-> u, hi |-> u + n - 1, at |-> at]}
           /\ refused' = 0 /\ lost' = lost
    BY <1>2
  <1>4. PICK at \in u .. u + align \div CellBytes :
           held' = held \cup {[block |-> b, lo |-> u, hi |-> u + n - 1, at |-> at]}
    BY <1>3
  <1> DEFINE q == align \div CellBytes
  <1>5. u \in Int
    <2>1. Count(B[b]) \in Nat
      BY DEF Good, WellFormed
    <2> QED
      BY <2>1 DEF Find, Least, Ahead, Behind, Cells
  <1> HIDE DEF n, q
  <1>6. at \in u .. u + n - 1
    <2>1. q \in Nat /\ q < n /\ at \in u .. u + q
      BY <1>1, <1>4 DEF q
    <2> QED
      BY <1>1, <1>5, <2>1
  <1>7. Good(blocks', held', lost')
    BY <1>1, <1>3, <1>4, <1>6, MarkGood
  <1> QED
    BY <1>3, <1>7 DEF IInv

\* malloc with room for align more bytes.
LEMMA MallocGood ==
    ASSUME IInv, NEW size \in Nat, NEW align \in Nat, size > align,
           \/ MallocFits(size, align) \/ MallocGrows(size, align) \/ MallocTooLarge(size)
    PROVE  IInv'
  <1>1. CASE MallocFits(size, align)
    BY <1>1, TakeGood DEF IInv, MallocFits
  <1>2. CASE MallocGrows(size, align)
    <2>1. PICK p \in Pages(size) :
             LET h    == Fresh(p * PageBytes)
                 more == Append(blocks, h)
             IN  \/ Serves(h, size) /\ Take(more, Len(more), size, align)
                 \/ ~Serves(h, size) /\ blocks' = more /\ Refuse(size)
      BY <1>2 DEF MallocGrows
    <2> DEFINE h    == Fresh(p * PageBytes)
               more == Append(blocks, h)
    <2>2. p \in BlockPages
      BY DEF Pages, Least
    <2>3. Good(more, held, lost)
      BY <2>2, AddGood DEF IInv
    <2> HIDE DEF h
    <2>4. Len(more) \in 1 .. Len(more)
      BY DEF IInv, Good, WellFormed
    <2> HIDE DEF more
    <2>5. CASE Take(more, Len(more), size, align)
      BY <2>3, <2>4, <2>5, TakeGood
    <2>6. CASE blocks' = more /\ Refuse(size)
      BY <2>3, <2>6 DEF IInv, Refuse
    <2> QED
      BY <2>1, <2>5, <2>6 DEF h, more
  <1>3. CASE MallocTooLarge(size)
    BY <1>3 DEF IInv, MallocTooLarge, Refuse
  <1> QED
    BY <1>1, <1>2, <1>3

\* Every step keeps the invariant.
LEMMA NextGood == IInv /\ [Next]_vars => IInv'
  <1> SUFFICES ASSUME IInv, [Next]_vars PROVE IInv'
    OBVIOUS
  <1>1. CellBytes \in Nat \ {0} /\ Sizes \subseteq Nat \ {0} /\ Aligns \subseteq Nat \ {0}
    BY HeapAssumption
  <1>2. ASSUME NEW size \in Sizes, Malloc(size) PROVE IInv'
    <2> DEFINE s == AtLeast(size)
    <2>1. s \in Nat /\ s > 0
      BY <1>1 DEF AtLeast
    <2> HIDE DEF s
    <2>2. \/ MallocFits(s, 0) \/ MallocGrows(s, 0) \/ MallocTooLarge(s)
      BY <1>2 DEF Malloc, s
    <2> QED
      BY <2>1, <2>2, MallocGood
  <1>3. ASSUME NEW size \in Sizes, NEW align \in Aligns, MallocAlign(size, align) PROVE IInv'
    <2> DEFINE s == AtLeast(size + align)
    <2>1. s \in Nat /\ align \in Nat /\ s > align
      BY <1>1 DEF AtLeast
    <2> HIDE DEF s
    <2>2. \/ MallocFits(s, align) \/ MallocGrows(s, align) \/ MallocTooLarge(s)
      BY <1>3 DEF MallocAlign, s
    <2> QED
      BY <2>1, <2>2, MallocGood
  <1>4. ASSUME NEW a \in held, Free(a) PROVE IInv'
    <2>1. Good(blocks', held', lost')
      <3>1. Good(FreeIn(blocks, a), held \ {a}, LostBy(lost, a))
        BY FreeGood DEF IInv
      <3>2. blocks' = FreeIn(blocks, a) /\ held' = held \ {a} /\ lost' = LostBy(lost, a)
        BY <1>4 DEF Free, FreeIn, LostBy
      <3> QED
        BY <3>1, <3>2
    <2> QED
      BY <1>4, <2>1 DEF IInv, Free
  <1>5. CASE UNCHANGED vars
    BY <1>5 DEF IInv, vars
  <1> QED
    BY <1>2, <1>3, <1>4, <1>5 DEF Next

\* The heap's bitmaps describe the allocations exactly, at every moment.
THEOREM Invariant == Spec => []IInv
  <1>1. Init => IInv
    BY InitGood
  <1>2. IInv /\ [Next]_vars => IInv'
    BY NextGood
  <1> QED
    BY <1>1, <1>2, PTL DEF Spec

\* No two allocations of malloc and malloc_align overlap, and none overlaps the
\* bitmap of its block.
THEOREM AllocationsAreDisjoint == Spec => []HeldIsDisjoint
  <1>1. IInv => HeldIsDisjoint
    BY DEF IInv, Good, Placed, Apart, HeldIsDisjoint, R
  <1> QED
    BY <1>1, Invariant, PTL

\* heap_free gives back its own allocation and nothing else: what the bitmap marks
\* is what is owned.
THEOREM BitmapIsExact == Spec => []MarkedIsOwned
  <1>1. IInv => MarkedIsOwned
    <2> SUFFICES ASSUME IInv, NEW b \in 1 .. Len(blocks), NEW u \in Cells(blocks[b])
                 PROVE  blocks[b].bitmap[u] # 0 <=> u \in Owned(b)
      BY DEF MarkedIsOwned
    <2>1. blocks[b].bitmap[u] # 0 <=> InUse(blocks, held, lost, b, u)
      BY DEF IInv, Good, Exact
    <2>2. u \in Nat /\ R(blocks[b]) \in Nat
      BY DEF IInv, Good, WellFormed, Cells
    <2>3. u < R(blocks[b]) <=> u \in 0 .. Reserved(Count(blocks[b])) - 1
      BY <2>2 DEF R
    <2>4. u \in UNION {a.lo .. a.hi : a \in {a \in held : a.block = b}}
            <=> \E a \in held : a.block = b /\ u \in a.lo .. a.hi
      OBVIOUS
    <2> QED
      BY <2>1, <2>3, <2>4 DEF InUse, Owned
  <1> QED
    BY <1>1, Invariant, PTL

\* heap_block.used is the number of marked cells: it never wraps below zero.
THEOREM UsedIsExact == Spec => []UsedIsCounted
  <1>1. IInv => UsedIsCounted
    BY DEF IInv, Good, Counted, NonZero, UsedIsCounted
  <1> QED
    BY <1>1, Invariant, PTL

\* An empty block serves every size that its cells can hold beside the bitmap: the
\* search begins at the first of them.
LEMMA FreshServes ==
    ASSUME NEW p \in BlockPages, NEW size \in Nat \ {0},
           Ceil(size) <= Capacity(Fresh(p * PageBytes))
    PROVE  Serves(Fresh(p * PageBytes), size)
  <1> DEFINE h == Fresh(p * PageBytes)
             n == Ceil(size)
             r == R(h)
             c == Count(h)
  <1>1. /\ h \in Block /\ c \in Nat \ {0} /\ r \in Nat \ {0}
        /\ \A u \in Cells(h) : h.bitmap[u] # 0 <=> u < r
        /\ h.used = r
    BY FreshBlock
  <1>2. h.lfb = r - 1
    BY DEF Fresh, R, Count
  <1>3. n \in Nat \ {0} /\ n * CellBytes >= size /\ CellBytes \in Nat \ {0}
    BY CeilFacts, HeapAssumption
  <1>4. n <= c - r
    BY DEF Capacity, R
  <1>5. h.size \in Nat /\ c * CellBytes <= h.size
    BY <1>1, DivFacts DEF Block, Count
  <1> HIDE DEF h, n, r
  <1>6. HasRoom(h, size)
    <2> HIDE DEF c
    <2>1. (c - r) * CellBytes >= n * CellBytes
      <3>1. (c - r) * CellBytes = n * CellBytes + (c - r - n) * CellBytes
        BY <1>1, <1>3, <1>4, Z3
      <3>2. (c - r - n) * CellBytes \in Nat /\ n * CellBytes \in Nat
        BY <1>1, <1>3, <1>4, Z3
      <3> QED
        BY <3>1, <3>2
    <2>2. (c - r) * CellBytes = c * CellBytes - r * CellBytes
      BY <1>1, <1>3, Z3
    <2>3. c * CellBytes \in Nat /\ r * CellBytes \in Nat /\ n * CellBytes \in Nat
      BY <1>1, <1>3, Z3
    <2>4. h.size - r * CellBytes >= size
      BY <1>3, <1>5, <2>1, <2>2, <2>3
    <2> QED
      BY <1>1, <2>4 DEF HasRoom
  <1>7. From(h) = r
    BY <1>1, <1>2, <1>3, <1>4 DEF From
  <1>8. Fits(h, r, n)
    BY <1>1, <1>3, <1>4 DEF Fits, Cells
  <1>9. r \in Ahead(h, n) /\ \A y \in Ahead(h, n) : r <= y
    BY <1>1, <1>3, <1>4, <1>7, <1>8 DEF Ahead, Cells
  <1>10. r \in Find(h, n)
    BY <1>9 DEF Find, Least
  <1> QED
    BY <1>6, <1>10 DEF Serves, h, n

\* malloc refuses only what an empty block could not hold either.
LEMMA RefusalIsDue ==
    ASSUME NEW size \in Nat \ {0}, NEW align \in Nat,
           \/ MallocFits(size, align) \/ MallocGrows(size, align) \/ MallocTooLarge(size)
    PROVE  RefusedIsTooLarge'
  <1>1. CASE refused' = 0
    BY <1>1 DEF RefusedIsTooLarge
  <1>2. CASE Pages(size) = {} /\ refused' = size
    BY <1>2 DEF RefusedIsTooLarge
  <1>3. ASSUME NEW p \in Pages(size), ~Serves(Fresh(p * PageBytes), size), refused' = size
        PROVE  RefusedIsTooLarge'
    <2>1. ASSUME NEW q \in Pages(size)
          PROVE  Ceil(size) > Capacity(Fresh(q * PageBytes))
      <3>1. p \in BlockPages /\ q \in BlockPages /\ p <= q /\ q <= p
        BY DEF Pages, Least
      <3>2. p = q
        BY <3>1, HeapAssumption
      <3>3. ~(Ceil(size) <= Capacity(Fresh(p * PageBytes)))
        BY <1>3, <3>1, FreshServes
      <3>4. Ceil(size) \in Nat /\ Capacity(Fresh(p * PageBytes)) \in Int
        BY <3>1, CeilFacts, FreshBlock DEF Capacity, R
      <3> QED
        BY <3>2, <3>3, <3>4
    <2> QED
      BY <1>3, <2>1 DEF RefusedIsTooLarge
  <1>4. CASE MallocFits(size, align)
    BY <1>1, <1>4 DEF MallocFits, Take
  <1>5. CASE MallocGrows(size, align)
    BY <1>1, <1>3, <1>5 DEF MallocGrows, Take, Refuse
  <1>6. CASE MallocTooLarge(size)
    BY <1>2, <1>6 DEF MallocTooLarge, Refuse
  <1> QED
    BY <1>4, <1>5, <1>6

\* malloc returns NULL only when the block it asks for, empty, is too small: neither
\* the place the search begins at nor the count of used cells makes it miss room.
THEOREM RefusalsAreDue == Spec => []RefusedIsTooLarge
  <1>1. Init => RefusedIsTooLarge
    BY DEF Init, RefusedIsTooLarge
  <1>2. RefusedIsTooLarge /\ [Next]_vars => RefusedIsTooLarge'
    <2> SUFFICES ASSUME RefusedIsTooLarge, [Next]_vars PROVE RefusedIsTooLarge'
      OBVIOUS
    <2>1. CellBytes \in Nat \ {0} /\ Sizes \subseteq Nat \ {0} /\ Aligns \subseteq Nat \ {0}
      BY HeapAssumption
    <2>2. ASSUME NEW size \in Sizes, Malloc(size) PROVE RefusedIsTooLarge'
      <3> DEFINE s == AtLeast(size)
      <3>1. s \in Nat \ {0}
        BY <2>1 DEF AtLeast
      <3> HIDE DEF s
      <3>2. \/ MallocFits(s, 0) \/ MallocGrows(s, 0) \/ MallocTooLarge(s)
        BY <2>2 DEF Malloc, s
      <3> QED
        BY <3>1, <3>2, RefusalIsDue
    <2>3. ASSUME NEW size \in Sizes, NEW align \in Aligns, MallocAlign(size, align)
          PROVE  RefusedIsTooLarge'
      <3> DEFINE s == AtLeast(size + align)
      <3>1. s \in Nat \ {0} /\ align \in Nat
        BY <2>1 DEF AtLeast
      <3> HIDE DEF s
      <3>2. \/ MallocFits(s, align) \/ MallocGrows(s, align) \/ MallocTooLarge(s)
        BY <2>3 DEF MallocAlign, s
      <3> QED
        BY <3>1, <3>2, RefusalIsDue
    <2>4. ASSUME NEW a \in held, Free(a) PROVE RefusedIsTooLarge'
      BY <2>4 DEF Free, RefusedIsTooLarge
    <2>5. CASE UNCHANGED vars
      BY <2>5 DEF vars, RefusedIsTooLarge
    <2> QED
      BY <2>2, <2>3, <2>4, <2>5 DEF Next
  <1> QED
    BY <1>1, <1>2, PTL DEF Spec

\* Every variable has its type.
THEOREM TypeCorrect == Spec => []TypeOK
  <1>1. IInv => TypeOK
    <2> SUFFICES ASSUME IInv PROVE TypeOK
      OBVIOUS
    <2>1. ASSUME NEW b \in 1 .. Len(blocks) PROVE BlockOK(blocks[b])
      <3>1. blocks[b] \in Block /\ blocks[b].bitmap \in [Cells(blocks[b]) -> Ids]
            /\ Count(blocks[b]) \in Nat
        BY DEF IInv, Good, WellFormed
      <3>2. blocks[b].used = Cardinality(NonZero(blocks[b]))
        BY DEF IInv, Good, Counted
      <3>3. IsFiniteSet(Cells(blocks[b]))
        BY <3>1, FS_Interval DEF Cells
      <3>4. IsFiniteSet(NonZero(blocks[b]))
        BY <3>3, FS_Subset DEF NonZero
      <3>5. blocks[b].used \in Nat
        BY <3>2, <3>4, FS_CardinalityType
      <3> QED
        BY <3>1, <3>5 DEF BlockOK, Block
    <2>2. ASSUME NEW a \in held
          PROVE  /\ a.block \in 1 .. Len(blocks)
                 /\ {a.lo, a.hi, a.at} \subseteq Cells(blocks[a.block])
                 /\ a.lo <= a.at /\ a.at <= a.hi
      <3>1. /\ a.block \in 1 .. Len(blocks) /\ a.lo \in Int /\ a.hi \in Int /\ a.at \in Int
            /\ R(blocks[a.block]) <= a.lo /\ a.lo <= a.at /\ a.at <= a.hi
            /\ a.hi < Count(blocks[a.block])
        BY DEF IInv, Good, Placed
      <3>2. R(blocks[a.block]) \in Nat /\ Count(blocks[a.block]) \in Nat
        BY <3>1 DEF IInv, Good, WellFormed
      <3> QED
        BY <3>1, <3>2 DEF Cells
    <2>3. ASSUME NEW c \in lost
          PROVE  c[1] \in 1 .. Len(blocks) /\ c[2] \in Cells(blocks[c[1]])
      <3>1. c \in (1 .. Len(blocks)) \X Nat
        BY DEF IInv, Good, Placed
      <3>2. c = <<c[1], c[2]>> /\ c[1] \in 1 .. Len(blocks) /\ c[2] \in Nat
        BY <3>1
      <3>3. c[2] < Count(blocks[c[1]]) /\ Count(blocks[c[1]]) \in Nat
        BY <3>2 DEF IInv, Good, Placed, WellFormed
      <3> QED
        BY <3>2, <3>3 DEF Cells
    <2> QED
      BY <2>1, <2>2, <2>3 DEF TypeOK, IInv
  <1> QED
    BY <1>1, Invariant, PTL
-----------------------------------------------------------------------------
(* The search of heap_alloc.                                               *)

\* blocks_needed free cells from y on.
FitsAt(y) == H!Fits(hb, y, blocks_needed)

SearchTypes ==
    /\ hb.size \in Nat /\ hb.size > 1
    /\ hb.lfb \in 0 .. hb.size - 2
    /\ hb.bitmap[0] # 0
    /\ blocks_needed \in Nat \ {0}
    /\ result \in Int /\ wrapped \in BOOLEAN

\* Nothing that was passed fits: before the wrap the cells from lfb on, after it all
\* cells after lfb and those from 0 on.  A jump over a free run may pass lfb.
SearchInv ==
    /\ SearchTypes
    /\ result = Searching =>
          IF wrapped
          THEN /\ x \in 1 .. hb.size
               /\ \A y \in 0 .. x - 1 : ~FitsAt(y)
               /\ \A y \in hb.lfb + 1 .. hb.size - 1 : ~FitsAt(y)
          ELSE /\ x \in hb.lfb + 1 .. hb.size
               /\ \A y \in hb.lfb + 1 .. x - 1 : ~FitsAt(y)
    /\ SearchIsFind

LEMMA Blocks ==
    ASSUME SearchTypes
    PROVE  /\ block_count = hb.size
           /\ H!From(hb) = hb.lfb + 1
           /\ H!Cells(hb) = 0 .. hb.size - 1
           /\ \A c, n : H!Fits(hb, c, n) <=> \A k \in c .. c + n - 1 : k < hb.size /\ hb.bitmap[k] = 0
<1>1. H!Count(hb) = hb.size
  <2>1. \A n \in Nat : n \div 1 = n
    BY Z3
  <2> QED BY <2>1 DEF H!Count, SearchTypes
<1> QED BY <1>1 DEF block_count, H!From, H!Cells, H!Fits, SearchTypes

\* The free cells from c on are counted rightly.
LEMMA RunIs ==
    ASSUME SearchTypes, NEW c \in Nat
    PROVE  /\ Run(c) \in 0 .. blocks_needed
           /\ H!Fits(hb, c, Run(c))
           /\ Run(c) = blocks_needed \/ ~H!Fits(hb, c, Run(c) + 1)
<1> DEFINE P(y) == H!Fits(hb, c, y) /\ (y = blocks_needed \/ ~H!Fits(hb, c, y + 1))
<1>1. \E y \in 0 .. blocks_needed : P(y)
  <2>1. CASE H!Fits(hb, c, blocks_needed)
    BY <2>1 DEF SearchTypes
  <2>2. CASE ~H!Fits(hb, c, blocks_needed)
    <3> DEFINE I == {y \in Nat : ~H!Fits(hb, c, y)}
               Lt == OpToRel(<, Nat)
    <3>1. I \in SUBSET Nat /\ blocks_needed \in I
      BY <2>2 DEF SearchTypes
    <3>2. PICK y \in I : \A z \in I : ~ (<<z, y>> \in Lt)
      BY <3>1, NatLessThanWellFounded, WFMin, Zenon
    <3>3. \A z \in I : ~ (z < y)
      BY <3>2 DEF OpToRel
    <3>4. H!Fits(hb, c, 0)
      BY Blocks
    <3>5. y \in Nat /\ ~H!Fits(hb, c, y) /\ y # 0
      BY <3>4
    <3>6. y - 1 \in Nat /\ y - 1 < y /\ (y - 1) + 1 = y
      BY <3>5
    <3>7. H!Fits(hb, c, y - 1)
      BY <3>3, <3>6
    <3>8. y <= blocks_needed
      BY <3>1, <3>3, <3>5 DEF SearchTypes
    <3>9. P(y - 1) /\ y - 1 \in 0 .. blocks_needed
      BY <3>5, <3>6, <3>7, <3>8 DEF SearchTypes
    <3> QED BY <3>9
  <2> QED BY <2>1, <2>2
<1>2. Run(c) = CHOOSE y \in 0 .. blocks_needed : P(y)
  BY DEF Run
<1> HIDE DEF P
<1>3. Run(c) \in 0 .. blocks_needed /\ P(Run(c))
  BY <1>1, <1>2
<1> QED BY <1>3 DEF P

\* An iteration at c returns c, which fits, or passes cells that do not.
LEMMA Looked ==
    ASSUME SearchTypes, NEW c \in 0 .. hb.size - 1, LookAt(c)
    PROVE  \/ result' = c /\ FitsAt(c)
           \/ /\ result' = result
              /\ x' \in c + 1 .. hb.size
              /\ \A y \in c .. x' - 1 : ~FitsAt(y)
<1>1. CASE hb.bitmap[c] # 0 /\ x' = c + 1 /\ UNCHANGED result
  <2>1. ~FitsAt(c)
    <3>1. c \in c .. c + blocks_needed - 1
      BY DEF SearchTypes
    <3> QED BY <1>1, <3>1, Blocks DEF FitsAt
  <2>2. \A y \in c .. x' - 1 : y = c
    BY <1>1
  <2> QED BY <1>1, <2>1, <2>2 DEF SearchTypes
<1>2. CASE hb.bitmap[c] = 0 /\ Run(c) = blocks_needed /\ result' = c
  BY <1>2, RunIs DEF FitsAt
<1>3. CASE hb.bitmap[c] = 0 /\ Run(c) < blocks_needed /\ x' = c + (Run(c) - 1) + 1 /\ UNCHANGED result
  <2> DEFINE r == Run(c)
  <2>1. r \in 0 .. blocks_needed - 1 /\ H!Fits(hb, c, r) /\ ~H!Fits(hb, c, r + 1)
    BY <1>3, RunIs DEF SearchTypes
  <2> HIDE DEF r
  <2>2. \A k \in c .. c + r - 1 : k < hb.size /\ hb.bitmap[k] = 0
    BY <2>1, Blocks
  <2>3. PICK k \in c .. c + (r + 1) - 1 : ~(k < hb.size /\ hb.bitmap[k] = 0)
    BY <2>1, Blocks
  <2>4. k = c + r
    BY <2>1, <2>2, <2>3
  <2>5. r > 0
    BY <1>3, <2>1, <2>3, <2>4 DEF SearchTypes
  <2>6. x' = c + r
    BY <1>3, <2>1 DEF r
  <2>7. c + r - 1 \in c .. c + r - 1
    BY <2>1, <2>5
  <2>8. c + r - 1 < hb.size
    BY <2>2, <2>7
  <2>9. x' \in c + 1 .. hb.size
    BY <2>1, <2>5, <2>6, <2>8 DEF SearchTypes
  <2>10. ASSUME NEW y \in c .. x' - 1 PROVE ~FitsAt(y)
    <3>1. k \in y .. y + blocks_needed - 1
      BY <2>1, <2>4, <2>6, <2>10 DEF SearchTypes
    <3> QED BY <2>3, <3>1, Blocks DEF FitsAt
  <2> QED BY <1>3, <2>9, <2>10
<1> QED BY <1>1, <1>2, <1>3 DEF LookAt

\* The first cell that fits is what Find names.
LEMMA FirstAhead ==
    ASSUME SearchTypes, NEW c \in hb.lfb + 1 .. hb.size - 1, FitsAt(c),
           \A y \in hb.lfb + 1 .. c - 1 : ~FitsAt(y)
    PROVE  H!Find(hb, blocks_needed) = {c}
<1> DEFINE A == H!Ahead(hb, blocks_needed)
<1>1. A = {y \in 0 .. hb.size - 1 : y >= hb.lfb + 1 /\ FitsAt(y)}
  BY Blocks DEF H!Ahead, FitsAt
<1>2. c \in A /\ \A y \in A : c <= y /\ y \in Int
  BY <1>1 DEF SearchTypes
<1>3. H!Find(hb, blocks_needed) = H!Least(A)
  BY <1>2 DEF H!Find
<1> HIDE DEF A
<1>4. H!Least(A) = {c}
  <2>1. c \in H!Least(A)
    BY <1>2 DEF H!Least
  <2>2. \A y \in H!Least(A) : y = c
    BY <1>2 DEF H!Least
  <2> QED BY <2>1, <2>2
<1> QED BY <1>3, <1>4

LEMMA FirstBehind ==
    ASSUME SearchTypes, NEW c \in 0 .. hb.lfb - 1, FitsAt(c),
           \A y \in 0 .. c - 1 : ~FitsAt(y),
           \A y \in hb.lfb + 1 .. hb.size - 1 : ~FitsAt(y)
    PROVE  H!Find(hb, blocks_needed) = {c}
<1> DEFINE A == H!Ahead(hb, blocks_needed)
           B == H!Behind(hb, blocks_needed)
<1>1. A = {y \in 0 .. hb.size - 1 : y >= hb.lfb + 1 /\ FitsAt(y)}
  BY Blocks DEF H!Ahead, FitsAt
<1>2. B = {y \in 0 .. hb.size - 1 : y < hb.lfb /\ FitsAt(y)}
  BY Blocks DEF H!Behind, FitsAt
<1>3. A = {}
  BY <1>1 DEF SearchTypes
<1>4. c \in B /\ \A y \in B : c <= y /\ y \in Int
  BY <1>2 DEF SearchTypes
<1>5. H!Find(hb, blocks_needed) = H!Least(B)
  BY <1>3 DEF H!Find
<1> HIDE DEF B
<1>6. H!Least(B) = {c}
  <2>1. c \in H!Least(B)
    BY <1>4 DEF H!Least
  <2>2. \A y \in H!Least(B) : y = c
    BY <1>4 DEF H!Least
  <2> QED BY <2>1, <2>2
<1> QED BY <1>5, <1>6

LEMMA NoneFits ==
    ASSUME SearchTypes,
           \A y \in 0 .. hb.lfb - 1 : ~FitsAt(y),
           \A y \in hb.lfb + 1 .. hb.size - 1 : ~FitsAt(y)
    PROVE  H!Find(hb, blocks_needed) = {}
<1>1. H!Ahead(hb, blocks_needed) = {y \in 0 .. hb.size - 1 : y >= hb.lfb + 1 /\ FitsAt(y)}
  BY Blocks DEF H!Ahead, FitsAt
<1>2. H!Behind(hb, blocks_needed) = {y \in 0 .. hb.size - 1 : y < hb.lfb /\ FitsAt(y)}
  BY Blocks DEF H!Behind, FitsAt
<1>3. H!Ahead(hb, blocks_needed) = {} /\ H!Behind(hb, blocks_needed) = {}
  BY <1>1, <1>2 DEF SearchTypes
<1> QED BY <1>3 DEF H!Find, H!Least

LEMMA SearchStarts == SearchInit => SearchInv
<1> SUFFICES ASSUME SearchInit PROVE SearchInv
  OBVIOUS
<1>1. PICK n \in 2 .. MaxCells : \E marked \in SUBSET (1 .. n - 1), lfb \in 0 .. n - 2 :
             hb = [size |-> n, lfb |-> lfb,
                   bitmap |-> [c \in 0 .. n - 1 |-> IF c \in marked \cup {0} THEN 1 ELSE 0]]
  BY DEF SearchInit
<1>2. PICK marked \in SUBSET (1 .. n - 1), lfb \in 0 .. n - 2 :
             hb = [size |-> n, lfb |-> lfb,
                   bitmap |-> [c \in 0 .. n - 1 |-> IF c \in marked \cup {0} THEN 1 ELSE 0]]
  BY <1>1
<1>3. hb.size = n /\ hb.lfb = lfb /\ hb.bitmap[0] = 1
  BY <1>2, SearchAssumption
<1>4. SearchTypes
  <2>1. hb.size \in Nat /\ hb.size > 1 /\ hb.lfb \in 0 .. hb.size - 2 /\ hb.bitmap[0] # 0
    BY <1>3, SearchAssumption
  <2>2. blocks_needed \in Nat \ {0}
    BY SearchAssumption DEF SearchInit
  <2>3. result \in Int
    BY DEF SearchInit, Searching
  <2>4. wrapped \in BOOLEAN
    BY DEF SearchInit
  <2> QED BY <2>1, <2>2, <2>3, <2>4 DEF SearchTypes
<1>5. x = hb.lfb + 1 /\ wrapped = FALSE /\ result = Searching
  BY <1>4, Blocks DEF SearchInit
<1> QED BY <1>4, <1>5 DEF SearchInv, SearchTypes, SearchIsFind

\* The block and the number of cells asked for stay, so what was said of them stays.
LEMMA SearchFrame ==
    ASSUME UNCHANGED <<hb, blocks_needed>>
    PROVE  /\ \A y : FitsAt(y)' = FitsAt(y)
           /\ H!Find(hb, blocks_needed)' = H!Find(hb, blocks_needed)
  BY DEF FitsAt

LEMMA SearchSteps == SearchInv /\ [SearchNext]_svars => SearchInv'
<1> SUFFICES ASSUME SearchInv, [SearchNext]_svars PROVE SearchInv'
  OBVIOUS
<1>0. SearchTypes
  BY DEF SearchInv
<1>1. ASSUME Iterate, x < block_count, LookAt(x), UNCHANGED wrapped PROVE SearchInv'
  <2>1. result = Searching /\ x # hb.lfb /\ UNCHANGED <<hb, blocks_needed, wrapped>>
    BY <1>1 DEF Iterate
  <2>2. x \in 0 .. hb.size - 1 /\ x \in Nat
    BY <1>0, <1>1, <2>1, Blocks DEF SearchInv, SearchTypes
  <2>3. CASE result' = x /\ FitsAt(x)
    <3>1. CASE wrapped
      <4>1. x \in 0 .. hb.lfb - 1
        BY <1>0, <2>1, <2>2, <2>3, <3>1 DEF SearchInv, SearchTypes
      <4>2. H!Find(hb, blocks_needed) = {x}
        BY <1>0, <2>1, <2>3, <3>1, <4>1, FirstBehind DEF SearchInv
      <4> QED BY <1>0, <2>1, <2>2, <2>3, <4>2, SearchFrame
              DEF SearchInv, SearchTypes, SearchIsFind, NotHere, Searching
    <3>2. CASE ~wrapped
      <4>1. x \in hb.lfb + 1 .. hb.size - 1
        BY <1>0, <2>1, <2>2, <3>2 DEF SearchInv, SearchTypes
      <4>2. H!Find(hb, blocks_needed) = {x}
        BY <1>0, <2>1, <2>3, <3>2, <4>1, FirstAhead DEF SearchInv
      <4> QED BY <1>0, <2>1, <2>2, <2>3, <4>2, SearchFrame
              DEF SearchInv, SearchTypes, SearchIsFind, NotHere, Searching
    <3> QED BY <3>1, <3>2
  <2>4. CASE /\ result' = result /\ x' \in x + 1 .. hb.size
             /\ \A y \in x .. x' - 1 : ~FitsAt(y)
    <3>1. CASE wrapped
      <4>1. \A y \in 0 .. x - 1 : ~FitsAt(y)
        BY <2>1, <3>1 DEF SearchInv
      <4>2. \A y \in 0 .. x' - 1 : ~FitsAt(y)
        <5>1. PICK z : z = x'
          OBVIOUS
        <5>2. x \in Int /\ z \in Int
          BY <1>0, <2>2, <2>4, <5>1 DEF SearchTypes
        <5>3. \A y \in 0 .. z - 1 : y \in 0 .. x - 1 \/ y \in x .. z - 1
          BY <5>2
        <5> QED BY <2>4, <4>1, <5>1, <5>3
      <4>3. x' \in 1 .. hb.size /\ \A y \in hb.lfb + 1 .. hb.size - 1 : ~FitsAt(y)
        BY <1>0, <2>1, <2>2, <2>4, <3>1 DEF SearchInv, SearchTypes
      <4> QED BY <1>0, <2>1, <2>4, <3>1, <4>2, <4>3, SearchFrame DEF SearchInv, SearchTypes, SearchIsFind
    <3>2. CASE ~wrapped
      <4>1. \A y \in hb.lfb + 1 .. x' - 1 : ~FitsAt(y)
        BY <1>0, <2>1, <2>2, <2>4, <3>2 DEF SearchInv, SearchTypes
      <4>2. x' \in hb.lfb + 1 .. hb.size
        BY <1>0, <2>1, <2>2, <2>4, <3>2 DEF SearchInv, SearchTypes
      <4> QED BY <1>0, <2>1, <2>4, <3>2, <4>1, <4>2, SearchFrame DEF SearchInv, SearchTypes, SearchIsFind
    <3> QED BY <3>1, <3>2
  <2> QED BY <1>0, <1>1, <2>2, <2>3, <2>4, Looked
<1>2. ASSUME Iterate, x >= block_count, ~wrapped, wrapped' = TRUE, LookAt(0) PROVE SearchInv'
  <2>1. result = Searching /\ UNCHANGED <<hb, blocks_needed>>
    BY <1>2 DEF Iterate
  <2>2. \A y \in hb.lfb + 1 .. hb.size - 1 : ~FitsAt(y)
    BY <1>0, <1>2, <2>1, Blocks DEF SearchInv, SearchTypes
  <2>3. ~FitsAt(0)
    <3>1. 0 \in 0 .. 0 + blocks_needed - 1
      BY <1>0 DEF SearchTypes
    <3> QED BY <1>0, <3>1, Blocks DEF FitsAt, SearchTypes
  <2>4. 0 \in 0 .. hb.size - 1
    BY <1>0 DEF SearchTypes
  <2>5. result' = result /\ x' \in 1 .. hb.size /\ \A y \in 0 .. x' - 1 : ~FitsAt(y)
    BY <1>0, <1>2, <2>3, <2>4, Looked
  <2> QED BY <1>0, <1>2, <2>1, <2>2, <2>5, SearchFrame DEF SearchInv, SearchTypes, SearchIsFind
<1>3. CASE GiveUp
  <2>1. result = Searching /\ result' = NotHere /\ UNCHANGED <<hb, blocks_needed, x, wrapped>>
    BY <1>3 DEF GiveUp
  <2>2. wrapped
    BY <1>0, <1>3, <2>1 DEF GiveUp, SearchInv, SearchTypes
  <2>3. \A y \in 0 .. hb.lfb - 1 : ~FitsAt(y)
    BY <1>0, <1>3, <2>1, <2>2, Blocks DEF GiveUp, SearchInv, SearchTypes
  <2>4. H!Find(hb, blocks_needed) = {}
    BY <1>0, <2>1, <2>2, <2>3, NoneFits DEF SearchInv
  <2> QED BY <1>0, <2>1, <2>4, SearchFrame DEF SearchInv, SearchTypes, SearchIsFind, NotHere, Searching
<1>4. CASE UNCHANGED svars
  <2>1. UNCHANGED <<hb, blocks_needed, x, wrapped, result>>
    BY <1>4 DEF svars
  <2> QED BY <2>1, SearchFrame DEF SearchInv, SearchTypes, SearchIsFind
<1> QED BY <1>1, <1>2, <1>3, <1>4 DEF SearchNext, Iterate

\* heap_alloc's loop, with its jumps over free runs and its wrap-around, returns the
\* first run that is long enough after lfb, otherwise the first before it, otherwise
\* nothing: for blocks and requests of any size and any bitmap.
THEOREM SearchFinds == SearchSpec => []SearchIsFind
<1>1. SearchInv => SearchIsFind
  BY DEF SearchInv
<1> QED BY <1>1, SearchStarts, SearchSteps, PTL DEF SearchSpec
=============================================================================
