---------------------------- MODULE FilesProofs ----------------------------
(***************************************************************************)
(* Proofs about modules Volume and Files: on every well-formed volume an    *)
(* open finds what the path names, and only then, a file is read as it lies *)
(* on the disk and a directory is listed as it is.                          *)
(*                                                                         *)
(* The recursive functions of the two modules (a chain of clusters, the     *)
(* walk along a path, ...) are first shown to be what their equations say,  *)
(* by the least length for which no such function exists; what they compute *)
(* is then shown by induction, the least index at which a fact fails.       *)
(***************************************************************************)
EXTENDS Files, NaturalsInduction, WellFoundedInduction, TLAPS

\* A set of natural numbers has a least one.
LEMMA LeastNat ==
    ASSUME NEW S, S \subseteq Nat, S # {}
    PROVE  \E m \in S : \A k \in 0 .. m - 1 : k \notin S
<1>1. IsWellFoundedOn(OpToRel(<, Nat), Nat)
  BY NatLessThanWellFounded
<1>2. PICK m \in S : \A k \in S : ~(<<k, m>> \in OpToRel(<, Nat))
  BY <1>1, WFMin
<1>3. ASSUME NEW k \in 0 .. m - 1 PROVE k \notin S
  <2>1. k \in Nat /\ m \in Nat /\ k < m
    BY <1>3
  <2> QED BY <1>2, <2>1 DEF OpToRel
<1> QED BY <1>3

\* Min of the community module is that number.
LEMMA MinOf ==
    ASSUME NEW S, S \subseteq Nat, S # {}
    PROVE  Min(S) \in S /\ \A y \in S : Min(S) <= y
<1>1. PICK m \in S : \A k \in 0 .. m - 1 : k \notin S
  BY LeastNat
<1>2. \A y \in S : m <= y
  BY <1>1
<1> QED BY <1>2 DEF Min

\* Induction: a set with 0 that has the successor of each of its numbers below N
\* has all numbers up to N.
LEMMA Upwards ==
    ASSUME NEW N \in Nat, NEW S, 0 \in S, \A k \in 0 .. N - 1 : k \in S => k + 1 \in S
    PROVE  \A k \in 0 .. N : k \in S
<1> DEFINE Bad == {k \in 0 .. N : k \notin S}
<1>0. Bad \subseteq Nat
  OBVIOUS
<1>1. ASSUME Bad # {} PROVE FALSE
  <2>1. PICK m \in Bad : \A k \in 0 .. m - 1 : k \notin Bad
    <3> HIDE DEF Bad
    <3> QED BY <1>0, <1>1, LeastNat
  <2>2. m \in 1 .. N /\ m \notin S
    BY <2>1
  <2>3. m - 1 \in 0 .. N - 1 /\ m - 1 \in S
    BY <2>1, <2>2
  <2>4. (m - 1) + 1 \in S
    BY <2>3
  <2> QED BY <2>2, <2>4
<1> QED BY <1>1

\* Sequences put together.
LEMMA Joined ==
    ASSUME NEW S, NEW s \in Seq(S), NEW t \in Seq(S)
    PROVE  /\ s \o t \in Seq(S) /\ Len(s \o t) = Len(s) + Len(t)
           /\ \A k \in 1 .. Len(s) : (s \o t)[k] = s[k]
           /\ \A k \in 1 .. Len(t) : (s \o t)[Len(s) + k] = t[k]
OBVIOUS

LEMMA SeqElement ==
    ASSUME NEW S, NEW s \in Seq(S), NEW k \in 1 .. Len(s)
    PROVE  s[k] \in S
OBVIOUS

LEMMA Longer ==
    ASSUME NEW S, NEW s \in Seq(S), NEW e \in S
    PROVE  /\ Append(s, e) \in Seq(S) /\ Len(Append(s, e)) = Len(s) + 1
           /\ Append(s, e)[Len(s) + 1] = e
           /\ \A k \in 1 .. Len(s) : Append(s, e)[k] = s[k]
OBVIOUS

-----------------------------------------------------------------------------
(***************************************************************************)
(* Arithmetic.                                                             *)
(***************************************************************************)

\* Division with remainder, and that quotient and remainder are unique.
LEMMA DivMod ==
    ASSUME NEW a \in Nat, NEW b \in Nat \ {0}
    PROVE  /\ a \div b \in Nat /\ a % b \in Nat /\ a % b < b
           /\ a = b * (a \div b) + (a % b)
BY Z3

\* A product with a positive factor.
LEMMA Product ==
    ASSUME NEW x \in Nat, NEW b \in Nat \ {0}
    PROVE  b * x \in Nat /\ (x > 0 => b * x >= b)
BY Z3

LEMMA DivUnique ==
    ASSUME NEW b \in Nat \ {0}, NEW q \in Nat, NEW r \in Nat, r < b
    PROVE  (b * q + r) \div b = q /\ (b * q + r) % b = r
<1> DEFINE a == b * q + r
           p == a \div b
           s == a % b
<1>1. a \in Nat
  BY Product
<1>2. p \in Nat /\ s \in Nat /\ s < b /\ a = b * p + s
  BY <1>1, DivMod
<1> HIDE DEF p, s
<1>3. CASE p < q
  <2>1. b * q = b * p + b * (q - p) /\ b * (q - p) >= b
    BY <1>2, <1>3, Z3
  <2> QED
    BY <1>2, <2>1, Product
<1>4. CASE q < p
  <2>1. b * p = b * q + b * (p - q) /\ b * (p - q) >= b
    BY <1>2, <1>4, Z3
  <2> QED
    BY <1>2, <2>1, Product
<1>5. CASE p = q
  BY <1>2, <1>5, Product DEF p, s
<1> QED
  BY <1>2, <1>3, <1>4, <1>5

LEMMA DivBound ==
    ASSUME NEW a \in Nat, NEW b \in Nat \ {0}, NEW c \in Nat, a < b * c
    PROVE  a \div b < c
<1> DEFINE q == a \div b
           r == a % b
<1>1. q \in Nat /\ r \in Nat /\ a = b * q + r
  BY DivMod
<1> HIDE DEF q, r
<1>2. CASE q >= c
  <2>1. b * q = b * c + b * (q - c) /\ b * (q - c) \in Nat /\ b * c \in Nat
    BY <1>1, <1>2, Z3
  <2> QED
    BY <1>1, <2>1
<1> QED
  BY <1>1, <1>2 DEF q

-----------------------------------------------------------------------------
(***************************************************************************)
(* The bytes of a file.                                                    *)
(***************************************************************************)

\* What well-formed volumes are made of.
LEMMA NodeTypes ==
    ASSUME NEW v, WellFormed(v), NEW x \in DOMAIN v.nodes
    PROVE  /\ v.kind \in {"fat12", "fat16", "ext2", "iso9660"}
           /\ v.nodes[x].type \in {"reg", "dir"} /\ v.nodes[x].ino \in Nat /\ v.nodes[x].size \in Nat
           /\ v.nodes[x].blocks \in Seq(Nat) /\ v.nodes[x].slots \in Seq(Slots)
<1>1. v.nodes[x] \in Nodes
  BY DEF WellFormed
<1> QED BY <1>1 DEF WellFormed, Nodes

Byte == Int \X Int

\* What one call of the common loop returns.
LEMMA ChunksAre ==
    ASSUME NEW list \in Seq(Int), NEW count \in Nat, NEW off \in Nat
    PROVE  LET c == Chunks(list, count, off)
           IN  /\ c \in Seq(Byte)
               /\ Len(c) = Least(Len(list) * BS, count) /\ Len(c) \in Nat
               /\ Len(c) <= count /\ Len(c) <= Len(list) * BS
               /\ \A k \in 1 .. Len(c) :
                     /\ (k - 1) \div BS + 1 \in 1 .. Len(list)
                     /\ c[k] = <<list[(k - 1) \div BS + 1], off + ((k - 1) % BS)>>
<1> DEFINE c == Chunks(list, count, off)
           m == Least(Len(list) * BS, count)
<1>0. BS \in Nat \ {0} /\ Len(list) \in Nat
  BY VolumeAssumption
<1>1. Len(list) * BS \in Nat /\ Len(list) * BS = BS * Len(list)
  BY <1>0, Z3
<1>2. m \in Nat /\ m <= count /\ m <= Len(list) * BS
  <2> DEFINE all == Len(list) * BS
  <2>1. all \in Nat
    BY <1>1
  <2> HIDE DEF all
  <2>2. Least(all, count) \in Nat /\ Least(all, count) <= count /\ Least(all, count) <= all
    BY <2>1 DEF Least
  <2> QED BY <2>2 DEF all
<1> HIDE DEF m
<1>3. c = [k \in 1 .. m |-> <<list[(k - 1) \div BS + 1], off + ((k - 1) % BS)>>]
  BY DEF Chunks, m
<1>4. ASSUME NEW k \in 1 .. m
      PROVE  (k - 1) \div BS + 1 \in 1 .. Len(list) /\ (k - 1) % BS \in Nat
  <2>1. k - 1 \in Nat /\ k - 1 < BS * Len(list)
    BY <1>1, <1>2
  <2>2. (k - 1) \div BS \in Nat /\ (k - 1) % BS \in Nat /\ (k - 1) \div BS < Len(list)
    BY <1>0, <2>1, DivMod, DivBound
  <2> QED BY <1>0, <2>2
<1>5. ASSUME NEW k \in 1 .. m
      PROVE  <<list[(k - 1) \div BS + 1], off + ((k - 1) % BS)>> \in Byte
  <2> DEFINE q == (k - 1) \div BS + 1
             r == (k - 1) % BS
  <2>1. q \in 1 .. Len(list) /\ r \in Nat
    BY <1>4
  <2> HIDE DEF q, r
  <2>2. list[q] \in Int /\ off + r \in Int
    BY <2>1
  <2>3. <<list[q], off + r>> \in Byte
    BY <2>2 DEF Byte
  <2> QED BY <2>3 DEF q, r
<1> DEFINE e(k) == <<list[(k - 1) \div BS + 1], off + ((k - 1) % BS)>>
<1>6. \A k \in 1 .. m : e(k) \in Byte
  BY <1>5
<1>7. c = [k \in 1 .. m |-> e(k)]
  BY <1>3
<1> HIDE DEF e, c
<1>8. c \in Seq(Byte) /\ Len(c) = m /\ \A k \in 1 .. m : c[k] = e(k)
  BY <1>2, <1>6, <1>7
<1>9. \A k \in 1 .. Len(c) :
         /\ (k - 1) \div BS + 1 \in 1 .. Len(list)
         /\ c[k] = <<list[(k - 1) \div BS + 1], off + ((k - 1) % BS)>>
  BY <1>4, <1>8 DEF e
<1> QED BY <1>2, <1>8, <1>9 DEF c, m

\* A read that begins with a block, or stays in one, takes every byte from its place:
\* the byte at a position from the block of the position.
LEMMA ChunksPlace ==
    ASSUME NEW list \in Seq(Int), NEW count \in Nat, NEW offset \in Nat,
           offset % BS = 0 \/ (offset % BS) + Len(Chunks(list, count, offset % BS)) <= BS,
           NEW k \in 1 .. Len(Chunks(list, count, offset % BS))
    PROVE  LET p == offset + k - 1
               j == p \div BS - offset \div BS + 1
           IN  /\ j \in 1 .. Len(list) /\ p \div BS \in Nat /\ p % BS \in Nat
               /\ Chunks(list, count, offset % BS)[k] = <<list[j], p % BS>>
<1> DEFINE s == offset \div BS
           o == offset % BS
           c == Chunks(list, count, o)
           q == (k - 1) \div BS
           r == (k - 1) % BS
           p == offset + k - 1
<1>0. BS \in Nat \ {0}
  BY VolumeAssumption
<1>1. s \in Nat /\ o \in Nat /\ o < BS /\ offset = BS * s + o
  BY <1>0, DivMod
<1>c. k \in 1 .. Len(c)
  OBVIOUS
<1>2. Len(c) \in Nat /\ q + 1 \in 1 .. Len(list) /\ c[k] = <<list[q + 1], o + r>>
  <2> HIDE DEF o
  <2> QED BY <1>1, <1>c, ChunksAre
<1>3. q \in Nat /\ r \in Nat /\ r < BS /\ k - 1 = BS * q + r
  <2>1. k - 1 \in Nat
    OBVIOUS
  <2> QED BY <1>0, <2>1, DivMod
<1>a. o = 0 \/ o + Len(c) <= BS
  OBVIOUS
<1>b. k \in Nat \ {0} /\ k <= Len(c)
  BY <1>2
<1> HIDE DEF s, o, q, r, c
<1>4. CASE o = 0
  <2>1. BS * (s + q) = BS * s + BS * q
    BY <1>0, <1>1, <1>3, Z3
  <2>2. p = BS * (s + q) + r
    <3>1. BS * s \in Nat /\ BS * q \in Nat
      BY <1>0, <1>1, <1>3, Product
    <3> QED BY <1>1, <1>3, <1>4, <1>b, <2>1, <3>1
  <2>3. p \div BS = s + q /\ p % BS = r
    <3> HIDE DEF p
    <3>1. s + q \in Nat
      BY <1>1, <1>3
    <3> QED BY <1>0, <1>3, <2>2, <3>1, DivUnique
  <2>4. p \div BS - s + 1 = q + 1 /\ o + r = p % BS
    <3> HIDE DEF p
    <3> QED BY <1>1, <1>3, <1>4, <2>3
  <2>5. /\ p \div BS - s + 1 \in 1 .. Len(list) /\ p \div BS \in Nat /\ p % BS \in Nat
        /\ c[k] = <<list[p \div BS - s + 1], p % BS>>
    <3> DEFINE d == p \div BS
               e == p % BS
    <3>1. d = s + q /\ e = r /\ d - s + 1 = q + 1 /\ o + r = e
      BY <2>3, <2>4
    <3> HIDE DEF d, e
    <3>2. d - s + 1 \in 1 .. Len(list) /\ d \in Nat /\ e \in Nat /\ c[k] = <<list[d - s + 1], e>>
      BY <1>1, <1>2, <1>3, <3>1
    <3> QED BY <3>2 DEF d, e
  <2> QED BY <2>5 DEF s, o, c
<1>5. CASE o # 0
  <2>1. o + k - 1 \in Nat /\ o + k - 1 < BS
    BY <1>0, <1>1, <1>2, <1>a, <1>b, <1>5
  <2>2. p = BS * s + (o + k - 1)
    <3>1. BS * s \in Nat
      BY <1>0, <1>1, Product
    <3> QED BY <1>1, <1>b, <3>1
  <2>3. p \div BS = s /\ p % BS = o + k - 1
    <3> DEFINE t == o + k - 1
    <3>1. t \in Nat /\ t < BS /\ p = BS * s + t
      BY <2>1, <2>2
    <3> HIDE DEF t, p
    <3>2. p \div BS = s /\ p % BS = t
      BY <1>0, <1>1, <3>1, DivUnique
    <3> QED BY <3>2 DEF t
  <2>4. q = 0 /\ r = k - 1
    <3>1. k - 1 < BS
      BY <1>0, <1>1, <1>b, <2>1
    <3>2. BS * q < BS
      <4> DEFINE z == BS * q
      <4>1. z \in Nat /\ k - 1 = z + r
        BY <1>0, <1>3, Product
      <4> HIDE DEF z
      <4>2. z < BS
        BY <1>0, <1>3, <1>b, <3>1, <4>1
      <4> QED BY <4>2 DEF z
    <3>3. q = 0
      BY <1>0, <1>3, <3>2, Product
    <3> QED BY <1>0, <1>3, <3>3
  <2>5. p \div BS - s + 1 = q + 1 /\ o + r = p % BS
    <3> HIDE DEF p
    <3> QED BY <1>1, <1>b, <2>3, <2>4
  <2>6. /\ p \div BS - s + 1 \in 1 .. Len(list) /\ p \div BS \in Nat /\ p % BS \in Nat
        /\ c[k] = <<list[p \div BS - s + 1], p % BS>>
    <3> HIDE DEF p
    <3> QED BY <1>1, <1>2, <2>1, <2>3, <2>5
  <2> QED BY <2>6 DEF s, o, c
<1> QED BY <1>4, <1>5

\* What the data of a read should be: the bytes of the file from the offset on, at
\* least one when there is one.
Right(v, node, offset, data) ==
    /\ \A k \in 1 .. Len(data) : data[k] = Where(v, node, offset + k - 1)
    /\ data = <<>> => offset >= node.size

LEMMA ClipIs ==
    ASSUME NEW size \in Nat, NEW count \in Nat \ {0}, NEW offset \in Nat
    PROVE  /\ Clip(size, count, offset) \in Nat
           /\ offset >= size => Clip(size, count, offset) = 0
           /\ offset < size => Clip(size, count, offset) > 0 /\ offset + Clip(size, count, offset) <= size
BY DEF Clip

\* The block of a position in a file is one of the file's blocks.
LEMMA BlockOf ==
    ASSUME NEW p \in Nat, NEW len \in Nat, p < BS * len
    PROVE  p \div BS \in Nat /\ p \div BS + 1 \in 1 .. len /\ p % BS \in Nat
<1>0. BS \in Nat \ {0}
  BY VolumeAssumption
<1>1. p \div BS \in Nat /\ p \div BS < len /\ p % BS \in Nat
  BY <1>0, DivMod, DivBound
<1> QED BY <1>1

InBlock(offset, data) == offset % BS = 0 \/ (offset % BS) + Len(data) <= BS

LEMMA IsoRead ==
    ASSUME NEW v, WellFormed(v), v.kind = "iso9660", NEW x \in DOMAIN v.nodes, v.nodes[x].type = "reg",
           NEW count \in Nat \ {0}, NEW offset \in Nat
    PROVE  LET node == v.nodes[x]
               data == iso9660_read(node, count, offset)
           IN  data \in Seq(Byte) /\ (offset >= node.size \/ InBlock(offset, data) => Right(v, node, offset, data))
<1> DEFINE node == v.nodes[x]
           data == iso9660_read(node, count, offset)
           n == Clip(node.size, count, offset)
           b == node.blocks
           len == (node.size + BS - 1) \div BS
           list == [k \in 1 .. len |-> b[1] + (offset + (k - 1) * BS) \div BS]
           o == offset % BS
           s == offset \div BS
<1>0. BS \in Nat \ {0} /\ node.size \in Nat /\ b \in Seq(Nat) /\ Len(b) \in Nat
  BY VolumeAssumption, NodeTypes
<1>1. node.size <= BS * Len(b) /\ \A k \in 1 .. Len(b) : b[k] = b[1] + k - 1
  <2>1. ~Fat(v)
    BY DEF Fat
  <2>2. node.size <= BS * Len(b) * 1
    BY <2>1 DEF WellFormed
  <2>3. BS * Len(b) \in Nat
    <3> HIDE DEF b
    <3> QED BY <1>0, Product
  <2>4. BS * Len(b) * 1 = BS * Len(b)
    <3> DEFINE z == BS * Len(b)
    <3> HIDE DEF z
    <3>1. z * 1 = z
      BY <2>3 DEF z
    <3> QED BY <3>1 DEF z
  <2>5. \A k \in 1 .. Len(b) : b[k] = b[1] + k - 1
    BY DEF WellFormed
  <2> QED BY <2>2, <2>4, <2>5
<1>2. n \in Nat /\ (offset >= node.size => n = 0) /\ (offset < node.size => n > 0 /\ offset + n <= node.size)
  BY <1>0, ClipIs
<1>3. data = Chunks(list, n, o)
  BY DEF iso9660_read
<1> HIDE DEF node, data, n, b
<1>4. s \in Nat /\ o \in Nat /\ o < BS /\ offset = BS * s + o
  BY <1>0, DivMod
<1>5. len \in Nat /\ (node.size > 0 => len >= 1)
  <2> DEFINE z == node.size + BS - 1
             r == z % BS
  <2>1. z \in Nat
    BY <1>0
  <2>2. len \in Nat /\ r \in Nat /\ r < BS /\ z = BS * len + r
    <3>1. len = z \div BS
      OBVIOUS
    <3> HIDE DEF z, len
    <3> QED BY <1>0, <2>1, <3>1, DivMod
  <2>3. ASSUME node.size > 0, len = 0 PROVE FALSE
    <3>1. BS * len = 0
      BY <1>0, <2>3
    <3> HIDE DEF len, r
    <3> QED BY <1>0, <2>2, <2>3, <3>1
  <2> HIDE DEF len
  <2> QED BY <2>2, <2>3
<1>6. list \in Seq(Int) /\ Len(list) = len /\ \A k \in 1 .. len : list[k] = b[1] + s + (k - 1)
  <2>1. ASSUME NEW k \in 1 .. len PROVE b[1] \in Nat /\ (offset + (k - 1) * BS) \div BS = s + (k - 1)
    <3>1. Len(b) # 0
      <4>1. node.size # 0
        <5>1. ASSUME node.size = 0 PROVE FALSE
          <6>1. len = (BS - 1) \div BS
            BY <5>1, <1>0
          <6>2. BS - 1 \in Nat /\ BS - 1 < BS * 1
            BY <1>0
          <6>3. (BS - 1) \div BS \in Nat /\ (BS - 1) \div BS < 1
            BY <1>0, <6>2, DivBound, DivMod
          <6> HIDE DEF len
          <6>4. len = 0
            BY <6>1, <6>3
          <6> QED BY <2>1, <6>4
        <5> QED BY <5>1
      <4>2. ASSUME Len(b) = 0 PROVE FALSE
        <5>1. BS * Len(b) = 0
          BY <1>0, <4>2
        <5> QED BY <1>0, <1>1, <4>1, <5>1
      <4> QED BY <4>2
    <3>2. b[1] \in Nat
      BY <1>0, <3>1
    <3> DEFINE m == s + (k - 1)
    <3>3. m \in Nat /\ k - 1 \in Nat
      <4> HIDE DEF len, s
      <4> QED BY <1>4, <1>5
    <3>4. offset + (k - 1) * BS = BS * m + o
      <4> HIDE DEF s, o
      <4> DEFINE t == k - 1
      <4>0. t \in Nat
        BY <3>3
      <4> HIDE DEF t
      <4>1. BS * (s + t) = BS * s + BS * t /\ t * BS = BS * t
        BY <1>0, <1>4, <4>0, Z3
      <4>2. BS * s \in Nat /\ BS * t \in Nat
        BY <1>0, <1>4, <4>0, Product
      <4>3. offset + t * BS = BS * (s + t) + o
        BY <1>4, <4>1, <4>2
      <4> QED BY <4>3 DEF t
    <3>5. (BS * m + o) \div BS = m
      <4> HIDE DEF m, o
      <4> QED BY <1>0, <1>4, <3>3, DivUnique
    <3> QED BY <3>2, <3>4, <3>5
  <2> HIDE DEF len
  <2> DEFINE e(k) == b[1] + (offset + (k - 1) * BS) \div BS
  <2>2. \A k \in 1 .. len : e(k) = b[1] + s + (k - 1) /\ e(k) \in Int
    <3> TAKE k \in 1 .. len
    <3>1. b[1] \in Nat /\ (offset + (k - 1) * BS) \div BS = s + (k - 1)
      BY <2>1
    <3>2. e(k) = b[1] + (s + (k - 1))
      BY <3>1
    <3> HIDE DEF e, s
    <3> QED BY <1>4, <1>5, <3>1, <3>2
  <2>3. list = [k \in 1 .. len |-> e(k)]
    OBVIOUS
  <2> HIDE DEF e, list
  <2> QED BY <1>5, <2>2, <2>3
<1> HIDE DEF len, list
<1>7. data \in Seq(Byte) /\ Len(data) = Least(Len(list) * BS, n) /\ Len(data) \in Nat /\ Len(data) <= n
  <2> HIDE DEF o
  <2> QED BY <1>2, <1>3, <1>4, <1>6, ChunksAre
<1>8. ASSUME offset >= node.size PROVE Right(v, node, offset, data)
  <2>1. Len(data) = 0
    BY <1>2, <1>7, <1>8
  <2> QED BY <2>1, <1>8 DEF Right
<1>9. ASSUME InBlock(offset, data), offset < node.size PROVE Right(v, node, offset, data)
  <2>1. data # <<>>
    <3>1. len >= 1 /\ len * BS \in Nat /\ len * BS >= 1
      <4>1. len >= 1
        BY <1>0, <1>5, <1>9
      <4>2. len * BS = BS * len
        BY <1>0, <1>5
      <4> QED BY <1>0, <1>5, <4>1, <4>2, Product
    <3> DEFINE z == len * BS
    <3> HIDE DEF z
    <3>2. Least(z, n) > 0
      BY <1>2, <1>9, <3>1 DEF z, Least
    <3>3. Len(data) > 0
      BY <1>6, <1>7, <3>2 DEF z
    <3> QED BY <3>3
  <2>2. ASSUME NEW k \in 1 .. Len(data) PROVE data[k] = Where(v, node, offset + k - 1)
    <3> DEFINE p == offset + k - 1
               d == p \div BS
    <3>1. d - s + 1 \in 1 .. Len(list) /\ d \in Nat /\ data[k] = <<list[d - s + 1], p % BS>>
      <4>1. offset % BS = 0 \/ (offset % BS) + Len(Chunks(list, n, offset % BS)) <= BS
        BY <1>3, <1>9 DEF InBlock
      <4>2. k \in 1 .. Len(Chunks(list, n, offset % BS))
        BY <1>3
      <4>3. /\ d - s + 1 \in 1 .. Len(list) /\ d \in Nat
            /\ Chunks(list, n, offset % BS)[k] = <<list[d - s + 1], p % BS>>
        <5>1. list \in Seq(Int) /\ n \in Nat
          BY <1>2, <1>6
        <5> QED BY <4>1, <4>2, <5>1, ChunksPlace
      <4> QED BY <1>3, <4>3
    <3>2. p \in Nat /\ p < node.size
      BY <1>0, <1>2, <1>7, <1>9
    <3>3. p < BS * Len(b)
      <4> HIDE DEF p
      <4>1. BS * Len(b) \in Nat
        BY <1>0, Product
      <4> QED BY <1>0, <1>1, <3>2, <4>1
    <3>4. d + 1 \in 1 .. Len(b)
      <4> HIDE DEF p
      <4> QED BY <1>0, <3>2, <3>3, BlockOf
    <3>5. Where(v, node, p) = <<b[d + 1], p % BS>>
      BY DEF Where, Fat, b
    <3> HIDE DEF p, d
    <3>6. b[d + 1] = b[1] + (d + 1) - 1
      BY <1>1, <3>4
    <3>7. list[d - s + 1] = b[1] + s + ((d - s + 1) - 1)
      BY <1>6, <3>1
    <3>8. b[1] \in Nat
      <4>1. 1 \in 1 .. Len(b)
        BY <1>0, <3>4
      <4> QED BY <1>0, <4>1, SeqElement
    <3>9. list[d - s + 1] = b[d + 1]
      <4> HIDE DEF s
      <4> QED BY <1>4, <3>1, <3>6, <3>7, <3>8
    <3> QED BY <3>1, <3>5, <3>9 DEF p
  <2> QED BY <1>9, <2>1, <2>2 DEF Right
<1>10. offset < node.size \/ offset >= node.size
  BY <1>0
<1> QED BY <1>7, <1>8, <1>9, <1>10 DEF node, data

\* What the table says of a cluster: the next one of its file, or the end.
Link(v, c) ==
    LET owner == {x \in DOMAIN v.nodes :
                     \E k \in 1 .. Len(v.nodes[x].blocks) : v.nodes[x].blocks[k] = c}
        b == v.nodes[CHOOSE x \in owner : TRUE].blocks
        k == CHOOSE j \in 1 .. Len(b) : b[j] = c
    IN  IF owner = {} THEN 0 ELSE IF k = Len(b) THEN End(v.kind) + 7 ELSE b[k + 1]

LEMMA TableIs ==
    ASSUME NEW v
    PROVE  fat_table(v) =
              [i \in 0 .. 2 * v.clusters + 3 |->
                  IF v.kind = "fat16"
                  THEN IF i % 2 = 0 THEN Link(v, i \div 2) % 256 ELSE Link(v, i \div 2) \div 256
                  ELSE LET pair == 2 * (i \div 3)
                       IN  CASE i % 3 = 0 -> Link(v, pair) % 256
                             [] i % 3 = 1 -> Link(v, pair) \div 256 + 16 * (Link(v, pair + 1) % 16)
                             [] i % 3 = 2 -> Link(v, pair + 1) \div 16]
BY Zenon DEF fat_table, Link

LEMMA Clusters ==
    ASSUME NEW v, WellFormed(v), Fat(v), NEW x \in DOMAIN v.nodes
    PROVE  /\ v.clusters \in Nat /\ v.clusters + 1 < End(v.kind) /\ v.nodes[x].blocks \in Seq(Nat)
           /\ \A j \in 1 .. Len(v.nodes[x].blocks) :
                 /\ v.nodes[x].blocks[j] \in 2 .. v.clusters + 1
                 /\ \A y \in DOMAIN v.nodes : \A k \in 1 .. Len(v.nodes[y].blocks) :
                       v.nodes[x].blocks[j] = v.nodes[y].blocks[k] => x = y /\ j = k
<1>1. v.nodes[x].blocks \in Seq(Nat)
  BY NodeTypes
<1> QED BY <1>1, Zenon DEF WellFormed

LEMMA LinkIs ==
    ASSUME NEW v, WellFormed(v), Fat(v), NEW x \in DOMAIN v.nodes, NEW j \in 1 .. Len(v.nodes[x].blocks)
    PROVE  Link(v, v.nodes[x].blocks[j]) =
              IF j = Len(v.nodes[x].blocks) THEN End(v.kind) + 7 ELSE v.nodes[x].blocks[j + 1]
<1> DEFINE c == v.nodes[x].blocks[j]
           owner == {y \in DOMAIN v.nodes :
                        \E k \in 1 .. Len(v.nodes[y].blocks) : v.nodes[y].blocks[k] = c}
           own == CHOOSE y \in owner : TRUE
           b == v.nodes[own].blocks
           k == CHOOSE i \in 1 .. Len(b) : b[i] = c
<1>1. x \in owner
  OBVIOUS
<1>2. ASSUME NEW y \in owner PROVE y = x
  <2>1. PICK i \in 1 .. Len(v.nodes[y].blocks) : v.nodes[y].blocks[i] = c
    OBVIOUS
  <2> QED BY <2>1, Clusters
<1>3. own = x
  <2> HIDE DEF owner
  <2> QED BY <1>1, <1>2
<1>4. k = j
  <2>1. b = v.nodes[x].blocks
    BY <1>3
  <2>2. \A i \in 1 .. Len(v.nodes[x].blocks) : v.nodes[x].blocks[i] = c => i = j
    BY Clusters
  <2>3. j \in 1 .. Len(b) /\ b[j] = c /\ \A i \in 1 .. Len(b) : b[i] = c => i = j
    BY <2>1, <2>2
  <2> HIDE DEF b, c
  <2> QED BY <2>3
<1>5. Link(v, c) = IF owner = {} THEN 0 ELSE IF k = Len(b) THEN End(v.kind) + 7 ELSE b[k + 1]
  BY Zenon DEF Link
<1>6. owner # {}
  BY <1>1
<1> HIDE DEF owner, own, k
<1> QED BY <1>3, <1>4, <1>5, <1>6

LEMMA LinkType ==
    ASSUME NEW v, WellFormed(v), Fat(v), NEW c
    PROVE  Link(v, c) \in Nat /\ Link(v, c) <= End(v.kind) + 7
<1> DEFINE owner == {y \in DOMAIN v.nodes :
                        \E k \in 1 .. Len(v.nodes[y].blocks) : v.nodes[y].blocks[k] = c}
<1>0. End(v.kind) \in Nat
  BY DEF End
<1>1. CASE owner = {}
  <2>1. Link(v, c) = 0
    BY <1>1, Zenon DEF Link
  <2> QED BY <1>0, <2>1
<1>2. CASE owner # {}
  <2>1. PICK x \in DOMAIN v.nodes : \E j \in 1 .. Len(v.nodes[x].blocks) : v.nodes[x].blocks[j] = c
    BY <1>2
  <2>2. PICK j \in 1 .. Len(v.nodes[x].blocks) : v.nodes[x].blocks[j] = c
    BY <2>1
  <2> DEFINE b == v.nodes[x].blocks
  <2>3. Link(v, c) = IF j = Len(b) THEN End(v.kind) + 7 ELSE b[j + 1]
    BY <2>2, LinkIs
  <2>4. b \in Seq(Nat) /\ v.clusters \in Nat /\ v.clusters + 1 < End(v.kind)
        /\ \A i \in 1 .. Len(b) : b[i] \in 2 .. v.clusters + 1
    BY Clusters
  <2> HIDE DEF b
  <2>5. CASE j = Len(b)
    BY <1>0, <2>3, <2>5
  <2>6. CASE j # Len(b)
    <3>1. j \in 1 .. Len(b)
      BY DEF b
    <3>2. j + 1 \in 1 .. Len(b)
      BY <2>4, <2>6, <3>1
    <3>3. b[j + 1] \in 2 .. v.clusters + 1
      BY <2>4, <3>2
    <3> QED BY <1>0, <2>3, <2>4, <2>6, <3>3
  <2> QED BY <2>5, <2>6
<1> QED BY <1>1, <1>2

\* The packing of twelve bits an entry, and of sixteen.
LEMMA Twelve ==
    ASSUME NEW a \in Nat, a <= 4095, NEW b \in Nat, b <= 4095
    PROVE  /\ ((a % 256) + 256 * (a \div 256 + 16 * (b % 16))) % 4096 = a
           /\ (a \div 256 + 16 * (b % 16) + 256 * (b \div 16)) \div 16 = b
<1>1. PICK q \in 0 .. 15 : a = 256 * q + (a % 256) /\ a \div 256 = q
  BY Z3
<1>2. PICK r \in Nat : r <= 255 /\ b = 16 * r + (b % 16) /\ b \div 16 = r
  BY Z3
<1>3. a % 256 \in Nat /\ a % 256 <= 255 /\ b % 16 \in 0 .. 15
  BY Z3
<1> DEFINE m == a % 256
           n == b % 16
<1> HIDE DEF m, n
<1>4. (m + 256 * (q + 16 * n)) % 4096 = 256 * q + m
  BY <1>1, <1>3, Z3 DEF m, n
<1>5. (q + 16 * n + 256 * r) \div 16 = n + 16 * r
  BY <1>2, <1>3, Z3 DEF m, n
<1> QED BY <1>1, <1>2, <1>4, <1>5 DEF m, n

LEMMA Sixteen ==
    ASSUME NEW a \in Nat, a <= 65535
    PROVE  (a % 256) + 256 * (a \div 256) = a
BY Z3

\* The driver reads from the table what it says.
LEMMA NextCluster ==
    ASSUME NEW v, WellFormed(v), Fat(v), NEW c \in 2 .. v.clusters + 1, v.clusters \in Nat
    PROVE  next_cluster(v.kind, fat_table(v), c) = Link(v, c)
<1> DEFINE T == fat_table(v)
           L == 0 .. 2 * v.clusters + 3
<1>1. CASE v.kind = "fat16"
  <2>1. \A i \in L : T[i] = IF i % 2 = 0 THEN Link(v, i \div 2) % 256 ELSE Link(v, i \div 2) \div 256
    BY <1>1, TableIs
  <2> HIDE DEF T
  <2>2. 2 * c \in L /\ 2 * c + 1 \in L
    OBVIOUS
  <2>3. (2 * c) % 2 = 0 /\ (2 * c) \div 2 = c /\ (2 * c + 1) % 2 = 1 /\ (2 * c + 1) \div 2 = c
    BY Z3
  <2>4. T[2 * c] = Link(v, c) % 256 /\ T[2 * c + 1] = Link(v, c) \div 256
    BY <2>1, <2>2, <2>3
  <2>5. Link(v, c) \in Nat /\ Link(v, c) <= 65535
    <3>1. Link(v, c) \in Nat /\ Link(v, c) <= End(v.kind) + 7
      BY LinkType
    <3>2. End(v.kind) = 65528
      BY <1>1 DEF End
    <3> QED BY <3>1, <3>2
  <2>6. next_cluster(v.kind, T, c) = T[c * 2] + 256 * T[c * 2 + 1]
    BY <1>1 DEF next_cluster
  <2>7. c * 2 = 2 * c
    OBVIOUS
  <2> DEFINE a == Link(v, c)
  <2>8. a \in Nat /\ a <= 65535 /\ next_cluster(v.kind, T, c) = (a % 256) + 256 * (a \div 256)
    BY <2>4, <2>5, <2>6, <2>7
  <2> HIDE DEF a
  <2>9. (a % 256) + 256 * (a \div 256) = a
    BY <2>8, Sixteen
  <2> QED BY <2>8, <2>9 DEF a, T
<1>2. CASE v.kind = "fat12"
  <2> DEFINE P(i) == 2 * (i \div 3)
             p == c \div 2
             o == c + p
  <2>1. \A i \in L : T[i] = CASE i % 3 = 0 -> Link(v, P(i)) % 256
                              [] i % 3 = 1 -> Link(v, P(i)) \div 256 + 16 * (Link(v, P(i) + 1) % 16)
                              [] i % 3 = 2 -> Link(v, P(i) + 1) \div 16
    BY <1>2, TableIs
  <2> HIDE DEF T
  <2>2. \A d : Link(v, d) \in Nat /\ Link(v, d) <= 4095
    <3> TAKE d
    <3>1. Link(v, d) \in Nat /\ Link(v, d) <= End(v.kind) + 7
      BY LinkType
    <3>2. End(v.kind) = 4088
      BY <1>2 DEF End
    <3> QED BY <3>1, <3>2
  <2>3. next_cluster(v.kind, T, c) =
           CASE c % 2 = 1 -> (T[o] + 256 * T[o + 1]) \div 16
             [] c % 2 = 0 -> (T[o] + 256 * T[o + 1]) % 4096
    <3>1. v.kind = "fat12" /\ v.kind # "fat16"
      BY <1>2
    <3> QED BY <3>1 DEF next_cluster
  <2>4. CASE c % 2 = 0
    <3>1. p \in Nat /\ c = 2 * p
      BY <2>4, Z3
    <3>2. o = 3 * p /\ o \in L /\ o + 1 \in L
      <4> HIDE DEF p
      <4> QED BY <3>1
    <3>3. o % 3 = 0 /\ o \div 3 = p /\ (o + 1) % 3 = 1 /\ (o + 1) \div 3 = p
      <4> HIDE DEF p
      <4> QED BY <3>1, <3>2, Z3
    <3> HIDE DEF o, p
    <3>4. T[o] = Link(v, 2 * p) % 256
      BY <2>1, <3>2, <3>3
    <3>5. T[o + 1] = Link(v, 2 * p) \div 256 + 16 * (Link(v, 2 * p + 1) % 16)
      BY <2>1, <3>2, <3>3
    <3>6. next_cluster(v.kind, T, c) = (T[o] + 256 * T[o + 1]) % 4096
      BY <2>3, <2>4
    <3> DEFINE a == Link(v, 2 * p)
               b == Link(v, 2 * p + 1)
    <3>7. a \in Nat /\ a <= 4095 /\ b \in Nat /\ b <= 4095
      BY <2>2
    <3>8. T[o] = a % 256 /\ T[o + 1] = a \div 256 + 16 * (b % 16)
      BY <3>4, <3>5
    <3> HIDE DEF a, b
    <3>9. ((a % 256) + 256 * (a \div 256 + 16 * (b % 16))) % 4096 = a
      BY <3>7, Twelve
    <3>10. next_cluster(v.kind, T, c) = a
      BY <3>6, <3>8, <3>9
    <3> QED BY <3>1, <3>10 DEF a, T
  <2>5. CASE c % 2 = 1
    <3>1. p \in Nat /\ c = 2 * p + 1
      BY <2>5, Z3
    <3>2. o = 3 * p + 1 /\ o \in L /\ o + 1 \in L
      <4> HIDE DEF p
      <4> QED BY <3>1
    <3>3. o % 3 = 1 /\ o \div 3 = p /\ (o + 1) % 3 = 2 /\ (o + 1) \div 3 = p
      <4> HIDE DEF p
      <4> QED BY <3>1, <3>2, Z3
    <3> HIDE DEF o, p
    <3>4. T[o] = Link(v, 2 * p) \div 256 + 16 * (Link(v, 2 * p + 1) % 16)
      BY <2>1, <3>2, <3>3
    <3>5. T[o + 1] = Link(v, 2 * p + 1) \div 16
      BY <2>1, <3>2, <3>3
    <3>6. next_cluster(v.kind, T, c) = (T[o] + 256 * T[o + 1]) \div 16
      BY <2>3, <2>5
    <3> DEFINE a == Link(v, 2 * p)
               b == Link(v, 2 * p + 1)
    <3>7. a \in Nat /\ a <= 4095 /\ b \in Nat /\ b <= 4095
      BY <2>2
    <3>8. T[o] = a \div 256 + 16 * (b % 16) /\ T[o + 1] = b \div 16
      BY <3>4, <3>5
    <3> HIDE DEF a, b
    <3>9. (a \div 256 + 16 * (b % 16) + 256 * (b \div 16)) \div 16 = b
      BY <3>7, Twelve
    <3>10. next_cluster(v.kind, T, c) = b
      BY <3>6, <3>8, <3>9
    <3> QED BY <3>1, <3>10 DEF b, T
  <2>6. c % 2 = 0 \/ c % 2 = 1
    BY Z3
  <2> QED BY <2>4, <2>5, <2>6
<1> QED BY <1>1, <1>2 DEF Fat

LEMMA ChainRecursion ==
    ASSUME NEW kind, NEW table, NEW first, NEW n \in Nat
    PROVE  LET at == Chain(kind, table, first, n)
           IN  at = [k \in 0 .. n |->
                        IF k = 0 THEN first
                        ELSE IF at[k - 1] >= End(kind) THEN at[k - 1] ELSE next_cluster(kind, table, at[k - 1])]
<1> DEFINE Then(c) == IF c >= End(kind) THEN c ELSE next_cluster(kind, table, c)
           Body(w, m) == [k \in 0 .. m |-> IF k = 0 THEN first ELSE Then(w[k - 1])]
           Bad == {m \in Nat : ~\E w : w = Body(w, m)}
<1> HIDE DEF Then
<1>1. ASSUME Bad # {} PROVE FALSE
  <2>1. PICK m \in Bad : \A k \in 0 .. m - 1 : k \notin Bad
    BY <1>1, LeastNat
  <2>2. m \in Nat /\ ~\E w : w = Body(w, m)
    BY <2>1
  <2>3. CASE m = 0
    <3> DEFINE u == [k \in 0 .. 0 |-> first]
    <3>1. u = Body(u, m)
      BY <2>3
    <3> QED BY <2>2, <3>1
  <2>4. CASE m # 0
    <3>1. m - 1 \in Nat /\ m - 1 \in 0 .. m - 1
      BY <2>2, <2>4
    <3>2. PICK w : w = Body(w, m - 1)
      BY <2>1, <3>1
    <3> DEFINE u == [k \in 0 .. m |-> IF k = m THEN Then(w[m - 1]) ELSE w[k]]
    <3>3. u = Body(u, m)
      BY <2>2, <2>4, <3>2
    <3> QED BY <2>2, <3>3
  <2> QED BY <2>3, <2>4
<1>2. \E w : w = Body(w, n)
  BY <1>1
<1> QED BY <1>2 DEF Chain, Then

\* Following the table from the first cluster of a file gives its clusters in their
\* order, then the end.
LEMMA ChainIs ==
    ASSUME NEW v, WellFormed(v), Fat(v), NEW x \in DOMAIN v.nodes, v.nodes[x].blocks # <<>>, NEW n \in Nat
    PROVE  LET b == v.nodes[x].blocks
           IN  \A k \in 0 .. n : Chain(v.kind, fat_table(v), b[1], n)[k] =
                                    IF k < Len(b) THEN b[k + 1] ELSE End(v.kind) + 7
<1> DEFINE b == v.nodes[x].blocks
           T == fat_table(v)
           at == Chain(v.kind, T, b[1], n)
           Next1(k) == IF k < Len(b) THEN b[k + 1] ELSE End(v.kind) + 7
           S == {k \in 0 .. n : at[k] = Next1(k)}
<1>0. /\ End(v.kind) \in Nat /\ v.clusters \in Nat /\ v.clusters + 1 < End(v.kind) /\ b \in Seq(Nat)
      /\ \A j \in 1 .. Len(b) : b[j] \in 2 .. v.clusters + 1
  BY Clusters DEF End
<1>1. Len(b) \in Nat /\ Len(b) # 0
  BY <1>0
<1>2. at = [k \in 0 .. n |->
              IF k = 0 THEN b[1]
              ELSE IF at[k - 1] >= End(v.kind) THEN at[k - 1] ELSE next_cluster(v.kind, T, at[k - 1])]
  <2> HIDE DEF T, b
  <2> QED BY ChainRecursion
<1>3. 0 \in S
  <2> HIDE DEF at, b
  <2>1. at[0] = b[1]
    BY <1>2
  <2> QED BY <1>1, <2>1
<1>4. ASSUME NEW k \in 0 .. n - 1, k \in S PROVE k + 1 \in S
  <2>1. at[k + 1] = IF at[k] >= End(v.kind) THEN at[k] ELSE next_cluster(v.kind, T, at[k])
    <3> DEFINE j == k + 1
    <3>1. j \in 0 .. n /\ j # 0 /\ j - 1 = k
      OBVIOUS
    <3>2. at[j] = IF at[j - 1] >= End(v.kind) THEN at[j - 1] ELSE next_cluster(v.kind, T, at[j - 1])
      <4> HIDE DEF j, at
      <4> QED BY <1>2, <3>1
    <3> HIDE DEF at
    <3> QED BY <3>1, <3>2
  <2>2. at[k] = Next1(k)
    BY <1>4
  <2> HIDE DEF at
  <2>3. CASE k < Len(b)
    <3>1. k + 1 \in 1 .. Len(b)
      BY <1>1, <2>3
    <3>2. at[k] = b[k + 1] /\ at[k] \in 2 .. v.clusters + 1
      BY <1>0, <2>2, <2>3, <3>1
    <3>3. at[k + 1] = next_cluster(v.kind, T, at[k])
      BY <1>0, <2>1, <3>2
    <3>4. next_cluster(v.kind, T, at[k]) = Link(v, at[k])
      BY <1>0, <3>2, NextCluster
    <3>5. Link(v, b[k + 1]) = IF k + 1 = Len(b) THEN End(v.kind) + 7 ELSE b[(k + 1) + 1]
      BY <3>1, LinkIs
    <3>6. at[k + 1] = IF k + 1 = Len(b) THEN End(v.kind) + 7 ELSE b[(k + 1) + 1]
      BY <3>2, <3>3, <3>4, <3>5
    <3> HIDE DEF b
    <3>7. at[k + 1] = Next1(k + 1)
      BY <1>1, <2>3, <3>6
    <3> QED BY <3>7
  <2>4. CASE k >= Len(b)
    <3> HIDE DEF b
    <3>1. at[k] = End(v.kind) + 7 /\ at[k] >= End(v.kind)
      BY <1>0, <1>1, <2>2, <2>4
    <3>2. at[k + 1] = End(v.kind) + 7
      BY <2>1, <3>1
    <3> QED BY <1>1, <2>4, <3>2
  <2> QED BY <1>1, <2>3, <2>4
<1> HIDE DEF S
<1>5. \A k \in 0 .. n : k \in S
  BY <1>3, <1>4, Upwards
<1> QED BY <1>5 DEF S

LEMMA Part ==
    ASSUME NEW S, NEW t \in Seq(S), NEW m \in Nat, NEW n \in Nat, n <= Len(t)
    PROVE  /\ SubSeq(t, m + 1, n) \in Seq(S)
           /\ Len(SubSeq(t, m + 1, n)) = IF m < n THEN n - m ELSE 0
           /\ \A j \in 1 .. Len(SubSeq(t, m + 1, n)) :
                 m + j \in 1 .. n /\ SubSeq(t, m + 1, n)[j] = t[m + j]
OBVIOUS

\* The clusters that are read, in the order of the file; the chain ends with the file.
LengthOf(v, x, end) ==
    LET chain == Chain(v.kind, fat_table(v), v.nodes[x].blocks[1], end)
    IN  Min({k \in 0 .. end : k = end \/ chain[k] >= End(v.kind)})
SectorsOf(v, x, end) ==
    LET chain == Chain(v.kind, fat_table(v), v.nodes[x].blocks[1], end)
    IN  [k \in 1 .. LengthOf(v, x, end) |-> (chain[k - 1] - 2) * SPC + DATA]
LEMMA FatSectors ==
    ASSUME NEW v, WellFormed(v), Fat(v), NEW x \in DOMAIN v.nodes, v.nodes[x].blocks # <<>>, NEW end \in Nat
    PROVE  LET b == v.nodes[x].blocks
               length == LengthOf(v, x, end)
               sectors == SectorsOf(v, x, end)
           IN  /\ length \in Nat /\ length = Least(end, Len(b))
               /\ sectors \in Seq(Int) /\ Len(sectors) = length
               /\ \A k \in 1 .. length : k \in 1 .. Len(b) /\ sectors[k] = (b[k] - 2) * SPC + DATA
<1> DEFINE b == v.nodes[x].blocks
           chain == Chain(v.kind, fat_table(v), b[1], end)
           M == {k \in 0 .. end : k = end \/ chain[k] >= End(v.kind)}
           length == Min(M)
           e(k) == (chain[k - 1] - 2) * SPC + DATA
           sectors == [k \in 1 .. length |-> e(k)]
<1>0. /\ End(v.kind) \in Nat /\ v.clusters \in Nat /\ v.clusters + 1 < End(v.kind) /\ b \in Seq(Nat)
      /\ \A j \in 1 .. Len(b) : b[j] \in 2 .. v.clusters + 1
  BY Clusters DEF End
<1>1. Len(b) \in Nat /\ SPC \in Nat /\ DATA \in Nat
  BY <1>0, VolumeAssumption
<1>2. \A k \in 0 .. end : chain[k] = IF k < Len(b) THEN b[k + 1] ELSE End(v.kind) + 7
  BY ChainIs
<1> HIDE DEF chain, b
<1>3. M \subseteq Nat /\ end \in M
  OBVIOUS
<1>4. length \in M /\ \A k \in M : length <= k
  <2> HIDE DEF M
  <2> QED BY <1>3, MinOf
<1>5. length \in 0 .. end /\ (length = end \/ chain[length] >= End(v.kind))
  <2> HIDE DEF length
  <2> QED BY <1>4
<1>6. length <= Len(b)
  <2>1. ASSUME Len(b) < length PROVE FALSE
    <3> HIDE DEF length, M
    <3>1. Len(b) \in 0 .. end
      BY <1>1, <1>5, <2>1
    <3>2. chain[Len(b)] = End(v.kind) + 7
      BY <1>1, <1>2, <3>1
    <3>3. Len(b) \in M
      BY <1>0, <3>1, <3>2 DEF M
    <3> QED BY <1>1, <1>4, <1>5, <2>1, <3>3
  <2> HIDE DEF length
  <2> QED BY <1>1, <1>5, <2>1
<1>7. length = end \/ length = Len(b)
  <2>1. ASSUME length # end, length < Len(b) PROVE FALSE
    <3> HIDE DEF length
    <3>1. chain[length] >= End(v.kind)
      BY <1>5, <2>1
    <3>2. length + 1 \in 1 .. Len(b) /\ chain[length] = b[length + 1]
      BY <1>1, <1>2, <1>5, <2>1
    <3>3. b[length + 1] \in 2 .. v.clusters + 1
      BY <1>0, <3>2
    <3> QED BY <1>0, <3>1, <3>2, <3>3
  <2> HIDE DEF length
  <2> QED BY <1>1, <1>5, <1>6, <2>1
<1>8. length \in Nat /\ length = Least(end, Len(b))
  <2> HIDE DEF length
  <2> QED BY <1>1, <1>5, <1>6, <1>7 DEF Least
<1> HIDE DEF length
<1>9. ASSUME NEW k \in 1 .. length
      PROVE  k \in 1 .. Len(b) /\ e(k) = (b[k] - 2) * SPC + DATA /\ e(k) \in Int
  <2>1. k \in 1 .. Len(b) /\ k - 1 \in 0 .. end /\ k - 1 < Len(b) /\ (k - 1) + 1 = k
    BY <1>1, <1>5, <1>6
  <2>2. chain[k - 1] = b[k]
    BY <1>2, <2>1
  <2>3. b[k] \in Nat
    BY <1>0, <2>1
  <2>4. (b[k] - 2) * SPC + DATA \in Int
    BY <1>1, <2>3, Z3
  <2> QED BY <2>1, <2>2, <2>4
<1> HIDE DEF e
<1>10. sectors \in Seq(Int) /\ Len(sectors) = length /\ \A k \in 1 .. length : sectors[k] = e(k)
  BY <1>8, <1>9
<1>11. \A k \in 1 .. length : k \in 1 .. Len(b) /\ sectors[k] = (b[k] - 2) * SPC + DATA
  BY <1>9, <1>10
<1>12. length = LengthOf(v, x, end)
  BY DEF length, b, chain, LengthOf
<1>13. sectors = SectorsOf(v, x, end)
  BY <1>12 DEF b, chain, e, SectorsOf
<1> HIDE DEF sectors
<1> QED BY <1>8, <1>10, <1>11, <1>12, <1>13 DEF b

\* Rounding up to blocks.
LEMMA RoundUp ==
    ASSUME NEW n \in Nat
    PROVE  (n + BS - 1) \div BS \in Nat /\ (n > 0 => (n + BS - 1) \div BS >= 1)
<1>0. BS \in Nat \ {0}
  BY VolumeAssumption
<1> DEFINE z == n + BS - 1
           q == z \div BS
           r == z % BS
<1>1. z \in Nat
  BY <1>0
<1>2. q \in Nat /\ r \in Nat /\ r < BS /\ z = BS * q + r
  <2> HIDE DEF z
  <2> QED BY <1>0, <1>1, DivMod
<1>3. ASSUME n > 0, q = 0 PROVE FALSE
  <2>1. BS * q = 0
    BY <1>0, <1>3
  <2> HIDE DEF q, r
  <2> QED BY <1>0, <1>2, <1>3, <2>1
<1>4. n > 0 => q >= 1
  <2> HIDE DEF q
  <2> QED BY <1>2, <1>3
<1> QED BY <1>2, <1>4

LEMMA FatRead ==
    ASSUME NEW v, WellFormed(v), Fat(v), NEW x \in DOMAIN v.nodes, v.nodes[x].type = "reg",
           NEW count \in Nat \ {0}, NEW offset \in Nat
    PROVE  LET node == v.nodes[x]
               data == fat_read(v.kind, fat_table(v), node, count, offset)
           IN  /\ data \in Seq(Byte)
               /\ \/ offset >= node.size
                  \/ InBlock(offset, data) /\ (SPC = 1 \/ (offset < BS /\ offset + Len(data) <= BS))
                  => Right(v, node, offset, data)
<1> DEFINE node == v.nodes[x]
           data == fat_read(v.kind, fat_table(v), node, count, offset)
           n == Clip(node.size, count, offset)
           b == node.blocks
           s == offset \div BS
           o == offset % BS
           end == s + (n + BS - 1) \div BS
           length == LengthOf(v, x, end)
           sectors == SectorsOf(v, x, end)
           list == SubSeq(sectors, s + 1, length)
<1>0. BS \in Nat \ {0} /\ SPC \in Nat \ {0} /\ node.size \in Nat /\ b \in Seq(Nat) /\ Len(b) \in Nat
  BY VolumeAssumption, NodeTypes
<1>1. node.size <= BS * Len(b) * SPC
  BY DEF WellFormed
<1>2. n \in Nat /\ (offset >= node.size => n = 0) /\ (offset < node.size => n > 0 /\ offset + n <= node.size)
  BY <1>0, ClipIs
<1>3. data = IF n = 0 THEN <<>> ELSE Chunks(list, n, o)
  BY Zenon DEF fat_read, LengthOf, SectorsOf
<1>4. s \in Nat /\ o \in Nat /\ o < BS /\ offset = BS * s + o
  BY <1>0, DivMod
<1>5. end \in Nat /\ (n > 0 => end > s)
  <2> DEFINE u == (n + BS - 1) \div BS
  <2>1. u \in Nat /\ (n > 0 => u >= 1)
    <3> HIDE DEF n
    <3> QED BY <1>2, RoundUp
  <2> HIDE DEF u, s, n
  <2>2. end = s + u
    BY DEF u
  <2> QED BY <1>4, <2>1, <2>2
<1>6. CASE n = 0
  <2>1. data = <<>> /\ offset >= node.size
    BY <1>0, <1>2, <1>3, <1>6
  <2> HIDE DEF data
  <2>2. data \in Seq(Byte) /\ Len(data) = 0
    BY <2>1
  <2> QED BY <2>1, <2>2 DEF Right, data
<1>7. CASE n # 0
  <2>1. data = Chunks(list, n, o) /\ offset < node.size
    <3> HIDE DEF data, n, list, node, b
    <3>1. data = Chunks(list, n, o)
      BY <1>3, <1>7
    <3>2. offset < node.size
      BY <1>0, <1>2, <1>7
    <3> QED BY <3>1, <3>2
  <2>2. b # <<>>
    <3>1. ASSUME Len(b) = 0 PROVE FALSE
      <4>1. BS * Len(b) * SPC = 0
        BY <1>0, <3>1
      <4> HIDE DEF b, node
      <4> QED BY <1>0, <1>1, <2>1, <4>1
    <3> HIDE DEF b
    <3> QED BY <1>0, <3>1
  <2>3. /\ length \in Nat /\ length = Least(end, Len(b))
        /\ sectors \in Seq(Int) /\ Len(sectors) = length
        /\ \A k \in 1 .. length : k \in 1 .. Len(b) /\ sectors[k] = (b[k] - 2) * SPC + DATA
    <3> HIDE DEF end
    <3>1. end \in Nat /\ v.nodes[x].blocks # <<>>
      BY <1>5, <2>2
    <3> QED BY <3>1, FatSectors
  <2> HIDE DEF sectors, length, end, n, data, b, node
  <2>4. /\ list \in Seq(Int) /\ Len(list) = IF s < length THEN length - s ELSE 0
        /\ \A j \in 1 .. Len(list) : s + j \in 1 .. length /\ list[j] = sectors[s + j]
    <3> HIDE DEF s
    <3>1. s \in Nat /\ length \in Nat /\ length <= Len(sectors) /\ sectors \in Seq(Int)
      BY <1>4, <2>3
    <3> QED BY <3>1, Part
  <2> HIDE DEF list
  <2>5. data \in Seq(Byte) /\ Len(data) = Least(Len(list) * BS, n) /\ Len(data) \in Nat /\ Len(data) <= n
    <3> HIDE DEF o
    <3> QED BY <1>2, <1>4, <2>1, <2>4, ChunksAre
  <2>6. ASSUME InBlock(offset, data), SPC = 1 \/ (offset < BS /\ offset + Len(data) <= BS)
        PROVE  Right(v, node, offset, data)
    <3>1. s < Len(b)
      <4>1. CASE SPC = 1
        <5>1. BS * Len(b) \in Nat
          BY <1>0, Product
        <5>2. BS * Len(b) * 1 = BS * Len(b)
          <6> DEFINE z == BS * Len(b)
          <6> HIDE DEF z
          <6>1. z * 1 = z
            BY <5>1 DEF z
          <6> QED BY <6>1 DEF z
        <5>3. offset < BS * Len(b)
          BY <1>0, <1>1, <2>1, <4>1, <5>1, <5>2
        <5> QED BY <1>0, <5>3, DivBound
      <4>2. CASE offset < BS
        <5>1. offset < BS * 1
          BY <1>0, <4>2
        <5>2. s < 1
          BY <1>0, <5>1, DivBound
        <5> HIDE DEF s
        <5> QED BY <1>0, <1>4, <2>2, <5>2
      <4> QED BY <2>6, <4>1, <4>2
    <3>2. s < length
      <4> HIDE DEF s
      <4> QED BY <1>0, <1>2, <1>4, <1>5, <1>7, <2>3, <3>1 DEF Least
    <3>3. data # <<>>
      <4> DEFINE z == Len(list) * BS
      <4>1. Len(list) \in Nat /\ Len(list) >= 1
        <5> HIDE DEF s
        <5> QED BY <1>4, <2>3, <2>4, <3>2
      <4>2. z = BS * Len(list) /\ z \in Nat /\ z >= 1
        BY <1>0, <4>1, Product
      <4> HIDE DEF z
      <4>3. Least(z, n) > 0
        BY <1>2, <1>7, <4>2 DEF Least
      <4>4. Len(data) > 0
        BY <2>5, <4>3 DEF z
      <4> QED BY <4>4
    <3>4. ASSUME NEW k \in 1 .. Len(data) PROVE data[k] = Where(v, node, offset + k - 1)
      <4> DEFINE p == offset + k - 1
                 d == p \div BS
                 c == p \div (BS * SPC)
                 m == d % SPC
      <4>1. d - s + 1 \in 1 .. Len(list) /\ d \in Nat /\ data[k] = <<list[d - s + 1], p % BS>>
        <5>1. offset % BS = 0 \/ (offset % BS) + Len(Chunks(list, n, offset % BS)) <= BS
          BY <2>1, <2>6 DEF InBlock
        <5>2. k \in 1 .. Len(Chunks(list, n, offset % BS))
          BY <2>1
        <5>3. /\ d - s + 1 \in 1 .. Len(list) /\ d \in Nat
              /\ Chunks(list, n, offset % BS)[k] = <<list[d - s + 1], p % BS>>
          <6>1. list \in Seq(Int) /\ n \in Nat
            BY <1>2, <2>4
          <6> QED BY <5>1, <5>2, <6>1, ChunksPlace
        <5> QED BY <2>1, <5>3
      <4>2. p \in Nat /\ p < offset + Len(data)
        BY <2>5
      <4>3. c = d /\ m = 0
        <5>1. CASE SPC = 1
          <6>1. BS * SPC = BS
            BY <1>0, <5>1
          <6>2. d % 1 = 0
            <7> HIDE DEF d
            <7> QED BY <4>1
          <6> QED BY <5>1, <6>1, <6>2
        <5>2. CASE offset < BS /\ offset + Len(data) <= BS
          <6>1. p < BS * 1
            <7> HIDE DEF p
            <7> QED BY <1>0, <2>5, <4>2, <5>2
          <6>2. BS * SPC \in Nat \ {0} /\ BS * SPC >= BS
            BY <1>0, Product
          <6>3. p < (BS * SPC) * 1
            <7> DEFINE z == BS * SPC
            <7> HIDE DEF z, p
            <7>1. p < z /\ z \in Nat
              BY <1>0, <4>2, <6>1, <6>2 DEF z
            <7>2. z * 1 = z
              BY <7>1
            <7> QED BY <7>1, <7>2 DEF z
          <6>4. d < 1 /\ d \in Nat
            <7> HIDE DEF p
            <7> QED BY <1>0, <4>2, <6>1, DivBound, DivMod
          <6>5. c < 1 /\ c \in Nat
            <7> DEFINE z == BS * SPC
            <7> HIDE DEF p, z
            <7>1. z \in Nat \ {0} /\ p < z * 1
              BY <6>2, <6>3 DEF z
            <7>2. p \div z < 1 /\ p \div z \in Nat
              BY <4>2, <7>1, DivBound, DivMod
            <7> QED BY <7>2 DEF z
          <6>6. d = 0 /\ c = 0
            <7> HIDE DEF d, c
            <7> QED BY <6>4, <6>5
          <6>7. 0 % SPC = 0
            BY <1>0, Z3
          <6> HIDE DEF d, c
          <6> QED BY <6>6, <6>7
        <5> QED BY <2>6, <5>1, <5>2
      <4>4. Where(v, node, p) = <<(b[c + 1] - 2) * SPC + DATA + m, p % BS>>
        BY DEF Where, b
      <4> HIDE DEF p, d, c, m
      <4>5. s + (d - s + 1) = d + 1
        <5> HIDE DEF s
        <5> QED BY <1>4, <4>1
      <4>6. d + 1 \in 1 .. Len(b) /\ list[d - s + 1] = (b[d + 1] - 2) * SPC + DATA
        BY <2>3, <2>4, <4>1, <4>5
      <4> DEFINE y == (b[d + 1] - 2) * SPC + DATA
      <4>7. y \in Int
        <5>1. b[d + 1] \in Nat
          BY <1>0, <4>6
        <5> QED BY <1>0, <5>1, VolumeAssumption, Z3
      <4>8. Where(v, node, p) = <<y + m, p % BS>>
        BY <4>3, <4>4
      <4>9. data[k] = <<y, p % BS>>
        BY <4>1, <4>6
      <4> HIDE DEF y
      <4>10. y + m = y
        BY <4>3, <4>7
      <4> QED BY <4>8, <4>9, <4>10 DEF p
    <3> QED BY <3>3, <3>4 DEF Right
  <2>7. ~(offset >= node.size)
    BY <1>0, <2>1
  <2> QED BY <2>5, <2>6, <2>7 DEF data, node
<1> QED BY <1>6, <1>7

\* One more indirect block of an ext2 file.
ReadOn(node, n, offset, sofar, k) ==
    IF Len(sofar) = n \/ ~Visited(node, k) THEN sofar
    ELSE sofar \o ext2_read_singly_indirect_block_pointer(
                      node, k, n - Len(sofar), IF offset < Len(sofar) THEN 0 ELSE offset - Len(sofar))
DirectBlocks(node, offset) == SubSeq(node.blocks, offset \div BS + 1, Least(DIRECT, Len(node.blocks)))

LEMMA Indirect ==
    Pointers \in Nat /\ IndirectBlocks \in Nat
<1>1. BS \in Nat \ {0} /\ PTR \in Nat \ {0}
  BY VolumeAssumption
<1>2. Pointers \in Nat
  BY <1>1, DivMod DEF Pointers
<1>3. Pointers * Pointers \in Nat
  BY <1>2, Z3
<1> QED BY <1>2, <1>3 DEF IndirectBlocks

LEMMA Ext2Recursion ==
    ASSUME NEW node, NEW count, NEW offset
    PROVE  \E got :
              /\ got = [k \in 0 .. IndirectBlocks |->
                          IF k = 0 THEN Chunks(BeforeHole(DirectBlocks(node, offset)), Clip(node.size, count, offset), offset % BS)
                          ELSE ReadOn(node, Clip(node.size, count, offset), offset, got[k - 1], k - 1)]
              /\ ext2_read(node, count, offset) = got[IndirectBlocks]
<1> DEFINE n == Clip(node.size, count, offset)
           First == Chunks(BeforeHole(DirectBlocks(node, offset)), n, offset % BS)
           Then(r, k) == ReadOn(node, n, offset, r, k)
           Body(w, m) == [k \in 0 .. m |-> IF k = 0 THEN First ELSE Then(w[k - 1], k - 1)]
           Bad == {m \in Nat : ~\E w : w = Body(w, m)}
<1> HIDE DEF n, First, Then
<1>1. ASSUME Bad # {} PROVE FALSE
  <2>1. PICK m \in Bad : \A k \in 0 .. m - 1 : k \notin Bad
    BY <1>1, LeastNat
  <2>2. m \in Nat /\ ~\E w : w = Body(w, m)
    BY <2>1
  <2>3. CASE m = 0
    <3> DEFINE u == [k \in 0 .. 0 |-> First]
    <3>1. u = Body(u, m)
      BY <2>3
    <3> QED BY <2>2, <3>1
  <2>4. CASE m # 0
    <3>1. m - 1 \in Nat /\ m - 1 \in 0 .. m - 1
      BY <2>2, <2>4
    <3>2. PICK w : w = Body(w, m - 1)
      BY <2>1, <3>1
    <3> DEFINE u == [k \in 0 .. m |-> IF k = m THEN Then(w[m - 1], m - 1) ELSE w[k]]
    <3>3. u = Body(u, m)
      BY <2>2, <2>4, <3>2
    <3> QED BY <2>2, <3>3
  <2> QED BY <2>3, <2>4
<1> HIDE DEF Bad
<1>2. PICK u : u = Body(u, IndirectBlocks)
  BY <1>1, Indirect DEF Bad
<1>3. ext2_read(node, count, offset) = (CHOOSE w : w = Body(w, IndirectBlocks))[IndirectBlocks]
  BY Zenon DEF ext2_read, n, First, Then, ReadOn, DirectBlocks
<1> DEFINE g == CHOOSE w : w = Body(w, IndirectBlocks)
<1>4. g = Body(g, IndirectBlocks)
  <2> HIDE DEF Body
  <2> QED BY <1>2
<1>5. ext2_read(node, count, offset) = g[IndirectBlocks]
  BY <1>3
<1> HIDE DEF g
<1> QED BY <1>4, <1>5 DEF n, First, Then

\* The blocks before a hole are the first of the list, and all of it when there is none.
LEMMA UpToHole ==
    ASSUME NEW list \in Seq(Int)
    PROVE  LET part == BeforeHole(list)
           IN  /\ part \in Seq(Int) /\ Len(part) <= Len(list)
               /\ \A j \in 1 .. Len(part) : j \in 1 .. Len(list) /\ part[j] = list[j]
               /\ (\A k \in 1 .. Len(list) : list[k] # Hole) => part = list
<1> DEFINE S == {k \in 1 .. Len(list) : list[k] = Hole} \cup {Len(list) + 1}
           m == Min(S)
           part == SubSeq(list, 1, m - 1)
<1>0. Len(list) \in Nat
  OBVIOUS
<1>1. S \subseteq Nat /\ Len(list) + 1 \in S /\ S \subseteq 1 .. Len(list) + 1
  BY <1>0
<1>2. m \in S
  <2> HIDE DEF S
  <2> QED BY <1>1, MinOf
<1>3. m - 1 \in Nat /\ m - 1 <= Len(list)
  <2> HIDE DEF S, m
  <2> QED BY <1>0, <1>1, <1>2
<1>4. BeforeHole(list) = part
  BY DEF BeforeHole
<1>5. ASSUME \A k \in 1 .. Len(list) : list[k] # Hole PROVE m - 1 = Len(list)
  <2>1. m = Len(list) + 1
    <3> HIDE DEF m
    <3> QED BY <1>2, <1>5
  <2> HIDE DEF m
  <2> QED BY <1>0, <2>1
<1> DEFINE n == m - 1
<1> HIDE DEF S, m
<1>6. n \in Nat /\ n <= Len(list) /\ part = SubSeq(list, 0 + 1, n) /\ 0 \in Nat
  BY <1>3
<1> HIDE DEF n, part
<1>7. /\ part \in Seq(Int) /\ Len(part) = IF 0 < n THEN n - 0 ELSE 0
      /\ \A j \in 1 .. Len(part) : 0 + j \in 1 .. n /\ part[j] = list[0 + j]
  BY <1>6, Part
<1>8. Len(part) = n
  BY <1>6, <1>7
<1>9. \A j \in 1 .. Len(part) : j \in 1 .. Len(list) /\ part[j] = list[j]
  <2> TAKE j \in 1 .. Len(part)
  <2>1. 0 + j = j
    BY <1>6, <1>8
  <2> QED BY <1>0, <1>6, <1>7, <1>8, <2>1
<1>10. ASSUME \A k \in 1 .. Len(list) : list[k] # Hole PROVE part = list
  <2>1. Len(part) = Len(list)
    BY <1>5, <1>8, <1>10 DEF n
  <2> QED BY <1>7, <1>9, <2>1
<1> QED BY <1>4, <1>6, <1>7, <1>8, <1>9, <1>10

\* The bytes of a read lie in the file's blocks.
Owned(node, list) == \A j \in 1 .. Len(list) : \E i \in 1 .. Len(node.blocks) : list[j] = node.blocks[i]
OwnBytes(node, data) == \A k \in 1 .. Len(data) : \E i \in 1 .. Len(node.blocks) : data[k][1] = node.blocks[i]

LEMMA ChunksOwned ==
    ASSUME NEW node, NEW list \in Seq(Int), Owned(node, list), NEW count \in Nat, NEW off \in Nat
    PROVE  OwnBytes(node, Chunks(list, count, off))
<1> DEFINE c == Chunks(list, count, off)
<1>1. ASSUME NEW k \in 1 .. Len(c) PROVE \E i \in 1 .. Len(node.blocks) : c[k][1] = node.blocks[i]
  <2> DEFINE q == (k - 1) \div BS + 1
             r == off + ((k - 1) % BS)
  <2>1. q \in 1 .. Len(list) /\ c[k] = <<list[q], r>>
    BY <1>1, ChunksAre
  <2> HIDE DEF q, r, c
  <2>2. c[k][1] = list[q]
    BY <2>1
  <2> QED BY <2>1, <2>2 DEF Owned
<1> QED BY <1>1 DEF OwnBytes

LEMMA HoleOwned ==
    ASSUME NEW node, NEW list \in Seq(Int), Owned(node, list)
    PROVE  BeforeHole(list) \in Seq(Int) /\ Owned(node, BeforeHole(list))
<1> DEFINE part == BeforeHole(list)
<1>1. part \in Seq(Int) /\ \A j \in 1 .. Len(part) : j \in 1 .. Len(list) /\ part[j] = list[j]
  BY UpToHole
<1> HIDE DEF part
<1>2. Owned(node, part)
  BY <1>1 DEF Owned
<1> QED BY <1>1, <1>2 DEF part

\* The blocks an indirect block points to.
LEMMA PointersAre ==
    ASSUME NEW node, node.blocks \in Seq(Nat), NEW k \in Nat
    PROVE  LET first == DIRECT + k * Pointers
               end == Least(first + Pointers, Len(node.blocks))
               table == Table(node, k)
           IN  /\ table \in Seq(Int) /\ Len(table) = (IF first < end THEN end - first ELSE 0)
               /\ first \in Nat /\ end \in Nat /\ end <= Len(node.blocks)
               /\ \A j \in 1 .. Len(table) : first + j \in 1 .. end /\ table[j] = node.blocks[first + j]
<1> DEFINE b == node.blocks
           first == DIRECT + k * Pointers
           end == Least(first + Pointers, Len(b))
           table == SubSeq(b, first + 1, end)
<1>0. DIRECT \in Nat /\ Pointers \in Nat
  BY VolumeAssumption, Indirect
<1>1. first \in Nat
  <2>1. k * Pointers \in Nat
    BY <1>0, Z3
  <2> QED BY <1>0, <2>1
<1>2. b \in Seq(Int) /\ Len(b) \in Nat
  OBVIOUS
<1>3. Table(node, k) = table
  BY DEF Table
<1> HIDE DEF b, first
<1>4. end \in Nat /\ end <= Len(b)
  BY <1>0, <1>1, <1>2 DEF Least
<1> HIDE DEF end
<1>5. /\ table \in Seq(Int) /\ Len(table) = IF first < end THEN end - first ELSE 0
      /\ \A j \in 1 .. Len(table) : first + j \in 1 .. end /\ table[j] = b[first + j]
  BY <1>1, <1>2, <1>4, Part
<1> QED BY <1>1, <1>3, <1>4, <1>5 DEF b, first, end

\* What an indirect block gives; from its first pointer on, the blocks of the file from
\* the one its first pointer stands for.
LEMMA Singly ==
    ASSUME NEW node, node.blocks \in Seq(Nat), NEW k \in Nat, NEW count \in Nat, NEW offset \in Nat
    PROVE  LET data == ext2_read_singly_indirect_block_pointer(node, k, count, offset)
           IN  data \in Seq(Byte) /\ Len(data) \in Nat /\ Len(data) <= count /\ OwnBytes(node, data)
<1> DEFINE table == Table(node, k)
           start == (offset \div BS) \div PTR
           list == SubSeq(table, start + 1, Len(table))
           o == offset % BS
<1>0. BS \in Nat \ {0} /\ PTR \in Nat \ {0}
  BY VolumeAssumption
<1>3. ext2_read_singly_indirect_block_pointer(node, k, count, offset) = Chunks(BeforeHole(list), count, o)
  BY DEF ext2_read_singly_indirect_block_pointer
<1>5. table \in Seq(Int) /\ Len(table) \in Nat /\ Owned(node, table)
  <2> DEFINE first == DIRECT + k * Pointers
             end == Least(first + Pointers, Len(node.blocks))
  <2>1. /\ table \in Seq(Int) /\ end \in Nat /\ end <= Len(node.blocks)
        /\ \A j \in 1 .. Len(table) : first + j \in 1 .. end /\ table[j] = node.blocks[first + j]
    BY PointersAre
  <2> HIDE DEF first, end, table
  <2>2. Len(node.blocks) \in Nat
    OBVIOUS
  <2>3. Owned(node, table)
    <3>1. ASSUME NEW j \in 1 .. Len(table) PROVE \E i \in 1 .. Len(node.blocks) : table[j] = node.blocks[i]
      <4>1. first + j \in 1 .. Len(node.blocks) /\ table[j] = node.blocks[first + j]
        BY <2>1, <2>2
      <4> QED BY <4>1
    <3> QED BY <3>1 DEF Owned
  <2> QED BY <2>1, <2>3
<1> HIDE DEF table
<1>6. start \in Nat /\ o \in Nat
  <2> DEFINE z == offset \div BS
  <2>1. z \in Nat /\ o \in Nat
    BY <1>0, DivMod
  <2> HIDE DEF z
  <2>2. z \div PTR \in Nat
    BY <1>0, <2>1, DivMod
  <2> QED BY <2>1, <2>2 DEF z
<1> HIDE DEF start, o
<1>7. list \in Seq(Int) /\ Owned(node, list)
  <2>1. Len(table) <= Len(table)
    BY <1>5
  <2>2. /\ list \in Seq(Int)
        /\ \A j \in 1 .. Len(list) : start + j \in 1 .. Len(table) /\ list[j] = table[start + j]
    BY <1>5, <1>6, <2>1, Part
  <2> HIDE DEF list
  <2>3. Owned(node, list)
    BY <1>5, <2>2 DEF Owned
  <2> QED BY <2>2, <2>3
<1> HIDE DEF list
<1> DEFINE part == BeforeHole(list)
<1>8. part \in Seq(Int) /\ Owned(node, part)
  BY <1>7, HoleOwned
<1> HIDE DEF part
<1>9. /\ Chunks(part, count, o) \in Seq(Byte) /\ Len(Chunks(part, count, o)) \in Nat
      /\ Len(Chunks(part, count, o)) <= count
  BY <1>6, <1>8, ChunksAre
<1>10. OwnBytes(node, Chunks(part, count, o))
  BY <1>6, <1>8, ChunksOwned
<1> QED BY <1>3, <1>9, <1>10 DEF part

PointedTo(node, k, count, list) ==
    LET first == DIRECT + k * Pointers
        end == Least(first + Pointers, Len(node.blocks))
    IN  /\ ext2_read_singly_indirect_block_pointer(node, k, count, 0) = Chunks(list, count, 0)
        /\ Len(list) = IF first < end THEN end - first ELSE 0
        /\ \A j \in 1 .. Len(list) : first + j \in 1 .. end /\ list[j] = node.blocks[first + j]
LEMMA SinglyFirst ==
    ASSUME NEW node, node.blocks \in Seq(Nat), Whole(node), NEW k \in Nat, NEW count \in Nat
    PROVE  \E list \in Seq(Int) : PointedTo(node, k, count, list)
<1> DEFINE b == node.blocks
           first == DIRECT + k * Pointers
           end == Least(first + Pointers, Len(b))
           table == Table(node, k)
           list == SubSeq(table, 0 + 1, Len(table))
<1>0. BS \in Nat \ {0} /\ PTR \in Nat \ {0}
  BY VolumeAssumption
<1>a. 0 \div BS = 0 /\ 0 % BS = 0 /\ 0 \div PTR = 0
  BY <1>0, Z3
<1>3. ext2_read_singly_indirect_block_pointer(node, k, count, 0) = Chunks(BeforeHole(list), count, 0)
  <2>1. (0 \div BS) \div PTR = 0
    BY <1>a
  <2> QED BY <1>a, <2>1 DEF ext2_read_singly_indirect_block_pointer
<1>5. /\ table \in Seq(Int) /\ Len(table) = (IF first < end THEN end - first ELSE 0)
      /\ first \in Nat /\ end \in Nat /\ end <= Len(b)
      /\ \A j \in 1 .. Len(table) : first + j \in 1 .. end /\ table[j] = b[first + j]
  BY PointersAre
<1>b. Len(b) \in Nat /\ \A i \in 1 .. Len(b) : b[i] # Hole
  BY DEF Whole
<1> HIDE DEF b, first, end
<1>6. Len(table) \in Nat /\ Len(table) <= Len(table)
  BY <1>5
<1> HIDE DEF table
<1>7. /\ list \in Seq(Int) /\ Len(list) = IF 0 < Len(table) THEN Len(table) - 0 ELSE 0
      /\ \A j \in 1 .. Len(list) : 0 + j \in 1 .. Len(table) /\ list[j] = table[0 + j]
  <2>1. 0 \in Nat
    OBVIOUS
  <2> QED BY <1>5, <1>6, <2>1, Part
<1> HIDE DEF list
<1>8. Len(list) = Len(table)
  BY <1>6, <1>7
<1>9. \A j \in 1 .. Len(list) : first + j \in 1 .. end /\ list[j] = b[first + j]
  <2> TAKE j \in 1 .. Len(list)
  <2>1. j \in 1 .. Len(table) /\ list[j] = table[0 + j]
    BY <1>7, <1>8
  <2>2. 0 + j = j
    BY <1>6, <2>1
  <2> QED BY <1>5, <2>1, <2>2
<1>10. BeforeHole(list) = list
  <2>1. \A j \in 1 .. Len(list) : list[j] # Hole
    BY <1>5, <1>9, <1>b
  <2> QED BY <1>7, <2>1, UpToHole
<1> QED BY <1>3, <1>5, <1>7, <1>8, <1>9, <1>10 DEF b, first, end, PointedTo
\* A read of the direct and the indirect blocks, block after block.
Reads(node, count, offset, got) ==
    got = [k \in 0 .. IndirectBlocks |->
              IF k = 0 THEN Chunks(BeforeHole(DirectBlocks(node, offset)), Clip(node.size, count, offset), offset % BS)
              ELSE ReadOn(node, Clip(node.size, count, offset), offset, got[k - 1], k - 1)]

LEMMA DirectAre ==
    ASSUME NEW node, node.blocks \in Seq(Nat), NEW offset \in Nat
    PROVE  LET list == DirectBlocks(node, offset)
               s == offset \div BS
               end == Least(DIRECT, Len(node.blocks))
           IN  /\ list \in Seq(Int) /\ Len(list) = IF s < end THEN end - s ELSE 0
               /\ \A j \in 1 .. Len(list) : s + j \in 1 .. end /\ list[j] = node.blocks[s + j]
<1> DEFINE b == node.blocks
           s == offset \div BS
           end == Least(DIRECT, Len(b))
<1>0. BS \in Nat \ {0} /\ DIRECT \in Nat
  BY VolumeAssumption
<1>1. s \in Nat
  BY <1>0, DivMod
<1>2. b \in Seq(Int) /\ Len(b) \in Nat
  OBVIOUS
<1>3. DirectBlocks(node, offset) = SubSeq(b, s + 1, end)
  BY DEF DirectBlocks
<1> HIDE DEF b, s
<1>4. end \in Nat /\ end <= Len(b)
  BY <1>0, <1>2 DEF Least
<1> HIDE DEF end
<1>5. /\ SubSeq(b, s + 1, end) \in Seq(Int) /\ Len(SubSeq(b, s + 1, end)) = IF s < end THEN end - s ELSE 0
      /\ \A j \in 1 .. Len(SubSeq(b, s + 1, end)) : s + j \in 1 .. end /\ SubSeq(b, s + 1, end)[j] = b[s + j]
  BY <1>1, <1>2, <1>4, Part
<1> QED BY <1>3, <1>5 DEF b, s, end

LEMMA DirectOwned ==
    ASSUME NEW node, node.blocks \in Seq(Nat), NEW offset \in Nat
    PROVE  LET list == DirectBlocks(node, offset)
           IN  /\ BeforeHole(list) \in Seq(Int) /\ Owned(node, BeforeHole(list))
               /\ Whole(node) => BeforeHole(list) = list
<1> DEFINE list == DirectBlocks(node, offset)
           s == offset \div BS
           end == Least(DIRECT, Len(node.blocks))
<1>1. list \in Seq(Int) /\ \A j \in 1 .. Len(list) : s + j \in 1 .. end /\ list[j] = node.blocks[s + j]
  BY DirectAre
<1>2. Len(node.blocks) \in Nat /\ DIRECT \in Nat
  BY VolumeAssumption
<1>3. end \in Nat /\ end <= Len(node.blocks)
  BY <1>2 DEF Least
<1> HIDE DEF list, s, end
<1>4. ASSUME NEW j \in 1 .. Len(list) PROVE s + j \in 1 .. Len(node.blocks) /\ list[j] = node.blocks[s + j]
  BY <1>1, <1>2, <1>3
<1>5. Owned(node, list)
  BY <1>4 DEF Owned
<1>6. ASSUME Whole(node) PROVE BeforeHole(list) = list
  <2>1. \A j \in 1 .. Len(list) : list[j] # Hole
    BY <1>4, <1>6 DEF Whole
  <2> QED BY <1>1, <2>1, UpToHole
<1>7. BeforeHole(list) \in Seq(Int) /\ Owned(node, BeforeHole(list))
  BY <1>1, <1>5, HoleOwned
<1> QED BY <1>6, <1>7 DEF list

LEMMA Ext2Grows ==
    ASSUME NEW node, node.blocks \in Seq(Nat), node.size \in Nat, NEW count \in Nat \ {0}, NEW offset \in Nat,
           NEW got, Reads(node, count, offset, got)
    PROVE  \A k \in 0 .. IndirectBlocks :
              /\ got[k] \in Seq(Byte) /\ Len(got[k]) \in Nat /\ Len(got[k]) <= Clip(node.size, count, offset)
              /\ Len(got[0]) \in Nat /\ Len(got[0]) <= Len(got[k])
              /\ \A i \in 1 .. Len(got[0]) : got[k][i] = got[0][i]
              /\ OwnBytes(node, got[k])
<1> DEFINE n == Clip(node.size, count, offset)
           Good(k) == /\ got[k] \in Seq(Byte) /\ Len(got[k]) \in Nat /\ Len(got[k]) <= n
                      /\ Len(got[0]) \in Nat /\ Len(got[0]) <= Len(got[k])
                      /\ \A i \in 1 .. Len(got[0]) : got[k][i] = got[0][i]
                      /\ OwnBytes(node, got[k])
           S == {k \in 0 .. IndirectBlocks : Good(k)}
<1>0. BS \in Nat \ {0} /\ IndirectBlocks \in Nat /\ n \in Nat
  BY VolumeAssumption, Indirect, ClipIs
<1>1. 0 \in 0 .. IndirectBlocks /\ got[0] = Chunks(BeforeHole(DirectBlocks(node, offset)), n, offset % BS)
  <2>1. 0 \in 0 .. IndirectBlocks
    BY <1>0
  <2> QED BY <2>1 DEF Reads
<1>2. ASSUME NEW k \in 0 .. IndirectBlocks - 1
      PROVE  k \in 0 .. IndirectBlocks /\ k + 1 \in 0 .. IndirectBlocks /\ got[k + 1] = ReadOn(node, n, offset, got[k], k)
  <2>1. k \in 0 .. IndirectBlocks /\ k + 1 \in 0 .. IndirectBlocks /\ k + 1 # 0 /\ (k + 1) - 1 = k
    BY <1>0
  <2>2. got[k + 1] = ReadOn(node, n, offset, got[(k + 1) - 1], (k + 1) - 1)
    BY <2>1 DEF Reads
  <2> QED BY <2>1, <2>2
<1> HIDE DEF n
<1>3. 0 \in S
  <2>1. offset % BS \in Nat
    BY <1>0, DivMod
  <2>2. BeforeHole(DirectBlocks(node, offset)) \in Seq(Int) /\ Owned(node, BeforeHole(DirectBlocks(node, offset)))
    BY DirectOwned
  <2>3. got[0] \in Seq(Byte) /\ Len(got[0]) \in Nat /\ Len(got[0]) <= n /\ OwnBytes(node, got[0])
    <3> DEFINE list == BeforeHole(DirectBlocks(node, offset))
               o == offset % BS
    <3>1. list \in Seq(Int) /\ Owned(node, list) /\ o \in Nat /\ got[0] = Chunks(list, n, o)
      BY <1>1, <2>1, <2>2
    <3> HIDE DEF list, o
    <3>2. OwnBytes(node, got[0])
      BY <1>0, <3>1, ChunksOwned
    <3>3. got[0] \in Seq(Byte) /\ Len(got[0]) \in Nat /\ Len(got[0]) <= n
      <4>1. list \in Seq(Int) /\ o \in Nat /\ got[0] = Chunks(list, n, o)
        BY <3>1
      <4> QED BY <1>0, <4>1, ChunksAre
    <3> QED BY <3>2, <3>3
  <2>4. Len(got[0]) <= Len(got[0])
    BY <2>3
  <2> QED BY <1>1, <2>3, <2>4
<1>4. ASSUME NEW k \in 0 .. IndirectBlocks - 1, k \in S PROVE k + 1 \in S
  <2> DEFINE L == Len(got[k])
             o == IF offset < L THEN 0 ELSE offset - L
             more == ext2_read_singly_indirect_block_pointer(node, k, n - L, o)
  <2>0. k \in Nat /\ Good(k)
    BY <1>0, <1>4
  <2>1. got[k + 1] = IF L = n \/ ~Visited(node, k) THEN got[k] ELSE got[k] \o more
    BY <1>2 DEF ReadOn
  <2>2. n - L \in Nat /\ o \in Nat
    BY <1>0, <2>0
  <2>3. more \in Seq(Byte) /\ Len(more) \in Nat /\ Len(more) <= n - L /\ OwnBytes(node, more)
    <3> HIDE DEF o, L, Good
    <3> QED BY <2>0, <2>2, Singly
  <2> HIDE DEF more
  <2>4. CASE L = n \/ ~Visited(node, k)
    <3>1. got[k + 1] = got[k]
      BY <2>1, <2>4
    <3>2. Good(k + 1)
      BY <2>0, <3>1
    <3> QED BY <1>2, <3>2
  <2>5. CASE ~(L = n \/ ~Visited(node, k))
    <3>1. got[k + 1] = got[k] \o more
      BY <2>1, <2>5
    <3>2. /\ got[k] \o more \in Seq(Byte) /\ Len(got[k] \o more) = L + Len(more)
          /\ \A i \in 1 .. L : (got[k] \o more)[i] = got[k][i]
          /\ \A i \in 1 .. Len(more) : (got[k] \o more)[L + i] = more[i]
      BY <2>0, <2>3, Joined
    <3> DEFINE g == got[k + 1]
    <3>3. /\ g \in Seq(Byte) /\ Len(g) = L + Len(more) /\ \A i \in 1 .. L : g[i] = got[k][i]
          /\ \A i \in 1 .. Len(more) : g[L + i] = more[i]
      BY <3>1, <3>2
    <3> HIDE DEF g
    <3>4. Len(g) \in Nat /\ Len(g) <= n /\ Len(got[0]) <= Len(g)
      BY <1>0, <2>0, <2>3, <3>3
    <3>5. ASSUME NEW i \in 1 .. Len(got[0]) PROVE g[i] = got[0][i]
      <4>1. i \in 1 .. L
        BY <2>0
      <4> QED BY <2>0, <3>3, <4>1
    <3>7. OwnBytes(node, g)
      <4>1. ASSUME NEW i \in 1 .. Len(g) PROVE \E j \in 1 .. Len(node.blocks) : g[i][1] = node.blocks[j]
        <5>1. CASE i <= L
          <6>1. i \in 1 .. L /\ g[i] = got[k][i]
            BY <2>0, <3>3, <5>1
          <6> QED BY <2>0, <6>1 DEF OwnBytes
        <5>2. CASE ~(i <= L)
          <6>1. i - L \in 1 .. Len(more) /\ L + (i - L) = i
            BY <2>0, <2>3, <3>3, <3>4, <5>2
          <6>2. g[i] = more[i - L]
            BY <3>3, <6>1
          <6> QED BY <2>3, <6>1, <6>2 DEF OwnBytes
        <5> QED BY <5>1, <5>2
      <4> QED BY <4>1 DEF OwnBytes
    <3>6. Good(k + 1)
      BY <2>0, <3>3, <3>4, <3>5, <3>7 DEF g
    <3> HIDE DEF Good
    <3> QED BY <1>2, <3>6
  <2> QED BY <2>4, <2>5
<1> HIDE DEF S
<1>5. \A k \in 0 .. IndirectBlocks : k \in S
  BY <1>0, <1>3, <1>4, Upwards
<1> QED BY <1>5 DEF S, n

\* In a file without holes the indirect blocks up to its last block are there, so all of
\* them are reached.
LEMMA Reached ==
    ASSUME NEW node, node.blocks \in Seq(Nat), Whole(node), NEW k \in 0 .. IndirectBlocks - 1,
           DIRECT + k * Pointers < Len(node.blocks)
    PROVE  Visited(node, k)
<1>0. IndirectBlocks \in Nat /\ DIRECT \in Nat /\ Len(node.blocks) \in Nat
  BY Indirect, VolumeAssumption
<1>1. Pointers \in Nat \ {0}
  <2>1. BS \in Nat \ {0} /\ PTR \in Nat \ {0} /\ BS % PTR = 0
    BY VolumeAssumption
  <2>2. Pointers \in Nat /\ BS = PTR * Pointers + (BS % PTR)
    BY <2>1, DivMod DEF Pointers
  <2>3. PTR * 0 = 0
    BY <2>1
  <2> QED BY <2>1, <2>2, <2>3
<1>2. ASSUME NEW j \in 0 .. k PROVE Present(node, j)
  <2> DEFINE first == DIRECT + j * Pointers
             end == Least(first + Pointers, Len(node.blocks))
             table == Table(node, j)
  <2>1. j \in Nat /\ k \in Nat /\ k - j \in Nat
    BY <1>0, <1>2
  <2>2. first < Len(node.blocks)
    <3>1. k * Pointers = j * Pointers + (k - j) * Pointers /\ (k - j) * Pointers \in Nat /\ j * Pointers \in Nat
      BY <1>1, <2>1, Z3
    <3> DEFINE x == k * Pointers
               y == j * Pointers
               z == (k - j) * Pointers
    <3>2. x = y + z /\ y \in Nat /\ z \in Nat /\ DIRECT + x < Len(node.blocks)
      BY <3>1
    <3> HIDE DEF x, y, z
    <3>3. DIRECT + y < Len(node.blocks)
      BY <1>0, <3>2
    <3> QED BY <3>3 DEF y
  <2>3. /\ Len(table) = (IF first < end THEN end - first ELSE 0)
        /\ first \in Nat /\ end \in Nat /\ end <= Len(node.blocks)
        /\ \A i \in 1 .. Len(table) : first + i \in 1 .. end /\ table[i] = node.blocks[first + i]
    BY <2>1, PointersAre
  <2> HIDE DEF first, table
  <2>4. first < end
    BY <1>0, <1>1, <2>2, <2>3 DEF Least
  <2> HIDE DEF end
  <2>5. 1 \in 1 .. Len(table)
    BY <2>3, <2>4
  <2>6. first + 1 \in 1 .. Len(node.blocks) /\ table[1] = node.blocks[first + 1]
    BY <1>0, <2>3, <2>5
  <2>7. table[1] # Hole
    BY <2>6 DEF Whole
  <2> QED BY <2>5, <2>7 DEF Present, table
<1>3. \A j \in 0 .. k : Parent(j) = Parent(k) => Present(node, j)
  BY <1>2
<1>4. ASSUME NEW j \in Pointers + 1 .. k
      PROVE  \E i \in 0 .. IndirectBlocks - 1 : Parent(i) = Parent(j) /\ Present(node, i)
  <2>1. j \in 0 .. k /\ j \in 0 .. IndirectBlocks - 1
    BY <1>0, <1>1, <1>4
  <2> QED BY <1>2, <2>1
<1> QED BY <1>3, <1>4 DEF Visited

\* The list has the blocks of b after the f-th, up to the size-th.
BlocksFrom(b, f, size, list) ==
    LET end == Least(size, Len(b))
    IN  /\ Len(list) = IF f < end THEN end - f ELSE 0
        /\ \A j \in 1 .. Len(list) : f + j \in 1 .. end /\ list[j] = b[f + j]

\* From the beginning of the file: the bytes that were read are the file's, and while
\* some are missing the blocks so far were read to their end.
LEMMA Ext2Whole ==
    ASSUME NEW node, node.blocks \in Seq(Nat), Whole(node), node.size \in Nat, node.size <= BS * Len(node.blocks),
           NEW count \in Nat \ {0}, NEW got, Reads(node, count, 0, got)
    PROVE  \A k \in 0 .. IndirectBlocks : \A i \in 1 .. Len(got[k]) :
              got[k][i] = <<node.blocks[(i - 1) \div BS + 1], (i - 1) % BS>>
<1> DEFINE b == node.blocks
           n == Clip(node.size, count, 0)
           F(k) == DIRECT + k * Pointers
           At(i) == <<b[(i - 1) \div BS + 1], (i - 1) % BS>>
           Good(k) == /\ \A i \in 1 .. Len(got[k]) : got[k][i] = At(i)
                      /\ Len(got[k]) # n => Len(got[k]) = BS * F(k)
           S == {k \in 0 .. IndirectBlocks : Good(k)}
<1>0. /\ BS \in Nat \ {0} /\ IndirectBlocks \in Nat /\ n \in Nat /\ DIRECT \in Nat \ {0} /\ Pointers \in Nat
      /\ Len(b) \in Nat
  <2>1. 0 \in Nat
    OBVIOUS
  <2>2. n \in Nat
    BY <2>1, ClipIs
  <2> QED BY <2>2, VolumeAssumption, Indirect
<1>1. n <= BS * Len(b) /\ BS * Len(b) \in Nat
  <2>1. BS * Len(b) \in Nat
    BY <1>0, Product
  <2>2. n <= node.size
    BY <1>0 DEF Clip
  <2> DEFINE z == BS * Len(b)
  <2>3. z \in Nat /\ node.size <= z
    BY <2>1
  <2> HIDE DEF z, n
  <2>4. n <= z
    BY <1>0, <2>2, <2>3
  <2> QED BY <2>1, <2>4 DEF z
<1>2. \A k \in 0 .. IndirectBlocks : got[k] \in Seq(Byte) /\ Len(got[k]) \in Nat /\ Len(got[k]) <= n
  BY Ext2Grows
<1>3. 0 \in 0 .. IndirectBlocks /\ got[0] = Chunks(DirectBlocks(node, 0), n, 0 % BS)
  <2>1. 0 \in 0 .. IndirectBlocks /\ 0 \in Nat
    BY <1>0
  <2>2. BeforeHole(DirectBlocks(node, 0)) = DirectBlocks(node, 0)
    BY <2>1, DirectOwned
  <2>3. got[0] = Chunks(BeforeHole(DirectBlocks(node, 0)), n, 0 % BS)
    BY <2>1 DEF Reads
  <2> QED BY <2>1, <2>2, <2>3
<1>4. ASSUME NEW k \in 0 .. IndirectBlocks - 1
      PROVE  k \in 0 .. IndirectBlocks /\ k + 1 \in 0 .. IndirectBlocks /\ got[k + 1] = ReadOn(node, n, 0, got[k], k)
  <2>1. k \in 0 .. IndirectBlocks /\ k + 1 \in 0 .. IndirectBlocks /\ k + 1 # 0 /\ (k + 1) - 1 = k
    BY <1>0
  <2>2. got[k + 1] = ReadOn(node, n, 0, got[(k + 1) - 1], (k + 1) - 1)
    BY <2>1 DEF Reads
  <2> QED BY <2>1, <2>2
<1>5. 0 \div BS = 0 /\ 0 % BS = 0
  BY <1>0, Z3
<1> HIDE DEF n
<1>6. ASSUME NEW list \in Seq(Int), NEW f \in Nat, NEW c \in Nat, f * BS + c <= BS * Len(b),
             NEW size \in Nat, size >= f, BlocksFrom(b, f, size, list)
      PROVE  LET more == Chunks(list, c, 0)
             IN  /\ more \in Seq(Byte)
                 /\ \A i \in 1 .. Len(more) : more[i] = At(BS * f + i)
                 /\ Len(more) # c => BS * f + Len(more) = BS * size
  <2> DEFINE more == Chunks(list, c, 0)
             end == Least(size, Len(b))
  <2>1. /\ more \in Seq(Byte) /\ Len(more) \in Nat /\ Len(more) = Least(Len(list) * BS, c)
        /\ \A i \in 1 .. Len(more) :
              (i - 1) \div BS + 1 \in 1 .. Len(list) /\ more[i] = <<list[(i - 1) \div BS + 1], 0 + ((i - 1) % BS)>>
    <3>1. 0 \in Nat
      OBVIOUS
    <3> QED BY <1>6, <3>1, ChunksAre
  <2> HIDE DEF more, b
  <2>2. ASSUME NEW i \in 1 .. Len(more) PROVE more[i] = At(BS * f + i)
    <3> DEFINE q == (i - 1) \div BS
               r == (i - 1) % BS
               p == BS * f + i
    <3>1. q \in Nat /\ r \in Nat /\ r < BS /\ i - 1 = BS * q + r
      <4>1. i - 1 \in Nat
        BY <2>1
      <4> QED BY <1>0, <4>1, DivMod
    <3>2. q + 1 \in 1 .. Len(list) /\ more[i] = <<list[q + 1], r>>
      <4>1. q + 1 \in 1 .. Len(list) /\ more[i] = <<list[q + 1], 0 + r>>
        BY <2>1
      <4> HIDE DEF q, r
      <4>2. 0 + r = r
        BY <3>1
      <4> QED BY <4>1, <4>2
    <3> HIDE DEF q, r
    <3>3. list[q + 1] = b[f + (q + 1)]
      BY <1>6, <3>2 DEF BlocksFrom
    <3>4. BS * (f + q) = BS * f + BS * q
      BY <1>0, <3>1, Z3
    <3>5. p - 1 = BS * (f + q) + r /\ f + q \in Nat /\ f + (q + 1) = (f + q) + 1
      <4> DEFINE y == BS * f
                 z == BS * q
                 w == BS * (f + q)
      <4>1. y \in Nat /\ z \in Nat /\ w = y + z /\ i - 1 = z + r /\ i \in Nat
        <5>1. y \in Nat /\ z \in Nat
          BY <1>0, <1>6, <3>1, Product
        <5> QED BY <2>1, <3>1, <3>4, <5>1
      <4>2. p = y + i
        OBVIOUS
      <4> HIDE DEF w, y, z, p
      <4>3. p - 1 = w + r
        BY <3>1, <4>1, <4>2
      <4>4. f + q \in Nat /\ f + (q + 1) = (f + q) + 1
        BY <3>1
      <4> QED BY <4>3, <4>4 DEF w
    <3>6. (BS * (f + q) + r) \div BS = f + q /\ (BS * (f + q) + r) % BS = r
      <4> DEFINE h == f + q
      <4>1. h \in Nat
        BY <3>5
      <4> HIDE DEF h
      <4>2. (BS * h + r) \div BS = h /\ (BS * h + r) % BS = r
        BY <1>0, <3>1, <4>1, DivUnique
      <4> QED BY <4>2 DEF h
    <3> HIDE DEF p
    <3>7. At(p) = <<b[(f + q) + 1], r>>
      BY <3>5, <3>6
    <3> QED BY <3>2, <3>3, <3>5, <3>7 DEF p
  <2>3. ASSUME Len(more) # c PROVE BS * f + Len(more) = BS * size
    <3> DEFINE l == Len(list)
               z == l * BS
    <3>0. l \in Nat
      OBVIOUS
    <3>1. z \in Nat /\ z = BS * l /\ BS * f \in Nat /\ f * BS = BS * f
      <4> HIDE DEF l
      <4> QED BY <1>0, <3>0, Z3
    <3>2. Len(more) = z /\ z < c
      <4>1. Len(more) = Least(z, c)
        BY <2>1
      <4> HIDE DEF z
      <4> QED BY <2>3, <3>1, <4>1 DEF Least
    <3>3. BS * f + BS * l < BS * Len(b)
      <4>1. f * BS + c <= BS * Len(b)
        BY <1>6 DEF b
      <4>2. BS * Len(b) \in Nat
        BY <1>0, Product
      <4> DEFINE y == BS * Len(b)
                 x == BS * f
                 w == BS * l
      <4>3. y \in Nat /\ x \in Nat /\ w = z /\ x + c <= y
        BY <3>1, <4>1, <4>2
      <4> HIDE DEF y, x, w, z
      <4>4. x + w < y
        BY <3>1, <3>2, <4>3
      <4> QED BY <4>4 DEF x, w, y
    <3>4. BS * (f + l) = BS * f + BS * l
      <4> HIDE DEF l
      <4> QED BY <1>0, <3>0, Z3
    <3>5. f + l < Len(b)
      <4> DEFINE h == f + l
      <4>1. h \in Nat
        BY <3>0
      <4>2. BS * h < BS * Len(b)
        BY <3>3, <3>4
      <4> HIDE DEF h
      <4>3. ASSUME h >= Len(b) PROVE FALSE
        <5>1. BS * h = BS * Len(b) + BS * (h - Len(b)) /\ BS * (h - Len(b)) \in Nat /\ BS * Len(b) \in Nat
          BY <1>0, <4>1, <4>3, Z3
        <5> DEFINE y == BS * h
                   x == BS * Len(b)
                   w == BS * (h - Len(b))
        <5>2. y = x + w /\ w \in Nat /\ x \in Nat /\ y < x
          BY <4>2, <5>1
        <5> HIDE DEF y, x, w
        <5> QED BY <5>2
      <4>4. h < Len(b)
        BY <1>0, <4>1, <4>3
      <4> QED BY <4>4 DEF h
    <3>6. f + l = size
      <4>1. l = IF f < end THEN end - f ELSE 0
        BY <1>6 DEF BlocksFrom
      <4> HIDE DEF l
      <4> QED BY <1>0, <1>6, <3>0, <3>5, <4>1 DEF Least
    <3>7. BS * size = BS * f + BS * l
      <4> HIDE DEF l
      <4> QED BY <3>4, <3>6
    <3> HIDE DEF l, z
    <3> QED BY <3>1, <3>2, <3>7
  <2> QED BY <2>1, <2>2, <2>3 DEF more
<1>7. 0 \in S
  <2> DEFINE list == DirectBlocks(node, 0)
             end == Least(DIRECT, Len(b))
             z == BS * Len(b)
  <2>1. 0 \in Nat
    OBVIOUS
  <2>2. /\ list \in Seq(Int) /\ Len(list) = IF 0 < end THEN end - 0 ELSE 0
        /\ \A j \in 1 .. Len(list) : 0 + j \in 1 .. end /\ list[j] = b[0 + j]
    <3> DEFINE s == 0 \div BS
    <3>1. /\ list \in Seq(Int) /\ Len(list) = IF s < end THEN end - s ELSE 0
          /\ \A j \in 1 .. Len(list) : s + j \in 1 .. end /\ list[j] = b[s + j]
      BY <2>1, DirectAre
    <3>2. s = 0
      BY <1>5
    <3> HIDE DEF s, list, end
    <3> QED BY <3>1, <3>2
  <2>3. BS * 0 = 0 /\ 0 * BS + n <= BS * Len(b)
    <3>1. BS * 0 = 0 /\ 0 * BS = 0
      BY <1>0
    <3>2. z \in Nat /\ n <= z
      BY <1>1
    <3> HIDE DEF z
    <3>3. 0 * BS + n <= z
      BY <1>0, <3>1, <3>2
    <3> QED BY <3>1, <3>3 DEF z
  <2>4. got[0] = Chunks(list, n, 0)
    BY <1>3, <1>5
  <2>5. DIRECT \in Nat /\ DIRECT >= 0
    BY <1>0
  <2> HIDE DEF list, At, b
  <2>6. LET more == Chunks(list, n, 0)
        IN  /\ \A i \in 1 .. Len(more) : more[i] = At(BS * 0 + i)
            /\ Len(more) # n => BS * 0 + Len(more) = BS * DIRECT
    <3>1. BlocksFrom(b, 0, DIRECT, list)
      BY <2>2 DEF BlocksFrom
    <3> QED BY <1>0, <1>6, <2>1, <2>2, <2>3, <2>5, <3>1
  <2>7. /\ \A i \in 1 .. Len(got[0]) : got[0][i] = At(BS * 0 + i)
        /\ Len(got[0]) # n => BS * 0 + Len(got[0]) = BS * DIRECT
    BY <2>4, <2>6
  <2>8. ASSUME NEW i \in 1 .. Len(got[0]) PROVE got[0][i] = At(i)
    <3>1. BS * 0 + i = i
      BY <1>2, <1>3, <2>3
    <3> QED BY <2>7, <3>1
  <2>9. Len(got[0]) # n => Len(got[0]) = BS * F(0)
    <3>1. F(0) = DIRECT
      BY <1>0
    <3>2. BS * 0 + Len(got[0]) = Len(got[0])
      BY <1>2, <1>3, <2>3
    <3> HIDE DEF F
    <3> QED BY <2>7, <3>1, <3>2
  <2> HIDE DEF F
  <2>10. Good(0)
    BY <2>8, <2>9
  <2> QED BY <1>3, <2>10
<1>8. ASSUME NEW k \in 0 .. IndirectBlocks - 1, k \in S PROVE k + 1 \in S
  <2> DEFINE L == Len(got[k])
             f == F(k)
             more == ext2_read_singly_indirect_block_pointer(node, k, n - L, 0)
  <2>0. k \in Nat /\ Good(k) /\ L \in Nat /\ L <= n /\ got[k] \in Seq(Byte)
    <3> HIDE DEF F, At
    <3>1. k \in Nat /\ k \in 0 .. IndirectBlocks
      BY <1>0
    <3>2. Good(k)
      BY <1>8
    <3>3. got[k] \in Seq(Byte) /\ L \in Nat /\ L <= n
      BY <1>2, <1>4, <3>1
    <3> QED BY <3>1, <3>2, <3>3
  <2>1. f \in Nat /\ f >= 1 /\ F(k + 1) = f + Pointers /\ F(k + 1) \in Nat
    <3> DEFINE y == k * Pointers
               z == (k + 1) * Pointers
    <3>1. y \in Nat /\ z = y + Pointers
      BY <1>0, <2>0, Z3
    <3>2. f = DIRECT + y /\ F(k + 1) = DIRECT + z
      OBVIOUS
    <3> HIDE DEF y, z, f, F
    <3> QED BY <1>0, <3>1, <3>2
  <2>2. CASE L = n
    <3>1. got[k + 1] = got[k]
      BY <1>4, <2>2 DEF ReadOn
    <3> HIDE DEF F, At
    <3>2. Good(k + 1)
      BY <2>0, <2>2, <3>1
    <3> QED BY <1>4, <3>2
  <2>3. CASE L # n
    <3>1. L = BS * f /\ L \in Nat /\ L > 0
      <4>1. L = BS * f
        BY <2>0, <2>3
      <4> HIDE DEF f
      <4>2. BS * f >= BS
        BY <1>0, <2>1, Product
      <4> QED BY <1>0, <2>0, <4>1, <4>2
    <3>v. Visited(node, k)
      <4> DEFINE z == BS * Len(b)
                 y == BS * f
      <4>1. z \in Nat /\ n <= z /\ y = L
        BY <1>1, <3>1
      <4> HIDE DEF z, y
      <4>2. y < z /\ y \in Nat
        BY <1>0, <2>0, <2>3, <4>1
      <4>3. f < Len(b)
        <5> HIDE DEF f, b
        <5>1. ASSUME f >= Len(b) PROVE FALSE
          <6>1. BS * f = BS * Len(b) + BS * (f - Len(b)) /\ BS * (f - Len(b)) \in Nat
            BY <1>0, <2>1, <5>1, Z3
          <6> DEFINE w == BS * (f - Len(b))
          <6>2. y = z + w /\ w \in Nat
            BY <6>1 DEF y, z
          <6> HIDE DEF w
          <6> QED BY <4>1, <4>2, <6>2
        <5> QED BY <1>0, <2>1, <5>1
      <4> QED BY <4>3, Reached
    <3>2. got[k + 1] = got[k] \o more
      <4>1. got[k + 1] = got[k] \o ext2_read_singly_indirect_block_pointer(node, k, n - L, IF 0 < L THEN 0 ELSE 0 - L)
        BY <1>4, <2>3, <3>v DEF ReadOn
      <4>2. (IF 0 < L THEN 0 ELSE 0 - L) = 0
        BY <3>1
      <4> QED BY <4>1, <4>2
    <3>3. n - L \in Nat /\ f * BS + (n - L) <= BS * Len(b) /\ f + Pointers \in Nat /\ f + Pointers >= f
      <4> DEFINE z == BS * Len(b)
      <4>1. z \in Nat /\ n <= z
        BY <1>1
      <4>2. f * BS = L
        <5> HIDE DEF f
        <5>1. f * BS = BS * f
          BY <1>0, <2>1
        <5> QED BY <3>1, <5>1
      <4> HIDE DEF z, L, f
      <4>3. n - L \in Nat /\ L + (n - L) <= z
        BY <1>0, <2>0, <4>1
      <4>4. f + Pointers \in Nat /\ f + Pointers >= f
        BY <1>0, <2>1
      <4> QED BY <4>2, <4>3, <4>4 DEF z
    <3>4. PICK list \in Seq(Int) :
             /\ more = Chunks(list, n - L, 0)
             /\ LET end == Least(f + Pointers, Len(b))
                IN  /\ Len(list) = IF f < end THEN end - f ELSE 0
                    /\ \A j \in 1 .. Len(list) : f + j \in 1 .. end /\ list[j] = b[f + j]
      <4> DEFINE c == n - L
      <4>1. c \in Nat /\ k \in Nat
        BY <2>0, <3>3
      <4> HIDE DEF c
      <4>2. \E list \in Seq(Int) : PointedTo(node, k, c, list)
        BY <4>1, SinglyFirst
      <4> QED BY <4>2 DEF c, PointedTo
    <3>5. LET m == Chunks(list, n - L, 0)
          IN  /\ m \in Seq(Byte)
              /\ \A i \in 1 .. Len(m) : m[i] = At(BS * f + i)
              /\ Len(m) # n - L => BS * f + Len(m) = BS * (f + Pointers)
      <4> DEFINE c == n - L
                 size == f + Pointers
      <4>1. /\ c \in Nat /\ f * BS + c <= BS * Len(b) /\ size \in Nat /\ size >= f /\ f \in Nat /\ list \in Seq(Int)
            /\ BlocksFrom(b, f, size, list)
        <5>1. BlocksFrom(b, f, size, list)
          BY <3>4 DEF BlocksFrom
        <5> HIDE DEF f, b, L
        <5> QED BY <2>1, <3>3, <3>4, <5>1
      <4> HIDE DEF L, f, At, b, c, size, more
      <4>2. LET m == Chunks(list, c, 0)
            IN  /\ m \in Seq(Byte)
                /\ \A i \in 1 .. Len(m) : m[i] = At(BS * f + i)
                /\ Len(m) # c => BS * f + Len(m) = BS * size
        BY <1>6, <4>1
      <4> QED BY <4>2 DEF c, size
    <3>6. /\ more \in Seq(Byte) /\ Len(more) \in Nat
          /\ \A i \in 1 .. Len(more) : more[i] = At(L + i)
          /\ Len(more) # n - L => L + Len(more) = BS * F(k + 1)
      <4> HIDE DEF L, f, At, F, more
      <4>1. more \in Seq(Byte)
        BY <3>4, <3>5
      <4>2. Len(more) \in Nat
        BY <4>1
      <4> QED BY <2>1, <3>1, <3>4, <3>5, <4>1, <4>2
    <3> DEFINE g == got[k] \o more
    <3> HIDE DEF more
    <3>7. /\ g \in Seq(Byte) /\ Len(g) = L + Len(more)
          /\ \A i \in 1 .. L : g[i] = got[k][i]
          /\ \A i \in 1 .. Len(more) : g[L + i] = more[i]
      BY <2>0, <3>6, Joined
    <3> HIDE DEF g, At, F
    <3>8. ASSUME NEW i \in 1 .. Len(g) PROVE g[i] = At(i)
      <4>0. L \in Nat /\ Len(more) \in Nat /\ Len(g) = L + Len(more)
        BY <2>0, <3>6, <3>7
      <4>1. CASE i <= L
        <5>1. i \in 1 .. L
          <6> HIDE DEF L
          <6> QED BY <4>0, <4>1
        <5> QED BY <2>0, <3>7, <5>1
      <4>2. CASE i > L
        <5>1. i - L \in 1 .. Len(more) /\ L + (i - L) = i
          <6> HIDE DEF L
          <6> QED BY <4>0, <4>2
        <5>2. g[L + (i - L)] = At(L + (i - L))
          BY <3>6, <3>7, <5>1
        <5> QED BY <5>1, <5>2
      <4> HIDE DEF L
      <4> QED BY <4>0, <4>1, <4>2
    <3>9. Len(g) # n => Len(g) = BS * F(k + 1)
      <4>1. /\ L \in Nat /\ Len(more) \in Nat /\ Len(g) = L + Len(more)
            /\ Len(more) # n - L => L + Len(more) = BS * F(k + 1)
        BY <2>0, <3>6, <3>7
      <4> HIDE DEF L
      <4> QED BY <1>0, <4>1
    <3>10. Good(k + 1)
      BY <3>2, <3>8, <3>9 DEF g
    <3> HIDE DEF Good
    <3> QED BY <1>4, <3>10
  <2> QED BY <2>2, <2>3
<1> HIDE DEF S
<1>9. \A k \in 0 .. IndirectBlocks : k \in S
  BY <1>0, <1>7, <1>8, Upwards
<1> QED BY <1>9 DEF S, b
LEMMA Ext2Read ==
    ASSUME NEW v, WellFormed(v), v.kind = "ext2", NEW x \in DOMAIN v.nodes,
           NEW count \in Nat \ {0}, NEW offset \in Nat
    PROVE  LET node == v.nodes[x]
               data == ext2_read(node, count, offset)
           IN  /\ data \in Seq(Byte) /\ OwnBytes(node, data) /\ Len(data) <= Clip(node.size, count, offset)
               /\ \/ offset >= node.size
                  \/ /\ InBlock(offset, data) /\ Whole(node)
                     /\ offset = 0 \/ (offset < DIRECT * BS /\ offset + Len(data) <= DIRECT * BS)
                  => Right(v, node, offset, data)
<1> DEFINE node == v.nodes[x]
           data == ext2_read(node, count, offset)
           n == Clip(node.size, count, offset)
           b == node.blocks
           s == offset \div BS
           o == offset % BS
           list == DirectBlocks(node, offset)
           m == Least(DIRECT, Len(b))
<1>0. /\ BS \in Nat \ {0} /\ DIRECT \in Nat \ {0} /\ node.size \in Nat /\ b \in Seq(Nat) /\ Len(b) \in Nat
      /\ IndirectBlocks \in Nat
  BY VolumeAssumption, NodeTypes, Indirect
<1>1. node.size <= BS * Len(b) /\ BS * Len(b) \in Nat
  <2>1. ~Fat(v)
    BY DEF Fat
  <2>a. node.size <= BS * Len(b) * 1 \/ node.type = "dir"
    BY <2>1 DEF WellFormed
  <2>b. node.type = "dir" => node.size = BS * Len(b)
    BY DEF WellFormed, DirectoryBlocks
  <2>3. BS * Len(b) \in Nat
    <3> HIDE DEF b
    <3> QED BY <1>0, Product
  <2>4. BS * Len(b) * 1 = BS * Len(b)
    <3> DEFINE z == BS * Len(b)
    <3> HIDE DEF z
    <3>1. z * 1 = z
      BY <2>3 DEF z
    <3> QED BY <3>1 DEF z
  <2> DEFINE z == BS * Len(b)
  <2>5. z \in Nat /\ (node.size <= z \/ node.size = z)
    BY <2>a, <2>b, <2>3, <2>4
  <2> HIDE DEF z
  <2>6. node.size <= z
    BY <1>0, <2>5
  <2> QED BY <2>3, <2>6 DEF z
<1>2. n \in Nat /\ (offset >= node.size => n = 0) /\ (offset < node.size => n > 0 /\ offset + n <= node.size)
  BY <1>0, ClipIs
<1>3. PICK got : Reads(node, count, offset, got) /\ data = got[IndirectBlocks]
  BY Ext2Recursion DEF Reads
<1>4. s \in Nat /\ o \in Nat /\ o < BS /\ offset = BS * s + o
  BY <1>0, DivMod
<1>5. /\ list \in Seq(Int) /\ Len(list) = IF s < m THEN m - s ELSE 0
      /\ \A j \in 1 .. Len(list) : s + j \in 1 .. m /\ list[j] = b[s + j]
  BY <1>0, DirectAre
<1>6. 0 \in 0 .. IndirectBlocks /\ IndirectBlocks \in 0 .. IndirectBlocks /\ (Whole(node) => got[0] = Chunks(list, n, o))
  <2>1. 0 \in 0 .. IndirectBlocks /\ IndirectBlocks \in 0 .. IndirectBlocks
    BY <1>0
  <2>2. Whole(node) => BeforeHole(list) = list
    BY <1>0, DirectOwned
  <2>3. got[0] = Chunks(BeforeHole(list), n, o)
    BY <1>3, <2>1 DEF Reads
  <2> QED BY <2>1, <2>2, <2>3
<1>7. /\ data \in Seq(Byte) /\ Len(data) \in Nat /\ Len(data) <= n /\ OwnBytes(node, data)
      /\ Len(got[0]) \in Nat /\ Len(got[0]) <= Len(data)
      /\ \A i \in 1 .. Len(got[0]) : data[i] = got[0][i]
  <2>1. /\ got[IndirectBlocks] \in Seq(Byte) /\ Len(got[IndirectBlocks]) \in Nat /\ Len(got[IndirectBlocks]) <= n
        /\ Len(got[0]) \in Nat /\ Len(got[0]) <= Len(got[IndirectBlocks]) /\ OwnBytes(node, got[IndirectBlocks])
        /\ \A i \in 1 .. Len(got[0]) : got[IndirectBlocks][i] = got[0][i]
    BY <1>0, <1>3, <1>6, Ext2Grows
  <2> QED BY <1>3, <2>1
<1> HIDE DEF list, data, n
<1>8. Whole(node) => Len(got[0]) = Least(Len(list) * BS, n)
  <2> HIDE DEF o
  <2> QED BY <1>2, <1>4, <1>5, <1>6, ChunksAre
<1>9. \A p \in Nat : Where(v, node, p) = <<b[p \div BS + 1], p % BS>>
  BY DEF Where, Fat, b
<1> HIDE DEF node, b
<1>10. CASE offset >= node.size
  <2>1. Len(data) = 0
    BY <1>2, <1>7, <1>10
  <2>2. Right(v, node, offset, data)
    BY <2>1, <1>10 DEF Right
  <2> QED BY <1>7, <2>2 DEF data, node, n
<1>11. CASE offset < node.size
  <2> SUFFICES ASSUME InBlock(offset, data), Whole(node),
                      offset = 0 \/ (offset < DIRECT * BS /\ offset + Len(data) <= DIRECT * BS)
               PROVE  Right(v, node, offset, data)
    <3>1. ~(offset >= node.size)
      BY <1>0, <1>11
    <3> QED BY <1>7, <3>1 DEF data, node, n
  <2>1. s < DIRECT /\ s < Len(b)
    <3>1. offset < BS * Len(b)
      <4> DEFINE z == BS * Len(b)
      <4>1. z \in Nat /\ node.size <= z
        BY <1>1
      <4> HIDE DEF z
      <4>2. offset < z
        BY <1>0, <1>11, <4>1
      <4> QED BY <4>2 DEF z
    <3>2. offset < BS * DIRECT
      <4>1. BS * DIRECT = DIRECT * BS /\ BS * DIRECT >= BS /\ BS * DIRECT \in Nat
        <5>1. BS * DIRECT = DIRECT * BS
          BY <1>0
        <5> QED BY <1>0, <5>1, Product
      <4> DEFINE z == BS * DIRECT
      <4>2. z \in Nat /\ z >= BS /\ (offset = 0 \/ offset < z)
        BY <4>1
      <4> HIDE DEF z
      <4>3. offset < z
        BY <1>0, <4>2
      <4> QED BY <4>3 DEF z
    <3> QED BY <1>0, <3>1, <3>2, DivBound
  <2> HIDE DEF s, o
  <2>2. s < m /\ m \in Nat /\ m <= DIRECT /\ m <= Len(b) /\ (m < Len(b) => m = DIRECT)
    BY <1>0, <1>4, <2>1 DEF Least
  <2> HIDE DEF m
  <2>3. Len(list) = m - s /\ m - s \in Nat /\ m - s >= 1
    BY <1>4, <1>5, <2>2
  <2> DEFINE z == Len(list) * BS
  <2>4. z \in Nat /\ z >= BS /\ z = BS * (m - s)
    <3> DEFINE l == Len(list)
    <3>1. l \in Nat /\ l >= 1 /\ l = m - s
      BY <2>3
    <3> HIDE DEF l
    <3>2. l * BS = BS * l
      BY <1>0, <3>1
    <3>3. BS * l \in Nat /\ BS * l >= BS
      BY <1>0, <3>1, Product
    <3>4. z = l * BS
      BY DEF l
    <3> QED BY <3>1, <3>2, <3>3, <3>4
  <2>5. Len(got[0]) = Least(z, n)
    BY <1>8
  <2> HIDE DEF z
  <2>6. data # <<>>
    <3>1. Len(got[0]) > 0
      BY <1>0, <1>2, <1>11, <2>4, <2>5 DEF Least
    <3>2. Len(data) > 0
      BY <1>7, <3>1
    <3> QED BY <3>2
  <2>7. ASSUME NEW k \in 1 .. Len(data) PROVE data[k] = Where(v, node, offset + k - 1)
    <3> DEFINE p == offset + k - 1
    <3>0. p \in Nat
      BY <1>7
    <3>1. CASE offset = 0
      <4>1. node.size <= BS * Len(node.blocks) /\ node.blocks \in Seq(Nat) /\ node.size \in Nat
        BY <1>0, <1>1 DEF b
      <4>2. Reads(node, count, 0, got)
        BY <1>3, <3>1
      <4>3. \A i \in 1 .. Len(got[IndirectBlocks]) :
               got[IndirectBlocks][i] = <<node.blocks[(i - 1) \div BS + 1], (i - 1) % BS>>
        BY <1>6, <4>1, <4>2, Ext2Whole
      <4>4. data[k] = <<b[(k - 1) \div BS + 1], (k - 1) % BS>>
        BY <1>3, <4>3 DEF b
      <4>5. p = k - 1
        BY <1>7, <3>1
      <4> HIDE DEF p
      <4>6. data[k] = Where(v, node, p)
        BY <1>9, <3>0, <4>4, <4>5
      <4> QED BY <4>6 DEF p
    <3>2. CASE offset # 0
      <4>1. offset < DIRECT * BS /\ offset + Len(data) <= DIRECT * BS
        BY <3>2
      <4>2. Len(data) = Len(got[0])
        <5>1. CASE Len(got[0]) = n
          BY <1>2, <1>7, <5>1
        <5>2. CASE Len(got[0]) # n
          <6>1. Len(got[0]) = z /\ z < n
            BY <1>2, <2>4, <2>5, <5>2 DEF Least
          <6>2. CASE o = 0
            <7> DEFINE g == BS * m
                       h == BS * Len(b)
                       d == DIRECT * BS
            <7>1. g \in Nat /\ h \in Nat /\ d \in Nat /\ d = BS * DIRECT
              <8>1. DIRECT * BS = BS * DIRECT
                BY <1>0
              <8> QED BY <1>0, <2>2, <8>1, Product
            <7>2. g = offset + z
              <8>1. BS * m = BS * s + BS * (m - s) /\ BS * s \in Nat
                BY <1>0, <1>4, <2>2, Z3
              <8> DEFINE y == BS * s
                         w == BS * (m - s)
              <8>2. g = y + w /\ y \in Nat /\ offset = y + o /\ z = w
                BY <1>4, <2>4, <8>1
              <8> HIDE DEF g, y, w
              <8> QED BY <2>4, <6>2, <8>2
            <7>3. node.size <= h /\ offset + Len(data) <= d
              BY <1>1, <4>1
            <7>4. m = Len(b) => g = h
              OBVIOUS
            <7>5. m = DIRECT => g = d
              BY <7>1
            <7> HIDE DEF g, h, d
            <7>6. m # Len(b)
              BY <1>0, <1>2, <1>11, <6>1, <7>1, <7>2, <7>3, <7>4
            <7>7. g = d
              BY <1>0, <2>2, <7>5, <7>6
            <7> QED BY <1>7, <2>4, <6>1, <7>1, <7>2, <7>3, <7>7
          <6>3. CASE o # 0
            <7>1. o + Len(data) <= BS
              BY <6>3 DEF InBlock, o
            <7> QED BY <1>0, <1>4, <1>7, <2>4, <6>1, <7>1
          <6> QED BY <6>2, <6>3
        <5> QED BY <5>1, <5>2
      <4>3. k \in 1 .. Len(got[0]) /\ data[k] = got[0][k]
        BY <1>7, <4>2
      <4> DEFINE q == p \div BS
      <4>4. q - s + 1 \in 1 .. Len(list) /\ q \in Nat /\ got[0][k] = <<list[q - s + 1], p % BS>>
        <5>1. offset % BS = 0 \/ (offset % BS) + Len(Chunks(list, n, offset % BS)) <= BS
          BY <1>6, <4>2 DEF InBlock, o
        <5>2. k \in 1 .. Len(Chunks(list, n, offset % BS))
          BY <1>6, <4>3 DEF o
        <5>3. /\ q - offset \div BS + 1 \in 1 .. Len(list) /\ q \in Nat
              /\ Chunks(list, n, offset % BS)[k] = <<list[q - offset \div BS + 1], p % BS>>
          <6>1. list \in Seq(Int) /\ n \in Nat
            BY <1>2, <1>5
          <6> QED BY <5>1, <5>2, <6>1, ChunksPlace
        <5> QED BY <1>6, <5>3 DEF s, o
      <4> HIDE DEF p, q
      <4>5. list[q - s + 1] = b[s + (q - s + 1)] /\ s + (q - s + 1) = q + 1
        <5>1. list[q - s + 1] = b[s + (q - s + 1)]
          BY <1>5, <4>4
        <5>2. s + (q - s + 1) = q + 1
          BY <1>4, <4>4
        <5> QED BY <5>1, <5>2
      <4>6. Where(v, node, p) = <<b[q + 1], p % BS>>
        BY <1>9, <3>0 DEF q
      <4> QED BY <4>3, <4>4, <4>5, <4>6 DEF p
    <3> QED BY <3>1, <3>2
  <2> QED BY <1>11, <2>6, <2>7 DEF Right
<1> QED BY <1>0, <1>10, <1>11
\* The read function of every file system: a read that is safe returns the bytes that
\* come next in the file.
LEMMA ReadIsFile ==
    ASSUME vol \in Volumes, Fat(vol) => fat = fat_table(vol), NEW x \in DOMAIN vol.nodes, vol.nodes[x].type = "reg",
           NEW count \in Nat \ {0}, NEW offset \in Nat
    PROVE  LET node == vol.nodes[x]
               data == fs_read(vol, fat, node, count, offset)
           IN  data \in Seq(Byte) /\ (Safe(node, offset, Len(data)) => Right(vol, node, offset, data))
<1> DEFINE node == vol.nodes[x]
           data == fs_read(vol, fat, node, count, offset)
<1>0. WellFormed(vol) /\ vol.kind \in {"fat12", "fat16", "ext2", "iso9660"}
  BY FilesAssumption DEF WellFormed
<1>1. CASE Fat(vol)
  <2>1. data = fat_read(vol.kind, fat_table(vol), node, count, offset)
    BY <1>1 DEF fs_read, Fat
  <2>2. /\ data \in Seq(Byte)
        /\ \/ offset >= node.size
           \/ InBlock(offset, data) /\ (SPC = 1 \/ (offset < BS /\ offset + Len(data) <= BS))
           => Right(vol, node, offset, data)
    BY <1>0, <1>1, <2>1, FatRead
  <2> HIDE DEF data, node
  <2>3. Safe(node, offset, Len(data)) =>
            \/ offset >= node.size
            \/ InBlock(offset, data) /\ (SPC = 1 \/ (offset < BS /\ offset + Len(data) <= BS))
    BY <1>1 DEF Safe, InBlock
  <2> QED BY <2>2, <2>3 DEF data, node
<1>2. CASE vol.kind = "ext2"
  <2>1. data = ext2_read(node, count, offset)
    BY <1>2 DEF fs_read, Fat
  <2>2. /\ data \in Seq(Byte)
        /\ \/ offset >= node.size
           \/ /\ InBlock(offset, data)
              /\ Whole(node) /\ (offset = 0 \/ (offset < DIRECT * BS /\ offset + Len(data) <= DIRECT * BS))
           => Right(vol, node, offset, data)
    BY <1>0, <1>2, <2>1, Ext2Read
  <2> HIDE DEF data, node
  <2>3. Safe(node, offset, Len(data)) =>
            \/ offset >= node.size
            \/ /\ InBlock(offset, data)
               /\ Whole(node) /\ (offset = 0 \/ (offset < DIRECT * BS /\ offset + Len(data) <= DIRECT * BS))
    BY <1>2, Zenon DEF Safe, InBlock
  <2> QED BY <2>2, <2>3 DEF data, node
<1>3. CASE vol.kind = "iso9660"
  <2>1. data = iso9660_read(node, count, offset)
    BY <1>3 DEF fs_read, Fat
  <2>2. data \in Seq(Byte) /\ (offset >= node.size \/ InBlock(offset, data) => Right(vol, node, offset, data))
    BY <1>0, <1>3, <2>1, IsoRead
  <2> HIDE DEF data, node
  <2>3. Safe(node, offset, Len(data)) => offset >= node.size \/ InBlock(offset, data)
    BY Zenon DEF Safe, InBlock
  <2> QED BY <2>2, <2>3 DEF data, node
<1> QED BY <1>0, <1>1, <1>2, <1>3 DEF Fat

-----------------------------------------------------------------------------
(***************************************************************************)
(* Listings.                                                               *)
(***************************************************************************)

\* The function that Kept computes its result with exists.
LEMMA KeptRecursion ==
    ASSUME NEW slots, NEW I, Len(slots) \in Nat
    PROVE  \E upto :
              /\ upto = [i \in 0 .. Len(slots) |->
                           IF i = 0 THEN <<>>
                           ELSE IF i \in I THEN Append(upto[i - 1], slots[i]) ELSE upto[i - 1]]
              /\ Kept(slots, I) = upto[Len(slots)]
<1> DEFINE Body(w, n) == [i \in 0 .. n |->
                            IF i = 0 THEN <<>>
                            ELSE IF i \in I THEN Append(w[i - 1], slots[i]) ELSE w[i - 1]]
           Bad == {n \in Nat : ~\E w : w = Body(w, n)}
<1>1. ASSUME Bad # {} PROVE FALSE
  <2>1. PICK m \in Bad : \A k \in 0 .. m - 1 : k \notin Bad
    BY <1>1, LeastNat
  <2>2. m \in Nat /\ ~\E w : w = Body(w, m)
    BY <2>1
  <2>3. CASE m = 0
    <3> DEFINE v == [i \in 0 .. 0 |-> <<>>]
    <3>1. v = Body(v, m)
      BY <2>3
    <3> QED BY <2>2, <3>1
  <2>4. CASE m # 0
    <3>1. m - 1 \in Nat /\ m - 1 \in 0 .. m - 1
      BY <2>2, <2>4
    <3>2. PICK w : w = Body(w, m - 1)
      BY <2>1, <3>1
    <3> DEFINE v == [i \in 0 .. m |-> IF i = m THEN IF m \in I THEN Append(w[m - 1], slots[m]) ELSE w[m - 1]
                                      ELSE w[i]]
    <3>3. ASSUME NEW i \in 0 .. m PROVE v[i] = Body(v, m)[i]
      <4>1. w = Body(w, m - 1)
        BY <3>2
      <4>2. CASE i = m
        <5>1. v[m - 1] = w[m - 1]
          BY <3>1, <2>2, <2>4
        <5> QED BY <4>2, <5>1, <2>4, <2>2
      <4>3. CASE i # m /\ i # 0
        <5>1. v[i - 1] = w[i - 1] /\ v[i] = w[i] /\ i \in 0 .. m - 1
          BY <3>1, <2>2, <2>4, <4>3
        <5>2. w[i] = IF i \in I THEN Append(w[i - 1], slots[i]) ELSE w[i - 1]
          BY <4>1, <4>3, <5>1
        <5> QED BY <4>3, <5>1, <5>2
      <4>4. CASE i = 0
        <5>1. w[0] = <<>>
          BY <4>1, <3>1
        <5> QED BY <5>1, <4>4, <2>4, <2>2
      <4> QED BY <4>2, <4>3, <4>4
    <3>4. v = Body(v, m)
      BY <3>3
    <3> QED BY <2>2, <3>4
  <2> QED BY <2>3, <2>4
<1>2. PICK w : w = Body(w, Len(slots))
  BY <1>1
<1> HIDE DEF Bad
<1> QED BY <1>2 DEF Kept

\* What is kept are slots with an index in the set.
LEMMA KeptSlots ==
    ASSUME NEW S, NEW slots \in Seq(S), NEW I
    PROVE  /\ Kept(slots, I) \in Seq(S)
           /\ \A k \in 1 .. Len(Kept(slots, I)) :
                 \E i \in 1 .. Len(slots) : i \in I /\ Kept(slots, I)[k] = slots[i]
<1>1. PICK upto :
         /\ upto = [i \in 0 .. Len(slots) |->
                      IF i = 0 THEN <<>>
                      ELSE IF i \in I THEN Append(upto[i - 1], slots[i]) ELSE upto[i - 1]]
         /\ Kept(slots, I) = upto[Len(slots)]
  BY KeptRecursion
<1> DEFINE Good == {s \in Seq(S) : \A k \in 1 .. Len(s) : \E i \in 1 .. Len(slots) : i \in I /\ s[k] = slots[i]}
           G == {i \in 0 .. Len(slots) : upto[i] \in Good}
<1>2. 0 \in G
  BY <1>1
<1>3. ASSUME NEW i \in 0 .. Len(slots) - 1, i \in G PROVE i + 1 \in G
  <2>1. i + 1 \in 1 .. Len(slots) /\ (i + 1) - 1 = i
    BY <1>3
  <2>2. upto[i + 1] = IF i + 1 \in I THEN Append(upto[i], slots[i + 1]) ELSE upto[i]
    <3> DEFINE j == i + 1
    <3>1. j \in 0 .. Len(slots) /\ j # 0 /\ j - 1 = i
      BY <2>1
    <3>2. upto[j] = IF j \in I THEN Append(upto[j - 1], slots[j]) ELSE upto[j - 1]
      <4> HIDE DEF j
      <4> QED BY <1>1, <3>1
    <3> QED BY <3>1, <3>2
  <2>3. upto[i] \in Seq(S) /\ upto[i] \in Good
    BY <1>3
  <2>4. ASSUME i + 1 \in I PROVE Append(upto[i], slots[i + 1]) \in Good
    <3> DEFINE s == upto[i]
               t == Append(s, slots[i + 1])
    <3>1. t \in Seq(S) /\ Len(t) = Len(s) + 1
      BY <2>1, <2>3
    <3>2. ASSUME NEW k \in 1 .. Len(t) PROVE \E j \in 1 .. Len(slots) : j \in I /\ t[k] = slots[j]
      <4>1. CASE k = Len(s) + 1
        <5>1. t[k] = slots[i + 1]
          BY <2>3, <4>1
        <5> QED BY <5>1, <2>1, <2>4
      <4>2. CASE k # Len(s) + 1
        <5>1. k \in 1 .. Len(s) /\ t[k] = s[k]
          BY <2>3, <4>2, <3>1
        <5> QED BY <5>1, <2>3
      <4> QED BY <4>1, <4>2
    <3> QED BY <3>1, <3>2
  <2>5. upto[i + 1] \in Good
    <3> HIDE DEF Good
    <3> QED BY <2>2, <2>3, <2>4
  <2> QED BY <2>1, <2>5
<1>4. \A i \in 0 .. Len(slots) : i \in G
  <2> HIDE DEF G
  <2> QED BY <1>2, <1>3, Upwards
<1>5. Kept(slots, I) \in Good
  <2> HIDE DEF Good
  <2>1. Len(slots) \in 0 .. Len(slots)
    OBVIOUS
  <2> QED BY <1>1, <1>4, <2>1
<1> QED BY <1>5

LEMMA SlotTypes ==
    ASSUME NEW v, WellFormed(v), NEW x \in DOMAIN v.nodes, NEW i \in 1 .. Len(v.nodes[x].slots)
    PROVE  LET slot == v.nodes[x].slots[i]
           IN  /\ slot \in Slots
               /\ slot.kind = Entry => slot.node \in DOMAIN v.nodes
               /\ slot.kind # Entry => slot.node = "none"
               /\ slot.kind \in {Entry, "free"} \/ Fat(v)
<1>1. v.nodes[x].slots[i] \in Slots
  BY NodeTypes
<1> QED BY <1>1 DEF WellFormed

\* Entries as they are listed: slots, and the ones that are in no directory.
Listed == Slots \cup {Named(".", Root), Named("..", Root), Named("", "none")}

\* The entries of a directory stand for files and directories of the volume.
LEMMA EntriesAre ==
    ASSUME NEW v, WellFormed(v), NEW x \in DOMAIN v.nodes
    PROVE  /\ Entries(v, x) \in Seq(Listed)
           /\ \A k \in 1 .. Len(Entries(v, x)) : Entries(v, x)[k].node \in DOMAIN v.nodes
<1> DEFINE slots == v.nodes[x].slots
           I == {i \in 1 .. Len(slots) : slots[i].kind = Entry}
           kept == Kept(slots, I)
           own == IF Fat(v) /\ x = Root THEN <<Named(".", x), Named("..", x)>> ELSE <<>>
<1>1. slots \in Seq(Slots)
  BY NodeTypes
<1>2. kept \in Seq(Slots) /\ \A k \in 1 .. Len(kept) : \E i \in 1 .. Len(slots) : i \in I /\ kept[k] = slots[i]
  <2> HIDE DEF slots, I
  <2> QED BY <1>1, KeptSlots
<1>3. \A k \in 1 .. Len(kept) : kept[k].node \in DOMAIN v.nodes
  <2> HIDE DEF kept
  <2> TAKE k \in 1 .. Len(kept)
  <2>1. PICK i \in 1 .. Len(slots) : i \in I /\ kept[k] = slots[i]
    BY <1>2
  <2> QED BY <2>1, SlotTypes
<1>4. own \in Seq(Listed) /\ \A k \in 1 .. Len(own) : own[k].node \in DOMAIN v.nodes
  <2>1. CASE Fat(v) /\ x = Root
    <3>1. own = <<Named(".", x), Named("..", x)>>
      BY <2>1
    <3>2. Named(".", x) \in Listed /\ Named("..", x) \in Listed
      BY <2>1 DEF Listed
    <3>3. Named(".", x).node = x /\ Named("..", x).node = x
      BY DEF Named
    <3> HIDE DEF own
    <3>4. own \in Seq(Listed) /\ Len(own) = 2 /\ own[1] = Named(".", x) /\ own[2] = Named("..", x)
      BY <3>1, <3>2
    <3>5. ASSUME NEW k \in 1 .. Len(own) PROVE own[k].node \in DOMAIN v.nodes
      <4>1. k = 1 \/ k = 2
        BY <3>4, <3>5
      <4> QED BY <4>1, <3>3, <3>4
    <3> QED BY <3>4, <3>5
  <2>2. CASE ~(Fat(v) /\ x = Root)
    BY <2>2
  <2> QED BY <2>1, <2>2
<1>5. Entries(v, x) = own \o kept
  BY DEF Entries
<1> HIDE DEF own, kept
<1>a. kept \in Seq(Listed)
  <2>1. Slots \subseteq Listed
    BY DEF Listed
  <2> QED BY <1>2, <2>1
<1>6. own \o kept \in Seq(Listed) /\ Len(own \o kept) = Len(own) + Len(kept)
  BY <1>a, <1>4
<1>7. ASSUME NEW k \in 1 .. Len(own \o kept) PROVE (own \o kept)[k].node \in DOMAIN v.nodes
  <2>1. CASE k <= Len(own)
    <3>1. k \in 1 .. Len(own) /\ (own \o kept)[k] = own[k]
      BY <1>2, <1>4, <2>1
    <3> QED BY <3>1, <1>4
  <2>2. CASE k > Len(own)
    <3>1. k - Len(own) \in 1 .. Len(kept) /\ (own \o kept)[k] = kept[k - Len(own)]
      BY <1>2, <1>4, <1>6, <2>2
    <3> QED BY <3>1, <1>3
  <2> QED BY <2>1, <2>2, <1>4
<1> QED BY <1>5, <1>6, <1>7

\* q inodes of INODE bytes to a block: which of them the k-th is, in two ways.
LEMMA PlaceOf ==
    ASSUME NEW k \in Nat, NEW q \in Nat \ {0}, NEW z \in Nat \ {0}
    PROVE  (k * z) \div (z * q) = k \div q /\ (k * z) % (z * q) = z * (k % q)
<1> DEFINE a == k \div q
           r == k % q
<1>1. a \in Nat /\ r \in 0 .. q - 1 /\ k = q * a + r
  OBVIOUS
<1> HIDE DEF a, r
<1> DEFINE n == z * q
           s == z * r
<1>2. n \in Nat /\ n # 0
  BY Z3
<1>3. s \in Nat /\ s <= z * (q - 1) /\ z * (q - 1) = n - z
  BY <1>1, Z3
<1>4. k * z = n * a + s
  <2>1. k * z = z * k /\ z * k = z * (q * a + r)
    BY <1>1
  <2>2. z * (q * a + r) = z * (q * a) + z * r
    BY <1>1, Z3
  <2>3. z * (q * a) = (z * q) * a
    BY <1>1, Z3
  <2> QED BY <2>1, <2>2, <2>3
<1> HIDE DEF n, s
<1>5. (n * a + s) \div n = a /\ (n * a + s) % n = s
  <2>1. s \in 0 .. n - 1
    BY <1>2, <1>3
  <2> QED BY <1>1, <1>2, <2>1, Z3
<1> QED BY <1>4, <1>5 DEF n, s, a, r

\* The driver finds the inode of every node where it lies.
LEMMA InodeFound ==
    ASSUME NEW v, WellFormed(v), v.kind = "ext2", NEW x \in DOMAIN v.nodes
    PROVE  ext2_read_inode(v, v.nodes[x].ino) = x
<1> DEFINE index == v.nodes[x].ino
           k == (index - 1) % v.ipg
           group == (index - 1) \div v.ipg
           q == BS \div INODE
           place == <<ext2_read_bgd(v, group) + (k * INODE) \div BS, (k * INODE) % BS>>
           there == {y \in DOMAIN v.nodes : InodePlace(v, y) = place}
<1>1. v.ipg \in Nat \ {0} /\ index \in Nat \ {0}
  BY NodeTypes DEF WellFormed
<1>2. k \in Nat
  <2> HIDE DEF index
  <2> QED BY <1>1, DivMod
<1>3. q \in Nat \ {0} /\ BS = INODE * q
  <2>1. BS \in Nat \ {0} /\ INODE \in Nat \ {0} /\ BS % INODE = 0
    BY VolumeAssumption
  <2>2. q \in Nat /\ BS = INODE * q + (BS % INODE)
    BY <2>1, DivMod
  <2>3. INODE * q = BS
    <3> HIDE DEF q
    <3>1. INODE * q \in Nat
      BY <2>1, <2>2, Product
    <3> QED BY <2>1, <2>2, <3>1
  <2>4. q # 0
    <3> HIDE DEF q
    <3> QED BY <2>1, <2>3
  <2> QED BY <2>2, <2>3, <2>4
<1>4. (k * INODE) \div BS = k \div q /\ (k * INODE) % BS = INODE * (k % q)
  <2> HIDE DEF k, q
  <2> QED BY <1>2, <1>3, PlaceOf, VolumeAssumption
<1>5. place = InodePlace(v, x)
  <2>1. InodePlace(v, x) = <<v.bgd[group + 1] + k \div q, INODE * (k % q)>>
    BY DEF InodePlace
  <2> HIDE DEF k, q, group
  <2> QED BY <1>4, <2>1 DEF ext2_read_bgd
<1>6. there = {x}
  <2> HIDE DEF place
  <2>1. x \in there
    BY <1>5
  <2>2. ASSUME NEW y \in there PROVE y = x
    BY <1>5 DEF WellFormed
  <2> QED BY <2>1, <2>2
<1>7. ext2_read_inode(v, index) = IF there = {} THEN "none" ELSE CHOOSE y \in there : TRUE
  BY DEF ext2_read_inode
<1> QED BY <1>6, <1>7

\* The function that Searched computes its result with exists.
Rounds(node) == Min({b \in 0 .. Len(node.blocks) : BlockRead(node, b) = 0})
Gathers(node, upto) ==
    upto = [b \in 0 .. Rounds(node) |->
               IF b = 0 THEN <<>> ELSE upto[b - 1] \o SlotsOf(node, BlockRead(node, b - 1))]

LEMMA SearchedRecursion ==
    ASSUME NEW node, Rounds(node) \in Nat
    PROVE  \E upto : Gathers(node, upto) /\ Searched(node) = upto[Rounds(node)]
<1> DEFINE N == Rounds(node)
           Then(r, b) == r \o SlotsOf(node, BlockRead(node, b))
           Body(w, m) == [b \in 0 .. m |-> IF b = 0 THEN <<>> ELSE Then(w[b - 1], b - 1)]
           Bad == {m \in Nat : ~\E w : w = Body(w, m)}
<1> HIDE DEF N, Then
<1>1. ASSUME Bad # {} PROVE FALSE
  <2>1. PICK m \in Bad : \A k \in 0 .. m - 1 : k \notin Bad
    BY <1>1, LeastNat
  <2>2. m \in Nat /\ ~\E w : w = Body(w, m)
    BY <2>1
  <2>3. CASE m = 0
    <3> DEFINE u == [b \in 0 .. 0 |-> <<>>]
    <3>1. u = Body(u, m)
      BY <2>3
    <3> QED BY <2>2, <3>1
  <2>4. CASE m # 0
    <3>1. m - 1 \in Nat /\ m - 1 \in 0 .. m - 1
      BY <2>2, <2>4
    <3>2. PICK w : w = Body(w, m - 1)
      BY <2>1, <3>1
    <3> DEFINE u == [b \in 0 .. m |-> IF b = m THEN Then(w[m - 1], m - 1) ELSE w[b]]
    <3>3. u = Body(u, m)
      BY <2>2, <2>4, <3>2
    <3> QED BY <2>2, <3>3
  <2> QED BY <2>3, <2>4
<1> HIDE DEF Bad
<1>a. N \in Nat
  BY DEF N
<1>2. PICK u : u = Body(u, N)
  BY <1>1, <1>a DEF Bad
<1>3. Searched(node) = (CHOOSE w : w = Body(w, N))[N]
  BY Zenon DEF Searched, N, Then, Rounds
<1> DEFINE g == CHOOSE w : w = Body(w, N)
<1>4. g = Body(g, N)
  <2> HIDE DEF Body
  <2> QED BY <1>2
<1>5. Searched(node) = g[N]
  BY <1>3
<1> HIDE DEF g
<1> QED BY <1>4, <1>5 DEF N, Then, Gathers

\* A round searches a block of the directory; the round after the last block finds none.
LEMMA BlockReadIs ==
    ASSUME NEW v, WellFormed(v), v.kind = "ext2", NEW x \in DOMAIN v.nodes
    PROVE  LET node == v.nodes[x]
           IN  /\ \A b \in 0 .. Len(node.blocks) : BlockRead(node, b) \in 0 .. Len(node.blocks)
               /\ BlockRead(node, Len(node.blocks)) = 0
               /\ node.type = "dir" /\ Len(node.blocks) <= DIRECT =>
                     \A b \in 0 .. Len(node.blocks) - 1 : BlockRead(node, b) = b + 1
<1> DEFINE node == v.nodes[x]
           B == Len(node.blocks)
           data(b) == ext2_read(node, 2 * BS, b * BS)
<1>0. /\ BS \in Nat \ {0} /\ 2 * BS \in Nat \ {0} /\ DIRECT \in Nat \ {0}
      /\ node.blocks \in Seq(Nat) /\ B \in Nat /\ node.size \in Nat
  BY VolumeAssumption, NodeTypes
<1>1. node.size <= BS * B /\ (node.type = "dir" => node.size = BS * B /\ DirectoryBlocks(node))
  <2>1. ~Fat(v)
    BY DEF Fat
  <2>2. node.size <= BS * B * 1 \/ node.type = "dir"
    BY <2>1 DEF WellFormed
  <2>3. node.type = "dir" => DirectoryBlocks(node)
    BY DEF WellFormed
  <2>4. node.type = "dir" => node.size = BS * B
    BY <2>3 DEF DirectoryBlocks
  <2> DEFINE z == BS * B
  <2>5. z \in Nat
    <3> HIDE DEF B
    <3> QED BY <1>0, Product
  <2>6. (node.size <= z * 1 \/ node.size = z)
    BY <2>2, <2>4
  <2> HIDE DEF z
  <2>7. node.size <= z
    BY <1>0, <2>5, <2>6
  <2> QED BY <2>3, <2>4, <2>7 DEF z
<1>2. ASSUME NEW b \in 0 .. B
      PROVE  /\ b * BS \in Nat /\ data(b) \in Seq(Byte) /\ OwnBytes(node, data(b))
             /\ Len(data(b)) <= Clip(node.size, 2 * BS, b * BS)
             /\ b * BS >= node.size \/
                   /\ InBlock(b * BS, data(b)) /\ Whole(node)
                   /\ b * BS = 0 \/ (b * BS < DIRECT * BS /\ b * BS + Len(data(b)) <= DIRECT * BS)
                => Right(v, node, b * BS, data(b))
  <2> DEFINE o == b * BS
             c == 2 * BS
  <2>1. o \in Nat
    <3>1. b \in Nat
      BY <1>0, <1>2
    <3> HIDE DEF B
    <3> QED BY <1>0, <3>1, Z3
  <2>2. c \in Nat \ {0}
    BY <1>0
  <2> HIDE DEF o, c
  <2>3. LET d == ext2_read(node, c, o)
        IN  /\ d \in Seq(Byte) /\ OwnBytes(node, d) /\ Len(d) <= Clip(node.size, c, o)
            /\ \/ o >= node.size
               \/ /\ InBlock(o, d) /\ Whole(node)
                  /\ o = 0 \/ (o < DIRECT * BS /\ o + Len(d) <= DIRECT * BS)
               => Right(v, node, o, d)
    BY <2>1, <2>2, Ext2Read
  <2> QED BY <2>1, <2>3 DEF o, c
<1>3. \A b \in 0 .. B : BlockRead(node, b) =
         IF data(b) = <<>> THEN 0 ELSE CHOOSE n \in 1 .. B : node.blocks[n] = data(b)[1][1]
  BY DEF BlockRead, FirstBlock
<1> HIDE DEF data, node, B
<1>4. ASSUME NEW b \in 0 .. B PROVE BlockRead(node, b) \in 0 .. B
  <2>1. CASE data(b) = <<>>
    BY <1>0, <1>3, <2>1
  <2>2. CASE data(b) # <<>>
    <3> DEFINE d == data(b)
    <3>1. d \in Seq(Byte) /\ OwnBytes(node, d) /\ d # <<>>
      BY <1>2, <2>2
    <3> HIDE DEF d
    <3>2. 1 \in 1 .. Len(d)
      BY <3>1
    <3>3. \E n \in 1 .. B : node.blocks[n] = d[1][1]
      BY <3>1, <3>2 DEF OwnBytes, B
    <3>4. BlockRead(node, b) = CHOOSE n \in 1 .. B : node.blocks[n] = d[1][1]
      BY <1>3, <2>2 DEF d
    <3> QED BY <1>0, <3>3, <3>4
  <2> QED BY <2>1, <2>2
<1>5. BlockRead(node, B) = 0
  <2>1. B \in 0 .. B
    BY <1>0
  <2> DEFINE o == B * BS
             d == data(B)
  <2>2. o \in Nat /\ d \in Seq(Byte) /\ Len(d) <= Clip(node.size, 2 * BS, o)
    BY <1>2, <2>1
  <2>3. o >= node.size
    <3>1. B * BS = BS * B
      BY <1>0
    <3> DEFINE z == BS * B
    <3>2. o = z /\ node.size <= z
      BY <1>1, <3>1
    <3> HIDE DEF o, z
    <3> QED BY <1>0, <2>2, <3>2
  <2> HIDE DEF o, d
  <2>4. Clip(node.size, 2 * BS, o) = 0
    BY <1>0, <2>2, <2>3, ClipIs
  <2>5. d = <<>>
    BY <2>2, <2>4
  <2> QED BY <1>3, <2>1, <2>5 DEF d
<1>6. ASSUME node.type = "dir", B <= DIRECT, NEW b \in 0 .. B - 1 PROVE BlockRead(node, b) = b + 1
  <2>0. DirectoryBlocks(node) /\ node.size = BS * B /\ Whole(node)
    BY <1>1, <1>6 DEF DirectoryBlocks
  <2>1. b \in 0 .. B /\ b + 1 \in 1 .. B /\ b \in Nat
    BY <1>0, <1>6
  <2> DEFINE o == b * BS
             d == data(b)
             c == 2 * BS
             z == BS * B
             y == DIRECT * BS
  <2>2. /\ o \in Nat /\ d \in Seq(Byte) /\ Len(d) <= Clip(node.size, c, o)
        /\ InBlock(o, d) /\ (o = 0 \/ (o < y /\ o + Len(d) <= y)) => Right(v, node, o, d)
    BY <1>2, <2>0, <2>1
  <2>3. o \div BS = b /\ o % BS = 0
    <3>1. BS * b + 0 = b * BS
      BY <1>0, <2>1, Z3
    <3>2. (BS * b + 0) \div BS = b /\ (BS * b + 0) % BS = 0
      BY <1>0, <2>1, DivUnique
    <3> QED BY <3>1, <3>2
  <2>4. o < z /\ z <= y /\ y \in Nat /\ z \in Nat
    <3>1. b * BS = BS * b /\ DIRECT * BS = BS * DIRECT
      BY <1>0, <2>1
    <3>2. BS * B = BS * b + BS * (B - b) /\ BS * (B - b) >= BS
      BY <1>0, <1>6, <2>1, Z3
    <3>3. BS * DIRECT = BS * B + BS * (DIRECT - B) /\ BS * (DIRECT - B) \in Nat
      BY <1>0, <1>6, Z3
    <3>4. BS * B \in Nat /\ BS * DIRECT \in Nat
      BY <1>0, Product
    <3> DEFINE p == BS * (B - b)
               q == BS * (DIRECT - B)
    <3>5. z = o + p /\ p >= BS /\ y = z + q /\ q \in Nat /\ z \in Nat /\ y \in Nat /\ p \in Int
      <4>1. p \in Int
        BY <1>0, <2>1, Z3
      <4> QED BY <3>1, <3>2, <3>3, <3>4, <4>1
    <3> HIDE DEF o, z, y, p, q
    <3> QED BY <1>0, <2>2, <3>5
  <2>5. InBlock(o, d)
    BY <2>3 DEF InBlock
  <2>a. c \in Nat \ {0} /\ node.size = z
    BY <1>0, <2>0
  <2> HIDE DEF o, d, c, z, y
  <2>6. o < node.size /\ o + Clip(node.size, c, o) <= node.size /\ Clip(node.size, c, o) \in Nat
    BY <1>0, <2>2, <2>4, <2>a, ClipIs
  <2>7. o + Len(d) <= y /\ o < y
    <3>1. Len(d) \in Nat
      BY <2>2
    <3> QED BY <1>0, <2>2, <2>4, <2>6, <2>a, <3>1
  <2>8. Right(v, node, o, d)
    BY <2>2, <2>5, <2>7
  <2>9. d # <<>>
    BY <1>0, <2>2, <2>6, <2>8 DEF Right
  <2>10. d[1] = <<node.blocks[b + 1], 0>>
    <3>1. 1 \in 1 .. Len(d) /\ o + 1 - 1 = o
      BY <2>2, <2>9
    <3>2. d[1] = Where(v, node, o)
      BY <2>8, <3>1 DEF Right
    <3>3. Where(v, node, o) = <<node.blocks[o \div BS + 1], o % BS>>
      BY DEF Where, Fat
    <3> QED BY <2>3, <3>2, <3>3 DEF o
  <2>11. BlockRead(node, b) = CHOOSE n \in 1 .. B : node.blocks[n] = node.blocks[b + 1]
    <3>1. d[1][1] = node.blocks[b + 1]
      BY <2>10
    <3>2. BlockRead(node, b) = CHOOSE n \in 1 .. B : node.blocks[n] = d[1][1]
      BY <1>3, <2>1, <2>9 DEF d
    <3> QED BY <3>1, <3>2
  <2>12. \A n \in 1 .. B : node.blocks[n] = node.blocks[b + 1] => n = b + 1
    BY <2>0, <2>1 DEF DirectoryBlocks, B
  <2> QED BY <2>1, <2>11, <2>12
<1> QED BY <1>4, <1>5, <1>6 DEF node, B

\* The slots of a block of the directory.
LEMMA SlotsOfAre ==
    ASSUME NEW slots \in Seq(Slots), NEW node, node.slots = slots, NEW n \in Nat \ {0}
    PROVE  LET first == (n - 1) * PerBlock
               end == Least(n * PerBlock, Len(slots))
               part == SlotsOf(node, n)
           IN  /\ part \in Seq(Slots) /\ Len(part) = (IF first < end THEN end - first ELSE 0)
               /\ first \in Nat /\ end \in Nat /\ end <= Len(slots) /\ n * PerBlock = first + PerBlock
               /\ \A j \in 1 .. Len(part) : first + j \in 1 .. end /\ part[j] = slots[first + j]
<1> DEFINE first == (n - 1) * PerBlock
           stop == n * PerBlock
           end == Least(stop, Len(slots))
           part == SubSeq(slots, first + 1, end)
<1>0. PerBlock \in Nat \ {0} /\ Len(slots) \in Nat
  BY VolumeAssumption
<1>1. first \in Nat /\ stop \in Nat /\ stop = first + PerBlock
  BY <1>0, Z3
<1>2. SlotsOf(node, n) = part
  BY DEF SlotsOf
<1> HIDE DEF first, stop
<1>3. end \in Nat /\ end <= Len(slots)
  BY <1>0, <1>1 DEF Least
<1> HIDE DEF end
<1>4. /\ part \in Seq(Slots) /\ Len(part) = IF first < end THEN end - first ELSE 0
      /\ \A j \in 1 .. Len(part) : first + j \in 1 .. end /\ part[j] = slots[first + j]
  BY <1>1, <1>3, Part
<1> QED BY <1>1, <1>2, <1>3, <1>4 DEF first, stop, end

\* What is searched is made of the directory's slots, and is all of them when the
\* directory has direct blocks only.
Among(list, slots) ==
    list \in Seq(Slots) /\ \A j \in 1 .. Len(list) : \E i \in 1 .. Len(slots) : list[j] = slots[i]

LEMMA SearchedIs ==
    ASSUME NEW v, WellFormed(v), v.kind = "ext2", NEW x \in DOMAIN v.nodes
    PROVE  LET node == v.nodes[x]
           IN  /\ Among(Searched(node), node.slots)
               /\ node.type = "dir" /\ Len(node.blocks) <= DIRECT => Searched(node) = node.slots
<1> DEFINE node == v.nodes[x]
           slots == node.slots
           B == Len(node.blocks)
           N == Rounds(node)
           T == {b \in 0 .. B : BlockRead(node, b) = 0}
<1>0. slots \in Seq(Slots) /\ Len(slots) \in Nat /\ B \in Nat /\ PerBlock \in Nat \ {0}
  BY VolumeAssumption, NodeTypes
<1>1. /\ \A b \in 0 .. B : BlockRead(node, b) \in 0 .. B
      /\ BlockRead(node, B) = 0
      /\ node.type = "dir" /\ B <= DIRECT => \A b \in 0 .. B - 1 : BlockRead(node, b) = b + 1
  BY BlockReadIs
<1>2. N \in T /\ \A b \in T : N <= b
  <2>1. N = Min(T)
    BY DEF Rounds
  <2>2. T \subseteq Nat /\ B \in T
    BY <1>0, <1>1
  <2> HIDE DEF T, N
  <2> QED BY <2>1, <2>2, MinOf
<1>3. N \in 0 .. B /\ N \in Nat
  BY <1>0, <1>2
<1>4. PICK upto : Gathers(node, upto) /\ Searched(node) = upto[N]
  BY <1>3, SearchedRecursion
<1> HIDE DEF N
<1>5. ASSUME NEW b \in 0 .. N - 1 PROVE BlockRead(node, b) \in 1 .. B
  <2>1. b \in 0 .. B /\ b \notin T
    BY <1>2, <1>3, <1>0
  <2>2. BlockRead(node, b) \in 0 .. B /\ BlockRead(node, b) # 0
    BY <1>1, <2>1
  <2> QED BY <1>0, <2>2
<1>6. ASSUME NEW b \in 0 .. N - 1
      PROVE  b + 1 \in 0 .. N /\ upto[b + 1] = upto[b] \o SlotsOf(node, BlockRead(node, b))
  <2>1. b + 1 \in 0 .. N /\ b + 1 # 0 /\ (b + 1) - 1 = b
    BY <1>3
  <2>2. upto[b + 1] = upto[(b + 1) - 1] \o SlotsOf(node, BlockRead(node, (b + 1) - 1))
    BY <1>4, <2>1 DEF Gathers, N
  <2> QED BY <2>1, <2>2
<1>7. 0 \in 0 .. N /\ N \in 0 .. N /\ upto[0] = <<>>
  <2>1. 0 \in 0 .. N /\ N \in 0 .. N
    BY <1>3
  <2> QED BY <1>4, <2>1 DEF Gathers, N
<1>a. node.slots = slots
  OBVIOUS
<1> HIDE DEF node, T, B
<1>8. Among(upto[N], slots)
  <2> DEFINE S == {b \in 0 .. N : Among(upto[b], slots)}
  <2>1. 0 \in S
    <3>1. Among(<<>>, slots)
      BY DEF Among
    <3> HIDE DEF slots
    <3> QED BY <1>7, <3>1
  <2>2. ASSUME NEW b \in 0 .. N - 1, b \in S PROVE b + 1 \in S
    <3> DEFINE n == BlockRead(node, b)
               s == upto[b]
               t == SlotsOf(node, n)
               first == (n - 1) * PerBlock
               end == Least(n * PerBlock, Len(slots))
    <3>1. n \in Nat \ {0}
      BY <1>0, <1>5
    <3> HIDE DEF n
    <3>2. /\ t \in Seq(Slots) /\ first \in Nat /\ end \in Nat /\ end <= Len(slots)
          /\ \A j \in 1 .. Len(t) : first + j \in 1 .. end /\ t[j] = slots[first + j]
      <4> HIDE DEF slots
      <4>1. node.slots = slots
        BY DEF slots
      <4> QED BY <1>0, <3>1, <4>1, SlotsOfAre
    <3>3. s \in Seq(Slots) /\ Among(s, slots)
      BY <2>2 DEF Among
    <3> HIDE DEF s, t, first, end, slots
    <3>4. Among(s \o t, slots)
      <4>1. /\ s \o t \in Seq(Slots) /\ Len(s \o t) = Len(s) + Len(t)
            /\ \A k \in 1 .. Len(s) : (s \o t)[k] = s[k]
            /\ \A k \in 1 .. Len(t) : (s \o t)[Len(s) + k] = t[k]
        BY <3>2, <3>3, Joined
      <4> DEFINE u == s \o t
      <4> HIDE DEF u
      <4>2. u \in Seq(Slots) /\ Len(u) = Len(s) + Len(t) /\ Len(s) \in Nat /\ Len(t) \in Nat
        BY <3>2, <3>3, <4>1 DEF u
      <4>3. ASSUME NEW j \in 1 .. Len(u) PROVE \E i \in 1 .. Len(slots) : u[j] = slots[i]
        <5>1. CASE j <= Len(s)
          <6>1. j \in 1 .. Len(s) /\ u[j] = s[j]
            BY <4>1, <4>2, <5>1 DEF u
          <6> QED BY <3>3, <6>1 DEF Among
        <5>2. CASE ~(j <= Len(s))
          <6>1. j - Len(s) \in 1 .. Len(t) /\ Len(s) + (j - Len(s)) = j
            BY <4>2, <5>2
          <6>2. u[j] = t[j - Len(s)]
            BY <4>1, <6>1 DEF u
          <6>3. first + (j - Len(s)) \in 1 .. Len(slots) /\ u[j] = slots[first + (j - Len(s))]
            BY <1>0, <3>2, <6>1, <6>2
          <6> QED BY <6>3
        <5> QED BY <5>1, <5>2
      <4> QED BY <4>2, <4>3 DEF Among, u
    <3>5. upto[b + 1] = s \o t
      BY <1>6 DEF s, t, n
    <3> QED BY <1>6, <3>4, <3>5
  <2> HIDE DEF S
  <2>3. \A b \in 0 .. N : b \in S
    BY <1>3, <2>1, <2>2, Upwards
  <2> QED BY <1>7, <2>3 DEF S
<1>9. ASSUME node.type = "dir", B <= DIRECT PROVE upto[N] = slots
  <2>0. N = B
    <3>1. ASSUME N # B PROVE FALSE
      <4>1. N \in 0 .. B - 1 /\ N \in Nat
        BY <1>0, <1>3, <3>1
      <4>2. BlockRead(node, N) = N + 1 /\ BlockRead(node, N) = 0
        BY <1>1, <1>2, <1>9, <4>1 DEF T
      <4> QED BY <4>1, <4>2
    <3> QED BY <3>1
  <2> DEFINE Good(s, b) == /\ s \in Seq(Slots) /\ Len(s) = Least(b * PerBlock, Len(slots))
                           /\ \A i \in 1 .. Len(s) : s[i] = slots[i]
             S == {b \in 0 .. N : Good(upto[b], b)}
  <2>1. 0 \in S
    <3>1. Least(0 * PerBlock, Len(slots)) = 0
      <4>1. 0 * PerBlock = 0
        BY <1>0
      <4> HIDE DEF slots
      <4> QED BY <1>0, <4>1 DEF Least
    <3>2. <<>> \in Seq(Slots) /\ Len(<<>>) = 0
      OBVIOUS
    <3>3. Good(<<>>, 0)
      BY <3>1, <3>2
    <3> HIDE DEF Good
    <3> QED BY <1>7, <3>3
  <2>2. ASSUME NEW b \in 0 .. N - 1, b \in S PROVE b + 1 \in S
    <3> DEFINE n == b + 1
               s == upto[b]
               t == SlotsOf(node, n)
               first == (n - 1) * PerBlock
               stop == n * PerBlock
               L == Len(slots)
               end == Least(stop, L)
    <3>0. b \in 0 .. B - 1 /\ b \in Nat
      BY <1>3, <2>0
    <3>1. n \in Nat \ {0} /\ BlockRead(node, b) = n /\ n - 1 = b
      BY <1>1, <1>9, <3>0
    <3>2. /\ t \in Seq(Slots) /\ first \in Nat /\ end \in Nat /\ end <= L /\ stop = first + PerBlock
          /\ Len(t) = (IF first < end THEN end - first ELSE 0)
          /\ \A j \in 1 .. Len(t) : first + j \in 1 .. end /\ t[j] = slots[first + j]
      <4>2. n \in Nat \ {0}
        BY <3>1
      <4>3. node.slots = slots /\ slots \in Seq(Slots)
        BY <1>0
      <4> HIDE DEF slots, n, node, s, S, Good
      <4> QED BY <4>2, <4>3, SlotsOfAre
    <3>3. s \in Seq(Slots) /\ Len(s) = Least(b * PerBlock, L) /\ \A i \in 1 .. Len(s) : s[i] = slots[i]
      BY <2>2
    <3>4. b * PerBlock = first
      BY <3>1
    <3>5. upto[b + 1] = s \o t
      BY <1>6, <3>1
    <3>6. L \in Nat /\ Good(s \o t, n) = (/\ s \o t \in Seq(Slots) /\ Len(s \o t) = end
                                         /\ \A i \in 1 .. Len(s \o t) : (s \o t)[i] = slots[i])
      BY <1>0
    <3> HIDE DEF s, t, first, stop, slots, n, Good, L
    <3>7. Good(s \o t, n)
      <4>1. /\ s \o t \in Seq(Slots) /\ Len(s \o t) = Len(s) + Len(t)
            /\ \A k \in 1 .. Len(s) : (s \o t)[k] = s[k]
            /\ \A k \in 1 .. Len(t) : (s \o t)[Len(s) + k] = t[k]
        <5>1. s \in Seq(Slots) /\ t \in Seq(Slots)
          BY <3>2, <3>3
        <5> HIDE DEF end
        <5> QED BY <5>1, Joined
      <4> DEFINE u == s \o t
      <4> HIDE DEF u
      <4>2. u \in Seq(Slots) /\ Len(u) = Len(s) + Len(t) /\ Len(s) \in Nat /\ Len(t) \in Nat
        BY <3>2, <3>3, <4>1 DEF u
      <4>3. Len(s) = Least(first, L)
        BY <3>3, <3>4
      <4>4. Len(u) = end
        BY <1>0, <3>2, <3>6, <4>2, <4>3 DEF Least
      <4>5. Len(t) # 0 => Len(s) = first
        BY <1>0, <3>2, <3>6, <4>3 DEF Least
      <4> HIDE DEF end
      <4>6. ASSUME NEW j \in 1 .. Len(u) PROVE u[j] = slots[j]
        <5>1. CASE j <= Len(s)
          <6>1. j \in 1 .. Len(s) /\ u[j] = s[j]
            BY <4>1, <4>2, <5>1 DEF u
          <6> QED BY <3>3, <6>1
        <5>2. CASE ~(j <= Len(s))
          <6>1. j - Len(s) \in 1 .. Len(t) /\ Len(s) + (j - Len(s)) = j
            BY <4>2, <5>2
          <6>2. u[j] = t[j - Len(s)]
            BY <4>1, <6>1 DEF u
          <6>3. Len(s) = first
            BY <4>2, <4>5, <6>1
          <6>4. t[j - Len(s)] = slots[first + (j - Len(s))] /\ first + (j - Len(s)) = j
            BY <3>2, <6>1, <6>3
          <6> QED BY <6>2, <6>4
        <5> QED BY <5>1, <5>2
      <4> QED BY <3>6, <4>2, <4>4, <4>6 DEF u
    <3>8. Good(upto[b + 1], b + 1)
      BY <3>5, <3>7 DEF n
    <3> QED BY <1>6, <3>8
  <2> HIDE DEF S
  <2>3. \A b \in 0 .. N : b \in S
    BY <1>3, <2>1, <2>2, Upwards
  <2>4. Good(upto[N], N)
    <3> HIDE DEF Good
    <3> QED BY <1>7, <2>3 DEF S
  <2>5. Len(upto[N]) = Len(slots)
    <3>1. DirectoryBlocks(node)
      BY <1>9 DEF WellFormed, node
    <3>2. Len(slots) <= PerBlock * B
      BY <3>1 DEF DirectoryBlocks, B
    <3>3. N * PerBlock = PerBlock * B /\ PerBlock * B \in Nat
      BY <1>0, <2>0, Z3
    <3> DEFINE z == N * PerBlock
               L == Len(slots)
    <3>4. z \in Nat /\ L \in Nat /\ L <= z /\ Len(upto[N]) = Least(z, L)
      <4>1. z \in Nat /\ Len(slots) <= z
        BY <3>2, <3>3
      <4> QED BY <1>0, <2>4, <4>1
    <3> HIDE DEF z, L
    <3>5. Len(upto[N]) = L
      BY <3>4 DEF Least
    <3> QED BY <3>5 DEF L
  <2> HIDE DEF slots
  <2> QED BY <1>0, <2>4, <2>5
<1> QED BY <1>4, <1>8, <1>9 DEF node, B

\* A listing of ext2 does not change the slots it searches.
LEMMA Ext2Listing ==
    ASSUME NEW v, WellFormed(v), v.kind = "ext2", NEW x \in DOMAIN v.nodes
    PROVE  LET slots == Searched(v.nodes[x])
           IN  /\ Among(slots, v.nodes[x].slots)
               /\ ext2_readdir(v, x) = Kept(slots, {i \in 1 .. Len(slots) : NoFree(slots, 1, i)})
<1> DEFINE slots == Searched(v.nodes[x])
           found == [i \in 1 .. Len(slots) |->
                       [slots[i] EXCEPT !.node = IF @ = "none" THEN @ ELSE ext2_read_inode(v, v.nodes[@].ino)]]
<1>1. slots \in Seq(Slots) /\ Among(slots, v.nodes[x].slots)
  BY SearchedIs DEF Among
<1>2. ASSUME NEW i \in 1 .. Len(slots) PROVE found[i] = slots[i]
  <2> HIDE DEF slots
  <2>1. slots[i] \in Slots
    BY <1>1
  <2>a. PICK j \in 1 .. Len(v.nodes[x].slots) : slots[i] = v.nodes[x].slots[j]
    BY <1>1 DEF Among
  <2>2. (IF slots[i].node = "none" THEN slots[i].node ELSE ext2_read_inode(v, v.nodes[slots[i].node].ino))
           = slots[i].node
    BY <2>a, SlotTypes, InodeFound
  <2>3. found[i] = [slots[i] EXCEPT !.node = slots[i].node]
    BY <2>2
  <2> HIDE DEF slots, found
  <2> QED BY <2>1, <2>3 DEF Slots
<1>3. found = slots
  <2> HIDE DEF slots
  <2>1. DOMAIN slots = 1 .. Len(slots) /\ slots = [i \in 1 .. Len(slots) |-> slots[i]]
    BY <1>1
  <2> QED BY <1>2, <2>1
<1>4. ext2_readdir(v, x) = Kept(found, {i \in 1 .. Len(slots) : NoFree(slots, 1, i)})
  BY DEF ext2_readdir, LookedUp
<1> HIDE DEF found
<1> QED BY <1>1, <1>3, <1>4

\* The slots between the first of a block and one of its slots are of that block.
LEMMA SameBlock ==
    ASSUME NEW i \in Nat \ {0}
    PROVE  /\ BlockBegin(i) \in 1 .. i
           /\ \A j \in BlockBegin(i) .. i : BlockBegin(j) = BlockBegin(i)
           /\ i <= PerBlock => BlockBegin(i) = 1
<1> DEFINE q == (i - 1) \div PerBlock
           r == (i - 1) % PerBlock
<1>0. PerBlock \in Nat \ {0}
  BY VolumeAssumption
<1>1. q \in Nat /\ r \in Nat /\ r < PerBlock /\ i - 1 = PerBlock * q + r
  BY <1>0, DivMod
<1> HIDE DEF q, r
<1>2. BlockBegin(i) = PerBlock * q + 1 /\ PerBlock * q \in Nat
  <2>1. q * PerBlock = PerBlock * q
    BY <1>0, <1>1
  <2> QED BY <2>1, <1>0, <1>1, Product DEF BlockBegin, q
<1>3. BlockBegin(i) \in 1 .. i
  BY <1>1, <1>2
<1>4. ASSUME NEW j \in BlockBegin(i) .. i PROVE BlockBegin(j) = BlockBegin(i)
  <2> DEFINE s == j - 1 - PerBlock * q
  <2>1. s \in Nat /\ s < PerBlock /\ j - 1 = PerBlock * q + s
    BY <1>0, <1>1, <1>2
  <2>2. (j - 1) \div PerBlock = q
    <3> HIDE DEF s
    <3> QED BY <1>0, <1>1, <2>1, DivUnique
  <2>3. q * PerBlock = PerBlock * q
    BY <1>0, <1>1
  <2> QED BY <1>2, <2>2, <2>3 DEF BlockBegin
<1>5. ASSUME i <= PerBlock PROVE BlockBegin(i) = 1
  <2>1. PerBlock * q < PerBlock
    BY <1>0, <1>1, <1>2, <1>5
  <2>2. q = 0
    BY <1>0, <1>1, <2>1, Product
  <2> QED BY <1>0, <1>2, <2>2
<1> QED BY <1>3, <1>4, <1>5

\* The entries of a directory that is no FAT's root are its slots of that kind.
LEMMA EntriesKept ==
    ASSUME NEW v, WellFormed(v), NEW x \in DOMAIN v.nodes, ~(Fat(v) /\ x = Root)
    PROVE  Entries(v, x) = Kept(v.nodes[x].slots, {i \in 1 .. Len(v.nodes[x].slots) : v.nodes[x].slots[i].kind = Entry})
<1> DEFINE slots == v.nodes[x].slots
           kept == Kept(slots, {i \in 1 .. Len(slots) : slots[i].kind = Entry})
<1>1. kept \in Seq(Slots)
  BY NodeTypes, KeptSlots
<1>2. Entries(v, x) = <<>> \o kept
  BY DEF Entries
<1> HIDE DEF kept
<1>3. <<>> \o kept = kept
  BY <1>1
<1> QED BY <1>2, <1>3 DEF kept

\* A directory in which nothing disturbs a listing is listed as it is; ISO 9660 adds
\* an entry without a name.
LEMMA PlainListing ==
    ASSUME NEW v, WellFormed(v), NEW x \in DOMAIN v.nodes, v.nodes[x].type = "dir", Plain(v, x)
    PROVE  fs_readdir(v, x) =
              IF v.kind = "iso9660" THEN Append(Entries(v, x), Named("", "none")) ELSE Entries(v, x)
<1> DEFINE slots == v.nodes[x].slots
           N == 1 .. Len(slots)
           E == {i \in N : slots[i].kind = Entry}
<1>1. slots \in Seq(Slots)
  BY NodeTypes
<1>2. \A i \in N : slots[i].kind \in {Entry, "free", "label", "deleted"} /\ (~Fat(v) => slots[i].kind \in {Entry, "free"})
  <2> TAKE i \in N
  <2>1. slots[i] \in Slots /\ (slots[i].kind \in {Entry, "free"} \/ Fat(v))
    BY SlotTypes
  <2> HIDE DEF slots
  <2>2. slots[i].kind \in {Entry, "free", "label", "deleted"}
    BY <2>1 DEF Slots
  <2> QED BY <2>1, <2>2
<1>3. v.kind = "ext2" \/ (Fat(v) /\ x = Root) \/ FreeLast(v, x)
  BY DEF WellFormed
<1>4. CASE Fat(v) /\ x = Root
  <2> DEFINE I == {i \in N : slots[i].kind \notin {"free", "label"}}
  <2>1. \A i \in N : slots[i].kind # "deleted"
    BY <1>4 DEF Plain, Fat
  <2>2. I = E
    <3> HIDE DEF slots
    <3> QED BY <1>2, <2>1 DEF Entry
  <2>3. fs_readdir(v, x) = <<Named(".", x), Named("..", x)>> \o Kept(slots, I)
    BY <1>4 DEF fs_readdir, fat_readdir, Fat
  <2>4. Entries(v, x) = <<Named(".", x), Named("..", x)>> \o Kept(slots, E)
    BY <1>4 DEF Entries
  <2>5. v.kind # "iso9660"
    BY <1>4 DEF Fat
  <2> QED BY <2>2, <2>3, <2>4, <2>5
<1>5. CASE Fat(v) /\ x # Root
  <2> DEFINE I == {i \in N : FirstSector(i) /\ NoFree(slots, BlockBegin(i), i)}
  <2>1. \A i \in N : slots[i].kind # "deleted" /\ slots[i].kind # "label"
    BY <1>5 DEF Plain, Fat
  <2>f. \A i \in N : FirstSector(i)
    <3> TAKE i \in N
    <3> DEFINE q == (i - 1) \div PerBlock
    <3>0. PerBlock \in Nat \ {0} /\ SPC \in Nat \ {0} /\ i - 1 \in Nat /\ i - 1 < Len(slots) /\ Len(slots) \in Nat
      <4> HIDE DEF slots
      <4> QED BY <1>1, VolumeAssumption
    <3>1. SPC = 1 \/ Len(slots) <= PerBlock
      BY <1>5 DEF Plain, Fat
    <3> HIDE DEF slots
    <3>2. CASE SPC = 1
      <4>1. q \in Nat
        BY <3>0, DivMod
      <4> HIDE DEF q
      <4>2. q % 1 = 0
        BY <4>1
      <4> QED BY <3>2, <4>2 DEF FirstSector, q
    <3>3. CASE Len(slots) <= PerBlock
      <4>1. q = 0
        <5>1. PerBlock * 0 + (i - 1) = i - 1 /\ i - 1 < PerBlock /\ 0 \in Nat
          BY <3>0, <3>3
        <5>2. (PerBlock * 0 + (i - 1)) \div PerBlock = 0
          <6> DEFINE r == i - 1
          <6>1. r \in Nat /\ r < PerBlock
            BY <3>0, <5>1
          <6> HIDE DEF r
          <6>2. (PerBlock * 0 + r) \div PerBlock = 0
            BY <3>0, <5>1, <6>1, DivUnique
          <6> QED BY <6>2 DEF r
        <5> QED BY <5>1, <5>2
      <4>2. 0 % SPC = 0
        BY <3>0, Z3
      <4> QED BY <4>1, <4>2 DEF FirstSector
    <3> QED BY <3>1, <3>2, <3>3
  <2>2. v.kind # "iso9660" /\ v.kind # "ext2"
    BY <1>5 DEF Fat
  <2>3. FreeLast(v, x)
    BY <1>3, <1>5, <2>2
  <2>4. I = E
    <3>1. ASSUME NEW i \in N, i \in I PROVE i \in E
      <4>1. BlockBegin(i) \in 1 .. i
        BY SameBlock
      <4>2. i \in BlockBegin(i) .. i
        BY <4>1
      <4> HIDE DEF slots
      <4>3. slots[i].kind # "free"
        BY <3>1, <4>2 DEF NoFree
      <4> QED BY <1>2, <2>1, <4>3
    <3>2. ASSUME NEW i \in N, i \in E PROVE i \in I
      <4>1. ASSUME NEW j \in BlockBegin(i) .. i, slots[j].kind = "free" PROVE FALSE
        <5>0. BlockBegin(i) \in 1 .. i /\ BlockBegin(j) = BlockBegin(i)
          BY SameBlock
        <5>1. slots[i].kind # "free"
          BY <3>2 DEF Entry
        <5>2. j # i
          BY <4>1, <5>1
        <5>3. j \in N /\ j < i
          BY <5>0, <5>2
        <5>4. slots[i].kind = "free"
          BY <2>3, <4>1, <5>0, <5>3 DEF FreeLast
        <5> QED BY <5>1, <5>4
      <4> QED BY <2>f, <4>1 DEF NoFree
    <3> QED BY <3>1, <3>2
  <2>5. fs_readdir(v, x) = Kept(slots, I)
    BY <1>5 DEF fs_readdir, fat_readdir, Fat
  <2> QED BY <1>5, <2>2, <2>4, <2>5, EntriesKept
<1>6. CASE v.kind = "ext2"
  <2> DEFINE I == {i \in N : NoFree(slots, 1, i)}
  <2>0. ~Fat(v)
    BY <1>6 DEF Fat
  <2>1. \A i \in N : slots[i].kind # "free"
    BY <1>6, <2>0 DEF Plain
  <2>2. I = E
    <3> HIDE DEF slots
    <3>1. \A i \in N : slots[i].kind = Entry
      BY <1>2, <2>0, <2>1
    <3>2. \A i \in N : NoFree(slots, 1, i)
      BY <2>1, <1>1 DEF NoFree
    <3> QED BY <3>1, <3>2
  <2>3. fs_readdir(v, x) = ext2_readdir(v, x)
    BY <1>6, <2>0 DEF fs_readdir
  <2>4. ext2_readdir(v, x) = Kept(slots, I)
    <3>1. Len(v.nodes[x].blocks) <= DIRECT
      BY <1>6, <2>0 DEF Plain
    <3>2. Searched(v.nodes[x]) = slots
      BY <1>6, <3>1, SearchedIs
    <3> DEFINE s == Searched(v.nodes[x])
    <3>3. ext2_readdir(v, x) = Kept(s, {i \in 1 .. Len(s) : NoFree(s, 1, i)})
      BY <1>6, Ext2Listing
    <3> HIDE DEF s
    <3>4. s = slots
      BY <3>2 DEF s
    <3> QED BY <3>3, <3>4
  <2>5. Entries(v, x) = Kept(slots, E)
    BY <2>0, EntriesKept
  <2> QED BY <1>6, <2>2, <2>3, <2>4, <2>5
<1>7. CASE v.kind = "iso9660"
  <2> DEFINE I == {i \in N : i <= PerBlock /\ NoFree(slots, 1, i)}
  <2>0. ~Fat(v)
    BY <1>7 DEF Fat
  <2>1. Len(slots) <= PerBlock
    BY <1>7, <2>0 DEF Plain
  <2>2. FreeLast(v, x)
    BY <1>3, <1>7, <2>0
  <2>3. I = E
    <3>1. ASSUME NEW i \in N, i \in I PROVE i \in E
      <4> HIDE DEF slots
      <4>1. i \in 1 .. i
        OBVIOUS
      <4>2. slots[i].kind # "free"
        BY <3>1, <4>1 DEF NoFree
      <4> QED BY <1>2, <2>0, <4>2
    <3>2. ASSUME NEW i \in N, i \in E PROVE i \in I
      <4>0. PerBlock \in Nat
        BY VolumeAssumption
      <4>1. ASSUME NEW j \in 1 .. i, slots[j].kind = "free" PROVE FALSE
        <5>0. BlockBegin(i) = 1 /\ BlockBegin(j) = 1
          <6>1. Len(slots) \in Nat /\ i <= PerBlock /\ j <= PerBlock
            <7> HIDE DEF slots
            <7> QED BY <1>1, <2>1, <4>0
          <6> QED BY <6>1, SameBlock
        <5>1. slots[i].kind # "free"
          BY <3>2 DEF Entry
        <5>2. j # i
          BY <4>1, <5>1
        <5>3. j \in N /\ j < i
          BY <5>2
        <5>4. slots[i].kind = "free"
          BY <2>2, <4>1, <5>0, <5>3 DEF FreeLast
        <5> QED BY <5>1, <5>4
      <4>2. i <= PerBlock
        <5> HIDE DEF slots
        <5> QED BY <1>1, <2>1, <4>0
      <4> QED BY <4>1, <4>2 DEF NoFree
    <3> QED BY <3>1, <3>2
  <2>4. fs_readdir(v, x) = Append(Kept(slots, I), Named("", "none"))
    BY <1>7, <2>0 DEF fs_readdir, iso9660_readdir
  <2> QED BY <1>7, <2>0, <2>3, <2>4, EntriesKept
<1>8. v.kind \in {"fat12", "fat16", "ext2", "iso9660"}
  BY NodeTypes
<1> QED BY <1>4, <1>5, <1>6, <1>7, <1>8 DEF Fat

\* Whatever else a directory holds, a name that is looked up leads to a node.
Leads(v, e, name) == Alike(v, e.name, name) => e.node \in DOMAIN v.nodes

LEMMA KeptLeads ==
    ASSUME NEW v \in Volumes, NEW x \in DOMAIN v.nodes, NEW name \in Looked, NEW I,
           NEW list, Among(list, v.nodes[x].slots),
           \A i \in 1 .. Len(list) : i \in I => list[i].kind # "free"
    PROVE  LET kept == Kept(list, I)
           IN  kept \in Seq(Slots) /\ \A k \in 1 .. Len(kept) : Leads(v, kept[k], name)
<1> DEFINE slots == v.nodes[x].slots
           kept == Kept(list, I)
<1>0. WellFormed(v) /\ list \in Seq(Slots)
  BY FilesAssumption DEF Among
<1>1. kept \in Seq(Slots) /\ \A k \in 1 .. Len(kept) : \E i \in 1 .. Len(list) : i \in I /\ kept[k] = list[i]
  BY <1>0, KeptSlots
<1>2. ASSUME NEW k \in 1 .. Len(kept) PROVE Leads(v, kept[k], name)
  <2>1. PICK j \in 1 .. Len(list) : j \in I /\ kept[k] = list[j]
    BY <1>1
  <2>a. PICK i \in 1 .. Len(slots) : list[j] = slots[i]
    BY DEF Among
  <2>2. slots[i].kind # "free"
    BY <2>1, <2>a
  <2>3. /\ slots[i] \in Slots /\ (slots[i].kind = Entry => slots[i].node \in DOMAIN v.nodes)
    BY <1>0, SlotTypes
  <2>4. slots[i].kind \in {Entry, "free", "label", "deleted"}
    BY <2>3 DEF Slots
  <2>5. slots[i].kind \in {"label", "deleted"} => ~Alike(v, slots[i].name, name)
    BY NamesAssumption
  <2> HIDE DEF kept, slots
  <2> QED BY <2>1, <2>a, <2>2, <2>3, <2>4, <2>5 DEF Leads
<1> QED BY <1>1, <1>2

LEMMA Sought ==
    ASSUME NEW v \in Volumes, NEW x \in DOMAIN v.nodes, NEW name \in Looked
    PROVE  /\ fs_readdir(v, x) \in Seq(Listed)
           /\ \A k \in 1 .. Len(fs_readdir(v, x)) : Leads(v, fs_readdir(v, x)[k], name)
<1> DEFINE slots == v.nodes[x].slots
           N == 1 .. Len(slots)
           list == fs_readdir(v, x)
<1>0. WellFormed(v) /\ v.kind \in {"fat12", "fat16", "ext2", "iso9660"} /\ Slots \subseteq Listed
  BY FilesAssumption DEF WellFormed, Listed
<1>a. Among(slots, v.nodes[x].slots)
  BY <1>0, NodeTypes DEF Among
<1>1. CASE Fat(v) /\ x = Root
  <2> DEFINE I == {i \in N : slots[i].kind \notin {"free", "label"}}
             kept == Kept(slots, I)
             own == <<Named(".", x), Named("..", x)>>
  <2>1. list = own \o kept
    BY <1>1 DEF fs_readdir, fat_readdir, Fat
  <2>2. kept \in Seq(Slots) /\ \A k \in 1 .. Len(kept) : Leads(v, kept[k], name)
    <3>1. \A i \in N : i \in I => slots[i].kind # "free"
      OBVIOUS
    <3> HIDE DEF I
    <3> QED BY <1>a, <3>1, KeptLeads
  <2>3. own \in Seq(Listed) /\ Len(own) = 2 /\ own[1] = Named(".", x) /\ own[2] = Named("..", x)
    BY <1>1 DEF Listed
  <2>4. Leads(v, Named(".", x), name) /\ Leads(v, Named("..", x), name)
    BY DEF Leads, Named
  <2> HIDE DEF own, kept, list
  <2>5. own \o kept \in Seq(Listed) /\ Len(own \o kept) = 2 + Len(kept)
    <3>1. kept \in Seq(Listed)
      BY <1>0, <2>2
    <3>2. own \in Seq(Listed) /\ Len(own) = 2
      BY <2>3
    <3>3. own \o kept \in Seq(Listed) /\ Len(own \o kept) = Len(own) + Len(kept)
      BY <3>1, <3>2, Joined
    <3> QED BY <3>2, <3>3
  <2>6. ASSUME NEW k \in 1 .. Len(own \o kept) PROVE Leads(v, (own \o kept)[k], name)
    <3>1. CASE k = 1 \/ k = 2
      <4>1. (own \o kept)[k] = own[k]
        <5>1. kept \in Seq(Listed) /\ own \in Seq(Listed) /\ k \in 1 .. Len(own)
          BY <1>0, <2>2, <2>3, <3>1
        <5> QED BY <5>1, Joined
      <4> QED BY <4>1, <2>3, <2>4, <3>1
    <3>2. CASE k > 2
      <4>1. k - 2 \in 1 .. Len(kept) /\ (own \o kept)[k] = kept[k - 2]
        BY <2>2, <2>3, <2>5, <3>2
      <4> QED BY <4>1, <2>2
    <3> QED BY <3>1, <3>2
  <2> QED BY <2>1, <2>5, <2>6 DEF list
<1>2. CASE Fat(v) /\ x # Root
  <2> DEFINE I == {i \in N : FirstSector(i) /\ NoFree(slots, BlockBegin(i), i)}
             kept == Kept(slots, I)
  <2>1. list = kept
    BY <1>2 DEF fs_readdir, fat_readdir, Fat
  <2>2. ASSUME NEW i \in N, i \in I PROVE slots[i].kind # "free"
    <3>1. BlockBegin(i) \in 1 .. i
      BY SameBlock
    <3> HIDE DEF slots
    <3> QED BY <2>2, <3>1 DEF NoFree
  <2> HIDE DEF I
  <2>3. kept \in Seq(Slots) /\ \A k \in 1 .. Len(kept) : Leads(v, kept[k], name)
    BY <1>a, <2>2, KeptLeads
  <2> HIDE DEF kept, list
  <2> QED BY <1>0, <2>1, <2>3 DEF list
<1>3. CASE v.kind = "ext2"
  <2> DEFINE s == Searched(v.nodes[x])
             I == {i \in 1 .. Len(s) : NoFree(s, 1, i)}
             kept == Kept(s, I)
  <2>1. list = kept /\ Among(s, v.nodes[x].slots)
    <3>1. list = ext2_readdir(v, x)
      BY <1>3 DEF fs_readdir, Fat
    <3> QED BY <1>0, <1>3, <3>1, Ext2Listing
  <2>2. ASSUME NEW i \in 1 .. Len(s), i \in I PROVE s[i].kind # "free"
    <3> HIDE DEF s
    <3> QED BY <2>2 DEF NoFree
  <2> HIDE DEF I, s
  <2>3. kept \in Seq(Slots) /\ \A k \in 1 .. Len(kept) : Leads(v, kept[k], name)
    BY <2>1, <2>2, KeptLeads
  <2> HIDE DEF kept, list
  <2> QED BY <1>0, <2>1, <2>3 DEF list
<1>4. CASE v.kind = "iso9660"
  <2> DEFINE I == {i \in N : i <= PerBlock /\ NoFree(slots, 1, i)}
             kept == Kept(slots, I)
             last_one == Named("", "none")
             more == Append(kept, last_one)
  <2>1. list = more
    BY <1>4 DEF fs_readdir, iso9660_readdir, Fat
  <2>2. ASSUME NEW i \in N, i \in I PROVE slots[i].kind # "free"
    <3> HIDE DEF slots
    <3> QED BY <2>2 DEF NoFree
  <2> HIDE DEF I
  <2>3. kept \in Seq(Slots) /\ \A k \in 1 .. Len(kept) : Leads(v, kept[k], name)
    BY <1>a, <2>2, KeptLeads
  <2>4. Leads(v, Named("", "none"), name)
    <3>1. ~Alike(v, "", name)
      BY <1>4, NamesAssumption DEF Alike, Fat
    <3> QED BY <3>1 DEF Leads, Named
  <2>5. Named("", "none") \in Listed
    BY DEF Listed
  <2> HIDE DEF kept, list
  <2>6. kept \in Seq(Listed)
    BY <1>0, <2>3
  <2>7. more \in Seq(Listed) /\ Len(more) = Len(kept) + 1 /\ more[Len(kept) + 1] = Named("", "none")
        /\ \A k \in 1 .. Len(kept) : more[k] = kept[k]
    <3> HIDE DEF last_one
    <3>1. last_one \in Listed
      BY <2>5 DEF last_one
    <3>2. /\ more \in Seq(Listed) /\ Len(more) = Len(kept) + 1 /\ more[Len(kept) + 1] = last_one
          /\ \A k \in 1 .. Len(kept) : more[k] = kept[k]
      BY <3>1, <2>6, Longer
    <3> HIDE DEF more
    <3> QED BY <3>2 DEF last_one
  <2>8. ASSUME NEW k \in 1 .. Len(more) PROVE Leads(v, more[k], name)
    <3> HIDE DEF more
    <3>1. k \in 1 .. Len(kept) \/ k = Len(kept) + 1
      <4>0. Len(kept) \in Nat
        BY <2>6
      <4>1. Len(more) = Len(kept) + 1
        BY <2>7
      <4> QED BY <4>0, <4>1
    <3> QED BY <2>3, <2>4, <2>7, <3>1
  <2> HIDE DEF more
  <2> QED BY <2>1, <2>7, <2>8 DEF list
<1> QED BY <1>0, <1>1, <1>2, <1>3, <1>4 DEF Fat

-----------------------------------------------------------------------------
(***************************************************************************)
(* The walk along a path.                                                  *)
(***************************************************************************)

\* The functions Walk and Lookup are what their equations say.
Start == [err |-> "ok", fs |-> "root", dir |-> rootdir, f |-> rootdir]

LEMMA WalkRecursion ==
    ASSUME NEW path, Len(path) \in Nat
    PROVE  Walk(path) = [k \in 0 .. Len(path) |-> IF k = 0 THEN Start ELSE Step(Walk(path)[k - 1], path[k])]
<1> DEFINE Body(w, n) == [k \in 0 .. n |-> IF k = 0 THEN Start ELSE Step(w[k - 1], path[k])]
           Bad == {n \in Nat : ~\E w : w = Body(w, n)}
<1>1. ASSUME Bad # {} PROVE FALSE
  <2>1. PICK m \in Bad : \A k \in 0 .. m - 1 : k \notin Bad
    BY <1>1, LeastNat
  <2>2. m \in Nat /\ ~\E w : w = Body(w, m)
    BY <2>1
  <2>3. CASE m = 0
    <3> DEFINE v == [k \in 0 .. 0 |-> Start]
    <3>1. v = Body(v, m)
      BY <2>3
    <3> QED BY <2>2, <3>1
  <2>4. CASE m # 0
    <3>1. m - 1 \in Nat /\ m - 1 \in 0 .. m - 1
      BY <2>2, <2>4
    <3>2. PICK w : w = Body(w, m - 1)
      BY <2>1, <3>1
    <3> DEFINE v == [k \in 0 .. m |-> IF k = m THEN Step(w[m - 1], path[m]) ELSE w[k]]
    <3>3. v = Body(v, m)
      BY <2>2, <2>4, <3>2
    <3> QED BY <2>2, <3>3
  <2> QED BY <2>3, <2>4
<1>2. \E w : w = Body(w, Len(path))
  BY <1>1
<1> QED BY <1>2 DEF Walk, Start

Below(v, points, up, name) ==
    IF up = "no" \/ up \in points \/ v.nodes[up].type # "dir" THEN "no" ELSE Child(v, up, name)

LEMMA LookupRecursion ==
    ASSUME NEW v, NEW points, NEW path, Len(path) \in Nat
    PROVE  Lookup(v, points, path) =
              [k \in 0 .. Len(path) |-> IF k = 0 THEN Root
                                        ELSE Below(v, points, Lookup(v, points, path)[k - 1], path[k])]
<1> DEFINE Body(w, n) == [k \in 0 .. n |-> IF k = 0 THEN Root ELSE Below(v, points, w[k - 1], path[k])]
           Bad == {n \in Nat : ~\E w : w = Body(w, n)}
<1>1. ASSUME Bad # {} PROVE FALSE
  <2>1. PICK m \in Bad : \A k \in 0 .. m - 1 : k \notin Bad
    BY <1>1, LeastNat
  <2>2. m \in Nat /\ ~\E w : w = Body(w, m)
    BY <2>1
  <2>3. CASE m = 0
    <3> DEFINE u == [k \in 0 .. 0 |-> Root]
    <3>1. u = Body(u, m)
      BY <2>3
    <3> QED BY <2>2, <3>1
  <2>4. CASE m # 0
    <3>1. m - 1 \in Nat /\ m - 1 \in 0 .. m - 1
      BY <2>2, <2>4
    <3>2. PICK w : w = Body(w, m - 1)
      BY <2>1, <3>1
    <3> DEFINE u == [k \in 0 .. m |-> IF k = m THEN Below(v, points, w[m - 1], path[m]) ELSE w[k]]
    <3>3. u = Body(u, m)
      BY <2>2, <2>4, <3>2
    <3> QED BY <2>2, <3>3
  <2> QED BY <2>3, <2>4
<1>2. \E w : w = Body(w, Len(path))
  BY <1>1
<1> QED BY <1>2 DEF Lookup, Below

\* The walk is in a directory of the volume, or in a pseudo file system.
Walks == {w \in [err : {"ok", "ENOENT"}, fs : {"root"} \cup Mounted,
                 dir : DOMAIN vol.nodes \cup {"none"}, f : DOMAIN vol.nodes] :
             w.fs = "root" => w.dir \in DOMAIN vol.nodes}
MountTypes == mounts \in Seq([ino : Nat, fs : Mounted])

\* Each component keeps it so, on every volume.
LEMMA StepTypes ==
    ASSUME vol \in Volumes, MountTypes, NEW w \in Walks, NEW name \in Looked
    PROVE  /\ Step(w, name) \in Walks
           /\ w.err # "ok" => Step(w, name) = w
           /\ w.err = "ok" /\ w.fs # "root" => Step(w, name).err = "ENOENT"
<1> DEFINE list == readdir(w.fs, w.dir)
           hits == {i \in 1 .. Len(list) : SameName(w.fs, list[i].name, name)}
           f == list[Min(hits)].node
           D == DOMAIN vol.nodes
<1>0. /\ w.err \in {"ok", "ENOENT"} /\ w.fs \in {"root"} \cup Mounted /\ w.dir \in D \cup {"none"} /\ w.f \in D
      /\ (w.fs = "root" => w.dir \in D)
      /\ w \in [err : {"ok", "ENOENT"}, fs : {"root"} \cup Mounted, dir : D \cup {"none"}, f : D]
  BY DEF Walks
<1>1. Step(w, name) =
        IF w.err # "ok" THEN w
        ELSE IF hits = {} THEN [w EXCEPT !.err = "ENOENT"]
        ELSE IF f = "none" \/ vol.nodes[f].type # "dir" THEN [w EXCEPT !.f = f]
        ELSE IF MountedOn(f) = {} THEN [w EXCEPT !.f = f, !.dir = f]
        ELSE [w EXCEPT !.f = f, !.fs = mounts[Min(MountedOn(f))].fs, !.dir = "none"]
  BY DEF Step, Pick, Hits, Enter
<1>2. CASE w.err # "ok"
  BY <1>1, <1>2
<1>3. CASE w.err = "ok" /\ w.fs # "root"
  <2>1. hits = {}
    BY <1>3 DEF readdir
  <2>2. Step(w, name) = [w EXCEPT !.err = "ENOENT"]
    BY <1>1, <1>3, <2>1
  <2> HIDE DEF hits, D
  <2>3. Step(w, name).err = "ENOENT"
    BY <1>0, <2>2
  <2>4. Step(w, name) \in Walks
    BY <1>0, <1>3, <2>2 DEF Walks, D
  <2> QED BY <1>3, <2>3, <2>4
<1>4. CASE w.err = "ok" /\ w.fs = "root"
  <2>1. CASE hits = {}
    <3>1. Step(w, name) = [w EXCEPT !.err = "ENOENT"]
      BY <1>1, <1>4, <2>1
    <3> QED BY <1>0, <1>4, <3>1 DEF Walks
  <2>2. CASE hits # {}
    <3>1. list = fs_readdir(vol, w.dir) /\ w.dir \in D
      BY <1>0, <1>4 DEF readdir
    <3>2. list \in Seq(Listed) /\ \A k \in 1 .. Len(list) : Leads(vol, list[k], name)
      BY <3>1, Sought
    <3>3. hits \subseteq Nat /\ Min(hits) \in hits
      <4>1. hits \subseteq Nat
        BY <3>2
      <4> HIDE DEF hits
      <4> QED BY <2>2, <4>1, MinOf
    <3>4. f \in D
      <4>1. Min(hits) \in 1 .. Len(list) /\ Alike(vol, list[Min(hits)].name, name)
        BY <1>4, <3>3 DEF SameName
      <4> HIDE DEF hits, list
      <4> QED BY <3>2, <4>1 DEF Leads
    <3> HIDE DEF f, hits
    <3>5. CASE f = "none" \/ vol.nodes[f].type # "dir"
      <4>1. Step(w, name) = [w EXCEPT !.f = f]
        BY <1>1, <1>4, <2>2, <3>5
      <4> QED BY <1>0, <1>4, <3>4, <4>1 DEF Walks
    <3>6. CASE ~(f = "none" \/ vol.nodes[f].type # "dir") /\ MountedOn(f) = {}
      <4>1. Step(w, name) = [w EXCEPT !.f = f, !.dir = f]
        BY <1>1, <1>4, <2>2, <3>6
      <4> QED BY <1>0, <1>4, <3>4, <4>1 DEF Walks
    <3>7. CASE ~(f = "none" \/ vol.nodes[f].type # "dir") /\ MountedOn(f) # {}
      <4> DEFINE fs == mounts[Min(MountedOn(f))].fs
      <4>1. Step(w, name) = [w EXCEPT !.f = f, !.fs = fs, !.dir = "none"]
        BY <1>1, <1>4, <2>2, <3>7
      <4>2. fs \in Mounted
        <5>1. MountedOn(f) \subseteq Nat /\ MountedOn(f) \subseteq 1 .. Len(mounts)
          BY DEF MountedOn, MountTypes
        <5>2. Min(MountedOn(f)) \in 1 .. Len(mounts)
          BY <3>7, <5>1, MinOf
        <5> DEFINE m == Min(MountedOn(f))
        <5>3. m \in 1 .. Len(mounts)
          BY <5>2
        <5> HIDE DEF m
        <5>4. mounts[m] \in [ino : Nat, fs : Mounted]
          BY <5>3, SeqElement, Zenon DEF MountTypes
        <5> QED BY <5>4 DEF m
      <4>3. "root" \notin Mounted
        BY DEF Mounted, Pseudo
      <4> HIDE DEF fs
      <4> QED BY <1>0, <1>4, <3>4, <4>1, <4>2, <4>3 DEF Walks
    <3> QED BY <3>5, <3>6, <3>7
  <2> QED BY <1>4, <2>1, <2>2
<1> QED BY <1>0, <1>2, <1>3, <1>4

\* Where nothing disturbs the listing, a name is found in it exactly as among the
\* entries of the directory.
LEMMA HitsAgree ==
    ASSUME NEW v \in Volumes, NEW x \in DOMAIN v.nodes, v.nodes[x].type = "dir", Plain(v, x), NEW name \in Looked
    PROVE  LET list == fs_readdir(v, x)
               entries == Entries(v, x)
           IN  /\ {i \in 1 .. Len(list) : Alike(v, list[i].name, name)}
                     = {i \in 1 .. Len(entries) : Alike(v, entries[i].name, name)}
               /\ \A i \in 1 .. Len(entries) : list[i] = entries[i]
<1> DEFINE list == fs_readdir(v, x)
           entries == Entries(v, x)
           last_one == Named("", "none")
<1>0. WellFormed(v)
  BY FilesAssumption
<1>1. list = IF v.kind = "iso9660" THEN Append(entries, last_one) ELSE entries
  BY <1>0, PlainListing
<1>2. entries \in Seq(Listed)
  BY <1>0, EntriesAre
<1>3. CASE v.kind = "iso9660"
  <2>1. ~Alike(v, last_one.name, name)
    BY <1>3, NamesAssumption DEF Alike, Fat, Named
  <2>2. last_one \in Listed
    BY DEF Listed
  <2> HIDE DEF list, entries, last_one
  <2>3. /\ Len(list) = Len(entries) + 1 /\ list[Len(entries) + 1] = last_one
        /\ \A i \in 1 .. Len(entries) : list[i] = entries[i]
    BY <1>1, <1>2, <1>3, <2>2, Longer
  <2>4. Len(entries) \in Nat
    BY <1>2
  <2>5. \A i \in 1 .. Len(list) : i \in 1 .. Len(entries) \/ i = Len(entries) + 1
    BY <2>3, <2>4
  <2>6. 1 .. Len(entries) \subseteq 1 .. Len(list)
    BY <2>3, <2>4
  <2>7. {i \in 1 .. Len(list) : Alike(v, list[i].name, name)}
            = {i \in 1 .. Len(entries) : Alike(v, entries[i].name, name)}
    <3>1. ASSUME NEW i \in 1 .. Len(list), Alike(v, list[i].name, name)
          PROVE  i \in 1 .. Len(entries) /\ Alike(v, entries[i].name, name)
      <4>1. i # Len(entries) + 1
        BY <3>1, <2>1, <2>3
      <4>2. i \in 1 .. Len(entries)
        BY <4>1, <2>5
      <4> QED BY <3>1, <4>2, <2>3
    <3>2. ASSUME NEW i \in 1 .. Len(entries), Alike(v, entries[i].name, name)
          PROVE  i \in 1 .. Len(list) /\ Alike(v, list[i].name, name)
      BY <3>2, <2>3, <2>6
    <3> QED BY <3>1, <3>2
  <2> QED BY <2>3, <2>7 DEF list, entries
<1>4. CASE v.kind # "iso9660"
  <2>1. list = entries
    BY <1>1, <1>4
  <2> HIDE DEF list, entries
  <2> QED BY <2>1 DEF list, entries
<1> QED BY <1>3, <1>4

\* The children of a directory are nodes.
LEMMA ChildIs ==
    ASSUME NEW v \in Volumes, NEW x \in DOMAIN v.nodes, NEW name
    PROVE  Child(v, x, name) # "no" =>
              \E i \in 1 .. Len(Entries(v, x)) : /\ Alike(v, Entries(v, x)[i].name, name)
                                                 /\ Child(v, x, name) = Entries(v, x)[i].node
                                                 /\ Child(v, x, name) \in DOMAIN v.nodes
<1> DEFINE entries == Entries(v, x)
           hits == {i \in 1 .. Len(entries) : Alike(v, entries[i].name, name)}
<1>0. WellFormed(v)
  BY FilesAssumption
<1>1. entries \in Seq(Listed) /\ \A k \in 1 .. Len(entries) : entries[k].node \in DOMAIN v.nodes
  BY <1>0, EntriesAre
<1>2. Child(v, x, name) = IF hits = {} THEN "no" ELSE entries[Min(hits)].node
  BY DEF Child
<1>3. hits \subseteq Nat
  BY <1>1
<1>4. hits # {} => Min(hits) \in hits
  <2> HIDE DEF hits
  <2> QED BY <1>3, MinOf
<1> QED BY <1>1, <1>2, <1>4

\* A step in a directory whose listing nothing disturbs.
LEMMA PlainStep ==
    ASSUME vol \in Volumes, MountTypes, NEW w \in Walks, w.err = "ok", w.fs = "root", Plain(vol, w.dir),
           vol.nodes[w.dir].type = "dir", NEW name \in Looked
    PROVE  LET c == Child(vol, w.dir, name)
               n == Step(w, name)
           IN  /\ c = "no" => n.err = "ENOENT"
               /\ c # "no" =>
                     /\ c \in DOMAIN vol.nodes /\ n.err = "ok" /\ n.f = c
                     /\ vol.nodes[c].type # "dir" => n.fs = "root"
                     /\ vol.nodes[c].type = "dir" /\ MountedOn(c) = {} => n.fs = "root" /\ n.dir = c
                     /\ vol.nodes[c].type = "dir" /\ MountedOn(c) # {} => n.fs # "root"
<1> DEFINE x == w.dir
           list == readdir(w.fs, x)
           hits == {i \in 1 .. Len(list) : SameName(w.fs, list[i].name, name)}
           f == list[Min(hits)].node
           entries == Entries(vol, x)
           ehits == {i \in 1 .. Len(entries) : Alike(vol, entries[i].name, name)}
           c == Child(vol, x, name)
           n == Step(w, name)
           D == DOMAIN vol.nodes
<1>0. /\ x \in D /\ WellFormed(vol)
      /\ w \in [err : {"ok", "ENOENT"}, fs : {"root"} \cup Mounted, dir : D \cup {"none"}, f : D]
  BY FilesAssumption DEF Walks
<1>1. n = IF hits = {} THEN [w EXCEPT !.err = "ENOENT"]
          ELSE IF f = "none" \/ vol.nodes[f].type # "dir" THEN [w EXCEPT !.f = f]
          ELSE IF MountedOn(f) = {} THEN [w EXCEPT !.f = f, !.dir = f]
          ELSE [w EXCEPT !.f = f, !.fs = mounts[Min(MountedOn(f))].fs, !.dir = "none"]
  BY DEF Step, Pick, Hits, Enter
<1>2. list = fs_readdir(vol, x)
  BY DEF readdir
<1>3. hits = ehits /\ \A i \in 1 .. Len(entries) : list[i] = entries[i]
  <2>1. /\ {i \in 1 .. Len(fs_readdir(vol, x)) : Alike(vol, fs_readdir(vol, x)[i].name, name)} = ehits
        /\ \A i \in 1 .. Len(entries) : fs_readdir(vol, x)[i] = entries[i]
    BY <1>0, HitsAgree
  <2>2. hits = {i \in 1 .. Len(list) : Alike(vol, list[i].name, name)}
    BY DEF SameName
  <2> HIDE DEF hits, list, ehits, entries
  <2> QED BY <1>2, <2>1, <2>2
<1>4. c = IF ehits = {} THEN "no" ELSE entries[Min(ehits)].node
  BY DEF Child
<1>5. entries \in Seq(Listed) /\ \A k \in 1 .. Len(entries) : entries[k].node \in D
  BY <1>0, EntriesAre
<1>6. "no" \notin D /\ "none" \notin D
  BY <1>0 DEF WellFormed
<1>7. CASE ehits = {}
  <2>1. n = [w EXCEPT !.err = "ENOENT"] /\ c = "no"
    BY <1>1, <1>3, <1>4, <1>7
  <2> HIDE DEF n, c, D, ehits
  <2>2. n.err = "ENOENT"
    BY <1>0, <2>1
  <2> QED BY <2>1, <2>2 DEF n, c
<1>8. CASE ehits # {}
  <2>1. ehits \subseteq Nat
    BY <1>5
  <2>2. Min(ehits) \in ehits
    <3> HIDE DEF ehits
    <3> QED BY <1>8, <2>1, MinOf
  <2>3. c = entries[Min(ehits)].node /\ c \in D
    BY <1>4, <1>5, <1>8, <2>2
  <2>4. f = c
    <3>1. f = list[Min(ehits)].node
      BY <1>3
    <3>2. list[Min(ehits)] = entries[Min(ehits)]
      BY <1>3, <2>2
    <3> HIDE DEF f, list, entries, ehits, c
    <3> QED BY <2>3, <3>1, <3>2
  <2>5. hits # {}
    BY <1>3, <1>8
  <2> HIDE DEF f, hits, c, n
  <2>6. CASE vol.nodes[c].type # "dir"
    <3>1. n = [w EXCEPT !.f = c]
      BY <1>1, <2>4, <2>5, <2>6
    <3> QED BY <1>0, <1>6, <2>3, <2>6, <3>1 DEF n, c
  <2>7. CASE vol.nodes[c].type = "dir" /\ MountedOn(c) = {}
    <3>1. n = [w EXCEPT !.f = c, !.dir = c]
      BY <1>1, <1>6, <2>3, <2>4, <2>5, <2>7
    <3> QED BY <1>0, <1>6, <2>3, <2>7, <3>1 DEF n, c
  <2>8. CASE vol.nodes[c].type = "dir" /\ MountedOn(c) # {}
    <3> DEFINE fs == mounts[Min(MountedOn(c))].fs
    <3>1. n = [w EXCEPT !.f = c, !.fs = fs, !.dir = "none"]
      BY <1>1, <1>6, <2>3, <2>4, <2>5, <2>8
    <3>2. fs \in Mounted
      <4>1. MountedOn(c) \subseteq Nat /\ MountedOn(c) \subseteq 1 .. Len(mounts)
        BY DEF MountedOn, MountTypes
      <4> DEFINE m == Min(MountedOn(c))
      <4>2. m \in 1 .. Len(mounts)
        BY <2>8, <4>1, MinOf
      <4> HIDE DEF m
      <4>3. mounts[m] \in [ino : Nat, fs : Mounted]
        BY <4>2, SeqElement, Zenon DEF MountTypes
      <4> QED BY <4>3 DEF m
    <3>3. "root" \notin Mounted
      BY DEF Mounted, Pseudo
    <3> HIDE DEF fs
    <3> QED BY <1>0, <1>6, <2>3, <2>8, <3>1, <3>2, <3>3 DEF n, c
  <2> QED BY <2>6, <2>7, <2>8 DEF n, c
<1> QED BY <1>7, <1>8

\* The mounts are told apart by the inode numbers of the directories they are on.
MountsNamed ==
    Plain(vol, Root) =>
        \A k \in 1 .. Len(mounts) :
            LET c == Child(vol, Root, mounts[k].fs)
            IN  /\ c \in DOMAIN vol.nodes /\ vol.nodes[c].type = "dir" /\ c # Root
                /\ mounts[k].ino = Ino(vol, c)

LEMMA PointsAre ==
    ASSUME vol \in Volumes, MountTypes, MountsNamed, Plain(vol, Root)
    PROVE  /\ \A x \in MountPoints : x \in DOMAIN vol.nodes /\ vol.nodes[x].type = "dir" /\ x # Root
           /\ \A x \in DOMAIN vol.nodes : vol.nodes[x].type = "dir" => (MountedOn(x) # {} <=> x \in MountPoints)
<1>0. WellFormed(vol)
  BY FilesAssumption
<1>1. ASSUME NEW x \in MountPoints PROVE x \in DOMAIN vol.nodes /\ vol.nodes[x].type = "dir" /\ x # Root
  BY DEF MountPoints, MountsNamed
<1>2. ASSUME NEW x \in DOMAIN vol.nodes, vol.nodes[x].type = "dir", MountedOn(x) # {} PROVE x \in MountPoints
  <2>1. PICK k \in 1 .. Len(mounts) : mounts[k].ino = Ino(vol, x)
    BY <1>2 DEF MountedOn
  <2> DEFINE c == Child(vol, Root, mounts[k].fs)
  <2>2. c \in DOMAIN vol.nodes /\ vol.nodes[c].type = "dir" /\ mounts[k].ino = Ino(vol, c)
    BY DEF MountsNamed
  <2>3. c = x
    <3> HIDE DEF c
    <3>1. \A y, z \in DOMAIN vol.nodes :
             vol.nodes[y].type = "dir" /\ vol.nodes[z].type = "dir" /\ Ino(vol, y) = Ino(vol, z) => y = z
      BY <1>0, Zenon DEF WellFormed
    <3> QED BY <1>2, <2>1, <2>2, <3>1
  <2> QED BY <2>3 DEF MountPoints
<1>3. ASSUME NEW x \in MountPoints PROVE MountedOn(x) # {}
  BY DEF MountPoints, MountsNamed, MountedOn
<1> QED BY <1>1, <1>2, <1>3

\* What every walk meets, on every volume.
LEMMA WalkTypes ==
    ASSUME vol \in Volumes, MountTypes, rootdir = Root, NEW path \in Seq(Looked)
    PROVE  \A k \in 0 .. Len(path) : Walk(path)[k] \in Walks
<1> DEFINE S == {k \in 0 .. Len(path) : Walk(path)[k] \in Walks}
<1>0. Len(path) \in Nat
  OBVIOUS
<1>1. Walk(path) = [k \in 0 .. Len(path) |-> IF k = 0 THEN Start ELSE Step(Walk(path)[k - 1], path[k])]
  BY <1>0, WalkRecursion
<1>2. 0 \in S
  <2>1. Walk(path)[0] = Start
    BY <1>0, <1>1
  <2>2. Root \in DOMAIN vol.nodes
    BY FilesAssumption DEF WellFormed
  <2>3. Start \in Walks
    BY <2>2 DEF Start, Walks
  <2> QED BY <1>0, <2>1, <2>3
<1>3. ASSUME NEW k \in 0 .. Len(path) - 1, k \in S PROVE k + 1 \in S
  <2>1. Walk(path)[k + 1] = Step(Walk(path)[k], path[k + 1])
    <3> DEFINE j == k + 1
    <3>1. j \in 0 .. Len(path) /\ j # 0 /\ j - 1 = k
      BY <1>0
    <3>2. Walk(path)[j] = Step(Walk(path)[j - 1], path[j])
      <4> HIDE DEF j
      <4> QED BY <1>1, <3>1
    <3> QED BY <3>1, <3>2
  <2>2. path[k + 1] \in Looked
    BY <1>0, SeqElement
  <2>3. Step(Walk(path)[k], path[k + 1]) \in Walks
    BY <1>3, <2>2, StepTypes
  <2> QED BY <1>0, <2>1, <2>3
<1> HIDE DEF S
<1>4. \A k \in 0 .. Len(path) : k \in S
  BY <1>0, <1>2, <1>3, Upwards
<1> QED BY <1>4 DEF S

\* A walk on a failing disk: where it is stays a file or directory of the volume.
Strays == {w \in [err : {"ok", "ENOENT", "EIO", "wild"}, fs : {"root"} \cup Mounted,
                  dir : DOMAIN vol.nodes \cup {"none"}, f : DOMAIN vol.nodes] :
              w.fs = "root" => w.dir \in DOMAIN vol.nodes}

LEMMA LostStepTypes ==
    ASSUME vol \in Volumes, MountTypes, NEW w \in Strays, NEW name \in Looked
    PROVE  StepLost(w, name) \subseteq Strays
<1> DEFINE to == Step(w, name)
           D == DOMAIN vol.nodes
<1>1. /\ w \in [err : {"ok", "ENOENT", "EIO", "wild"}, fs : {"root"} \cup Mounted, dir : D \cup {"none"}, f : D]
      /\ w.fs = "root" => w.dir \in D
  BY DEF Strays
<1>2. to \in Strays
  <2>1. CASE w.err = "ok"
    <3>1. w \in Walks
      BY <1>1, <2>1 DEF Walks
    <3>2. to \in Walks
      BY <3>1, StepTypes
    <3> HIDE DEF to
    <3> QED BY <3>2 DEF Walks, Strays
  <2>2. CASE w.err # "ok"
    <3>1. to = w
      BY <2>2 DEF Step, Pick, Hits, Enter
    <3> QED BY <3>1
  <2> QED BY <2>1, <2>2
<1> HIDE DEF to
<1>3. ASSUME NEW err \in Failures(vol, w.dir) PROVE [w EXCEPT !.err = err] \in Strays
  <2>1. err \in {"EIO", "ENOENT"}
    <3>1. Fat(vol) \/ vol.kind = "ext2" \/ vol.kind = "iso9660"
      BY FilesAssumption DEF WellFormed, Fat
    <3> QED BY <1>3, <3>1 DEF Failures
  <2> HIDE DEF D
  <2> QED BY <1>1, <2>1 DEF Strays, D
<1>4. ASSUME NEW x \in D PROVE Mistaken(w, to, x) \in Strays
  <2>1. [w EXCEPT !.f = x] \in Strays
    BY <1>1 DEF Strays
  <2>2. /\ to \in [err : {"ok", "ENOENT", "EIO", "wild"}, fs : {"root"} \cup Mounted, dir : D \cup {"none"}, f : D]
        /\ to.fs = "root" => to.dir \in D
    BY <1>2 DEF Strays
  <2> DEFINE dir == IF to.dir = "none" THEN to.dir ELSE x
  <2>3. dir \in D \cup {"none"} /\ (to.fs = "root" => dir \in D)
    BY <2>2
  <2> HIDE DEF dir
  <2>4. [to EXCEPT !.f = x, !.dir = dir] \in Strays
    BY <2>2, <2>3 DEF Strays
  <2>5. Mistaken(w, to, x) = [w EXCEPT !.f = x] \/ Mistaken(w, to, x) = [to EXCEPT !.f = x, !.dir = dir]
    BY DEF Mistaken, dir
  <2> QED BY <2>1, <2>4, <2>5
<1>5. [to EXCEPT !.err = "wild"] \in Strays
  BY <1>2 DEF Strays
<1>6. ASSUME NEW u \in StepLost(w, name)
      PROVE  \/ u = to \/ u = [to EXCEPT !.err = "wild"]
             \/ \E err \in Failures(vol, w.dir) : u = [w EXCEPT !.err = err]
             \/ \E x \in D : u = Mistaken(w, to, x)
  BY <1>6, Zenon DEF StepLost, to
<1> QED BY <1>2, <1>3, <1>4, <1>5, <1>6

LEMMA LostTypes ==
    ASSUME vol \in Volumes, MountTypes, rootdir = Root, NEW path \in Seq(Looked)
    PROVE  Lost(path) \subseteq Strays
<1> DEFINE First == {Walk(path)[0]}
           On(before, k) == UNION {StepLost(to, path[k]) : to \in before}
           Body(w, n) == [k \in 0 .. n |-> IF k = 0 THEN First ELSE On(w[k - 1], k)]
           Bad == {n \in Nat : ~\E w : w = Body(w, n)}
<1>0. Len(path) \in Nat
  OBVIOUS
<1> HIDE DEF First, On
<1>1. ASSUME Bad # {} PROVE FALSE
  <2>1. PICK m \in Bad : \A k \in 0 .. m - 1 : k \notin Bad
    BY <1>1, LeastNat
  <2>2. m \in Nat /\ ~\E w : w = Body(w, m)
    BY <2>1
  <2>3. CASE m = 0
    <3> DEFINE v == [k \in 0 .. 0 |-> First]
    <3>1. v = Body(v, m)
      BY <2>3
    <3> QED BY <2>2, <3>1
  <2>4. CASE m # 0
    <3>1. m - 1 \in Nat /\ m - 1 \in 0 .. m - 1
      BY <2>2, <2>4
    <3>2. PICK w : w = Body(w, m - 1)
      BY <2>1, <3>1
    <3> DEFINE v == [k \in 0 .. m |-> IF k = m THEN On(w[m - 1], m) ELSE w[k]]
    <3>3. v = Body(v, m)
      BY <2>2, <2>4, <3>2
    <3> QED BY <2>2, <3>3
  <2> QED BY <2>3, <2>4
<1> DEFINE W == CHOOSE w : w = Body(w, Len(path))
<1>2. W = Body(W, Len(path))
  BY <1>0, <1>1
<1>3. Lost(path) = W[Len(path)]
  BY DEF Lost, First, On
<1> HIDE DEF W
<1> DEFINE S == {k \in 0 .. Len(path) : W[k] \subseteq Strays}
<1>4. 0 \in S
  <2>1. W[0] = First
    BY <1>0, <1>2
  <2>2. Walk(path)[0] \in Walks
    BY <1>0, WalkTypes
  <2>3. Walk(path)[0] \in Strays
    BY <2>2 DEF Walks, Strays
  <2> QED BY <1>0, <2>1, <2>3 DEF First
<1>5. ASSUME NEW k \in 0 .. Len(path) - 1, k \in S PROVE k + 1 \in S
  <2> DEFINE j == k + 1
  <2>1. j \in 0 .. Len(path) /\ j # 0 /\ j - 1 = k /\ j \in 1 .. Len(path)
    BY <1>0
  <2>2. W[j] = On(W[k], j)
    <3> HIDE DEF j
    <3> QED BY <1>2, <2>1
  <2>3. path[j] \in Looked
    BY <2>1, SeqElement
  <2>4. W[k] \subseteq Strays
    BY <1>5
  <2>5. ASSUME NEW to \in W[k] PROVE StepLost(to, path[j]) \subseteq Strays
    BY <2>3, <2>4, LostStepTypes
  <2>6. On(W[k], j) \subseteq Strays
    <3> HIDE DEF j
    <3> QED BY <2>5, Zenon DEF On
  <2> QED BY <2>1, <2>2, <2>6
<1> HIDE DEF S
<1>6. \A k \in 0 .. Len(path) : k \in S
  BY <1>0, <1>4, <1>5, Upwards
<1>7. Len(path) \in S
  BY <1>0, <1>6
<1> QED BY <1>3, <1>7 DEF S

\* What a prefix of a path names, the walk finds, when it only meets directories
\* whose listing nothing disturbs.
Finds(x, w) ==
    /\ x \in DOMAIN vol.nodes /\ w.err = "ok" /\ w.f = x
    /\ x \in MountPoints => w.fs # "root"
    /\ x \notin MountPoints => w.fs = "root" /\ (vol.nodes[x].type = "dir" => w.dir = x)

LEMMA WalkFinds ==
    ASSUME vol \in Volumes, MountTypes, MountsNamed, rootdir = Root, NEW path \in Seq(Looked), path # <<>>,
           PlainWalk(path)
    PROVE  /\ Plain(vol, Root)
           /\ \A k \in 0 .. Len(path) : Prefix(path)[k] # "no" => Finds(Prefix(path)[k], Walk(path)[k])
<1> DEFINE S == {k \in 0 .. Len(path) : Prefix(path)[k] # "no" => Finds(Prefix(path)[k], Walk(path)[k])}
           P == Prefix(path)
           W == Walk(path)
<1>0. Len(path) \in Nat /\ Len(path) # 0 /\ WellFormed(vol)
  BY FilesAssumption
<1>1. W = [k \in 0 .. Len(path) |-> IF k = 0 THEN Start ELSE Step(W[k - 1], path[k])]
  BY <1>0, WalkRecursion
<1>2. P = [k \in 0 .. Len(path) |-> IF k = 0 THEN Root ELSE Below(vol, MountPoints, P[k - 1], path[k])]
  BY <1>0, LookupRecursion DEF Prefix
<1>3. Root \in DOMAIN vol.nodes /\ vol.nodes[Root].type = "dir" /\ Root # "no"
  BY <1>0 DEF WellFormed, Root
<1>4. Plain(vol, Root)
  <2>1. P[0] = Root /\ 0 \in 0 .. Len(path) - 1
    BY <1>0, <1>2
  <2> HIDE DEF P
  <2> QED BY <1>3, <2>1 DEF PlainWalk, P
<1>5. 0 \in S
  <2>1. W[0] = Start /\ P[0] = Root
    BY <1>0, <1>1, <1>2
  <2>2. Root \notin MountPoints
    BY <1>4, PointsAre
  <2>3. Finds(Root, Start)
    BY <1>3, <2>2 DEF Finds, Start
  <2> QED BY <1>0, <2>1, <2>3
<1>6. ASSUME NEW k \in 0 .. Len(path) - 1, k \in S PROVE k + 1 \in S
  <2> DEFINE j == k + 1
             up == P[k]
             w == W[k]
             c == Child(vol, up, path[j])
  <2>0. j \in 0 .. Len(path) /\ j # 0 /\ j - 1 = k
    BY <1>0
  <2>1. W[j] = Step(w, path[j]) /\ P[j] = Below(vol, MountPoints, up, path[j])
    <3>1. W[j] = Step(W[j - 1], path[j]) /\ P[j] = Below(vol, MountPoints, P[j - 1], path[j])
      <4> HIDE DEF j, W, P
      <4> QED BY <1>1, <1>2, <2>0
    <3> HIDE DEF W, P
    <3> QED BY <2>0, <3>1
  <2>2. path[j] \in Looked /\ w \in Walks
    BY <1>0, <2>0, SeqElement, WalkTypes
  <2>3. ASSUME P[j] # "no" PROVE Finds(P[j], W[j])
    <3>1. up # "no" /\ up \notin MountPoints /\ vol.nodes[up].type = "dir" /\ P[j] = c
      BY <2>1, <2>3 DEF Below
    <3>2. Finds(up, w)
      BY <1>6, <3>1
    <3>3. up \in DOMAIN vol.nodes /\ w.err = "ok" /\ w.fs = "root" /\ w.dir = up
      BY <3>1, <3>2 DEF Finds
    <3>4. Plain(vol, up)
      <4>1. k \in 0 .. Len(path) - 1
        OBVIOUS
      <4> HIDE DEF up
      <4> QED BY <3>1, <4>1 DEF PlainWalk, up, P
    <3> HIDE DEF c, up, w, P, W, j
    <3> DEFINE n == Step(w, path[j])
    <3>5. /\ c \in DOMAIN vol.nodes /\ n.err = "ok" /\ n.f = c
          /\ vol.nodes[c].type # "dir" => n.fs = "root"
          /\ vol.nodes[c].type = "dir" /\ MountedOn(c) = {} => n.fs = "root" /\ n.dir = c
          /\ vol.nodes[c].type = "dir" /\ MountedOn(c) # {} => n.fs # "root"
      BY <2>2, <2>3, <3>1, <3>3, <3>4, PlainStep DEF c
    <3>6. /\ c \in MountPoints => vol.nodes[c].type = "dir"
          /\ vol.nodes[c].type = "dir" => (MountedOn(c) # {} <=> c \in MountPoints)
      BY <1>4, <3>5, PointsAre
    <3>7. Finds(c, n)
      <4> HIDE DEF n
      <4> QED BY <3>5, <3>6 DEF Finds
    <3> QED BY <2>1, <3>1, <3>7
  <2> QED BY <2>0, <2>3
<1> HIDE DEF S
<1>7. \A k \in 0 .. Len(path) : k \in S
  BY <1>0, <1>5, <1>6, Upwards
<1>8. \A k \in 0 .. Len(path) : Prefix(path)[k] # "no" => Finds(Prefix(path)[k], Walk(path)[k])
  BY <1>7 DEF S
<1> QED BY <1>4, <1>8

\* When it also never goes on after a file, the walk ends where the path ends.
LEMMA WalkMisses ==
    ASSUME vol \in Volumes, MountTypes, MountsNamed, rootdir = Root, NEW path \in Seq(Looked), path # <<>>,
           PlainWalk(path), ~ThroughFile(path)
    PROVE  \A k \in 0 .. Len(path) : Prefix(path)[k] = "no" => Walk(path)[k].err # "ok"
<1> DEFINE S == {k \in 0 .. Len(path) : Prefix(path)[k] = "no" => Walk(path)[k].err # "ok"}
           P == Prefix(path)
           W == Walk(path)
<1>0. Len(path) \in Nat /\ Len(path) # 0 /\ WellFormed(vol)
  BY FilesAssumption
<1>1. W = [k \in 0 .. Len(path) |-> IF k = 0 THEN Start ELSE Step(W[k - 1], path[k])]
  BY <1>0, WalkRecursion
<1>2. P = [k \in 0 .. Len(path) |-> IF k = 0 THEN Root ELSE Below(vol, MountPoints, P[k - 1], path[k])]
  BY <1>0, LookupRecursion DEF Prefix
<1>3. P[0] = Root /\ Root \in DOMAIN vol.nodes /\ vol.nodes[Root].type = "dir" /\ Root # "no"
  BY <1>0, <1>2 DEF WellFormed, Root
<1>4. 0 \in S
  BY <1>0, <1>3
<1>5. ASSUME NEW k \in 0 .. Len(path) - 1, k \in S PROVE k + 1 \in S
  <2> DEFINE j == k + 1
             up == P[k]
             w == W[k]
             c == Child(vol, up, path[j])
  <2>0. j \in 0 .. Len(path) /\ j # 0 /\ j - 1 = k /\ k \in 0 .. Len(path)
    BY <1>0
  <2>1. W[j] = Step(w, path[j]) /\ P[j] = Below(vol, MountPoints, up, path[j])
    <3>1. W[j] = Step(W[j - 1], path[j]) /\ P[j] = Below(vol, MountPoints, P[j - 1], path[j])
      <4> HIDE DEF j, W, P
      <4> QED BY <1>1, <1>2, <2>0
    <3> HIDE DEF W, P
    <3> QED BY <2>0, <3>1
  <2>2. path[j] \in Looked /\ w \in Walks
    BY <1>0, <2>0, SeqElement, WalkTypes
  <2>3. ASSUME P[j] = "no" PROVE W[j].err # "ok"
    <3>1. CASE w.err # "ok"
      <4> HIDE DEF w, W, P, j
      <4> QED BY <2>1, <2>2, <3>1, StepTypes
    <3>2. CASE w.err = "ok"
      <4>1. up # "no"
        BY <1>5, <3>2
      <4>2. Finds(up, w) /\ Plain(vol, Root)
        BY <2>0, <4>1, WalkFinds
      <4>3. CASE up \in MountPoints
        <5>1. w.fs # "root"
          BY <4>2, <4>3 DEF Finds
        <5> HIDE DEF w, W, P, j
        <5>2. W[j].err = "ENOENT"
          BY <2>1, <2>2, <3>2, <5>1, StepTypes
        <5> QED BY <5>2
      <4>4. CASE up \notin MountPoints /\ vol.nodes[up].type # "dir"
        <5>1. k # 0
          BY <1>3, <4>4
        <5>2. k \in 1 .. Len(path) - 1
          BY <1>0, <5>1
        <5> HIDE DEF up
        <5> QED BY <4>1, <4>4, <5>2 DEF ThroughFile, up, P
      <4>5. CASE up \notin MountPoints /\ vol.nodes[up].type = "dir"
        <5>1. c = "no"
          BY <2>1, <2>3, <4>1, <4>5 DEF Below
        <5>2. w.fs = "root" /\ w.dir = up
          BY <4>2, <4>5 DEF Finds
        <5>3. Plain(vol, up)
          <6>1. k \in 0 .. Len(path) - 1
            OBVIOUS
          <6> HIDE DEF up
          <6> QED BY <4>1, <4>5, <6>1 DEF PlainWalk, up, P
        <5> HIDE DEF c, up, w, P, W, j
        <5>4. Step(w, path[j]).err = "ENOENT"
          BY <2>2, <3>2, <4>5, <5>1, <5>2, <5>3, PlainStep DEF c
        <5> QED BY <2>1, <5>4
      <4> QED BY <4>3, <4>4, <4>5
    <3> QED BY <3>1, <3>2
  <2> QED BY <2>0, <2>3
<1> HIDE DEF S
<1>6. \A k \in 0 .. Len(path) : k \in S
  BY <1>0, <1>4, <1>5, Upwards
<1>7. \A k \in 0 .. Len(path) : Prefix(path)[k] = "no" => Walk(path)[k].err # "ok"
  BY <1>6 DEF S
<1> QED BY <1>7

-----------------------------------------------------------------------------
(***************************************************************************)
(* The invariant.  What it says of a descriptor depends on the volume, the  *)
(* directories that are mounted on and the cached table alone, none of      *)
(* which changes once programs run.                                         *)
(***************************************************************************)

BootInv ==
    /\ vol \in Volumes
    /\ rootdir \in {"unset", "none", Root}
    /\ to_mount \in Seq(Mounted)
    /\ rootdir # Root => to_mount # <<>>
    /\ MountTypes /\ MountsNamed
    /\ Fat(vol) /\ cached => fat = fat_table(vol)
    /\ to_mount # <<>> => last.call = "none" /\ \A i \in 0 .. NFD - 1 : ~fd[i].used

\* PlainWalk and ThroughFile, of any volume and any mounts.
PlainPath(v, points, path) ==
    \A k \in 0 .. Len(path) - 1 :
        LET x == Lookup(v, points, path)[k] IN x # "no" /\ v.nodes[x].type = "dir" => Plain(v, x)
OverFile(v, points, path) ==
    \E k \in 1 .. Len(path) - 1 :
        LET x == Lookup(v, points, path)[k] IN x # "no" /\ v.nodes[x].type # "dir"
Target(v, points, path) == Lookup(v, points, path)[Len(path)]

DeviceOf(d) == IF d.tty # 0 THEN "tty" ELSE IF d.fb THEN "fb" ELSE "none"
StandsFor(v, points, d, s) ==
    s.path # Unknown.path =>
        IF IsDevice(s.path)
        THEN \/ DeviceOf(d) = Devices[s.path[Len(s.path)]].dev
             \/ Devices[s.path[Len(s.path)]].dev = "fb" /\ s.was_tty
        ELSE PlainPath(v, points, s.path) /\ ~OverFile(v, points, s.path) =>
             /\ d.node = Target(v, points, s.path)
             /\ s.path # <<>> => (d.mount # "root") = (Target(v, points, s.path) \in points)

\* Where the program is in a file or a directory.
Stretch(v, node, from, to) == [k \in 1 .. to - from |-> Where(v, node, from + k - 1)]
Streams(v, c, d, s) ==
    /\ (d.type = "reg" /\ Fat(v) => c) => d.offset \in Nat
    /\ d.type = "reg" /\ (Fat(v) => c) /\ ~s.astray =>
          LET node == v.nodes[d.node]
          IN  /\ s.from \in Nat /\ s.from <= d.offset
              /\ s.got = Stretch(v, node, s.from, d.offset)
              /\ s.ended => d.offset >= node.size
Lists(v, d, s) ==
    d.type = "dir" /\ d.mount = "root" /\ s.from = 0 =>
        LET list == fs_readdir(v, d.node)
        IN  /\ d.offset \in Nat /\ d.offset <= Len(list)
            /\ ~s.astray => s.got = SubSeq(list, 1, d.offset)
            /\ s.ended /\ ~s.astray => d.offset = Len(list)

Descriptor(v, points, c, d, s) ==
    /\ DOMAIN d = DOMAIN Closed /\ DOMAIN s = DOMAIN Unknown
    /\ d.type \in {"reg", "dir"} => d.node \in DOMAIN v.nodes /\ v.nodes[d.node].type = d.type
    /\ ~d.used => s = Unknown
    /\ d.used => StandsFor(v, points, d, s) /\ Streams(v, c, d, s) /\ Lists(v, d, s)

Missing(v, points, l) ==
    l.call = "open" /\ l.ret = "ENOENT" /\ ~l.failed /\ ~IsDevice(l.path) /\ PlainPath(v, points, l.path) =>
        Target(v, points, l.path) = "no"

FilesInv ==
    /\ BootInv
    /\ DOMAIN fd = 0 .. NFD - 1 /\ DOMAIN seen = 0 .. NFD - 1
    /\ \A i \in 0 .. NFD - 1 : Descriptor(vol, MountPoints, cached, fd[i], seen[i])
    /\ Missing(vol, MountPoints, last)
LEMMA InitFiles ==
    ASSUME Init
    PROVE  FilesInv
<1>1. to_mount \in Seq(Mounted) /\ to_mount # <<>>
  <2>1. "dev" \in Mounted /\ "proc" \in Mounted /\ "tmp" \in Mounted
    <3>1. Len(Pseudo) = 3 /\ Pseudo[1] = "dev" /\ Pseudo[2] = "proc" /\ Pseudo[3] = "tmp"
      BY DEF Pseudo
    <3>2. 1 \in 1 .. 3 /\ 2 \in 1 .. 3 /\ 3 \in 1 .. 3
      OBVIOUS
    <3> QED BY <3>1, <3>2, Zenon DEF Mounted
  <2> HIDE DEF Mounted
  <2> QED BY <2>1 DEF Init, Pseudo
<1>2. MountTypes
  BY DEF Init, MountTypes
<1>3. MountsNamed
  <2>1. Len(mounts) = 0
    BY DEF Init
  <2>2. 1 .. Len(mounts) = {}
    BY <2>1
  <2> QED BY <2>2, Zenon DEF MountsNamed
<1>4. \A i \in 0 .. NFD - 1 : fd[i] = Closed /\ seen[i] = Unknown
  BY DEF Init
<1>5. ~Closed.used /\ Closed.type = "none"
  BY DEF Closed
<1>6. BootInv
  BY <1>1, <1>2, <1>3, <1>4, <1>5 DEF BootInv, Init, Nothing
<1>7. DOMAIN fd = 0 .. NFD - 1 /\ DOMAIN seen = 0 .. NFD - 1
  BY DEF Init
<1>8. ASSUME NEW i \in 0 .. NFD - 1 PROVE Descriptor(vol, MountPoints, cached, fd[i], seen[i])
  BY <1>4, <1>5 DEF Descriptor
<1>9. Missing(vol, MountPoints, last)
  BY DEF Init, Nothing, Missing
<1> QED BY <1>6, <1>7, <1>8, <1>9 DEF FilesInv

\* While the kernel mounts, no descriptor is in use and nothing was opened.
LEMMA WhileMounting ==
    ASSUME FilesInv, UNCHANGED <<vol, fd, seen>>, last'.call = "none",
           \A i \in 0 .. NFD - 1 : ~fd[i].used
    PROVE  /\ DOMAIN fd' = 0 .. NFD - 1 /\ DOMAIN seen' = 0 .. NFD - 1
           /\ \A i \in 0 .. NFD - 1 : Descriptor(vol', MountPoints', cached', fd'[i], seen'[i])
           /\ Missing(vol', MountPoints', last')
           /\ \A i \in 0 .. NFD - 1 : ~fd'[i].used
<1>1. ASSUME NEW i \in 0 .. NFD - 1 PROVE Descriptor(vol', MountPoints', cached', fd'[i], seen'[i])
  <2>1. Descriptor(vol, MountPoints, cached, fd[i], seen[i]) /\ ~fd[i].used
    BY DEF FilesInv
  <2>2. vol' = vol /\ fd'[i] = fd[i] /\ seen'[i] = seen[i]
    OBVIOUS
  <2> QED BY <2>1, <2>2 DEF Descriptor
<1>2. Missing(vol', MountPoints', last')
  BY DEF Missing
<1> QED BY <1>1, <1>2 DEF FilesInv

\* The steps up to the first mount.
LEMMA RootStep ==
    ASSUME FilesInv, fat_init \/ ext2_init \/ iso9660_init \/ VfsInitWild \/ MountLoops
    PROVE  FilesInv'
<1>0. BootInv
  BY DEF FilesInv
<1>1. UNCHANGED <<vol, to_mount, mounts, fd, seen>>
  BY DEF fat_init, ext2_init, iso9660_init, VfsInitWild, MountLoops, booted
<1>2. to_mount # <<>> /\ rootdir' \in {"unset", "none", Root}
  <2>1. CASE fat_init
    <3>1. rootdir = "unset" /\ rootdir' = Root
      BY <2>1 DEF fat_init
    <3> QED BY <1>0, <3>1 DEF BootInv, Root
  <2>2. CASE ext2_init
    <3>1. rootdir = "unset" /\ vol.kind = "ext2" /\ rootdir' \in {ext2_read_inode(vol, 2), "none"}
      BY <2>2 DEF ext2_init
    <3>2. WellFormed(vol)
      BY <1>0, FilesAssumption DEF BootInv
    <3>3. Root \in DOMAIN vol.nodes /\ vol.nodes[Root].ino = 2
      BY <3>1, <3>2 DEF WellFormed
    <3>4. ext2_read_inode(vol, vol.nodes[Root].ino) = Root
      BY <3>1, <3>2, <3>3, InodeFound
    <3>5. rootdir' \in {Root, "none"}
      BY <3>1, <3>3, <3>4
    <3> QED BY <1>0, <3>1, <3>5 DEF BootInv, Root
  <2>3. CASE iso9660_init
    <3>1. rootdir = "unset" /\ rootdir' \in {Root, "none"}
      BY <2>3, Zenon DEF iso9660_init
    <3> QED BY <1>0, <3>1 DEF BootInv, Root
  <2>4. CASE VfsInitWild
    <3>1. rootdir = "none" /\ rootdir' = rootdir
      BY <2>4 DEF VfsInitWild, booted
    <3> QED BY <1>0, <3>1 DEF BootInv, Root
  <2>5. CASE MountLoops
    <3>1. to_mount = Pseudo /\ rootdir' = rootdir
      BY <2>5 DEF MountLoops, booted
    <3>2. Pseudo # <<>>
      BY DEF Pseudo
    <3> QED BY <1>0, <3>1, <3>2 DEF BootInv
  <2> QED BY <2>1, <2>2, <2>3, <2>4, <2>5
<1>3. last'.call = "none"
  <2>1. last.call = "none"
    BY <1>0, <1>2 DEF BootInv
  <2>2. last' = last \/ last' = [Nothing EXCEPT !.ret = "wild"]
    BY DEF fat_init, ext2_init, iso9660_init, VfsInitWild, MountLoops
  <2> QED BY <2>1, <2>2 DEF Nothing
<1>4. \A i \in 0 .. NFD - 1 : ~fd[i].used
  BY <1>0, <1>2 DEF BootInv
<1>5. /\ DOMAIN fd' = 0 .. NFD - 1 /\ DOMAIN seen' = 0 .. NFD - 1
      /\ \A i \in 0 .. NFD - 1 : Descriptor(vol', MountPoints', cached', fd'[i], seen'[i])
      /\ Missing(vol', MountPoints', last')
      /\ \A i \in 0 .. NFD - 1 : ~fd'[i].used
  BY <1>1, <1>3, <1>4, WhileMounting
<1>6. Fat(vol') /\ cached' => fat' = fat_table(vol')
  <2>1. CASE fat_init
    <3>1. PICK ok \in BOOLEAN : cached' = ok /\ fat' = IF ok THEN fat_table(vol) ELSE [i \in DOMAIN fat_table(vol) |-> 0]
      BY <2>1 DEF fat_init
    <3> QED BY <1>1, <3>1
  <2>2. CASE ~fat_init
    <3>1. cached' = cached /\ fat' = fat
      BY <2>2 DEF ext2_init, iso9660_init, VfsInitWild, MountLoops, booted
    <3> QED BY <1>0, <1>1, <3>1 DEF BootInv
  <2> QED BY <2>1, <2>2
<1>7. MountTypes' /\ MountsNamed'
  <2>1. MountTypes /\ MountsNamed
    BY <1>0 DEF BootInv
  <2>2. MountTypes'
    BY <1>1, <2>1 DEF MountTypes
  <2>3. MountsNamed'
    BY <1>1, <2>1, Zenon DEF MountsNamed
  <2> QED BY <2>2, <2>3
<1>8. BootInv'
  <2>1. vol' \in Volumes /\ to_mount' \in Seq(Mounted) /\ to_mount' # <<>>
    BY <1>0, <1>1, <1>2 DEF BootInv
  <2> QED BY <1>2, <1>3, <1>5, <1>6, <1>7, <2>1 DEF BootInv
<1> QED BY <1>5, <1>8 DEF FilesInv
LEMMA InoNat ==
    ASSUME NEW v, WellFormed(v), NEW x \in DOMAIN v.nodes
    PROVE  Ino(v, x) \in Nat
<1>1. v.nodes[x].ino \in Nat /\ v.nodes[x].blocks \in Seq(Nat)
  BY NodeTypes
<1>2. v.nodes[x].blocks # <<>> => v.nodes[x].blocks[1] \in Nat
  BY <1>1
<1> QED BY <1>1, <1>2 DEF Ino

\* The walk to a directory below the root that is mounted on.
LEMMA WalkOne ==
    ASSUME vol \in Volumes, MountTypes, rootdir = Root, NEW name \in Mounted
    PROVE  LET w == vfs_stat(<<name>>)
           IN  /\ w \in Walks
               /\ Plain(vol, Root) /\ w.err = "ok" =>
                     /\ w.f = Child(vol, Root, name)
                     /\ w.f \in DOMAIN vol.nodes /\ vol.nodes[w.f].type = "dir" /\ w.f # Root
<1> DEFINE path == <<name>>
           w == vfs_stat(path)
           c == Child(vol, Root, name)
<1>0. WellFormed(vol) /\ Root \in DOMAIN vol.nodes
  BY FilesAssumption DEF WellFormed
<1>1. name \in Looked
  BY DEF Looked
<1>2. path \in Seq(Looked) /\ Len(path) = 1 /\ path[1] = name /\ path # <<>>
  BY <1>1
<1> HIDE DEF path
<1>3. w = Walk(path)[1]
  BY <1>2 DEF vfs_stat
<1>4. Walk(path) = [k \in 0 .. 1 |-> IF k = 0 THEN Start ELSE Step(Walk(path)[k - 1], path[k])]
  BY <1>2, WalkRecursion
<1>5. Walk(path)[0] = Start /\ Walk(path)[1] = Step(Walk(path)[0], path[1])
  BY <1>4
<1>6. w = Step(Start, name)
  BY <1>2, <1>3, <1>5
<1>7. Start \in Walks /\ Start.err = "ok" /\ Start.fs = "root" /\ Start.dir = Root
  BY <1>0 DEF Start, Walks
<1>8. w \in Walks
  BY <1>1, <1>6, <1>7, StepTypes
<1>9. ASSUME Plain(vol, Root), w.err = "ok"
      PROVE  w.f = c /\ w.f \in DOMAIN vol.nodes /\ vol.nodes[w.f].type = "dir" /\ w.f # Root
  <2>1. Plain(vol, Start.dir) /\ vol.nodes[Start.dir].type = "dir"
    BY <1>7, <1>9, FilesAssumption DEF WellFormed
  <2>2. /\ Child(vol, Start.dir, name) = "no" => Step(Start, name).err = "ENOENT"
        /\ Child(vol, Start.dir, name) # "no" => Step(Start, name).f = Child(vol, Start.dir, name)
    BY <1>1, <1>7, <2>1, PlainStep
  <2>3. c # "no" /\ w.f = c
    <3> HIDE DEF w
    <3> QED BY <1>6, <1>7, <1>9, <2>2
  <2>4. PICK i \in 1 .. Len(Entries(vol, Root)) : /\ Alike(vol, Entries(vol, Root)[i].name, name)
                                                  /\ c = Entries(vol, Root)[i].node
                                                  /\ c \in DOMAIN vol.nodes
    <3> HIDE DEF c
    <3> QED BY <1>0, <2>3, ChildIs DEF c
  <2>5. Entries(vol, Root)[i].node # Root /\ vol.nodes[Entries(vol, Root)[i].node].type = "dir"
    BY <2>4, NamesAssumption
  <2> HIDE DEF c, w
  <2> QED BY <2>3, <2>4, <2>5
<1> HIDE DEF w, c
<1> QED BY <1>8, <1>9 DEF w, c, path

LEMMA MountStep ==
    ASSUME FilesInv, vfs_mount
    PROVE  FilesInv'
<1> DEFINE h == Head(to_mount)
           w == vfs_stat(<<h>>)
<1>0. BootInv
  BY DEF FilesInv
<1>1. UNCHANGED <<vol, fat, cached, rootdir, fd, cwd, opens, last, seen>> /\ to_mount' = Tail(to_mount)
  BY DEF vfs_mount
<1>2. to_mount # <<>> /\ rootdir = Root /\ vol \in Volumes /\ WellFormed(vol)
  <2>1. to_mount # <<>> /\ rootdir \in DOMAIN vol.nodes
    BY DEF vfs_mount, Mountable
  <2>2. WellFormed(vol)
    BY <1>0, FilesAssumption DEF BootInv
  <2>3. rootdir # "unset" /\ rootdir # "none"
    BY <2>1, <2>2 DEF WellFormed
  <2> QED BY <1>0, <2>1, <2>2, <2>3 DEF BootInv
<1>3. h \in Mounted /\ to_mount' \in Seq(Mounted)
  <2>1. to_mount \in Seq(Mounted)
    BY <1>0 DEF BootInv
  <2> QED BY <1>1, <1>2, <2>1
<1>4. MountTypes /\ MountsNamed
  BY <1>0 DEF BootInv
<1> HIDE DEF h
<1>5. /\ w \in Walks
      /\ Plain(vol, Root) /\ w.err = "ok" =>
            w.f = Child(vol, Root, h) /\ w.f \in DOMAIN vol.nodes /\ vol.nodes[w.f].type = "dir" /\ w.f # Root
  BY <1>2, <1>3, <1>4, WalkOne
<1> DEFINE m == [ino |-> Ino(vol, w.f), fs |-> h]
<1>6. mounts' = mounts \/ (w.err = "ok" /\ mounts' = Append(mounts, m))
  BY DEF vfs_mount, h
<1> HIDE DEF w
<1>7. m \in [ino : Nat, fs : Mounted]
  <2>1. w.f \in DOMAIN vol.nodes
    BY <1>5 DEF Walks
  <2>2. Ino(vol, w.f) \in Nat
    BY <1>2, <2>1, InoNat
  <2> QED BY <1>3, <2>2
<1>8. MountTypes'
  <2>1. mounts \in Seq([ino : Nat, fs : Mounted])
    BY <1>4 DEF MountTypes
  <2> HIDE DEF m
  <2>2. Append(mounts, m) \in Seq([ino : Nat, fs : Mounted])
    BY <1>7, <2>1, Longer
  <2> QED BY <1>6, <2>1, <2>2 DEF MountTypes
<1>9. MountsNamed'
  <2> DEFINE Fine(a) == LET c == Child(vol, Root, a.fs)
                        IN  /\ c \in DOMAIN vol.nodes /\ vol.nodes[c].type = "dir" /\ c # Root
                            /\ a.ino = Ino(vol, c)
  <2>1. ASSUME Plain(vol, Root), NEW k \in 1 .. Len(mounts') PROVE Fine(mounts'[k])
    <3>1. \A j \in 1 .. Len(mounts) : Fine(mounts[j])
      BY <1>4, <2>1, Zenon DEF MountsNamed
    <3>2. CASE mounts' = mounts
      BY <2>1, <3>1, <3>2, Zenon
    <3>3. CASE w.err = "ok" /\ mounts' = Append(mounts, m)
      <4>1. m.ino = Ino(vol, w.f) /\ m.fs = h
        OBVIOUS
      <4>2. Fine(m)
        BY <1>5, <2>1, <3>3, <4>1
      <4>3. mounts \in Seq([ino : Nat, fs : Mounted])
        BY <1>4 DEF MountTypes
      <4> HIDE DEF m, Fine
      <4>4. /\ Len(Append(mounts, m)) = Len(mounts) + 1 /\ Append(mounts, m)[Len(mounts) + 1] = m
            /\ \A j \in 1 .. Len(mounts) : Append(mounts, m)[j] = mounts[j]
        BY <1>7, <4>3, Longer
      <4>5. k \in 1 .. Len(mounts) + 1
        BY <2>1, <3>3, <4>4
      <4>6. k \in 1 .. Len(mounts) \/ k = Len(mounts) + 1
        BY <4>3, <4>5
      <4> QED BY <3>1, <3>3, <4>2, <4>4, <4>6
    <3> QED BY <1>6, <3>2, <3>3
  <2>2. vol' = vol
    BY <1>1
  <2> QED BY <2>1, <2>2, Zenon DEF MountsNamed
<1>10. last'.call = "none" /\ \A i \in 0 .. NFD - 1 : ~fd[i].used
  BY <1>0, <1>1, <1>2 DEF BootInv
<1>11. UNCHANGED <<vol, fd, seen>>
  BY <1>1
<1>12. /\ DOMAIN fd' = 0 .. NFD - 1 /\ DOMAIN seen' = 0 .. NFD - 1
       /\ \A i \in 0 .. NFD - 1 : Descriptor(vol', MountPoints', cached', fd'[i], seen'[i])
       /\ Missing(vol', MountPoints', last')
       /\ \A i \in 0 .. NFD - 1 : ~fd'[i].used
  BY <1>10, <1>11, WhileMounting
<1>13. Fat(vol') /\ cached' => fat' = fat_table(vol')
  BY <1>0, <1>1 DEF BootInv
<1>14. vol' \in Volumes /\ rootdir' = Root
  BY <1>1, <1>2
<1>15. BootInv'
  BY <1>3, <1>8, <1>9, <1>10, <1>12, <1>13, <1>14 DEF BootInv
<1> QED BY <1>12, <1>15 DEF FilesInv
\* Once programs run, the volume, the mounts and the cached table stay.
LEMMA Stays ==
    ASSUME FilesInv, Running, UNCHANGED booted
    PROVE  /\ BootInv' /\ vol' = vol /\ MountPoints' = MountPoints /\ cached' = cached
           /\ vol \in Volumes /\ WellFormed(vol) /\ rootdir = Root /\ MountTypes /\ MountsNamed
           /\ Fat(vol) /\ cached => fat = fat_table(vol)
<1>0. BootInv
  BY DEF FilesInv
<1>1. UNCHANGED <<vol, fat, cached, rootdir, to_mount, mounts>> /\ to_mount = <<>>
  BY DEF booted, Running
<1>2. MountPoints' = MountPoints
  BY <1>1, Zenon DEF MountPoints
<1>3. MountTypes /\ MountsNamed
  BY <1>0 DEF BootInv
<1>4. MountTypes'
  BY <1>1, <1>3 DEF MountTypes
<1>5. MountsNamed'
  BY <1>1, <1>3, Zenon DEF MountsNamed
<1>6. vol \in Volumes /\ rootdir = Root /\ (Fat(vol) /\ cached => fat = fat_table(vol)) /\ to_mount \in Seq(Mounted)
  BY <1>0, <1>1 DEF BootInv
<1>7. WellFormed(vol)
  BY <1>6, FilesAssumption
<1>8. BootInv'
  BY <1>1, <1>4, <1>5, <1>6 DEF BootInv
<1> QED BY <1>1, <1>2, <1>3, <1>6, <1>7, <1>8

\* A call that changes one descriptor at most, and what the program knows of it.
LEMMA OneChanged ==
    ASSUME FilesInv, Running, UNCHANGED booted, NEW i \in 0 .. NFD - 1,
           DOMAIN fd' = DOMAIN fd, DOMAIN seen' = DOMAIN seen,
           \A j \in 0 .. NFD - 1 : j # i => fd'[j] = fd[j] /\ seen'[j] = seen[j],
           Descriptor(vol, MountPoints, cached, fd'[i], seen'[i]), Missing(vol, MountPoints, last')
    PROVE  FilesInv'
<1>1. BootInv' /\ vol' = vol /\ MountPoints' = MountPoints /\ cached' = cached
  BY Stays
<1>2. ASSUME NEW j \in 0 .. NFD - 1 PROVE Descriptor(vol', MountPoints', cached', fd'[j], seen'[j])
  <2>1. Descriptor(vol, MountPoints, cached, fd'[j], seen'[j])
    <3>1. CASE j = i
      BY <3>1
    <3>2. CASE j # i
      <4>1. Descriptor(vol, MountPoints, cached, fd[j], seen[j])
        BY DEF FilesInv
      <4>2. fd'[j] = fd[j] /\ seen'[j] = seen[j]
        BY <3>2
      <4> QED BY <4>1, <4>2
    <3> QED BY <3>1, <3>2
  <2> QED BY <1>1, <2>1
<1>3. Missing(vol', MountPoints', last')
  BY <1>1
<1> QED BY <1>1, <1>2, <1>3 DEF FilesInv

LEMMA NoneChanged ==
    ASSUME FilesInv, Running, UNCHANGED booted, UNCHANGED <<fd, seen>>, Missing(vol, MountPoints, last')
    PROVE  FilesInv'
<1>1. BootInv' /\ vol' = vol /\ MountPoints' = MountPoints /\ cached' = cached
  BY Stays
<1>2. ASSUME NEW j \in 0 .. NFD - 1 PROVE Descriptor(vol', MountPoints', cached', fd'[j], seen'[j])
  <2>1. Descriptor(vol, MountPoints, cached, fd[j], seen[j])
    BY DEF FilesInv
  <2> QED BY <1>1, <2>1
<1>3. Missing(vol', MountPoints', last')
  BY <1>1
<1> QED BY <1>1, <1>2, <1>3 DEF FilesInv

LEMMA ReturnIs ==
    ASSUME NEW call, NEW ret, Return(call, ret), call # "open" \/ ret # "ENOENT"
    PROVE  Missing(vol, MountPoints, last')
<1>1. last'.call = call /\ last'.ret = ret
  BY DEF Return, Nothing
<1> QED BY <1>1 DEF Missing

\* A function changed at one place.
LEMMA ChangedAt ==
    ASSUME NEW f, NEW x \in DOMAIN f, NEW e
    PROVE  /\ DOMAIN [f EXCEPT ![x] = e] = DOMAIN f /\ [f EXCEPT ![x] = e][x] = e
           /\ \A y \in DOMAIN f : y # x => [f EXCEPT ![x] = e][y] = f[y]
OBVIOUS

\* The calls that leave the descriptors alone.
LEMMA OtherCalls ==
    ASSUME FilesInv,
           \/ OpenFull
           \/ \E i \in 0 .. NFD - 1 : syscall_fchdir(i) \/ write(i)
           \/ \E path \in Paths : syscall_chdir(path) \/ OpenWild(path)
    PROVE  FilesInv'
<1>1. CASE OpenFull
  <2>1. Running /\ UNCHANGED booted /\ UNCHANGED <<fd, seen>> /\ Return("open", "ENOMEM")
    BY <1>1 DEF OpenFull
  <2>2. Missing(vol, MountPoints, last')
    BY <2>1, ReturnIs
  <2> QED BY <2>1, <2>2, NoneChanged
<1>2. ASSUME NEW i \in 0 .. NFD - 1, syscall_fchdir(i) PROVE FilesInv'
  <2>1. /\ Running /\ UNCHANGED booted /\ UNCHANGED <<fd, seen>>
        /\ Return("chdir", IF fd[i].used THEN "ok" ELSE "error")
    BY <1>2 DEF syscall_fchdir
  <2>2. Missing(vol, MountPoints, last')
    BY <2>1, ReturnIs
  <2> QED BY <2>1, <2>2, NoneChanged
<1>3. ASSUME NEW i \in 0 .. NFD - 1, write(i) PROVE FilesInv'
  <2>1. Running /\ UNCHANGED booted /\ UNCHANGED <<fd, seen>>
    BY <1>3 DEF write, Refused
  <2>2. \E call \in {"access", "write"} : \E ret : Return(call, ret)
    BY <1>3, Zenon DEF write, Refused
  <2>3. Missing(vol, MountPoints, last')
    BY <2>2, ReturnIs
  <2> QED BY <2>1, <2>3, NoneChanged
<1>4. ASSUME NEW path \in Paths, syscall_chdir(path) PROVE FilesInv'
  <2>1. Running /\ UNCHANGED booted /\ UNCHANGED <<fd, seen>>
    BY <1>4 DEF syscall_chdir
  <2>2. \E ret : Return("chdir", ret)
    BY <1>4, Zenon DEF syscall_chdir
  <2>3. Missing(vol, MountPoints, last')
    BY <2>2, ReturnIs
  <2> QED BY <2>1, <2>3, NoneChanged
<1>5. ASSUME NEW path \in Paths, OpenWild(path) PROVE FilesInv'
  <2>1. Running /\ UNCHANGED booted /\ UNCHANGED <<fd, seen>> /\ Opened(path, "wild", TRUE)
    BY <1>5 DEF OpenWild, CanOpen
  <2>2. last'.failed
    BY <2>1 DEF Opened
  <2>3. Missing(vol, MountPoints, last')
    BY <2>2 DEF Missing
  <2> QED BY <2>1, <2>3, NoneChanged
<1> QED BY <1>1, <1>2, <1>3, <1>4, <1>5

LEMMA CloseStep ==
    ASSUME FilesInv, NEW i \in 0 .. NFD - 1, process_close_file(i)
    PROVE  FilesInv'
<1>1. Running /\ UNCHANGED booted
  BY DEF process_close_file
<1>2. DOMAIN fd = 0 .. NFD - 1 /\ DOMAIN seen = 0 .. NFD - 1 /\ Descriptor(vol, MountPoints, cached, fd[i], seen[i])
  BY DEF FilesInv
<1>3. CASE fd[i].used
  <2> DEFINE d == [fd[i] EXCEPT !.used = FALSE]
  <2>1. fd' = [fd EXCEPT ![i] = d] /\ seen' = [seen EXCEPT ![i] = Unknown] /\ Return("close", "ok")
    BY <1>3, Zenon DEF process_close_file
  <2>2. DOMAIN d = DOMAIN Closed /\ ~d.used /\ d.type = fd[i].type /\ d.node = fd[i].node
    BY <1>2 DEF Descriptor, Closed
  <2>3. Descriptor(vol, MountPoints, cached, d, Unknown)
    <3> HIDE DEF d
    <3> QED BY <1>2, <2>2 DEF Descriptor
  <2> HIDE DEF d
  <2>4. /\ DOMAIN fd' = DOMAIN fd /\ DOMAIN seen' = DOMAIN seen /\ fd'[i] = d /\ seen'[i] = Unknown
        /\ \A j \in 0 .. NFD - 1 : j # i => fd'[j] = fd[j] /\ seen'[j] = seen[j]
    BY <1>2, <2>1, ChangedAt
  <2>5. Missing(vol, MountPoints, last')
    BY <2>1, ReturnIs
  <2> QED BY <1>1, <2>3, <2>4, <2>5, OneChanged
<1>4. CASE ~fd[i].used
  <2>1. UNCHANGED <<fd, seen>> /\ Return("close", "EBADFD")
    BY <1>4 DEF process_close_file
  <2>2. Missing(vol, MountPoints, last')
    BY <2>1, ReturnIs
  <2> QED BY <1>1, <2>1, <2>2, NoneChanged
<1> QED BY <1>3, <1>4
\* What a program knows of a descriptor stays what the descriptor stands for.
LEMMA SameFile ==
    ASSUME NEW v, NEW points, NEW d, NEW s, NEW e, NEW t, StandsFor(v, points, d, s),
           e.tty = d.tty, e.fb = d.fb, e.node = d.node, e.mount = d.mount, t.path = s.path, t.was_tty = s.was_tty
    PROVE  StandsFor(v, points, e, t)
<1>1. DeviceOf(e) = DeviceOf(d)
  BY DEF DeviceOf
<1> QED BY <1>1, Zenon DEF StandsFor

\* Every directory has a listing.
LEMMA ListIs ==
    ASSUME vol \in Volumes, NEW x \in DOMAIN vol.nodes
    PROVE  fs_readdir(vol, x) \in Seq(Listed)
<1>1. Len(Pseudo) = 3 /\ Pseudo[1] = "dev"
  BY DEF Pseudo
<1>2. "dev" \in Looked
  BY <1>1 DEF Looked, Mounted
<1> QED BY <1>2, Sought

LEMMA SeekStep ==
    ASSUME FilesInv, NEW i \in 0 .. NFD - 1, NEW whence, NEW offset, syscall_lseek(i, whence, offset)
    PROVE  FilesInv'
<1> DEFINE to == offset + CASE whence = "SEEK_SET" -> 0
                            [] whence = "SEEK_CUR" -> fd[i].offset
                            [] whence = "SEEK_END" -> IF fd[i].node = "none" THEN 0 ELSE vol.nodes[fd[i].node].size
<1>1. Running /\ UNCHANGED booted
  BY DEF syscall_lseek
<1>2. DOMAIN fd = 0 .. NFD - 1 /\ DOMAIN seen = 0 .. NFD - 1 /\ Descriptor(vol, MountPoints, cached, fd[i], seen[i])
  BY DEF FilesInv
<1>3. CASE fd[i].used
  <2> DEFINE d == [fd[i] EXCEPT !.offset = to]
             s == [[[seen[i] EXCEPT !.from = to] EXCEPT !.got = <<>>] EXCEPT !.ended = FALSE]
  <2>1. /\ to \in 0 .. MaxOffset
        /\ fd' = [fd EXCEPT ![i].offset = to]
        /\ seen' = [seen EXCEPT ![i].from = to, ![i].got = <<>>, ![i].ended = FALSE]
        /\ Return("lseek", "ok")
    BY <1>3, Zenon DEF syscall_lseek
  <2> HIDE DEF to
  <2>2. to \in Nat
    BY <2>1, FilesAssumption
  <2>3. /\ DOMAIN d = DOMAIN Closed /\ d.used /\ d.type = fd[i].type /\ d.node = fd[i].node /\ d.offset = to
        /\ d.mount = fd[i].mount /\ d.tty = fd[i].tty /\ d.fb = fd[i].fb
    BY <1>2, <1>3 DEF Descriptor, Closed
  <2>4. /\ DOMAIN s = DOMAIN Unknown /\ s.path = seen[i].path /\ s.was_tty = seen[i].was_tty
        /\ s.from = to /\ s.got = <<>> /\ ~s.ended /\ s.astray = seen[i].astray
    BY <1>2 DEF Descriptor, Unknown
  <2>5. /\ DOMAIN fd' = DOMAIN fd /\ fd'[i] = d
        /\ \A j \in 0 .. NFD - 1 : j # i => fd'[j] = fd[j]
    BY <1>2, <2>1
  <2>6. /\ DOMAIN seen' = DOMAIN seen /\ seen'[i] = s
        /\ \A j \in 0 .. NFD - 1 : j # i => seen'[j] = seen[j]
    BY <1>2, <2>1
  <2> HIDE DEF d, s
  <2>7. StandsFor(vol, MountPoints, d, s)
    <3>1. StandsFor(vol, MountPoints, fd[i], seen[i])
      BY <1>2, <1>3 DEF Descriptor
    <3> QED BY <2>3, <2>4, <3>1, SameFile
  <2>8. Streams(vol, cached, d, s)
    <3>1. to - to = 0 /\ to <= to
      BY <2>2
    <3>2. \A node : Stretch(vol, node, to, to) = <<>>
      BY <3>1 DEF Stretch
    <3> QED BY <2>2, <2>3, <2>4, <3>1, <3>2 DEF Streams
  <2>9. Lists(vol, d, s)
    <3>1. ASSUME d.type = "dir", s.from = 0
          PROVE  d.offset = 0 /\ 0 <= Len(fs_readdir(vol, d.node)) /\ SubSeq(fs_readdir(vol, d.node), 1, 0) = <<>>
      <4>1. d.node \in DOMAIN vol.nodes
        BY <1>2, <2>3, <3>1 DEF Descriptor
      <4>2. vol \in Volumes
        BY <1>1, Stays
      <4>3. fs_readdir(vol, d.node) \in Seq(Listed)
        BY <4>1, <4>2, ListIs
      <4> QED BY <2>3, <2>4, <3>1, <4>3
    <3> QED BY <2>3, <2>4, <3>1 DEF Lists
  <2>10. Descriptor(vol, MountPoints, cached, d, s)
    BY <1>2, <2>3, <2>4, <2>7, <2>8, <2>9 DEF Descriptor
  <2>11. Missing(vol, MountPoints, last')
    BY <2>1, ReturnIs
  <2> QED BY <1>1, <2>5, <2>6, <2>10, <2>11, OneChanged
<1>4. CASE ~fd[i].used
  <2>1. UNCHANGED <<fd, seen>> /\ Return("lseek", "EBADFD")
    BY <1>4 DEF syscall_lseek
  <2>2. Missing(vol, MountPoints, last')
    BY <2>1, ReturnIs
  <2> QED BY <1>1, <2>1, <2>2, NoneChanged
<1> QED BY <1>3, <1>4
\* What was read so far, and what is read next.
Continues(v, node, from, offset, got, data) == got \o data = Stretch(v, node, from, offset + Len(data))
LEMMA ReadOnwards ==
    ASSUME NEW v, NEW node, NEW from \in Nat, NEW offset \in Nat, from <= offset,
           NEW got, got = Stretch(v, node, from, offset), NEW data \in Seq(Byte), Right(v, node, offset, data)
    PROVE  Continues(v, node, from, offset, got, data)
<1> DEFINE S == {Where(v, node, p) : p \in Nat}
           e(k) == Where(v, node, from + k - 1)
           m == offset - from
           n == Len(data)
<1>0. m \in Nat /\ n \in Nat
  OBVIOUS
<1>1. \A k \in 1 .. m : e(k) \in S
  <2> TAKE k \in 1 .. m
  <2>1. from + k - 1 \in Nat
    OBVIOUS
  <2> QED BY <2>1
<1>2. \A k \in 1 .. n : data[k] = Where(v, node, offset + k - 1)
  BY DEF Right
<1>3. \A k \in 1 .. n : data[k] \in S
  <2> TAKE k \in 1 .. n
  <2>1. offset + k - 1 \in Nat
    BY <1>0
  <2> QED BY <1>2, <2>1
<1> HIDE DEF S
<1>4. got \in Seq(S) /\ Len(got) = m /\ \A k \in 1 .. m : got[k] = e(k)
  <2>1. got = [k \in 1 .. m |-> e(k)]
    BY DEF Stretch
  <2> HIDE DEF m, e
  <2> QED BY <1>0, <1>1, <2>1
<1>5. data \in Seq(S)
  BY <1>3
<1> DEFINE all == got \o data
<1>6. /\ all \in Seq(S) /\ Len(all) = m + n
      /\ \A k \in 1 .. m : all[k] = got[k]
      /\ \A k \in 1 .. n : all[m + k] = data[k]
  <2> HIDE DEF m
  <2> QED BY <1>4, <1>5, Joined
<1> HIDE DEF all
<1>7. (offset + Len(data)) - from = m + n
  BY <1>0
<1>8. ASSUME NEW k \in 1 .. m + n PROVE all[k] = e(k)
  <2>1. CASE k <= m
    <3>1. k \in 1 .. m
      BY <1>0, <2>1
    <3> QED BY <1>4, <1>6, <3>1
  <2>2. CASE k > m
    <3>1. k - m \in 1 .. n /\ m + (k - m) = k /\ offset + (k - m) - 1 = from + k - 1
      BY <1>0, <2>2
    <3>2. all[m + (k - m)] = data[k - m] /\ data[k - m] = Where(v, node, offset + (k - m) - 1)
      BY <1>2, <1>6, <3>1
    <3> HIDE DEF m
    <3> QED BY <3>1, <3>2
  <2> QED BY <1>0, <2>1, <2>2
<1>9. all = [k \in 1 .. m + n |-> e(k)]
  <2> HIDE DEF m, n, e
  <2> QED BY <1>6, <1>8
<1>10. Stretch(v, node, from, offset + Len(data)) = [k \in 1 .. m + n |-> e(k)]
  BY <1>7 DEF Stretch
<1> QED BY <1>9, <1>10 DEF all, Continues

LEMMA ReadFileStep ==
    ASSUME FilesInv, Running, UNCHANGED booted, NEW i \in 0 .. NFD - 1, NEW count \in Counts, fd[i].used,
           ReadFile(i, count)
    PROVE  FilesInv'
<1> DEFINE node == vol.nodes[fd[i].node]
           offset == fd[i].offset
           data == fs_read(vol, fat, node, count, offset)
<1>2. DOMAIN fd = 0 .. NFD - 1 /\ DOMAIN seen = 0 .. NFD - 1 /\ Descriptor(vol, MountPoints, cached, fd[i], seen[i])
  BY DEF FilesInv
<1>3. fd[i].type = "reg" /\ fd[i].mount = "root"
  BY DEF ReadFile
<1>4. CASE Return("read", "EIO") /\ UNCHANGED <<fd, seen>>
  <2>1. Missing(vol, MountPoints, last')
    BY <1>4, ReturnIs
  <2> QED BY <1>4, <2>1, NoneChanged
<1>5. CASE ~(Return("read", "EIO") /\ UNCHANGED <<fd, seen>>)
  <2> DEFINE safe == Safe(node, offset, Len(data))
             d == [fd[i] EXCEPT !.offset = offset + Len(data)]
             s == [[[seen[i] EXCEPT !.got = seen[i].got \o data] EXCEPT !.ended = (data = <<>>)]
                      EXCEPT !.astray = seen[i].astray \/ ~safe]
  <2>1. /\ fd' = [fd EXCEPT ![i].offset = @ + Len(data)]
        /\ seen' = [seen EXCEPT ![i].got = @ \o data, ![i].ended = (data = <<>>), ![i].astray = @ \/ ~safe]
        /\ Return("read", "ok")
    BY <1>5, Zenon DEF ReadFile
  <2> HIDE DEF data, safe, node
  <2>3. /\ DOMAIN d = DOMAIN Closed /\ d.used /\ d.type = "reg" /\ d.node = fd[i].node /\ d.offset = offset + Len(data)
        /\ d.mount = fd[i].mount /\ d.tty = fd[i].tty /\ d.fb = fd[i].fb
    BY <1>2, <1>3 DEF Descriptor, Closed
  <2>4. /\ DOMAIN s = DOMAIN Unknown /\ s.path = seen[i].path /\ s.was_tty = seen[i].was_tty
        /\ s.from = seen[i].from /\ s.got = seen[i].got \o data /\ s.ended = (data = <<>>)
        /\ s.astray = (seen[i].astray \/ ~safe)
    BY <1>2 DEF Descriptor, Unknown
  <2>5. /\ DOMAIN fd' = DOMAIN fd /\ fd'[i] = d
        /\ \A j \in 0 .. NFD - 1 : j # i => fd'[j] = fd[j]
    BY <1>2, <2>1
  <2>6. /\ DOMAIN seen' = DOMAIN seen /\ seen'[i] = s
        /\ \A j \in 0 .. NFD - 1 : j # i => seen'[j] = seen[j]
    BY <1>2, <2>1
  <2> HIDE DEF d, s
  <2>7. StandsFor(vol, MountPoints, d, s)
    <3>1. StandsFor(vol, MountPoints, fd[i], seen[i])
      BY <1>2 DEF Descriptor
    <3> QED BY <2>3, <2>4, <3>1, SameFile
  <2>8. Streams(vol, cached, d, s)
    <3> SUFFICES ASSUME Fat(vol) => cached PROVE Streams(vol, cached, d, s)
      BY <2>3 DEF Streams
    <3>1. Streams(vol, cached, fd[i], seen[i])
      BY <1>2 DEF Descriptor
    <3>2. offset \in Nat
      BY <1>3, <3>1 DEF Streams
    <3>3. fd[i].node \in DOMAIN vol.nodes /\ node.type = "reg"
      BY <1>2, <1>3 DEF Descriptor, node
    <3>4. vol \in Volumes /\ (Fat(vol) => fat = fat_table(vol)) /\ WellFormed(vol)
      BY Stays
    <3>5. count \in Nat \ {0}
      BY FilesAssumption
    <3> HIDE DEF offset
    <3>6. data \in Seq(Byte) /\ (safe => Right(vol, node, offset, data))
      BY <3>2, <3>3, <3>4, <3>5, ReadIsFile DEF data, node, safe
    <3>7. offset + Len(data) \in Nat /\ Len(data) \in Nat
      BY <3>2, <3>6
    <3>8. ASSUME ~s.astray
          PROVE  /\ s.from \in Nat /\ s.from <= d.offset
                 /\ s.got = Stretch(vol, node, s.from, d.offset)
                 /\ s.ended => d.offset >= node.size
      <4>1. ~seen[i].astray /\ safe
        BY <2>4, <3>8
      <4>2. /\ seen[i].from \in Nat /\ seen[i].from <= offset
            /\ seen[i].got = Stretch(vol, node, seen[i].from, offset)
        BY <1>3, <3>1, <4>1 DEF Streams, node, offset
      <4>3. Right(vol, node, offset, data)
        BY <3>6, <4>1
      <4>4. seen[i].got \o data = Stretch(vol, node, seen[i].from, offset + Len(data))
        <5> DEFINE from == seen[i].from
                   got == seen[i].got
        <5>1. from \in Nat /\ from <= offset /\ got = Stretch(vol, node, from, offset) /\ data \in Seq(Byte)
          BY <3>6, <4>2
        <5> HIDE DEF from, got
        <5>2. Continues(vol, node, from, offset, got, data)
          BY <3>2, <4>3, <5>1, ReadOnwards
        <5> QED BY <5>2 DEF from, got, Continues
      <4>5. d.offset = offset + Len(data)
        BY <2>3 DEF offset
      <4>6. s.from <= d.offset
        BY <2>4, <3>2, <3>7, <4>2, <4>5
      <4>7. ASSUME s.ended PROVE d.offset >= node.size
        <5>1. data = <<>>
          BY <2>4, <4>7
        <5>2. offset >= node.size /\ Len(data) = 0
          BY <4>3, <5>1 DEF Right
        <5> QED BY <3>2, <4>5, <5>2
      <4> QED BY <2>4, <4>2, <4>4, <4>5, <4>6, <4>7
    <3>9. d.offset \in Nat
      BY <2>3, <3>7 DEF offset
    <3>10. vol.nodes[d.node] = node
      BY <2>3 DEF node
    <3> QED BY <3>8, <3>9, <3>10 DEF Streams
  <2>9. Lists(vol, d, s)
    BY <2>3 DEF Lists
  <2>10. Descriptor(vol, MountPoints, cached, d, s)
    BY <1>2, <1>3, <2>3, <2>4, <2>7, <2>8, <2>9 DEF Descriptor
  <2>11. Missing(vol, MountPoints, last')
    BY <2>1, ReturnIs
  <2> QED BY <2>5, <2>6, <2>10, <2>11, OneChanged
<1> QED BY <1>4, <1>5
\* The first entries of a listing, and the next one.
NextOne(list, offset, got) == Append(got, list[offset + 1]) = SubSeq(list, 1, offset + 1)
LEMMA OneMore ==
    ASSUME NEW S, NEW list \in Seq(S), NEW offset \in Nat, offset < Len(list), NEW got, got = SubSeq(list, 1, offset)
    PROVE  NextOne(list, offset, got)
<1> DEFINE e == list[offset + 1]
           more == Append(got, e)
           part == SubSeq(list, 0 + 1, offset + 1)
<1>1. e \in S /\ Len(list) \in Nat /\ offset + 1 \in Nat /\ offset <= Len(list) /\ offset + 1 <= Len(list)
  BY SeqElement
<1>2. /\ got \in Seq(S) /\ Len(got) = offset /\ \A j \in 1 .. offset : got[j] = list[j]
  BY <1>1
<1>3. /\ part \in Seq(S) /\ Len(part) = offset + 1 /\ \A j \in 1 .. offset + 1 : part[j] = list[j]
  BY <1>1
<1> HIDE DEF e, part
<1>4. /\ more \in Seq(S) /\ Len(more) = offset + 1 /\ more[offset + 1] = e
      /\ \A j \in 1 .. offset : more[j] = got[j]
  BY <1>1, <1>2, Longer
<1> HIDE DEF more
<1>5. \A j \in 1 .. offset + 1 : more[j] = part[j]
  <2> TAKE j \in 1 .. offset + 1
  <2>1. j \in 1 .. offset \/ j = offset + 1
    OBVIOUS
  <2> QED BY <1>2, <1>3, <1>4, <2>1 DEF e
<1>6. more = part
  BY <1>1, <1>3, <1>4, <1>5
<1>7. 0 + 1 = 1
  OBVIOUS
<1> QED BY <1>6, <1>7 DEF NextOne, more, e, part

LEMMA ReadDirStep ==
    ASSUME FilesInv, Running, UNCHANGED booted, NEW i \in 0 .. NFD - 1, fd[i].used, ReadDir(i)
    PROVE  FilesInv'
<1> DEFINE x == fd[i].node
           offset == fd[i].offset
           list == readdir(fd[i].mount, x)
<1>0. vol \in Volumes
  BY Stays
<1>2. DOMAIN fd = 0 .. NFD - 1 /\ DOMAIN seen = 0 .. NFD - 1 /\ Descriptor(vol, MountPoints, cached, fd[i], seen[i])
  BY DEF FilesInv
<1>3. fd[i].type = "dir" /\ x \in DOMAIN vol.nodes
  <2>1. fd[i].type = "dir"
    BY DEF ReadDir
  <2> QED BY <1>2, <2>1 DEF Descriptor
<1>4. /\ StandsFor(vol, MountPoints, fd[i], seen[i]) /\ Streams(vol, cached, fd[i], seen[i])
      /\ Lists(vol, fd[i], seen[i])
  BY <1>2 DEF Descriptor
<1>5. offset \in Nat
  BY <1>3, <1>4 DEF Streams
<1>6. /\ fd[i].mount = "root" => list = fs_readdir(vol, x) /\ list \in Seq(Listed)
      /\ Len(list) \in Nat
  <2>1. fs_readdir(vol, x) \in Seq(Listed)
    BY <1>0, <1>3, ListIs
  <2> QED BY <2>1 DEF readdir
<1>7. CASE offset < Len(list) /\ fd' = [fd EXCEPT ![i].offset = @ + 1]
  <2>0. fd # [fd EXCEPT ![i].offset = @ + 1]
    <3>1. "offset" \in DOMAIN fd[i]
      BY <1>2 DEF Descriptor, Closed
    <3>2. [fd EXCEPT ![i].offset = @ + 1][i].offset = offset + 1
      BY <1>2, <3>1
    <3>3. offset + 1 # offset
      BY <1>5
    <3> QED BY <3>2, <3>3
  <2>1. \E got, astray :
           /\ seen' = [seen EXCEPT ![i].got = got, ![i].astray = astray] /\ Return("read", "ok")
           /\ ~astray => ~seen[i].astray /\ got = Append(seen[i].got, list[offset + 1])
    <3>1. CASE seen' = [seen EXCEPT ![i].got = Append(@, list[offset + 1])] /\ Return("read", "ok")
      <4> DEFINE got == Append(seen[i].got, list[offset + 1])
                 astray == seen[i].astray
      <4>1. seen' = [seen EXCEPT ![i].got = got, ![i].astray = astray]
        <5> HIDE DEF list
        <5> QED BY <1>2, <3>1 DEF Descriptor, Unknown
      <4> QED BY <3>1, <4>1
    <3>2. CASE /\ seen' = [seen EXCEPT ![i].got = Append(@, [list[offset + 1] EXCEPT !.node = "lost"]),
                                       ![i].astray = TRUE]
               /\ Return("read", "ok")
      <4> DEFINE got == Append(seen[i].got, [list[offset + 1] EXCEPT !.node = "lost"])
      <4>1. seen' = [seen EXCEPT ![i].got = got, ![i].astray = TRUE]
        BY <3>2
      <4> HIDE DEF got
      <4> QED BY <3>2, <4>1
    <3> QED BY <1>7, <2>0, <3>1, <3>2, Zenon DEF ReadDir
  <2> HIDE DEF list
  <2>2. PICK got, astray :
           /\ seen' = [seen EXCEPT ![i].got = got, ![i].astray = astray] /\ Return("read", "ok")
           /\ ~astray => ~seen[i].astray /\ got = Append(seen[i].got, list[offset + 1])
    BY <2>1
  <2> DEFINE d == [fd[i] EXCEPT !.offset = offset + 1]
             s == [[seen[i] EXCEPT !.got = got] EXCEPT !.astray = astray]
  <2>3. /\ DOMAIN d = DOMAIN Closed /\ d.used /\ d.type = "dir" /\ d.node = x /\ d.offset = offset + 1
        /\ d.mount = fd[i].mount /\ d.tty = fd[i].tty /\ d.fb = fd[i].fb
    BY <1>2, <1>3 DEF Descriptor, Closed
  <2>4. /\ DOMAIN s = DOMAIN Unknown /\ s.path = seen[i].path /\ s.was_tty = seen[i].was_tty
        /\ s.from = seen[i].from /\ s.got = got /\ s.ended = seen[i].ended
        /\ s.astray = astray
    BY <1>2 DEF Descriptor, Unknown
  <2>5. /\ DOMAIN fd' = DOMAIN fd /\ fd'[i] = d
        /\ \A j \in 0 .. NFD - 1 : j # i => fd'[j] = fd[j]
    BY <1>2, <1>7
  <2>6. /\ DOMAIN seen' = DOMAIN seen /\ seen'[i] = s
        /\ \A j \in 0 .. NFD - 1 : j # i => seen'[j] = seen[j]
    BY <1>2, <2>2
  <2> HIDE DEF d, s
  <2>7. StandsFor(vol, MountPoints, d, s)
    BY <1>4, <2>3, <2>4, SameFile
  <2>8. Streams(vol, cached, d, s)
    <3>1. d.offset \in Nat
      BY <1>5, <2>3
    <3> QED BY <2>3, <3>1 DEF Streams
  <2>9. Lists(vol, d, s)
    <3> SUFFICES ASSUME d.mount = "root", s.from = 0
                 PROVE  /\ d.offset \in Nat /\ d.offset <= Len(list)
                        /\ ~s.astray => s.got = SubSeq(list, 1, d.offset)
                        /\ s.ended /\ ~s.astray => d.offset = Len(list)
      BY <1>6, <2>3 DEF Lists
    <3>1. list = fs_readdir(vol, x) /\ list \in Seq(Listed)
      BY <1>6, <2>3
    <3>2. /\ ~seen[i].astray => seen[i].got = SubSeq(list, 1, offset)
          /\ seen[i].ended /\ ~seen[i].astray => offset = Len(list)
      BY <1>3, <1>4, <2>3, <2>4, <3>1 DEF Lists
    <3> HIDE DEF offset
    <3>4. ASSUME ~s.astray PROVE s.got = SubSeq(list, 1, offset + 1)
      <4>1. seen[i].got = SubSeq(list, 1, offset) /\ s.got = Append(seen[i].got, list[offset + 1])
        BY <2>2, <2>4, <3>2, <3>4 DEF offset
      <4>2. NextOne(list, offset, seen[i].got)
        BY <1>5, <1>7, <3>1, <4>1, OneMore
      <4> QED BY <4>1, <4>2 DEF NextOne
    <3>5. d.offset = offset + 1
      BY <2>3 DEF offset
    <3>6. d.offset \in Nat /\ d.offset <= Len(list) /\ offset # Len(list)
      BY <1>5, <1>6, <1>7, <3>5
    <3>7. ~(s.ended /\ ~s.astray)
      BY <2>2, <2>4, <3>2, <3>6
    <3> QED BY <3>4, <3>5, <3>6, <3>7
  <2>10. Descriptor(vol, MountPoints, cached, d, s)
    BY <1>2, <1>3, <2>3, <2>4, <2>7, <2>8, <2>9 DEF Descriptor
  <2>11. Missing(vol, MountPoints, last')
    BY <2>2, ReturnIs
  <2> QED BY <2>5, <2>6, <2>10, <2>11, OneChanged
<1>8. CASE ~(offset < Len(list) /\ fd' = [fd EXCEPT ![i].offset = @ + 1])
  <2>1. \E ended, astray, ret :
           /\ fd' = fd /\ Return("read", ret)
           /\ seen' = [seen EXCEPT ![i].ended = ended, ![i].astray = astray]
           /\ ~astray => ~seen[i].astray
           /\ ended /\ ~astray => seen[i].ended \/ ~(offset < Len(list))
    <3>1. CASE offset < Len(list)
      <4>1. PICK err \in Failures(vol, x) :
               /\ seen' = [seen EXCEPT ![i].ended = @ \/ err = "ENOENT", ![i].astray = @ \/ err = "ENOENT"]
               /\ Return("read", err) /\ UNCHANGED fd
        BY <1>8, <3>1, Zenon DEF ReadDir
      <4> DEFINE ended == seen[i].ended \/ err = "ENOENT"
                 astray == seen[i].astray \/ err = "ENOENT"
      <4>2. seen' = [seen EXCEPT ![i].ended = ended, ![i].astray = astray]
        BY <1>2, <4>1 DEF Descriptor, Unknown
      <4>3. (~astray => ~seen[i].astray) /\ (ended /\ ~astray => seen[i].ended \/ ~(offset < Len(list)))
        OBVIOUS
      <4> HIDE DEF ended, astray
      <4> QED BY <4>1, <4>2, <4>3
    <3>2. CASE ~(offset < Len(list))
      <4>1. seen' = [seen EXCEPT ![i].ended = TRUE] /\ Return("read", "ENOENT") /\ UNCHANGED fd
        BY <3>2, Zenon DEF ReadDir
      <4> DEFINE astray == seen[i].astray
      <4>2. seen' = [seen EXCEPT ![i].ended = TRUE, ![i].astray = astray]
        BY <1>2, <4>1 DEF Descriptor, Unknown
      <4> HIDE DEF list
      <4>3. (~astray => ~seen[i].astray) /\ (TRUE /\ ~astray => seen[i].ended \/ ~(offset < Len(list)))
        BY <3>2
      <4> QED BY <4>1, <4>2, <4>3
    <3> QED BY <3>1, <3>2
  <2> HIDE DEF list
  <2>2. PICK ended, astray, ret :
           /\ fd' = fd /\ Return("read", ret)
           /\ seen' = [seen EXCEPT ![i].ended = ended, ![i].astray = astray]
           /\ ~astray => ~seen[i].astray
           /\ ended /\ ~astray => seen[i].ended \/ ~(offset < Len(list))
    BY <2>1
  <2> DEFINE s == [[seen[i] EXCEPT !.ended = ended] EXCEPT !.astray = astray]
  <2>4. /\ DOMAIN s = DOMAIN Unknown /\ s.path = seen[i].path /\ s.was_tty = seen[i].was_tty
        /\ s.from = seen[i].from /\ s.got = seen[i].got /\ s.ended = ended /\ s.astray = astray
    BY <1>2 DEF Descriptor, Unknown
  <2>6. /\ DOMAIN seen' = DOMAIN seen /\ seen'[i] = s
        /\ \A j \in 0 .. NFD - 1 : j # i => seen'[j] = seen[j]
    BY <1>2, <2>2
  <2> HIDE DEF s
  <2>7. StandsFor(vol, MountPoints, fd[i], s)
    BY <1>4, <2>4, SameFile
  <2>8. Streams(vol, cached, fd[i], s)
    BY <1>3, <1>5 DEF Streams
  <2>9. Lists(vol, fd[i], s)
    <3> SUFFICES ASSUME fd[i].mount = "root", s.from = 0
                 PROVE  /\ offset \in Nat /\ offset <= Len(list)
                        /\ ~s.astray => s.got = SubSeq(list, 1, offset)
                        /\ s.ended /\ ~s.astray => offset = Len(list)
      BY <1>6, <1>3 DEF Lists
    <3>1. list = fs_readdir(vol, x) /\ list \in Seq(Listed)
      BY <1>6
    <3>2. /\ offset \in Nat /\ offset <= Len(list)
          /\ ~seen[i].astray => seen[i].got = SubSeq(list, 1, offset)
          /\ seen[i].ended /\ ~seen[i].astray => offset = Len(list)
      BY <1>3, <1>4, <2>4, <3>1 DEF Lists
    <3>3. ASSUME s.ended, ~s.astray PROVE offset = Len(list)
      <4>1. ~seen[i].astray /\ (seen[i].ended \/ ~(offset < Len(list)))
        BY <2>2, <2>4, <3>3
      <4> HIDE DEF offset
      <4> QED BY <1>5, <1>6, <3>2, <4>1
    <3> QED BY <2>2, <2>4, <3>2, <3>3
  <2>10. Descriptor(vol, MountPoints, cached, fd[i], s)
    BY <1>2, <1>3, <2>4, <2>7, <2>8, <2>9 DEF Descriptor
  <2>11. Missing(vol, MountPoints, last')
    BY <2>2, ReturnIs
  <2> QED BY <2>2, <2>6, <2>10, <2>11, OneChanged
<1> QED BY <1>7, <1>8

LEMMA ReadStep ==
    ASSUME FilesInv, NEW i \in 0 .. NFD - 1, NEW count \in Counts, read(i, count)
    PROVE  FilesInv'
<1>1. Running /\ UNCHANGED booted
  BY DEF read
<1>2. CASE Refused(i, fd[i].read) \/ ReadNowhere(i) \/ ReadDevice(i)
  <2>1. UNCHANGED <<fd, seen>>
    BY <1>2 DEF Refused, ReadNowhere, ReadDevice
  <2>2. \E call \in {"access", "read"} : \E ret : Return(call, ret)
    BY <1>2, Zenon DEF Refused, ReadNowhere, ReadDevice
  <2>3. Missing(vol, MountPoints, last')
    BY <2>2, ReturnIs
  <2> QED BY <1>1, <2>1, <2>3, NoneChanged
<1>3. CASE fd[i].used /\ ReadFile(i, count)
  BY <1>1, <1>3, ReadFileStep
<1>4. CASE fd[i].used /\ ReadDir(i)
  BY <1>1, <1>4, ReadDirStep
<1> QED BY <1>2, <1>3, <1>4 DEF read
\* The descriptor an open takes.
LEMMA TakenIs ==
    ASSUME FilesInv, Free # {}, NEW mode
    PROVE  LET i == Min(Free)
               t == Taken(mode)
           IN  /\ i \in 0 .. NFD - 1 /\ ~fd[i].used /\ seen[i] = Unknown
               /\ Descriptor(vol, MountPoints, cached, fd[i], seen[i])
               /\ DOMAIN t = DOMAIN Closed /\ t.used /\ t.offset = 0 /\ t.type = fd[i].type /\ t.node = fd[i].node
               /\ t.mount = fd[i].mount /\ t.tty = fd[i].tty /\ t.fb = fd[i].fb
<1> DEFINE i == Min(Free)
<1>1. Free \subseteq Nat
  BY DEF Free
<1>2. i \in Free
  BY <1>1, MinOf
<1>3. i \in 0 .. NFD - 1 /\ ~fd[i].used
  BY <1>2 DEF Free
<1>4. Descriptor(vol, MountPoints, cached, fd[i], seen[i])
  BY <1>3 DEF FilesInv
<1>5. DOMAIN fd[i] = DOMAIN Closed /\ seen[i] = Unknown
  BY <1>3, <1>4 DEF Descriptor
<1> DEFINE d == fd[i]
           r == d.read \/ mode # "w"
           w == d.write \/ mode \in {"w", "rw"}
<1>6. Taken(mode) = [d EXCEPT !.used = TRUE, !.offset = 0, !.read = r, !.write = w]
  BY DEF Taken
<1>7. DOMAIN d = {"used", "type", "tty", "fb", "mount", "node", "offset", "read", "write"}
  BY <1>5 DEF Closed
<1> HIDE DEF i, d, r, w
<1> DEFINE t == [d EXCEPT !.used = TRUE, !.offset = 0, !.read = r, !.write = w]
<1>8. /\ DOMAIN t = DOMAIN d /\ t.used /\ t.offset = 0 /\ t.type = d.type /\ t.node = d.node
      /\ t.mount = d.mount /\ t.tty = d.tty /\ t.fb = d.fb
  BY <1>7
<1> HIDE DEF t
<1>9. Taken(mode) = t
  BY <1>6 DEF t
<1> QED BY <1>3, <1>4, <1>5, <1>8, <1>9 DEF d, i

\* An open that fails gives the descriptor back.
LEMMA GivenBack ==
    ASSUME FilesInv, Running, UNCHANGED booted, Free # {}, NEW d,
           fd' = [fd EXCEPT ![Min(Free)] = d], seen' = seen,
           DOMAIN d = DOMAIN Closed, ~d.used,
           d.type \in {"reg", "dir"} => d.node \in DOMAIN vol.nodes /\ vol.nodes[d.node].type = d.type,
           Missing(vol, MountPoints, last')
    PROVE  FilesInv'
<1> DEFINE i == Min(Free)
<1>1. /\ i \in 0 .. NFD - 1 /\ seen[i] = Unknown
      /\ Descriptor(vol, MountPoints, cached, fd[i], seen[i])
  BY TakenIs
<1>2. DOMAIN fd = 0 .. NFD - 1
  BY DEF FilesInv
<1> HIDE DEF i
<1>3. fd' = [fd EXCEPT ![i] = d]
  BY DEF i
<1>4. DOMAIN fd' = DOMAIN fd /\ fd'[i] = d /\ \A j \in 0 .. NFD - 1 : j # i => fd'[j] = fd[j]
  BY <1>1, <1>2, <1>3, ChangedAt
<1>5. Descriptor(vol, MountPoints, cached, d, seen[i])
  BY <1>1 DEF Descriptor
<1> QED BY <1>1, <1>4, <1>5, OneChanged

LEMMA DeviceStep ==
    ASSUME FilesInv, NEW name \in DOMAIN Devices, NEW mode \in Modes, OpenDevice(name, mode)
    PROVE  FilesInv'
<1> DEFINE i == Min(Free)
           t == Taken(mode)
           v == Devices[name]
           missing == v.n > (IF v.dev = "tty" THEN TTYS ELSE 0)
           tty == IF v.dev = "tty" /\ ~missing THEN Max({v.n, 1}) ELSE t.tty
           fb == t.fb \/ (v.dev = "fb" /\ ~missing)
           d == [t EXCEPT !.type = "chr", !.tty = tty, !.fb = fb]
           path == <<"dev", name>>
           s == IF missing THEN seen[i] ELSE [Unknown EXCEPT !.path = path, !.was_tty = fd[i].tty # 0]
<1>1. /\ Running /\ UNCHANGED booted /\ Free # {}
      /\ fd' = [fd EXCEPT ![i] = d]
      /\ seen' = IF missing THEN seen ELSE [seen EXCEPT ![i] = s]
      /\ \E ret : Opened(path, ret, FALSE)
  BY DEF OpenDevice, ToldOf, CanOpen
<1>2. /\ i \in 0 .. NFD - 1 /\ seen[i] = Unknown /\ Descriptor(vol, MountPoints, cached, fd[i], seen[i])
      /\ DOMAIN t = DOMAIN Closed /\ t.used /\ t.offset = 0 /\ t.node = fd[i].node
      /\ t.mount = fd[i].mount /\ t.tty = fd[i].tty /\ t.fb = fd[i].fb
  BY <1>1, TakenIs
<1>3. DOMAIN fd = 0 .. NFD - 1 /\ DOMAIN seen = 0 .. NFD - 1
  BY DEF FilesInv
<1>4. v.dev \in {"tty", "fb"} /\ v.n \in Nat
  BY FilesAssumption
<1>5. Max({v.n, 1}) # 0
  <2>1. \E x \in {v.n, 1} : \A y \in {v.n, 1} : x >= y
    BY <1>4
  <2>2. Max({v.n, 1}) \in {v.n, 1} /\ \A y \in {v.n, 1} : Max({v.n, 1}) >= y
    BY <2>1, Zenon DEF Max
  <2> QED BY <1>4, <2>2
<1>6. IsDevice(path) /\ path[Len(path)] = name
  BY DEF IsDevice
<1> HIDE DEF t, i, path
<1>7. s.path = Unknown.path \/ (~missing /\ s.path = path /\ s.was_tty = (fd[i].tty # 0))
  <2> HIDE DEF missing, v
  <2> QED BY <1>2 DEF Unknown
<1>8. DOMAIN s = DOMAIN Unknown
  <2> HIDE DEF missing, v
  <2> QED BY <1>2 DEF Unknown
<1>9. ~missing /\ v.dev = "tty" => tty # 0
  BY <1>5
<1>10. ~missing /\ v.dev = "fb" => fb
  BY Zenon
<1>11. ~missing /\ v.dev = "fb" => tty = fd[i].tty
  <2> HIDE DEF missing
  <2> QED BY <1>2, <1>4
<1> HIDE DEF tty, fb
<1>12. DOMAIN d = DOMAIN Closed /\ d.used /\ d.type = "chr" /\ d.offset = 0 /\ d.tty = tty /\ d.fb = fb
  BY <1>2 DEF Closed
<1> HIDE DEF d, s, missing
<1>13. StandsFor(vol, MountPoints, d, s)
  <2>1. CASE s.path = Unknown.path
    BY <2>1 DEF StandsFor
  <2>2. CASE ~missing /\ s.path = path /\ s.was_tty = (fd[i].tty # 0)
    <3>1. DeviceOf(d) = v.dev \/ (v.dev = "fb" /\ s.was_tty)
      <4>1. CASE v.dev = "tty"
        BY <1>9, <1>12, <2>2, <4>1 DEF DeviceOf
      <4>2. CASE v.dev = "fb"
        <5>1. fb /\ tty = fd[i].tty
          BY <1>10, <1>11, <2>2, <4>2
        <5>2. d.fb /\ (d.tty # 0 => s.was_tty)
          BY <1>12, <2>2, <5>1
        <5> QED BY <4>2, <5>2 DEF DeviceOf
      <4> QED BY <1>4, <4>1, <4>2
    <3> QED BY <1>6, <2>2, <3>1 DEF StandsFor
  <2> QED BY <1>7, <2>1, <2>2
<1>14. Streams(vol, cached, d, s) /\ Lists(vol, d, s)
  BY <1>12 DEF Streams, Lists
<1>15. Descriptor(vol, MountPoints, cached, d, s)
  BY <1>8, <1>12, <1>13, <1>14 DEF Descriptor
<1>16. DOMAIN fd' = DOMAIN fd /\ fd'[i] = d /\ \A j \in 0 .. NFD - 1 : j # i => fd'[j] = fd[j]
  BY <1>1, <1>2, <1>3, ChangedAt
<1>17. DOMAIN seen' = DOMAIN seen /\ seen'[i] = s /\ \A j \in 0 .. NFD - 1 : j # i => seen'[j] = seen[j]
  <2>1. CASE missing
    BY <1>1, <2>1 DEF s
  <2>2. CASE ~missing
    BY <1>1, <1>2, <1>3, <2>2, ChangedAt
  <2> QED BY <2>1, <2>2
<1>18. Missing(vol, MountPoints, last')
  <2>1. last'.path = path
    BY <1>1 DEF Opened
  <2> QED BY <1>6, <2>1 DEF Missing
<1> QED BY <1>1, <1>2, <1>15, <1>16, <1>17, <1>18, OneChanged
LEMMA PathLooked ==
    ASSUME NEW path \in Paths
    PROVE  path \in Seq(Looked)
<1>1. path \in Seq(STRING)
  BY FilesAssumption
<1>2. \A k \in 1 .. Len(path) : path[k] \in Looked
  BY DEF Looked
<1> HIDE DEF Looked
<1> QED BY <1>1, <1>2

\* The walk of an open against what the path names.
LEMMA StatIs ==
    ASSUME vol \in Volumes, MountTypes, MountsNamed, rootdir = Root, NEW path \in Paths
    PROVE  LET w == vfs_stat(path)
           IN  /\ w.f \in DOMAIN vol.nodes /\ w.err \in {"ok", "ENOENT"}
               /\ w.err # "ok" /\ PlainPath(vol, MountPoints, path) => Target(vol, MountPoints, path) = "no"
               /\ w.err = "ok" /\ PlainPath(vol, MountPoints, path) /\ ~OverFile(vol, MountPoints, path) =>
                     /\ w.f = Target(vol, MountPoints, path)
                     /\ path # <<>> => (w.fs # "root") = (Target(vol, MountPoints, path) \in MountPoints)
               /\ path = <<>> => w.err = "ok" /\ vol.nodes[w.f].type = "dir"
<1> DEFINE w == vfs_stat(path)
<1>0. path \in Seq(Looked) /\ Len(path) \in Nat
  <2>1. path \in Seq(Looked)
    BY PathLooked
  <2> QED BY <2>1
<1>1. Root \in DOMAIN vol.nodes /\ vol.nodes[Root].type = "dir"
  BY FilesAssumption DEF WellFormed
<1>2. CASE path = <<>>
  <2>1. w.err = "ok" /\ w.f = Root
    BY <1>2 DEF vfs_stat
  <2>2. Len(path) = 0
    BY <1>2
  <2>3. Lookup(vol, MountPoints, path) =
           [k \in 0 .. Len(path) |-> IF k = 0 THEN Root
                                     ELSE Below(vol, MountPoints, Lookup(vol, MountPoints, path)[k - 1], path[k])]
    BY <1>0, LookupRecursion
  <2>4. Target(vol, MountPoints, path) = Root
    BY <2>2, <2>3 DEF Target
  <2> HIDE DEF w
  <2> QED BY <1>1, <1>2, <2>1, <2>4 DEF w
<1>3. CASE path # <<>>
  <2> DEFINE P == Prefix(path)
             c == Target(vol, MountPoints, path)
  <2>1. w = Walk(path)[Len(path)] /\ Len(path) \in 0 .. Len(path)
    BY <1>0, <1>3 DEF vfs_stat
  <2>2. w \in Walks
    BY <1>0, <2>1, WalkTypes
  <2>3. c = P[Len(path)]
    BY DEF Target, Prefix
  <2>4. ASSUME PlainPath(vol, MountPoints, path), c # "no" PROVE Finds(c, w)
    <3>1. PlainWalk(path)
      BY <2>4, Zenon DEF PlainPath, PlainWalk, Prefix
    <3>2. P[Len(path)] # "no" => Finds(P[Len(path)], Walk(path)[Len(path)])
      BY <1>0, <1>3, <2>1, <3>1, WalkFinds
    <3> HIDE DEF P, c, w
    <3> QED BY <2>1, <2>3, <2>4, <3>2
  <2>5. ASSUME PlainPath(vol, MountPoints, path), ~OverFile(vol, MountPoints, path), w.err = "ok" PROVE c # "no"
    <3>1. PlainWalk(path)
      BY <2>5, Zenon DEF PlainPath, PlainWalk, Prefix
    <3>2. ~ThroughFile(path)
      BY <2>5, Zenon DEF OverFile, ThroughFile, Prefix
    <3>3. P[Len(path)] = "no" => Walk(path)[Len(path)].err # "ok"
      BY <1>0, <1>3, <2>1, <3>1, <3>2, WalkMisses
    <3> HIDE DEF P, c, w
    <3> QED BY <2>1, <2>3, <2>5, <3>3
  <2> HIDE DEF w, c
  <2>6. w.f \in DOMAIN vol.nodes /\ w.err \in {"ok", "ENOENT"}
    BY <2>2 DEF Walks
  <2>7. w.err # "ok" /\ PlainPath(vol, MountPoints, path) => c = "no"
    BY <2>4 DEF Finds
  <2>8. ASSUME w.err = "ok", PlainPath(vol, MountPoints, path), ~OverFile(vol, MountPoints, path)
        PROVE  w.f = c /\ ((w.fs # "root") = (c \in MountPoints))
    <3>1. Finds(c, w)
      BY <2>4, <2>5, <2>8
    <3> QED BY <3>1 DEF Finds
  <2> QED BY <1>3, <2>6, <2>7, <2>8 DEF w, c
<1> QED BY <1>2, <1>3

\* What an open may know of where its walk led: what the path names, unless the disk failed.
LedTo(path, w, failed) ==
    /\ w.f \in DOMAIN vol.nodes
    /\ ~failed =>
          /\ w.err \in {"ok", "ENOENT"}
          /\ w.err # "ok" /\ PlainPath(vol, MountPoints, path) => Target(vol, MountPoints, path) = "no"
          /\ w.err = "ok" /\ PlainPath(vol, MountPoints, path) /\ ~OverFile(vol, MountPoints, path) =>
                /\ w.f = Target(vol, MountPoints, path)
                /\ path # <<>> => (w.fs # "root") = (Target(vol, MountPoints, path) \in MountPoints)
LEMMA OpenStep ==
    ASSUME FilesInv, NEW path \in Paths, NEW mode \in Modes, NEW w, NEW failed \in BOOLEAN,
           Open(path, mode, w, failed), LedTo(path, w, failed)
    PROVE  FilesInv'
<1> DEFINE i == Min(Free)
           t == Taken(mode)
           type == vol.nodes[w.f].type
           err == IF w.err = "ok" /\ mode = "d" /\ type # "dir" THEN "ENOTDIR" ELSE w.err
           mount == IF path = <<>> THEN t.mount ELSE w.fs
           lost == [t EXCEPT !.used = FALSE]
           d == [t EXCEPT !.used = (err = "ok"), !.type = type, !.node = w.f, !.mount = mount]
           told == IF failed THEN Unknown.path ELSE path
           s == [Unknown EXCEPT !.path = told, !.was_tty = fd[i].tty # 0]
<1>1. /\ Running /\ UNCHANGED booted /\ Free # {}
      /\ fd' = [fd EXCEPT ![i] = IF w.err # "ok" THEN lost ELSE d]
      /\ seen' = (IF err = "ok" THEN [seen EXCEPT ![i] = s] ELSE seen)
      /\ Opened(path, err, failed)
  BY DEF Open, ToldOf, CanOpen
<1>2. /\ i \in 0 .. NFD - 1 /\ seen[i] = Unknown /\ Descriptor(vol, MountPoints, cached, fd[i], seen[i])
      /\ DOMAIN t = DOMAIN Closed /\ t.used /\ t.offset = 0 /\ t.type = fd[i].type /\ t.node = fd[i].node
  BY <1>1, TakenIs
<1>3. DOMAIN fd = 0 .. NFD - 1 /\ DOMAIN seen = 0 .. NFD - 1
  BY DEF FilesInv
<1>4. vol \in Volumes /\ WellFormed(vol) /\ rootdir = Root /\ MountTypes /\ MountsNamed
  BY <1>1, Stays
<1>5. w.f \in DOMAIN vol.nodes
  BY DEF LedTo
<1>6. ~IsDevice(path)
  BY NamesAssumption
<1>7. type \in {"reg", "dir"}
  BY <1>4, <1>5, NodeTypes
<1> HIDE DEF t, i
<1>8. Missing(vol, MountPoints, last')
  <2>1. last'.path = path /\ last'.ret = err /\ last'.failed = failed
    BY <1>1 DEF Opened
  <2>2. CASE failed
    BY <2>1, <2>2 DEF Missing
  <2>3. CASE ~failed
    <3>1. err = "ENOENT" => w.err # "ok"
      OBVIOUS
    <3> HIDE DEF err
    <3> QED BY <2>1, <2>3, <3>1 DEF Missing, LedTo
  <2> QED BY <2>2, <2>3
<1>9. CASE w.err # "ok"
  <2>1. fd' = [fd EXCEPT ![i] = lost] /\ seen' = seen
    BY <1>1, <1>9
  <2>2. DOMAIN lost = DOMAIN Closed /\ ~lost.used /\ lost.type = t.type /\ lost.node = t.node
    BY <1>2 DEF Closed
  <2> HIDE DEF lost
  <2>3. lost.type \in {"reg", "dir"} => lost.node \in DOMAIN vol.nodes /\ vol.nodes[lost.node].type = lost.type
    BY <1>2, <2>2 DEF Descriptor
  <2> QED BY <1>1, <1>8, <2>1, <2>2, <2>3, GivenBack DEF i
<1>10. CASE w.err = "ok"
  <2> HIDE DEF err, type, mount, told
  <2>1. fd' = [fd EXCEPT ![i] = d]
    BY <1>1, <1>10
  <2>2. /\ DOMAIN d = DOMAIN Closed /\ d.used = (err = "ok") /\ d.type = type /\ d.node = w.f /\ d.mount = mount
        /\ d.offset = 0
    BY <1>2 DEF Closed
  <2> HIDE DEF d
  <2>3. d.type \in {"reg", "dir"} => d.node \in DOMAIN vol.nodes /\ vol.nodes[d.node].type = d.type
    BY <1>5, <2>2 DEF type
  <2>4. CASE err # "ok"
    <3>1. ~d.used /\ seen' = seen
      BY <1>1, <2>2, <2>4
    <3> QED BY <1>1, <1>8, <2>1, <2>2, <2>3, <3>1, GivenBack DEF i
  <2>5. CASE err = "ok"
    <3>1. d.used /\ seen' = [seen EXCEPT ![i] = s]
      BY <1>1, <2>2, <2>5
    <3>2. /\ DOMAIN s = DOMAIN Unknown /\ s.path = told /\ s.from = 0 /\ s.got = <<>> /\ ~s.ended /\ ~s.astray
      BY DEF Unknown
    <3> HIDE DEF s
    <3>3. StandsFor(vol, MountPoints, d, s)
      <4>1. CASE failed
        <5>1. s.path = Unknown.path
          BY <3>2, <4>1 DEF told
        <5> QED BY <5>1, Zenon DEF StandsFor
      <4>2. CASE ~failed
        <5>0. s.path = path
          BY <3>2, <4>2 DEF told
        <5> SUFFICES ASSUME PlainPath(vol, MountPoints, path), ~OverFile(vol, MountPoints, path)
                     PROVE  /\ d.node = Target(vol, MountPoints, path)
                            /\ path # <<>> => (d.mount # "root") = (Target(vol, MountPoints, path) \in MountPoints)
          BY <1>6, <5>0, Zenon DEF StandsFor
        <5>1. d.node = Target(vol, MountPoints, path)
          BY <1>10, <2>2, <4>2 DEF LedTo
        <5>2. ASSUME path # <<>>
              PROVE  (d.mount # "root") = (Target(vol, MountPoints, path) \in MountPoints)
          <6>1. d.mount = w.fs
            BY <2>2, <5>2 DEF mount
          <6> QED BY <1>10, <4>2, <5>2, <6>1 DEF LedTo
        <5> QED BY <5>1, <5>2
      <4> QED BY <4>1, <4>2
    <3>4. Streams(vol, cached, d, s)
      <4>1. \A node : Stretch(vol, node, 0, 0) = <<>>
        BY DEF Stretch
      <4> QED BY <2>2, <3>2, <4>1 DEF Streams
    <3>5. Lists(vol, d, s)
      <4>1. fs_readdir(vol, d.node) \in Seq(Listed)
        BY <1>4, <1>5, <2>2, ListIs
      <4>2. 0 <= Len(fs_readdir(vol, d.node)) /\ SubSeq(fs_readdir(vol, d.node), 1, 0) = <<>>
        BY <4>1
      <4> QED BY <2>2, <3>2, <4>2 DEF Lists
    <3>6. Descriptor(vol, MountPoints, cached, d, s)
      BY <2>2, <2>3, <3>1, <3>2, <3>3, <3>4, <3>5 DEF Descriptor
    <3>7. DOMAIN fd' = DOMAIN fd /\ fd'[i] = d /\ \A j \in 0 .. NFD - 1 : j # i => fd'[j] = fd[j]
      BY <1>2, <1>3, <2>1, ChangedAt
    <3>8. DOMAIN seen' = DOMAIN seen /\ seen'[i] = s /\ \A j \in 0 .. NFD - 1 : j # i => seen'[j] = seen[j]
      BY <1>2, <1>3, <3>1, ChangedAt
    <3> QED BY <1>1, <1>2, <1>8, <3>6, <3>7, <3>8, OneChanged
  <2> QED BY <2>4, <2>5
<1> QED BY <1>9, <1>10

LEMMA FileStep ==
    ASSUME FilesInv, NEW path \in Paths, NEW mode \in Modes, OpenFile(path, mode)
    PROVE  FilesInv'
<1> DEFINE w == vfs_stat(path)
<1>1. Open(path, mode, w, FALSE) /\ Running /\ UNCHANGED booted
  BY DEF OpenFile, Open, CanOpen
<1>2. vol \in Volumes /\ rootdir = Root /\ MountTypes /\ MountsNamed
  BY <1>1, Stays
<1>3. LedTo(path, w, FALSE)
  BY <1>2, StatIs DEF LedTo
<1> HIDE DEF w
<1> QED BY <1>1, <1>3, OpenStep

LEMMA LostStep ==
    ASSUME FilesInv, NEW path \in Paths, NEW mode \in Modes, OpenLost(path, mode)
    PROVE  FilesInv'
<1>1. PICK w \in Lost(path) : Open(path, mode, w, TRUE)
  BY Zenon DEF OpenLost
<1>2. Running /\ UNCHANGED booted
  BY <1>1 DEF Open, CanOpen
<1>3. vol \in Volumes /\ rootdir = Root /\ MountTypes
  BY <1>2, Stays
<1>4. path \in Seq(Looked)
  BY PathLooked
<1>5. w \in Strays
  BY <1>3, <1>4, LostTypes
<1>6. LedTo(path, w, TRUE)
  BY <1>5 DEF LedTo, Strays
<1> QED BY <1>1, <1>6, OpenStep

-----------------------------------------------------------------------------
(***************************************************************************)
(* The theorems.                                                           *)
(***************************************************************************)

LEMMA NextFiles ==
    ASSUME FilesInv, [Next]_vars
    PROVE  FilesInv'
<1>1. CASE fat_init \/ ext2_init \/ iso9660_init \/ VfsInitWild \/ MountLoops
  BY <1>1, RootStep
<1>2. CASE vfs_mount
  BY <1>2, MountStep
<1>3. ASSUME NEW name \in DOMAIN Devices, NEW mode \in Modes, OpenDevice(name, mode) PROVE FilesInv'
  BY <1>3, DeviceStep
<1>4. ASSUME NEW path \in Paths, NEW mode \in Modes, OpenFile(path, mode) PROVE FilesInv'
  BY <1>4, FileStep
<1>5. ASSUME NEW path \in Paths, NEW mode \in Modes, OpenLost(path, mode) PROVE FilesInv'
  BY <1>5, LostStep
<1>6. CASE OpenFull \/ \E path \in Paths : syscall_chdir(path) \/ OpenWild(path)
  BY <1>6, OtherCalls
<1>7. ASSUME NEW i \in 0 .. NFD - 1, process_close_file(i) PROVE FilesInv'
  BY <1>7, CloseStep
<1>8. ASSUME NEW i \in 0 .. NFD - 1, NEW seek \in Seeks, syscall_lseek(i, seek[1], seek[2]) PROVE FilesInv'
  BY <1>8, SeekStep
<1>9. ASSUME NEW i \in 0 .. NFD - 1, syscall_fchdir(i) \/ write(i) PROVE FilesInv'
  BY <1>9, OtherCalls
<1>10. ASSUME NEW i \in 0 .. NFD - 1, NEW count \in Counts, read(i, count) PROVE FilesInv'
  BY <1>10, ReadStep
<1>11. CASE UNCHANGED vars
  <2>1. UNCHANGED <<vol, fat, cached, rootdir, to_mount, mounts, fd, cwd, opens, last, seen>>
    BY <1>11 DEF vars
  <2>2. MountPoints' = MountPoints
    BY <2>1, Zenon DEF MountPoints
  <2>3. MountTypes' = MountTypes
    BY <2>1 DEF MountTypes
  <2>4. MountsNamed' = MountsNamed
    BY <2>1, Zenon DEF MountsNamed
  <2>5. BootInv' = BootInv
    BY <2>1, <2>3, <2>4, Zenon DEF BootInv
  <2> QED BY <2>1, <2>2, <2>5, Zenon DEF FilesInv
<1> QED BY <1>1, <1>2, <1>3, <1>4, <1>5, <1>6, <1>7, <1>8, <1>9, <1>10, <1>11, Zenon DEF Next

\* The inductive invariant: the mounts are on directories below the root and told by
\* their inode numbers, every descriptor stands for what was opened on it, and what
\* was read from it is what lies on the disk up to its offset.
THEOREM FilesInvariant == Spec => []FilesInv
<1>1. Init => FilesInv
  BY InitFiles
<1>2. FilesInv /\ [Next]_vars => FilesInv'
  BY NextFiles
<1> QED BY <1>1, <1>2, PTL DEF Spec

\* On every volume, a descriptor stands for what its path names, whatever was opened,
\* refused and closed on it before (vfs_stat, process_open_file); of a path that only
\* meets directories listed whole, and opened while the disk gave what it was asked for.
THEOREM OpensWhatIsNamed == Spec => []OpenedIsNamed
<1>1. FilesInv => OpenedIsNamed
  <2> SUFFICES ASSUME FilesInv, NEW i \in 0 .. NFD - 1, fd[i].used, seen[i].path # Unknown.path
               PROVE  LET path == seen[i].path
                          name == path[Len(path)]
                      IN  IF IsDevice(path)
                          THEN \/ Device(i) = Devices[name].dev
                               \/ Devices[name].dev = "fb" /\ seen[i].was_tty
                          ELSE PlainWalk(path) /\ ~ThroughFile(path) =>
                               /\ fd[i].node = Names(path)
                               /\ path # <<>> => (fd[i].mount # "root") = (Names(path) \in MountPoints)
    BY Zenon DEF OpenedIsNamed
  <2>1. StandsFor(vol, MountPoints, fd[i], seen[i])
    BY DEF FilesInv, Descriptor
  <2>2. DeviceOf(fd[i]) = Device(i)
    BY DEF Device, DeviceOf
  <2> DEFINE path == seen[i].path
  <2>3. PlainWalk(path) => PlainPath(vol, MountPoints, path)
    BY Zenon DEF PlainPath, PlainWalk, Prefix
  <2>4. ~ThroughFile(path) => ~OverFile(vol, MountPoints, path)
    BY Zenon DEF OverFile, ThroughFile, Prefix
  <2>5. Names(path) = Target(vol, MountPoints, path)
    BY DEF Names, Prefix, Target
  <2> HIDE DEF path
  <2> QED BY <2>1, <2>2, <2>3, <2>4, <2>5, Zenon DEF StandsFor, path
<1> QED BY <1>1, FilesInvariant, PTL

\* On every volume, an open that reports a missing file is right, when the disk gave the
\* directories on the way and each is listed whole (vfs_stat).
THEOREM OpensWhatExists == Spec => []MissingIsMissing
<1>1. FilesInv => MissingIsMissing
  <2> SUFFICES ASSUME FilesInv, PlainWalk(last.path), last.call = "open", last.ret = "ENOENT", ~last.failed,
                      ~IsDevice(last.path)
               PROVE  Names(last.path) = "no"
    BY Zenon DEF MissingIsMissing
  <2>1. Missing(vol, MountPoints, last)
    BY DEF FilesInv
  <2>2. PlainPath(vol, MountPoints, last.path)
    BY Zenon DEF PlainPath, PlainWalk, Prefix
  <2>3. Names(last.path) = Target(vol, MountPoints, last.path)
    BY DEF Names, Prefix, Target
  <2> QED BY <2>1, <2>2, <2>3, Zenon DEF Missing
<1> QED BY <1>1, FilesInvariant, PTL

\* On every volume, reads that do not cross a block from the middle of one return the
\* file from where they began, and nothing at its end only (fat_read, ext2_read,
\* iso9660_read); on ext2 of a file without holes, and from its beginning or within its
\* direct blocks.
THEOREM ReadsTheFile == Spec => []StreamIsFile
<1>1. FilesInv => StreamIsFile
  <2> SUFFICES ASSUME FilesInv, NEW i \in 0 .. NFD - 1, fd[i].used, fd[i].type = "reg", Fat(vol) => cached,
                      ~seen[i].astray
               PROVE  LET node == vol.nodes[fd[i].node]
                      IN  /\ seen[i].got = [k \in 1 .. fd[i].offset - seen[i].from |->
                                               Where(vol, node, seen[i].from + k - 1)]
                          /\ seen[i].ended => fd[i].offset >= node.size
    BY Zenon DEF StreamIsFile
  <2>1. Streams(vol, cached, fd[i], seen[i])
    BY DEF FilesInv, Descriptor
  <2> QED BY <2>1, Zenon DEF Streams, Stretch
<1> QED BY <1>1, FilesInvariant, PTL

\* On every volume, a directory that was read to its end gave its entries, each once
\* and in order (fat_readdir, ext2_readdir, iso9660_readdir): a directory that nothing
\* of Plain disturbs, which on ext2 is one that fits the direct blocks.
THEOREM ListsTheDirectory == Spec => []DirectoryIsListed
<1>1. FilesInv => DirectoryIsListed
  <2> SUFFICES ASSUME FilesInv, NEW i \in 0 .. NFD - 1, fd[i].used, fd[i].type = "dir", seen[i].ended,
                      ~seen[i].astray, seen[i].from = 0, fd[i].mount = "root", Plain(vol, fd[i].node)
               PROVE  seen[i].got = Entries(vol, fd[i].node) \o
                                       (IF vol.kind = "iso9660" THEN <<Named("", "none")>> ELSE <<>>)
    BY Zenon DEF DirectoryIsListed
  <2> DEFINE x == fd[i].node
             list == fs_readdir(vol, x)
             entries == Entries(vol, x)
             e == Named("", "none")
  <2>1. Lists(vol, fd[i], seen[i]) /\ x \in DOMAIN vol.nodes /\ vol \in Volumes /\ vol.nodes[x].type = "dir"
    BY DEF FilesInv, Descriptor, BootInv
  <2>2. WellFormed(vol)
    BY <2>1, FilesAssumption
  <2>3. list = IF vol.kind = "iso9660" THEN Append(entries, e) ELSE entries
    BY <2>1, <2>2, PlainListing
  <2>4. entries \in Seq(Listed) /\ list \in Seq(Listed)
    BY <2>1, <2>2, EntriesAre, ListIs
  <2>5. seen[i].got = SubSeq(list, 1, Len(list))
    BY <2>1 DEF Lists
  <2> HIDE DEF list, entries, e
  <2>6. SubSeq(list, 1, Len(list)) = list
    BY <2>4
  <2>7. Append(entries, e) = entries \o <<e>> /\ entries \o <<>> = entries
    <3>1. Append(entries, e) = entries \o <<e>>
      BY <2>4
    <3>2. entries \o <<>> = entries
      BY <2>4
    <3> QED BY <3>1, <3>2
  <2>8. seen[i].got = entries \o (IF vol.kind = "iso9660" THEN <<e>> ELSE <<>>)
    <3>1. CASE vol.kind = "iso9660"
      BY <2>3, <2>5, <2>6, <2>7, <3>1
    <3>2. CASE vol.kind # "iso9660"
      BY <2>3, <2>5, <2>6, <2>7, <3>2
    <3> QED BY <3>1, <3>2
  <2> QED BY <2>8 DEF entries, e
<1> QED BY <1>1, FilesInvariant, PTL
=============================================================================
