----------------------------- MODULE DiskProofs -----------------------------
(***************************************************************************)
(* Disk, for any wiring of the four places, any geometry and any blocks: a *)
(* read that succeeds has read the sectors that were asked for.            *)
(***************************************************************************)
EXTENDS Disk, FiniteSetTheorems, TLAPS

-----------------------------------------------------------------------------
(* The inductive invariant.                                                *)

Reading == {"sector", "failed", "read", "dma", "pio", "seek", "transfer"}
Waiting == {"reset", "calibrate", "seek", "transfer"}

\* Sectors of call's block, as many as were read.
Sectors(n) == [k \in 1 .. n |-> <<Meant, SectorOf(call.block) + k - 1>>]

TypeOK ==
    /\ wiring \in Wirings /\ boot \in BootDrives /\ part \in {"ext2", "fat"} /\ start \in Starts
    /\ support_dma \in BOOLEAN /\ lba_drives \in BOOLEAN /\ dma_ok \in BOOLEAN
    /\ pc \in Reading \cup Waiting \cup {"boot", "idle", "wild", "panic"}
    /\ call \in [block : Nat, i : Nat, try : Nat, lba : Nat, astray : BOOLEAN]
    /\ bm \in [start : BOOLEAN, error : BOOLEAN, interrupt : BOOLEAN]

\* The kernel reads from the drive the boot number means.
Found == pc \notin {"boot", "wild"} /\ ~Floppy => Place = Meant

\* An interrupt is counted exactly between the end of a command and the end of
\* its wait; a polled command leaves no count; no command outlives its wait.
OneIrq ==
    /\ pc \in {"boot", "idle", "sector", "failed", "read", "wild", "panic"} => ctl = "idle" /\ irq_c = 0
    /\ pc = "dma" => ~Floppy /\ \/ irq_c = 0 /\ ctl = "busy"
                                \/ irq_c = 1 /\ ctl \in {"ready", "failed"}
    /\ pc = "pio" => ~Floppy /\ irq_c = 0 /\ ctl \in {"busy", "ready", "failed"}
    /\ pc \in Waiting => Floppy /\ \/ irq_c = 0 /\ ctl \in {"idle", "busy"}
                                   \/ irq_c = 1 /\ ctl \in {"ready", "failed"}

\* What ide_do_sector and ide_atapi_do_sector write for the wanted sector.
Address == IF Atapi THEN call.lba ELSE IdeAddress(call.lba)

\* While a command is out, the controller's registers hold the address of the
\* sector that is wanted, and the floppy's head is on its cylinder.
Addressed ==
    /\ pc \in {"dma", "pio"} => regs = Address
    /\ pc = "transfer" =>
          /\ cyl = lba2chs(call.lba).cylinder
          /\ ctl # "idle" => regs = [op |-> "read", head |-> lba2chs(call.lba).head,
                                                    sector |-> lba2chs(call.lba).sector]

\* The sectors read so far are the first of the block, and the next is wanted.
Advance ==
    /\ pc \in {"boot", "reset", "calibrate"} => ret = "none"
    /\ pc \in Reading =>
          /\ call.block \in Blocks /\ OnDrive(call.block) /\ call.i < SectorsPerBlock
          /\ ~call.astray => /\ call.lba = SectorOf(call.block) + call.i
                             /\ buf = Sectors(IF pc = "read" THEN call.i + 1 ELSE call.i)

IInv == TypeOK /\ Found /\ OneIrq /\ Addressed /\ Advance /\ BlockIsRead

-----------------------------------------------------------------------------
(* Division.                                                               *)

LEMMA DivMod ==
    ASSUME NEW a \in Nat, NEW b \in Nat \ {0}
    PROVE  /\ a \div b \in Nat /\ a % b \in Nat /\ a % b < b
           /\ a = b * (a \div b) + (a % b)
BY Z3

\* A product with a positive factor.
LEMMA Product ==
    ASSUME NEW x \in Nat, NEW b \in Nat \ {0}
    PROVE  b * x \in Nat /\ (x > 0 => b * x >= b)
BY Z3

LEMMA DivUnique ==
    ASSUME NEW b \in Nat \ {0}, NEW q \in Nat, NEW r \in Nat, r < b
    PROVE  (b * q + r) \div b = q /\ (b * q + r) % b = r
<1> DEFINE a == b * q + r
           p == a \div b
           s == a % b
<1>1. a \in Nat
  BY Product
<1>2. p \in Nat /\ s \in Nat /\ s < b /\ a = b * p + s
  BY <1>1, DivMod
<1> HIDE DEF p, s
<1>3. CASE p < q
  <2>1. b * q = b * p + b * (q - p) /\ b * (q - p) >= b
    BY <1>2, <1>3, Z3
  <2> QED
    BY <1>2, <2>1, Product
<1>4. CASE q < p
  <2>1. b * p = b * q + b * (p - q) /\ b * (p - q) >= b
    BY <1>2, <1>4, Z3
  <2> QED
    BY <1>2, <2>1, Product
<1>5. CASE p = q
  BY <1>2, <1>5, Product DEF p, s
<1> QED
  BY <1>2, <1>3, <1>4, <1>5

LEMMA DivBound ==
    ASSUME NEW a \in Nat, NEW b \in Nat \ {0}, NEW c \in Nat, a < b * c
    PROVE  a \div b < c
<1> DEFINE q == a \div b
           r == a % b
<1>1. q \in Nat /\ r \in Nat /\ a = b * q + r
  BY DivMod
<1> HIDE DEF q, r
<1>2. CASE q >= c
  <2>1. b * q = b * c + b * (q - c) /\ b * (q - c) \in Nat /\ b * c \in Nat
    BY <1>1, <1>2, Z3
  <2> QED
    BY <1>1, <2>1
<1> QED
  BY <1>1, <1>2 DEF q

\* Four digits to the base RADIX name a number below its fourth power.
LEMMA Digits ==
    ASSUME NEW a \in Nat, NEW R \in Nat \ {0}, a < R * R * R * R
    PROVE  LET b1 == a \div R
               b2 == b1 \div R
               b3 == b2 \div R
           IN  (a % R) + R * ((b1 % R) + R * ((b2 % R) + R * (b3 % R))) = a
<1> DEFINE b1 == a \div R
           b2 == b1 \div R
           b3 == b2 \div R
<1>1. b1 \in Nat /\ a = R * b1 + (a % R) /\ a % R \in Nat
  BY DivMod
<1>2. R * R \in Nat /\ R * R * R \in Nat
  BY Product
<1>3. a < R * (R * R * R)
  BY <1>2, Z3
<1>4. b1 < R * R * R
  BY <1>2, <1>3, DivBound
<1> HIDE DEF b1
<1>5. b2 \in Nat /\ b1 = R * b2 + (b1 % R) /\ b1 % R \in Nat
  BY <1>1, DivMod
<1>6. b1 < R * (R * R)
  BY <1>1, <1>4, Z3
<1>7. b2 < R * R
  BY <1>1, <1>2, <1>6, DivBound
<1> HIDE DEF b2
<1>8. b3 \in Nat /\ b2 = R * b3 + (b2 % R) /\ b2 % R \in Nat
  BY <1>5, DivMod
<1>9. b3 < R
  BY <1>5, <1>7, DivBound
<1> HIDE DEF b3
<1>10. b3 % R = b3
  BY <1>8, <1>9, DivUnique, R * 0 + b3 = b3
<1>11. (b2 % R) + R * (b3 % R) = b2
  BY <1>8, <1>10, Product
<1>12. (b1 % R) + R * b2 = b1
  BY <1>5, Product
<1>13. (a % R) + R * b1 = a
  BY <1>1, Product
<1>14. (a % R) + R * ((b1 % R) + R * ((b2 % R) + R * (b3 % R))) = a
  BY <1>11, <1>12, <1>13
<1> QED
  BY <1>14 DEF b1, b2, b3

\* A sector's cylinder, head and sector, as ide_do_sector computes them.
LEMMA Chs ==
    ASSUME NEW a \in Nat, NEW H \in Nat \ {0}, NEW S \in Nat \ {0}
    PROVE  LET first == a + 1 - ((a % S) + 1)
               c == first \div (H * S)
               h == (first % (H * S)) \div S
           IN  /\ c \in Nat /\ h \in Nat
               /\ (c * H + h) * S + (a % S) = a
               /\ \A m \in Nat : a < H * S * m => c < m
<1> DEFINE s == a % S
           t == a \div S
           c == t \div H
           h == t % H
           first == a + 1 - (s + 1)
<1>1. s \in Nat /\ s < S /\ t \in Nat /\ a = S * t + s
  BY DivMod
<1> HIDE DEF s, t
<1>2. c \in Nat /\ h \in Nat /\ h < H /\ t = H * c + h
  BY <1>1, DivMod
<1> HIDE DEF c, h
<1>3. first = S * t
  BY <1>1, Product
<1>4. S * t = (H * S) * c + S * h
  BY <1>1, <1>2, Z3
<1>5. H * S \in Nat \ {0} /\ S * h \in Nat
  BY <1>2, Z3
<1>6. S * h + S <= H * S
  <2>1. S * (H - h) >= S
    BY <1>2, Product
  <2>2. H * S = S * h + S * (H - h)
    BY <1>2, Z3
  <2> QED
    BY <1>2, <1>5, <2>1, <2>2, Product
<1>7. first \div (H * S) = c /\ first % (H * S) = S * h
  <2>1. S * h < H * S
    BY <1>5, <1>6
  <2> DEFINE N == H * S
             k == S * h
  <2>2. N \in Nat \ {0} /\ k \in Nat /\ k < N /\ first = N * c + k
    BY <1>3, <1>4, <1>5, <2>1
  <2> HIDE DEF N, k, first
  <2>3. first \div N = c /\ first % N = k
    BY <1>2, <2>2, DivUnique
  <2> QED
    BY <2>3 DEF N, k
<1>8. (S * h) \div S = h
  BY <1>2, <1>5, DivUnique, S * h + 0 = S * h
<1>9. (c * H + h) * S + s = a
  BY <1>1, <1>2, Z3
<1>10. ASSUME NEW m \in Nat, a < H * S * m
       PROVE  c < m
  <2>1. a = (H * S) * c + (S * h + s) /\ S * h + s \in Nat /\ S * h + s < H * S
    BY <1>1, <1>2, <1>4, <1>5, <1>6, Product
  <2>2. a \div (H * S) = c
    BY <1>2, <1>5, <2>1, DivUnique
  <2> QED
    BY <1>5, <1>10, <2>2, DivBound
<1> QED
  BY <1>2, <1>7, <1>8, <1>9, <1>10 DEF first, s

-----------------------------------------------------------------------------
(* Addresses.                                                              *)

LEMMA Sizes ==
    /\ SPT \in Nat \ {0} /\ HEADS \in Nat \ {0} /\ RADIX \in Nat \ {0} /\ FLOPPY_SPT \in Nat \ {0}
    /\ LBA28 \in Nat
BY DiskAssumption

\* The address ide_do_sector writes, in any of the three modes, names the
\* sector that was asked for: no bits of it are lost or swapped.
THEOREM IdeAddressIsExact ==
    ASSUME NEW lba \in Nat, lba < RADIX * RADIX * RADIX * RADIX,
           ~lba_drives => lba < HEADS * SPT * (RADIX * RADIX)
    PROVE  IdeSector(IdeAddress(lba)) = lba
<1> DEFINE b1 == lba \div RADIX
           b2 == b1 \div RADIX
           b3 == b2 \div RADIX
           first == lba + 1 - ((lba % SPT) + 1)
           c == first \div (HEADS * SPT)
           h == (first % (HEADS * SPT)) \div SPT
           R2 == RADIX * RADIX
<1>1. CASE lba >= LBA28
  <2>1. (lba % RADIX) + RADIX * ((b1 % RADIX) + RADIX * ((b2 % RADIX) + RADIX * (b3 % RADIX))) = lba
    BY Sizes, Digits
  <2> HIDE DEF b1, b2, b3
  <2>2. IdeAddress(lba) = <<2, 0, lba % RADIX, b1 % RADIX, b2 % RADIX, b3 % RADIX>>
    BY <1>1 DEF IdeAddress, b1, b2, b3
  <2> QED
    BY <2>1, <2>2 DEF IdeSector
<1>2. CASE ~(lba >= LBA28) /\ lba_drives
  <2>1. (lba % RADIX) + RADIX * ((b1 % RADIX) + RADIX * ((b2 % RADIX) + RADIX * (b3 % RADIX))) = lba
    BY Sizes, Digits
  <2> HIDE DEF b1, b2, b3
  <2>2. IdeAddress(lba) = <<1, b3 % RADIX, lba % RADIX, b1 % RADIX, b2 % RADIX, 0>>
    BY <1>2 DEF IdeAddress, b1, b2, b3
  <2> QED
    BY <2>1, <2>2 DEF IdeSector
<1>3. CASE ~(lba >= LBA28) /\ ~lba_drives
  <2>1. /\ c \in Nat /\ h \in Nat /\ (c * HEADS + h) * SPT + (lba % SPT) = lba
        /\ \A m \in Nat : lba < HEADS * SPT * m => c < m
    BY Sizes, Chs
  <2>2. lba % SPT \in Nat
    BY Sizes, DivMod
  <2>3. R2 \in Nat \ {0}
    BY Sizes, Z3
  <2>4. IdeAddress(lba) = <<0, h, (lba % SPT) + 1, (c % R2) % RADIX, (c % R2) \div RADIX, 0>>
    BY <1>3 DEF IdeAddress
  <2>5. c < R2
    BY <1>3, <2>1, <2>3
  <2> HIDE DEF c, h, R2
  <2>6. c % R2 = c
    BY <2>1, <2>3, <2>5, DivUnique, R2 * 0 + c = c
  <2>7. (c % RADIX) + RADIX * (c \div RADIX) = c
    <3>1. c \div RADIX \in Nat /\ c % RADIX \in Nat /\ c = RADIX * (c \div RADIX) + (c % RADIX)
      BY <2>1, Sizes, DivMod
    <3> QED
      BY <3>1, Sizes, Product
  <2>8. IdeSector(IdeAddress(lba)) = (c * HEADS + h) * SPT + ((lba % SPT) + 1) - 1
    BY <2>4, <2>6, <2>7 DEF IdeSector
  <2>9. (c * HEADS + h) * SPT \in Nat
    BY <2>1, Sizes, Z3
  <2> QED
    BY <2>1, <2>2, <2>8, <2>9
<1> QED
  BY <1>1, <1>2, <1>3

\* lba2chs splits a sector number of a floppy without loss.
LEMMA FloppyAddress ==
    ASSUME NEW lba \in Nat, lba < 2 * FLOPPY_SPT * RADIX
    PROVE  (lba2chs(lba).cylinder * 2 + lba2chs(lba).head) * FLOPPY_SPT + lba2chs(lba).sector - 1 = lba
<1> DEFINE F == FLOPPY_SPT
           c == lba \div (2 * F)
           r == lba % (2 * F)
           h == r \div F
           s == r % F
<1>1. F \in Nat \ {0} /\ 2 * F \in Nat \ {0}
  BY Sizes
<1>2. c \in Nat /\ r \in Nat /\ r < 2 * F /\ lba = (2 * F) * c + r
  BY <1>1, DivMod
<1>a. F \in Nat /\ F < RADIX /\ RADIX \in Nat \ {0} /\ c < RADIX
  BY <1>1, DiskAssumption, DivBound
<1> HIDE DEF F, c, r
<1>3. h \in Nat /\ s \in Nat /\ s < F /\ r = F * h + s
  BY <1>1, <1>2, DivMod
<1>b. h < 2
  BY <1>1, <1>2, DivBound, 2 * F = F * 2
<1> HIDE DEF h, s
<1>4. (c * 2 + h) * F + s = lba
  BY <1>1, <1>2, <1>3, Z3
<1>5. (c * 2 + h) * F \in Nat
  BY <1>1, <1>2, <1>3, Z3
<1>6. lba2chs(lba) = [cylinder |-> c, head |-> h, sector |-> s + 1]
  <2>1. lba2chs(lba) = [cylinder |-> c % RADIX, head |-> h % RADIX, sector |-> (s + 1) % RADIX]
    BY DEF lba2chs, F, c, r, h, s
  <2>2. \A x \in Nat : x < RADIX => x % RADIX = x
    BY <1>a, DivUnique, \A x \in Nat : RADIX * 0 + x = x
  <2>3. h < RADIX /\ s + 1 < RADIX
    BY <1>1, <1>a, <1>b, <1>3
  <2> QED
    BY <1>2, <1>3, <1>a, <2>1, <2>2, <2>3
<1>7. (c * 2 + h) * F + (s + 1) - 1 = lba
  BY <1>3, <1>4, <1>5
<1> QED
  BY <1>6, <1>7 DEF F

-----------------------------------------------------------------------------
(* Finding the drive.                                                      *)

Counts(i, S) == Cardinality({q \in 0 .. i - 1 : q \in S})
One(b) == IF b THEN 1 ELSE 0

\* The members of S below each of the four places.
LEMMA CountsAre ==
    ASSUME NEW S
    PROVE  /\ Counts(0, S) = 0
           /\ Counts(1, S) = One(0 \in S)
           /\ Counts(2, S) = One(0 \in S) + One(1 \in S)
           /\ Counts(3, S) = One(0 \in S) + One(1 \in S) + One(2 \in S)
<1> DEFINE T(i) == {q \in 0 .. i - 1 : q \in S}
<1>1. ASSUME NEW i \in Nat, IsFiniteSet(T(i)), Cardinality(T(i)) \in Nat
      PROVE  /\ IsFiniteSet(T(i + 1)) /\ Cardinality(T(i + 1)) = Cardinality(T(i)) + One(i \in S)
             /\ Cardinality(T(i + 1)) \in Nat
  <2>1. i \notin T(i)
    OBVIOUS
  <2>2. CASE i \in S
    <3>1. T(i + 1) = T(i) \cup {i}
      BY <2>2
    <3> HIDE DEF T
    <3> QED
      BY <1>1, <2>1, <2>2, <3>1, FS_AddElement DEF One
  <2>3. CASE i \notin S
    <3>1. T(i + 1) = T(i)
      BY <2>3
    <3> HIDE DEF T
    <3> QED
      BY <1>1, <2>3, <3>1 DEF One
  <2> QED
    BY <2>2, <2>3
<1>2. T(0) = {}
  OBVIOUS
<1>3. \A i \in 0 .. 3 : Counts(i, S) = Cardinality(T(i))
  BY DEF Counts
<1> HIDE DEF T
<1>4. IsFiniteSet(T(0)) /\ Cardinality(T(0)) = 0
  BY <1>2, FS_EmptySet
<1>5. IsFiniteSet(T(1)) /\ Cardinality(T(1)) = One(0 \in S)
  BY <1>1, <1>4, 0 + 1 = 1 DEF One
<1>6. IsFiniteSet(T(2)) /\ Cardinality(T(2)) = One(0 \in S) + One(1 \in S)
  BY <1>1, <1>5, 1 + 1 = 2 DEF One
<1>7. IsFiniteSet(T(3)) /\ Cardinality(T(3)) = One(0 \in S) + One(1 \in S) + One(2 \in S)
  BY <1>1, <1>6, 2 + 1 = 3 DEF One
<1> QED
  BY <1>3, <1>4, <1>5, <1>6, <1>7

\* The drives ide_init counts.
Drives(w) == {q \in 0 .. 3 : w[q] \in {"ata", "atapi"}}

Row(w, P) ==
    IF P = {} THEN [reserved |-> 0, place |-> 0]
    ELSE [reserved |-> IF w[Max(P)] = "none" THEN 0 ELSE 1, place |-> Max(P)]

\* The entry of table index c is the last place probed with c drives counted.
LEMMA Table ==
    ASSUME NEW w, NEW c \in 0 .. 3
    PROVE  ide_init(w)[c] = Row(w, {x \in 0 .. 3 : Counts(x, Drives(w)) = c})
<1> DEFINE Counted(x) == Cardinality({q \in 0 .. x - 1 : w[q] \in {"ata", "atapi"}})
<1>1. \A x \in 0 .. 3 : Counted(x) = Counts(x, Drives(w))
  <2>1. ASSUME NEW x \in 0 .. 3
        PROVE  {q \in 0 .. x - 1 : w[q] \in {"ata", "atapi"}} = {q \in 0 .. x - 1 : q \in Drives(w)}
    BY DEF Drives
  <2> QED
    BY <2>1 DEF Counts
<1>2. ide_init(w) = [d \in 0 .. 3 |-> Row(w, {x \in 0 .. 3 : Counted(x) = d})]
  BY DEF ide_init, Row
<1> HIDE DEF Counted
<1>3. {x \in 0 .. 3 : Counted(x) = c} = {x \in 0 .. 3 : Counts(x, Drives(w)) = c}
  BY <1>1
<1> QED
  BY <1>2, <1>3

LEMMA Entry ==
    ASSUME NEW w, NEW c \in 0 .. 3, NEW p \in 0 .. 3,
           Counts(p, Drives(w)) = c,
           \A q \in 0 .. 3 : Counts(q, Drives(w)) = c => q <= p
    PROVE  ide_init(w)[c] = [reserved |-> IF w[p] = "none" THEN 0 ELSE 1, place |-> p]
<1> DEFINE P == {x \in 0 .. 3 : Counts(x, Drives(w)) = c}
<1>1. p \in P /\ \A q \in P : q <= p
  OBVIOUS
<1>2. Max(P) = p
  BY <1>1 DEF Max
<1> QED
  BY <1>1, <1>2, Table DEF Row

LEMMA NoEntry ==
    ASSUME NEW w, NEW c \in 0 .. 3, \A q \in 0 .. 3 : Counts(q, Drives(w)) # c
    PROVE  ide_init(w)[c].reserved = 0
<1> DEFINE P == {x \in 0 .. 3 : Counts(x, Drives(w)) = c}
<1>1. P = {}
  OBVIOUS
<1>2. ide_init(w)[c] = Row(w, P)
  BY Table
<1> HIDE DEF P
<1>3. ide_init(w)[c] = [reserved |-> 0, place |-> 0]
  BY <1>1, <1>2 DEF Row
<1> QED
  BY <1>3

Kinds == {"ata", "atapi"}
Discs(w, kind) == {q \in 0 .. 3 : w[q] = kind}
IsOf(w, kind, i) == ide_init(w)[i].reserved = 1 /\ TypeAt(w, ide_init(w)[i].place) = kind
Listed(w, kind) == {i \in 0 .. 3 : IsOf(w, kind, i)}

\* Entries with a disc stand in the table in the order of their places, with
\* as many of their kind before them.
LEMMA Ranked ==
    ASSUME NEW w \in [0 .. 3 -> {"none", "ata", "atapi", "empty"}], NEW kind \in Kinds,
           NEW i \in Listed(w, kind), w[ide_init(w)[i].place] # "empty"
    PROVE  LET p == ide_init(w)[i].place
           IN  p \in Discs(w, kind) /\ Counts(p, Discs(w, kind)) = Counts(i, Listed(w, kind))
<1> DEFINE A == Drives(w)
           D == Discs(w, kind)
           L == Listed(w, kind)
           e(c) == ide_init(w)[c]
           In(c, p) == e(c) = [reserved |-> IF w[p] = "none" THEN 0 ELSE 1, place |-> p]
           Out(c) == e(c).reserved = 0
<1>1. /\ Counts(0, A) = 0 /\ Counts(1, A) = One(0 \in A) /\ Counts(2, A) = One(0 \in A) + One(1 \in A)
      /\ Counts(3, A) = One(0 \in A) + One(1 \in A) + One(2 \in A)
  BY CountsAre
<1>2. /\ Counts(0, D) = 0 /\ Counts(1, D) = One(0 \in D) /\ Counts(2, D) = One(0 \in D) + One(1 \in D)
      /\ Counts(3, D) = One(0 \in D) + One(1 \in D) + One(2 \in D)
  BY CountsAre
<1>3. /\ Counts(0, L) = 0 /\ Counts(1, L) = One(0 \in L) /\ Counts(2, L) = One(0 \in L) + One(1 \in L)
      /\ Counts(3, L) = One(0 \in L) + One(1 \in L) + One(2 \in L)
  BY CountsAre
<1>4. \A c, p \in 0 .. 3 :
         Counts(p, A) = c /\ (\A q \in 0 .. 3 : Counts(q, A) = c => q <= p) => In(c, p)
  BY Entry
<1>5. \A c \in 0 .. 3 : (\A q \in 0 .. 3 : Counts(q, A) # c) => Out(c)
  BY NoEntry
<1>6. \A q \in 0 .. 3 : q \in A <=> w[q] \in {"ata", "atapi"}
  BY DEF Drives
<1>7. \A q \in 0 .. 3 : q \in D <=> w[q] = kind
  BY DEF Discs
<1>8. \A c \in 0 .. 3 : c \in L <=> e(c).reserved = 1 /\ TypeAt(w, e(c).place) = kind
  BY DEF Listed, IsOf
<1>9. \A c, p \in 0 .. 3 : In(c, p) => (c \in L <=> w[p] # "none" /\ TypeAt(w, p) = kind)
  BY <1>8
<1>10. \A c \in 0 .. 3 : Out(c) => c \notin L
  BY <1>8
<1>11. i \in 0 .. 3 /\ i \in L /\ w[e(i).place] # "empty"
  BY DEF Listed
<1>12. \A p \in 0 .. 3 : In(i, p) => e(i).place = p /\ p \in D /\ p \in A
  BY <1>6, <1>7, <1>9, <1>11 DEF TypeAt, Kinds
<1>13. \A c, p \in 0 .. 3 : In(c, p) /\ p \in A => (c \in L <=> p \in D)
  BY <1>6, <1>7, <1>9 DEF TypeAt, Kinds
<1>14. \A q \in 0 .. 3 : q \in D => q \in A
  BY <1>6, <1>7 DEF Kinds
<1> SUFFICES \E p \in 0 .. 3 : In(i, p) /\ Counts(p, D) = Counts(i, L)
  BY <1>12
<1> HIDE DEF A, D, L, In, Out
<1>15. CASE 0 \in A /\ 1 \in A /\ 2 \in A
  <2>1. Counts(0, A) = 0 /\ Counts(1, A) = 1 /\ Counts(2, A) = 2 /\ Counts(3, A) = 3
    BY <1>1, <1>15 DEF One
  <2>2. In(0, 0) /\ In(1, 1) /\ In(2, 2) /\ In(3, 3)
    BY <1>4, <2>1
  <2> QED
    BY <1>2, <1>3, <1>11, <1>13, <1>15, <2>2 DEF One
<1>16. CASE 0 \in A /\ 1 \in A /\ 2 \notin A
  <2>1. Counts(0, A) = 0 /\ Counts(1, A) = 1 /\ Counts(2, A) = 2 /\ Counts(3, A) = 2
    BY <1>1, <1>16 DEF One
  <2>2. In(0, 0) /\ In(1, 1) /\ In(2, 3) /\ Out(3)
    BY <1>4, <1>5, <2>1
  <2> QED
    BY <1>2, <1>3, <1>10, <1>11, <1>13, <1>14, <1>16, <2>2 DEF One
<1>17. CASE 0 \in A /\ 1 \notin A /\ 2 \in A
  <2>1. Counts(0, A) = 0 /\ Counts(1, A) = 1 /\ Counts(2, A) = 1 /\ Counts(3, A) = 2
    BY <1>1, <1>17 DEF One
  <2>2. In(0, 0) /\ In(1, 2) /\ In(2, 3) /\ Out(3)
    BY <1>4, <1>5, <2>1
  <2> QED
    BY <1>2, <1>3, <1>10, <1>11, <1>13, <1>14, <1>17, <2>2 DEF One
<1>18. CASE 0 \in A /\ 1 \notin A /\ 2 \notin A
  <2>1. Counts(0, A) = 0 /\ Counts(1, A) = 1 /\ Counts(2, A) = 1 /\ Counts(3, A) = 1
    BY <1>1, <1>18 DEF One
  <2>2. In(0, 0) /\ In(1, 3) /\ Out(2) /\ Out(3)
    BY <1>4, <1>5, <2>1
  <2> QED
    BY <1>2, <1>3, <1>10, <1>11, <1>13, <1>14, <1>18, <2>2 DEF One
<1>19. CASE 0 \notin A /\ 1 \in A /\ 2 \in A
  <2>1. Counts(0, A) = 0 /\ Counts(1, A) = 0 /\ Counts(2, A) = 1 /\ Counts(3, A) = 2
    BY <1>1, <1>19 DEF One
  <2>2. In(0, 1) /\ In(1, 2) /\ In(2, 3) /\ Out(3)
    BY <1>4, <1>5, <2>1
  <2> QED
    BY <1>2, <1>3, <1>10, <1>11, <1>13, <1>14, <1>19, <2>2 DEF One
<1>20. CASE 0 \notin A /\ 1 \in A /\ 2 \notin A
  <2>1. Counts(0, A) = 0 /\ Counts(1, A) = 0 /\ Counts(2, A) = 1 /\ Counts(3, A) = 1
    BY <1>1, <1>20 DEF One
  <2>2. In(0, 1) /\ In(1, 3) /\ Out(2) /\ Out(3)
    BY <1>4, <1>5, <2>1
  <2> QED
    BY <1>2, <1>3, <1>10, <1>11, <1>13, <1>14, <1>20, <2>2 DEF One
<1>21. CASE 0 \notin A /\ 1 \notin A /\ 2 \in A
  <2>1. Counts(0, A) = 0 /\ Counts(1, A) = 0 /\ Counts(2, A) = 0 /\ Counts(3, A) = 1
    BY <1>1, <1>21 DEF One
  <2>2. In(0, 2) /\ In(1, 3) /\ Out(2) /\ Out(3)
    BY <1>4, <1>5, <2>1
  <2> QED
    BY <1>2, <1>3, <1>10, <1>11, <1>13, <1>14, <1>21, <2>2 DEF One
<1>22. CASE 0 \notin A /\ 1 \notin A /\ 2 \notin A
  <2>1. Counts(0, A) = 0 /\ Counts(1, A) = 0 /\ Counts(2, A) = 0 /\ Counts(3, A) = 0
    BY <1>1, <1>22 DEF One
  <2>2. In(0, 3) /\ Out(1) /\ Out(2) /\ Out(3)
    BY <1>4, <1>5, <2>1
  <2> QED
    BY <1>2, <1>3, <1>10, <1>11, <1>13, <1>14, <1>22, <2>2 DEF One
<1> QED
  BY <1>15, <1>16, <1>17, <1>18, <1>19, <1>20, <1>21, <1>22

\* Members of a set of places differ in how many members are below them.
LEMMA RankIsUnique ==
    ASSUME NEW S, NEW p \in 0 .. 3, NEW q \in 0 .. 3, p \in S, q \in S, Counts(p, S) = Counts(q, S)
    PROVE  p = q
BY CountsAre, SMTT(30) DEF One

\* The drive ide_search_for_drive finds, when it has a disc, is the one meant.
LEMMA DriveIsMeant ==
    ASSUME NEW w \in [0 .. 3 -> {"none", "ata", "atapi", "empty"}], NEW drive \in Nat, drive >= 128,
           ide_search_for_drive(w, drive) # -1,
           w[ide_init(w)[ide_search_for_drive(w, drive)].place] # "empty"
    PROVE  ide_init(w)[ide_search_for_drive(w, drive)].place = MeantOf(w, drive)
<1> DEFINE dv == ide_search_for_drive(w, drive)
           kind == IF drive >= 224 /\ drive < 240 THEN "atapi" ELSE "ata"
           n == IF kind = "atapi" THEN drive - 224 ELSE drive - 128
           L == Listed(w, kind)
           D == Discs(w, kind)
           Hit == {i \in 0 .. 3 : IsOf(w, kind, i) /\ Cardinality({j \in 0 .. i - 1 : IsOf(w, kind, j)}) = n}
           p == ide_init(w)[dv].place
<1>1. kind \in Kinds
  BY DEF Kinds
<1>2. Hit = {i \in L : Counts(i, L) = n}
  <2>1. ASSUME NEW i \in 0 .. 3
        PROVE  {j \in 0 .. i - 1 : IsOf(w, kind, j)} = {j \in 0 .. i - 1 : j \in L}
    BY DEF Listed
  <2>2. \A i \in 0 .. 3 : Cardinality({j \in 0 .. i - 1 : IsOf(w, kind, j)}) = Counts(i, L)
    BY <2>1 DEF Counts
  <2> QED
    BY <2>2 DEF Listed
<1>3. dv = IF Hit = {} THEN -1 ELSE CHOOSE i \in Hit : TRUE
  BY DEF ide_search_for_drive, IsOf
<1>4. dv \in L /\ Counts(dv, L) = n
  BY <1>2, <1>3
<1>5. p \in D /\ Counts(p, D) = n
  BY <1>1, <1>4, Ranked
<1>6. p \in 0 .. 3
  BY <1>5 DEF Discs
<1>7. n < 4
  <2>1. Counts(p, D) \in 0 .. 3
    BY <1>6, CountsAre DEF One
  <2> QED
    BY <1>5, <2>1
<1>8. drive < 240
  BY <1>7
<1> DEFINE k == IF drive >= 224 THEN "atapi" ELSE "ata"
           m == IF drive >= 224 THEN drive - 224 ELSE drive - 128
           disc == {q \in 0 .. 3 : w[q] = k}
<1>9. disc = D /\ m = n
  BY <1>8 DEF Discs
<1>10. MeantOf(w, drive) = CHOOSE x \in disc : Cardinality({q \in disc : q < x}) = m
  BY DEF MeantOf
<1> HIDE DEF dv, kind, n, L, Hit, p, disc, m, D
<1>11. \A x \in D : Cardinality({q \in D : q < x}) = Counts(x, D)
  <2>1. ASSUME NEW x \in D
        PROVE  {q \in D : q < x} = {q \in 0 .. x - 1 : q \in D}
    BY DEF D, Discs
  <2> QED
    BY <2>1 DEF Counts
<1>12. \A x \in D : Counts(x, D) = n => x = p
  <2>1. D \subseteq 0 .. 3
    BY DEF D, Discs
  <2> QED
    BY <1>5, <2>1, RankIsUnique
<1>13. MeantOf(w, drive) = p
  BY <1>5, <1>9, <1>10, <1>11, <1>12
<1> QED
  BY <1>13 DEF p, dv

-----------------------------------------------------------------------------
(* The steps.                                                              *)

LEMMA Constants ==
    ASSUME TypeOK
    PROVE  wiring \in [0 .. 3 -> {"none", "ata", "atapi", "empty"}] /\ boot \in Nat
BY DiskAssumption DEF TypeOK

\* What does not change once the drive is chosen.
LEMMA Stable ==
    ASSUME UNCHANGED <<config, dev>>
    PROVE  /\ Floppy' = Floppy /\ Atapi' = Atapi /\ Fs' = Fs /\ SectorsPerBlock' = SectorsPerBlock
           /\ Meant' = Meant /\ Place' = Place /\ lba_drives' = lba_drives
           /\ call' = call => Address' = Address
<1>1. Floppy' = Floppy
  BY DEF config, Floppy
<1>2. Atapi' = Atapi
  BY <1>1 DEF config, Atapi
<1>3. Fs' = Fs
  BY <1>1, <1>2 DEF config, Fs
<1>4. SectorsPerBlock' = SectorsPerBlock
  BY <1>3 DEF SectorsPerBlock
<1>5. Meant' = Meant
  BY <1>1 DEF config, Meant
<1>6. Place' = Place
  BY <1>1 DEF config, Place
<1>7. ASSUME call' = call PROVE Address' = Address
  BY <1>2, <1>7 DEF config, Address, IdeAddress
<1> QED
  BY <1>1, <1>2, <1>3, <1>4, <1>5, <1>6, <1>7 DEF config

\* Nor does the place of the block that is read.
LEMMA StableSector ==
    ASSUME UNCHANGED <<config, dev>>, call'.block = call.block
    PROVE  SectorOf(call.block)' = SectorOf(call.block) /\ OnDrive(call.block)' = OnDrive(call.block)
<1>1. Floppy' = Floppy /\ Atapi' = Atapi /\ Fs' = Fs /\ SectorsPerBlock' = SectorsPerBlock
  BY Stable
<1>2. SectorOf(call.block)' = SectorOf(call.block)
  BY <1>1 DEF config, SectorOf
<1>3. OnDrive(call.block)' = OnDrive(call.block)
  BY <1>1, <1>2 DEF config, OnDrive
<1> QED
  BY <1>2, <1>3

\* A block lies at a sector, and is read from there unless its byte offset
\* wraps.
LEMMA WhereRead ==
    ASSUME part \in {"ext2", "fat"}, start \in Nat, NEW block \in Nat
    PROVE  /\ Fs \in {"ext2", "fat", "iso9660"}
           /\ SectorOf(block) \in Nat /\ FirstSector(block) \in Nat
           /\ ~Wraps(block) => FirstSector(block) = SectorOf(block)
<1>1. Fs \in {"ext2", "fat", "iso9660"}
  BY DEF Fs
<1> DEFINE P == BLOCK_SECTORS * block
           S == SECTOR
           bytes == block * (BLOCK_SECTORS * SECTOR)
<1>2. S \in Nat \ {0} /\ P \in Nat /\ Words \in Nat \ {0}
  <2>1. BLOCK_SECTORS \in Nat \ {0} /\ SECTOR \in Nat \ {0} /\ RADIX \in Nat \ {0}
    BY DiskAssumption
  <2>2. RADIX * RADIX \in Nat \ {0}
    BY <2>1, Product
  <2>3. RADIX * RADIX * RADIX \in Nat \ {0}
    BY <2>1, <2>2, Z3
  <2> QED
    BY <2>1, <2>3, Product, Z3 DEF Words
<1>3. bytes = S * P /\ bytes \in Nat
  <2>1. BLOCK_SECTORS \in Nat /\ SECTOR \in Nat
    BY DiskAssumption
  <2> QED
    BY <2>1, Z3
<1> HIDE DEF P, S, bytes, Words
<1>4. SectorOf(block) = IF Fs = "ext2" THEN start + P ELSE IF Fs = "fat" THEN start + block ELSE block
  BY <1>1 DEF SectorOf, P
<1>5. FirstSector(block) = IF Fs = "ext2" THEN start + ((bytes % Words) \div S) ELSE SectorOf(block)
  BY DEF FirstSector, bytes, S
<1>6. bytes % Words \in Nat /\ (bytes % Words) \div S \in Nat
  BY <1>2, <1>3, DivMod
<1>7. ASSUME ~Wraps(block), Fs = "ext2" PROVE (bytes % Words) \div S = P
  <2>1. bytes < Words
    BY <1>2, <1>3, <1>7 DEF Wraps, bytes
  <2>2. bytes % Words = bytes
    BY <1>2, <1>3, <2>1, DivUnique, Words * 0 + bytes = bytes
  <2>3. S * P + 0 = bytes /\ 0 < S
    BY <1>2, <1>3
  <2>4. (S * P + 0) \div S = P
    BY <1>2, <2>3, DivUnique
  <2> QED
    BY <2>2, <2>3, <2>4
<1> QED
  BY <1>1, <1>2, <1>4, <1>5, <1>6, <1>7

LEMMA TypeStep ==
    ASSUME TypeOK, [Next]_vars
    PROVE  TypeOK'
<1>1. CASE iodriver_init
  BY <1>1 DEF iodriver_init, TypeOK, Reading, Waiting, config, hw
<1>2. CASE SectorFailed
  <2> DEFINE lba == IF Fs = "iso9660" THEN call.lba + 1 ELSE call.lba
             astray == call.astray \/ Fs = "iso9660"
  <2>1. lba \in Nat /\ astray \in BOOLEAN
    BY DEF TypeOK
  <2>2. call' = call \/ call' = [call EXCEPT !.try = call.try + 1, !.lba = lba, !.astray = astray]
    BY <1>2 DEF SectorFailed
  <2> HIDE DEF lba, astray
  <2>3. ASSUME call' = [call EXCEPT !.try = call.try + 1, !.lba = lba, !.astray = astray]
        PROVE  call' = [block |-> call.block, i |-> call.i, try |-> call.try + 1, lba |-> lba,
                        astray |-> astray]
    BY <2>3 DEF TypeOK
  <2>4. call' \in [block : Nat, i : Nat, try : Nat, lba : Nat, astray : BOOLEAN]
    BY <2>1, <2>2, <2>3 DEF TypeOK
  <2> QED
    BY <1>2, <2>4 DEF SectorFailed, Return, TypeOK, Reading, Waiting, config, hw
<1>3. CASE SectorRead
  <2>1. call' = [block |-> call.block, i |-> call.i + 1, try |-> 1, lba |-> call.lba + 1,
                 astray |-> call.astray]
    BY <1>3 DEF SectorRead, TypeOK
  <2>2. call' \in [block : Nat, i : Nat, try : Nat, lba : Nat, astray : BOOLEAN]
    BY <2>1 DEF TypeOK
  <2> QED
    BY <1>3, <2>2 DEF SectorRead, Return, TypeOK, Reading, Waiting, config, hw
<1>4. CASE ide_do_sector
  BY <1>4 DEF ide_do_sector, TypeOK, Reading, Waiting, config, hw
<1>5. CASE ide_atapi_do_sector
  BY <1>5 DEF ide_atapi_do_sector, TypeOK, Reading, Waiting, config, hw
<1>6. CASE DmaFinish
  BY <1>6 DEF DmaFinish, TypeOK, Reading, Waiting, config, hw
<1>7. CASE PioFinish
  BY <1>7 DEF PioFinish, TypeOK, Reading, Waiting, config, hw
<1>8. CASE floppy_reset
  BY <1>8 DEF floppy_reset, TypeOK, Reading, Waiting, config, hw
<1>9. CASE ResetDone
  BY <1>9 DEF ResetDone, TypeOK, Reading, Waiting, config, hw
<1>10. CASE floppy_do_sector
  BY <1>10 DEF floppy_do_sector, TypeOK, Reading, Waiting, config, hw
<1>11. CASE SeekSend
  BY <1>11 DEF SeekSend, TypeOK, Reading, Waiting, config, hw
<1>12. CASE SeekSense
  BY <1>12 DEF SeekSense, TypeOK, Reading, Waiting, config, hw
<1>13. CASE SeekGivesUp
  BY <1>13 DEF SeekGivesUp, TypeOK, Reading, Waiting, config, hw
<1>14. CASE TransferSend
  BY <1>14 DEF TransferSend, TypeOK, Reading, Waiting, config, hw
<1>15. CASE TransferResult
  BY <1>15 DEF TransferResult, TypeOK, Reading, Waiting, config, hw
<1>16. CASE TransferGivesUp
  BY <1>16 DEF TransferGivesUp, TypeOK, Reading, Waiting, config, hw
<1>17. ASSUME NEW end \in {"ready", "failed", "transfer"}, DriveDone(end)
      PROVE  TypeOK'
  BY <1>17 DEF DriveDone, TypeOK, Reading, Waiting, config, hw
<1>18. ASSUME NEW ok \in BOOLEAN, FloppyDone(ok)
      PROVE  TypeOK'
  BY <1>18 DEF FloppyDone, TypeOK, Reading, Waiting, config, hw
<1>19. ASSUME NEW b \in Blocks, ReadBlock(b)
      PROVE  TypeOK'
  <2>1. b \in Nat /\ FirstSector(b) \in Nat /\ Wraps(b) \in BOOLEAN
    BY DiskAssumption, WhereRead DEF TypeOK, Wraps
  <2> QED
    BY <1>19, <2>1 DEF ReadBlock, TypeOK, Reading, Waiting, config, hw
<1>20. CASE UNCHANGED vars
  BY <1>20 DEF vars, TypeOK, Reading, Waiting, config, hw
<1> QED
  BY <1>1, <1>2, <1>3, <1>4, <1>5, <1>6, <1>7, <1>8, <1>9, <1>10, <1>11, <1>12, <1>13, <1>14, <1>15, <1>16, <1>17, <1>18, <1>19, <1>20 DEF Next, Driver, Controller

LEMMA IrqStep ==
    ASSUME TypeOK, OneIrq, [Next]_vars
    PROVE  OneIrq'
<1> USE DEF TypeOK, OneIrq, Reading, Waiting, config, hw, Floppy
<1>1. CASE iodriver_init
  BY <1>1 DEF iodriver_init
<1>2. CASE SectorFailed
  BY <1>2 DEF SectorFailed, Return
<1>3. CASE SectorRead
  BY <1>3 DEF SectorRead, Return
<1>4. CASE ide_do_sector
  BY <1>4 DEF ide_do_sector
<1>5. CASE ide_atapi_do_sector
  BY <1>5 DEF ide_atapi_do_sector
<1>6. CASE DmaFinish
  BY <1>6 DEF DmaFinish
<1>7. CASE PioFinish
  BY <1>7 DEF PioFinish
<1>8. CASE floppy_reset
  BY <1>8 DEF floppy_reset
<1>9. CASE ResetDone
  BY <1>9 DEF ResetDone
<1>10. CASE floppy_do_sector
  BY <1>10 DEF floppy_do_sector
<1>11. CASE SeekSend
  BY <1>11 DEF SeekSend
<1>12. CASE SeekSense
  BY <1>12 DEF SeekSense
<1>13. CASE SeekGivesUp
  BY <1>13 DEF SeekGivesUp
<1>14. CASE TransferSend
  BY <1>14 DEF TransferSend
<1>15. CASE TransferResult
  BY <1>15 DEF TransferResult
<1>16. CASE TransferGivesUp
  BY <1>16 DEF TransferGivesUp
<1>17. ASSUME NEW end \in {"ready", "failed", "transfer"}, DriveDone(end)
      PROVE  OneIrq'
  BY <1>17 DEF DriveDone
<1>18. ASSUME NEW ok \in BOOLEAN, FloppyDone(ok)
      PROVE  OneIrq'
  BY <1>18 DEF FloppyDone
<1>19. ASSUME NEW b \in Blocks, ReadBlock(b)
      PROVE  OneIrq'
  BY <1>19 DEF ReadBlock
<1>20. CASE UNCHANGED vars
  BY <1>20 DEF vars
<1> QED
  BY <1>1, <1>2, <1>3, <1>4, <1>5, <1>6, <1>7, <1>8, <1>9, <1>10, <1>11, <1>12, <1>13, <1>14, <1>15, <1>16, <1>17, <1>18, <1>19, <1>20 DEF Next, Driver, Controller

LEMMA FoundStep ==
    ASSUME TypeOK, Found, OneIrq, [Next]_vars
    PROVE  Found'
<1>1. CASE iodriver_init
  <2>1. TypeOK'
    BY TypeStep
  <2>2. CASE Floppy'
    BY <2>2 DEF Found
  <2>3. CASE ~Floppy' /\ pc' # "wild"
    <3>1. ~Floppy /\ UNCHANGED config
      BY <1>1, <2>3 DEF iodriver_init, Floppy, config
    <3>2. dev' = ide_search_for_drive(wiring, boot) /\ dev' # -1
          /\ wiring[ide_init(wiring)[dev'].place] # "empty"
      BY <1>1, <2>3, <3>1 DEF iodriver_init
    <3>3. dev' = ide_search_for_drive(wiring', boot') /\ dev' # -1
          /\ wiring'[ide_init(wiring')[dev'].place] # "empty"
      BY <3>1, <3>2 DEF config
    <3>4. wiring' \in [0 .. 3 -> {"none", "ata", "atapi", "empty"}] /\ boot' \in Nat
      BY <2>1, DiskAssumption DEF TypeOK
    <3>5. (Place = Meant)'
      BY <2>3, <3>3, <3>4, DriveIsMeant DEF Floppy, Place, Meant
    <3> QED
      BY <3>5 DEF Found
  <2> QED
    BY <2>2, <2>3 DEF Found
<1>2. CASE UNCHANGED <<config, dev>> /\ pc # "boot" /\ (pc' = "wild" \/ pc # "wild")
  BY <1>2, Stable DEF Found
<1>3. CASE UNCHANGED vars
  BY <1>3, Stable DEF Found, vars
<1>4. CASE Next /\ ~iodriver_init
  <2>1. UNCHANGED <<config, dev>> /\ pc # "boot" /\ pc # "wild"
    BY <1>4 DEF Next, Driver, Controller, SectorFailed, SectorRead, ide_do_sector, ide_atapi_do_sector,
       DmaFinish, PioFinish, floppy_reset, ResetDone, floppy_do_sector, SeekSend, SeekSense, SeekGivesUp,
       TransferSend, TransferResult, TransferGivesUp, DriveDone, FloppyDone, ReadBlock, OneIrq
  <2> QED
    BY <1>2, <2>1
<1> QED
  BY <1>1, <1>3, <1>4 DEF Next, Driver

LEMMA AddressStep ==
    ASSUME TypeOK, OneIrq, Addressed, [Next]_vars
    PROVE  Addressed'
<1>0. CASE pc' \notin {"dma", "pio", "transfer"}
  BY <1>0 DEF Addressed
<1> USE DEF OneIrq, Addressed, Waiting, config, hw
<1>1. CASE iodriver_init
  BY <1>1, Stable DEF iodriver_init
<1>2. CASE SectorFailed
  BY <1>2, Stable DEF SectorFailed, Return
<1>3. CASE SectorRead
  BY <1>3, Stable DEF SectorRead, Return
<1>4. CASE ide_do_sector
  BY <1>4, Stable DEF ide_do_sector, Address
<1>5. CASE ide_atapi_do_sector
  BY <1>5, Stable DEF ide_atapi_do_sector, Address
<1>6. CASE DmaFinish
  BY <1>6, Stable DEF DmaFinish
<1>7. CASE PioFinish
  BY <1>7, Stable DEF PioFinish
<1>8. CASE floppy_reset
  BY <1>8, Stable DEF floppy_reset
<1>9. CASE ResetDone
  BY <1>9, Stable DEF ResetDone
<1>10. CASE floppy_do_sector
  BY <1>10, Stable DEF floppy_do_sector
<1>11. CASE SeekSend
  BY <1>11, Stable DEF SeekSend
<1>12. CASE SeekSense
  BY <1>12, Stable DEF SeekSense, Target
<1>13. CASE SeekGivesUp
  BY <1>13, Stable DEF SeekGivesUp
<1>14. CASE TransferSend
  BY <1>14, Stable DEF TransferSend
<1>15. CASE TransferResult
  BY <1>15, Stable DEF TransferResult
<1>16. CASE TransferGivesUp
  BY <1>16, Stable DEF TransferGivesUp
<1>17. ASSUME NEW end \in {"ready", "failed", "transfer"}, DriveDone(end)
      PROVE  Addressed'
  BY <1>17, Stable DEF DriveDone
<1>18. ASSUME NEW ok \in BOOLEAN, FloppyDone(ok)
      PROVE  Addressed'
  BY <1>18, Stable DEF FloppyDone
<1>19. ASSUME NEW b \in Blocks, ReadBlock(b)
      PROVE  Addressed'
  BY <1>19, Stable DEF ReadBlock
<1>20. CASE UNCHANGED vars
  BY <1>20, Stable DEF vars
<1> QED
  BY <1>1, <1>2, <1>3, <1>4, <1>5, <1>6, <1>7, <1>8, <1>9, <1>10, <1>11, <1>12, <1>13, <1>14, <1>15, <1>16, <1>17, <1>18, <1>19, <1>20 DEF Next, Driver, Controller

LEMMA Numbers ==
    ASSUME TypeOK
    PROVE  SectorsPerBlock \in Nat /\ SectorOf(call.block) \in Nat /\ call.i \in Nat /\ call.lba \in Nat
BY DiskAssumption, WhereRead DEF TypeOK, SectorsPerBlock

\* A command that ended well has brought the sector that was wanted.
LEMMA DataIsWanted ==
    ASSUME TypeOK, Found, OneIrq, Addressed, Advance, ~call.astray,
           pc \in {"dma", "pio"} \/ (pc = "transfer" /\ ctl # "idle")
    PROVE  Data = <<Meant, SectorOf(call.block) + call.i>>
<1>1. call.lba = SectorOf(call.block) + call.i /\ call.lba \in Nat /\ pc \in Reading
  BY Numbers DEF Advance, Reading
<1>2. CASE pc \in {"dma", "pio"}
  <2>1. ~Floppy /\ Place = Meant /\ regs = Address
    BY <1>2 DEF OneIrq, Found, Addressed
  <2>2. CASE Atapi
    BY <1>1, <2>1, <2>2 DEF Data, Address
  <2>3. CASE ~Atapi
    <3> DEFINE top == RADIX * RADIX * RADIX * RADIX
               chs == HEADS * SPT * (RADIX * RADIX)
               end == SectorOf(call.block) + SectorsPerBlock
    <3>1. OnDrive(call.block) /\ call.i < SectorsPerBlock
      BY <1>1 DEF Advance
    <3>2. end <= top /\ (~lba_drives => end <= chs)
      BY <2>1, <2>3, <3>1 DEF OnDrive, Words
    <3>3. call.lba < end /\ end \in Nat
      BY <1>1, <3>1, Numbers
    <3>7. top \in Nat /\ chs \in Nat
      <4>1. RADIX * RADIX \in Nat /\ HEADS * SPT \in Nat
        BY Sizes, Product
      <4>2. RADIX * RADIX * RADIX \in Nat /\ HEADS * SPT * (RADIX * RADIX) \in Nat
        BY <4>1, Sizes, Z3
      <4> QED
        BY <4>2, Sizes, Z3
    <3> HIDE DEF top, chs, end
    <3>8. call.lba < top /\ (~lba_drives => call.lba < chs)
      BY <1>1, <3>2, <3>3, <3>7
    <3>9. IdeSector(IdeAddress(call.lba)) = call.lba
      BY <1>1, <3>8, IdeAddressIsExact DEF top, chs
    <3> QED
      BY <1>1, <2>1, <2>3, <3>9 DEF Data, Address
  <2> QED
    BY <2>2, <2>3
<1>3. CASE pc = "transfer" /\ ctl # "idle"
  <2>1. /\ Floppy /\ cyl = lba2chs(call.lba).cylinder
        /\ regs = [op |-> "read", head |-> lba2chs(call.lba).head, sector |-> lba2chs(call.lba).sector]
    BY <1>3 DEF OneIrq, Waiting, Addressed
  <2>2. SectorOf(call.block) + SectorsPerBlock <= 2 * FLOPPY_SPT * RADIX /\ call.i < SectorsPerBlock
    BY <1>1, <2>1 DEF Advance, OnDrive
  <2>3. call.lba < 2 * FLOPPY_SPT * RADIX
    <3>1. 2 * FLOPPY_SPT * RADIX \in Nat
      BY Sizes, Product
    <3> QED
      BY <1>1, <2>2, <3>1, Numbers
  <2>4. FloppySector = call.lba
    BY <1>1, <2>1, <2>3, FloppyAddress DEF FloppySector
  <2> QED
    BY <1>1, <2>1, <2>4 DEF Data, Place, Meant
<1> QED
  BY <1>2, <1>3

LEMMA OneMore ==
    ASSUME NEW m \in Nat, NEW first \in Nat, NEW place
    PROVE  Append([k \in 1 .. m |-> <<place, first + k - 1>>], <<place, first + m>>)
             = [k \in 1 .. m + 1 |-> <<place, first + k - 1>>]
<1> DEFINE s == [k \in 1 .. m |-> <<place, first + k - 1>>]
           t == [k \in 1 .. m + 1 |-> <<place, first + k - 1>>]
           u == Append(s, <<place, first + m>>)
<1>1. s \in Seq({place} \X Int) /\ Len(s) = m
  OBVIOUS
<1>2. t \in Seq({place} \X Int) /\ Len(t) = m + 1
  OBVIOUS
<1>3. u \in Seq({place} \X Int) /\ Len(u) = m + 1
  BY <1>1
<1>4. \A k \in 1 .. m + 1 : u[k] = t[k]
  <2>1. ASSUME NEW k \in 1 .. m PROVE u[k] = t[k]
    BY <1>1
  <2>2. u[m + 1] = t[m + 1]
    BY <1>1
  <2> QED
    BY <2>1, <2>2
<1> QED
  BY <1>2, <1>3, <1>4

\* A step that neither begins a read nor ends a sector leaves what was read.
LEMMA Keeps ==
    ASSUME TypeOK, Advance, BlockIsRead, UNCHANGED <<config, dev, call, buf, ret>>,
           pc' \in Reading => pc \in Reading /\ (pc' = "read" <=> pc = "read"),
           pc' = "idle" => pc \in {"idle", "boot", "reset", "calibrate"},
           pc' \in {"boot", "reset", "calibrate"} => pc \in {"boot", "reset", "calibrate"}
    PROVE  Advance' /\ BlockIsRead'
<1>1. /\ Fs' = Fs /\ SectorsPerBlock' = SectorsPerBlock /\ Meant' = Meant /\ lba_drives' = lba_drives
  BY Stable
<1>2. Advance'
  BY <1>1, StableSector DEF Advance, Sectors
<1>3. BlockIsRead'
  BY <1>1, StableSector DEF Advance, BlockIsRead
<1> QED
  BY <1>2, <1>3

\* One sector more is in the buffer when a command has brought it.
LEMMA Gains ==
    ASSUME TypeOK, Found, OneIrq, Addressed, Advance, UNCHANGED <<config, dev>>,
           pc \in {"dma", "pio"} \/ (pc = "transfer" /\ ctl # "idle"), pc' = "read",
           call'.block = call.block, call'.i = call.i, call'.lba = call.lba,
           ~call'.astray => ~call.astray /\ buf' = Append(buf, Data)
    PROVE  Advance' /\ BlockIsRead'
<1>1. /\ Fs' = Fs /\ SectorsPerBlock' = SectorsPerBlock /\ Meant' = Meant /\ lba_drives' = lba_drives
  BY Stable
<1>2. pc \in Reading /\ pc # "read" /\ pc' \in Reading
  BY DEF Reading
<1>3. call'.block \in Blocks /\ OnDrive(call.block)' /\ call'.i < SectorsPerBlock'
  BY <1>1, <1>2, StableSector DEF Advance
<1>4. ASSUME ~call'.astray
      PROVE  /\ call'.lba = SectorOf(call.block)' + call'.i
             /\ buf' = [k \in 1 .. call'.i + 1 |-> <<Meant', SectorOf(call.block)' + k - 1>>]
  <2> DEFINE first == SectorOf(call.block)
  <2>1. first' = first
    BY StableSector
  <2>2. call.lba = first + call.i /\ buf = [k \in 1 .. call.i |-> <<Meant, first + k - 1>>]
    BY <1>2, <1>4 DEF Advance, Sectors
  <2>3. Data = <<Meant, first + call.i>>
    BY <1>4, DataIsWanted
  <2>4. first \in Nat /\ call.i \in Nat
    BY Numbers
  <2> HIDE DEF first
  <2>5. buf' = [k \in 1 .. call.i + 1 |-> <<Meant, first + k - 1>>]
    BY <1>4, <2>2, <2>3, <2>4, OneMore
  <2>6. buf' = [k \in 1 .. call'.i + 1 |-> <<Meant', first' + k - 1>>]
    BY <1>1, <2>1, <2>5
  <2>7. call'.lba = first' + call'.i
    BY <2>1, <2>2
  <2> QED
    BY <2>6, <2>7 DEF first
<1>5. Advance'
  BY <1>2, <1>3, <1>4 DEF Advance, Sectors
<1> QED
  BY <1>5 DEF BlockIsRead

LEMMA AdvanceStep ==
    ASSUME TypeOK, Found, OneIrq, Addressed, Advance, BlockIsRead, [Next]_vars
    PROVE  Advance' /\ BlockIsRead'
<1> USE DEF Reading, Waiting, config, hw
<1>1. CASE iodriver_init
  <2>1. ret' = "none" /\ pc' \notin Reading
    BY <1>1 DEF iodriver_init, Advance
  <2> QED
    BY <2>1 DEF Advance, BlockIsRead
<1>2. CASE SectorFailed
  <2>1. /\ Fs' = Fs /\ SectorsPerBlock' = SectorsPerBlock /\ Meant' = Meant /\ lba_drives' = lba_drives
    BY <1>2, Stable DEF SectorFailed
  <2>2. /\ pc = "failed" /\ buf' = buf
        /\ \/ pc' = "idle" /\ ret' = "EIO"
           \/ /\ pc' = "sector"
              /\ call' = [call EXCEPT !.try = call.try + 1,
                                      !.lba = IF Fs = "iso9660" THEN call.lba + 1 ELSE call.lba,
                                      !.astray = call.astray \/ Fs = "iso9660"]
    BY <1>2 DEF SectorFailed, Return
  <2>3. CASE pc' = "idle" /\ ret' = "EIO"
    BY <2>3 DEF Advance, BlockIsRead
  <2>4. CASE pc' = "sector"
    <3>1. /\ call'.block = call.block /\ call'.i = call.i
          /\ ~call'.astray => ~call.astray /\ call'.lba = call.lba
      BY <2>2, <2>4 DEF TypeOK
    <3> QED
      BY <1>2, <2>1, <2>2, <2>4, <3>1, StableSector DEF SectorFailed, Advance, BlockIsRead, Sectors
  <2> QED
    BY <2>2, <2>3, <2>4
<1>3. CASE SectorRead
  <2>1. /\ Fs' = Fs /\ SectorsPerBlock' = SectorsPerBlock /\ Meant' = Meant /\ lba_drives' = lba_drives
    BY <1>3, Stable DEF SectorRead
  <2>2. /\ pc = "read" /\ buf' = buf
        /\ call'.block = call.block /\ call'.i = call.i + 1 /\ call'.lba = call.lba + 1
        /\ call'.astray = call.astray
        /\ IF call.i + 1 = SectorsPerBlock THEN pc' = "idle" ELSE pc' = "sector"
    BY <1>3 DEF SectorRead, Return, TypeOK
  <2>3. SectorsPerBlock \in Nat /\ SectorOf(call.block) \in Nat /\ call.i \in Nat
    BY Numbers
  <2>4. call.block \in Blocks /\ OnDrive(call.block) /\ call.i < SectorsPerBlock
    BY <2>2 DEF Advance
  <2>5. ASSUME ~call.astray
        PROVE  call.lba = SectorOf(call.block) + call.i /\ buf = Sectors(call.i + 1)
    BY <2>2, <2>5 DEF Advance
  <2>6. CASE pc' = "idle"
    BY <1>3, <2>1, <2>2, <2>3, <2>5, <2>6, StableSector DEF SectorRead, Advance, BlockIsRead, Sectors
  <2>7. CASE pc' = "sector"
    <3>1. call'.i < SectorsPerBlock'
      BY <2>1, <2>2, <2>3, <2>4, <2>7
    <3>2. SectorOf(call.block)' = SectorOf(call.block) /\ OnDrive(call.block)'
      BY <1>3, <2>2, <2>4, StableSector DEF SectorRead
    <3>3. ASSUME ~call'.astray PROVE call'.lba = SectorOf(call.block)' + call'.i
      BY <2>2, <2>3, <2>5, <3>2, <3>3
    <3>4. ASSUME ~call'.astray
          PROVE  buf' = [k \in 1 .. call'.i |-> <<Meant', SectorOf(call.block)' + k - 1>>]
      BY <2>1, <2>2, <2>5, <3>2, <3>4 DEF Sectors
    <3> QED
      BY <2>2, <2>4, <2>7, <3>1, <3>2, <3>3, <3>4 DEF Advance, BlockIsRead, Sectors
  <2> QED
    BY <2>2, <2>6, <2>7
<1>4. CASE ide_do_sector
  BY <1>4, Keeps DEF ide_do_sector
<1>5. CASE ide_atapi_do_sector
  BY <1>5, Keeps DEF ide_atapi_do_sector
<1>6. CASE DmaFinish
  <2>1. /\ pc = "dma" /\ UNCHANGED <<config, dev, ret>> /\ bm.error \in BOOLEAN
        /\ call'.block = call.block /\ call'.i = call.i /\ call'.lba = call.lba
        /\ call'.astray = (call.astray \/ (ctl = "failed" /\ ~bm.error))
    BY <1>6 DEF DmaFinish, TypeOK
  <2>2. CASE bm.error
    <3>1. pc' = "failed" /\ buf' = buf /\ call'.astray = call.astray
      BY <1>6, <2>1, <2>2 DEF DmaFinish, TypeOK
    <3>2. /\ Fs' = Fs /\ SectorsPerBlock' = SectorsPerBlock /\ Meant' = Meant /\ lba_drives' = lba_drives
      BY <2>1, Stable
    <3> QED
      BY <2>1, <3>1, <3>2, StableSector DEF Advance, BlockIsRead, Sectors
  <2>3. CASE ~bm.error
    <3>1. pc' = "read" /\ buf' = Append(buf, Transferred) /\ ctl \in {"ready", "failed"}
      BY <1>6, <2>3 DEF DmaFinish, OneIrq
    <3>2. ~call'.astray => ~call.astray /\ buf' = Append(buf, Data)
      BY <2>1, <2>3, <3>1 DEF Transferred
    <3> QED
      BY <2>1, <3>1, <3>2, Gains
  <2> QED
    BY <2>2, <2>3
<1>7. CASE PioFinish
  <2>1. CASE ctl = "failed"
    BY <1>7, <2>1, Keeps DEF PioFinish
  <2>2. CASE ctl # "failed"
    BY <1>7, <2>2, Gains DEF PioFinish
  <2> QED
    BY <2>1, <2>2
<1>8. CASE floppy_reset
  BY <1>8, Keeps DEF floppy_reset
<1>9. CASE ResetDone
  BY <1>9, Keeps DEF ResetDone
<1>10. CASE floppy_do_sector
  BY <1>10, Keeps DEF floppy_do_sector
<1>11. CASE SeekSend
  BY <1>11, Keeps DEF SeekSend
<1>12. CASE SeekSense
  BY <1>12, Keeps DEF SeekSense
<1>13. CASE SeekGivesUp
  BY <1>13, Keeps DEF SeekGivesUp
<1>14. CASE TransferSend
  BY <1>14, Keeps DEF TransferSend
<1>15. CASE TransferResult
  <2>1. CASE ctl = "failed"
    BY <1>15, <2>1, Keeps DEF TransferResult
  <2>2. CASE ctl = "ready"
    BY <1>15, <2>2, Gains DEF TransferResult
  <2> QED
    BY <1>15, <2>1, <2>2 DEF TransferResult
<1>16. CASE TransferGivesUp
  BY <1>16, Keeps DEF TransferGivesUp
<1>17. ASSUME NEW end \in {"ready", "failed", "transfer"}, DriveDone(end)
       PROVE  Advance' /\ BlockIsRead'
  BY <1>17, Keeps DEF DriveDone
<1>18. ASSUME NEW ok \in BOOLEAN, FloppyDone(ok)
       PROVE  Advance' /\ BlockIsRead'
  BY <1>18, Keeps DEF FloppyDone
<1>19. ASSUME NEW b \in Blocks, ReadBlock(b)
       PROVE  Advance' /\ BlockIsRead'
  <2>1. /\ Fs' = Fs /\ SectorsPerBlock' = SectorsPerBlock /\ lba_drives' = lba_drives
    BY <1>19, Stable DEF ReadBlock
  <2>2. /\ pc' = "sector" /\ buf' = <<>> /\ OnDrive(b)
        /\ call' = [block |-> b, i |-> 0, try |-> 1, lba |-> FirstSector(b), astray |-> Wraps(b)]
        /\ Floppy' = Floppy /\ Atapi' = Atapi
    BY <1>19, Stable DEF ReadBlock
  <2>3. SectorsPerBlock' > 0 /\ SectorsPerBlock' \in Nat /\ b \in Nat
    BY <2>1, DiskAssumption DEF SectorsPerBlock
  <2>4. call'.block = b /\ call'.i = 0 /\ SectorOf(call.block)' = SectorOf(b)
    <3>1. call'.block = b /\ call'.i = 0
      BY <2>2
    <3>2. start' = start
      BY <1>19 DEF ReadBlock, config
    <3> QED
      BY <2>1, <3>1, <3>2 DEF SectorOf
  <2>5. OnDrive(call.block)'
    <3>1. OnDrive(call.block)' = OnDrive(b)
      BY <1>19, <2>1, <2>2, <2>4 DEF ReadBlock, config, OnDrive
    <3> QED
      BY <2>2, <3>1
  <2>7. SectorOf(b) \in Nat /\ (~call'.astray => call'.lba = SectorOf(b))
    BY <2>2, <2>3, WhereRead, DiskAssumption DEF TypeOK
  <2>6. buf' = [k \in 1 .. 0 |-> <<Meant', SectorOf(call.block)' + k - 1>>]
    BY <2>2
  <2> QED
    BY <2>2, <2>3, <2>4, <2>5, <2>6, <2>7 DEF Advance, BlockIsRead, Sectors
<1>20. CASE UNCHANGED vars
  BY <1>20, Keeps DEF vars
<1> QED
  BY <1>1, <1>2, <1>3, <1>4, <1>5, <1>6, <1>7, <1>8, <1>9, <1>10, <1>11, <1>12, <1>13, <1>14, <1>15,
     <1>16, <1>17, <1>18, <1>19, <1>20 DEF Next, Driver, Controller

LEMMA InitInv == Init => IInv
BY DEF Init, IInv, TypeOK, Found, OneIrq, Addressed, Advance, BlockIsRead, Reading, Waiting

-----------------------------------------------------------------------------
(* Theorems.                                                               *)

\* The invariant that the two properties below rest on.
THEOREM DiskInvariant == Spec => []IInv
<1>1. IInv /\ [Next]_vars => IInv'
  BY TypeStep, FoundStep, IrqStep, AddressStep, AdvanceStep DEF IInv
<1> QED
  BY InitInv, <1>1, PTL DEF Spec

\* A read that the file systems take for good has put the block's sectors of
\* the boot drive in the buffer, for every wiring, geometry, way of addressing
\* and block.
THEOREM BlocksAreRead == Spec => []BlockIsRead
<1>1. IInv => BlockIsRead
  BY DEF IInv
<1> QED
  BY DiskInvariant, <1>1, PTL

\* ata_wait_irq and the floppy's wait are ended by the interrupt of the command
\* they wait for and by no earlier one.
THEOREM InterruptsAreFresh == Spec => []InterruptIsFresh
<1>1. IInv => InterruptIsFresh
  BY DEF IInv, OneIrq, Waiting, InterruptIsFresh
<1> QED
  BY DiskInvariant, <1>1, PTL
=============================================================================
