------------------------------ MODULE Numbers ------------------------------
(***************************************************************************)
(* Numbers as text, sorting and searching (libc/stdlib.c), the order of     *)
(* bytes (bits.c) and reading the memory of a process through its page      *)
(* tables (cpu/mmu.c).  A long has Bits bits, a byte ByteBits.              *)
(***************************************************************************)
EXTENDS Strings

CONSTANTS
    Bits,         \* bits of a long (32)
    ByteBits,     \* bits of a byte (8), for the functions of bits.c
    PageSize      \* bytes of a page (4096)

ASSUME NumbersAssumption == {Bits, ByteBits, PageSize} \subseteq Nat \ {0}

Magnitude(x) == IF x < 0 THEN -x ELSE x

\* The division of C rounds towards zero.
Quotient(a, b) ==
    IF (a < 0) = (b < 0) THEN Magnitude(a) \div Magnitude(b) ELSE -(Magnitude(a) \div Magnitude(b))
Remainder(a, b) == a - b * Quotient(a, b)

Longs == -(2 ^ (Bits - 1)) .. 2 ^ (Bits - 1) - 1
ULongs == 0 .. 2 ^ Bits - 1
Wrapped(x) == ((x + 2 ^ (Bits - 1)) % 2 ^ Bits) - 2 ^ (Bits - 1)

\* numbase[35 + d]: the table is mirrored, a negative remainder finds the digit
\* of its magnitude.
numbase(d) == LET x == Magnitude(d) IN IF x < 10 THEN 48 + x ELSE 97 + x - 10

\* The digits are written from the last to the first and then turned around.
Digits(value, base) ==
    LET low[v \in -(2 ^ Bits) .. 2 ^ Bits] ==
            <<numbase(Remainder(v, base))>> \o
            IF Quotient(v, base) = 0 THEN <<>> ELSE low[Quotient(v, base)]
    IN  Reverse(low[value])

\* Base 10 keeps the sign; in another base the value is negated, which leaves
\* the least one as it is, and the sign is not written.
ltoa(value, base) ==
    IF base < 2 \/ base > 36 THEN <<>>
    ELSE IF value < 0 /\ base = 10 THEN <<45>> \o Digits(value, base)
    ELSE IF value < 0 THEN Digits(Wrapped(-value), base)
    ELSE Digits(value, base)

lutoa(value, base) == IF base < 2 \/ base > 36 THEN <<>> ELSE Digits(value, base)

\* A double is eighths / 8, which needs no rounding, or not a finite number.
\* The fraction is written like a whole number and filled up with zeros behind.
lftoa(eighths, precision) ==
    LET whole == Quotient(eighths, 8)
        fraction == Quotient((eighths - 8 * whole) * 10 ^ precision, 8)
        text == ltoa(fraction, 10)
    IN  ltoa(whole, 10) \o
        IF precision = 0 THEN <<>>
        ELSE <<46>> \o text \o [k \in 1 .. precision - Len(text) |-> 48]
ftoa(special, eighths, precision) ==
    CASE special = "nan" -> <<110, 97, 110>>
      [] special = "inf" -> IF eighths < 0 THEN <<45, 105, 110, 102>> ELSE <<105, 110, 102>>
      [] special = "no" -> lftoa(eighths, precision)

\* The text after the first n characters.
From(s, n) == SubSeq(s, n + 1, Len(s))
Prefixed(s) == Ch(s, 1) = 48 /\ Ch(s, 2) \in {120, 88}

DigitOf(c) ==
    IF isdigit(c) THEN c - 48 ELSE IF islower(c) THEN c - 97 + 10 ELSE IF isupper(c) THEN c - 65 + 10 ELSE 99

\* Blanks, a sign, a prefix, digits to the end of the string; 0 for any other
\* string.
strtol(str, base) ==
    LET unspaced == From(str, Min({i \in 0 .. Len(str) : ~isspace(Ch(str, i + 1))}))
        unsigned == IF Ch(unspaced, 1) \in {43, 45} THEN From(unspaced, 1) ELSE unspaced
        base_ == IF base # 0 THEN base
                 ELSE IF Prefixed(unsigned) THEN 16 ELSE IF Ch(unsigned, 1) = 48 THEN 8 ELSE 10
        text == CASE base \in {0, 16} /\ Prefixed(unsigned) -> From(unsigned, 2)
                  [] base = 0 /\ base_ = 8 -> From(unsigned, 1)
                  [] OTHER -> unsigned
        value == FoldLeft(LAMBDA v, c : Wrapped(v * base_ + DigitOf(c)), 0, text)
    IN  IF base < 0 \/ base = 1 \/ base > 36 THEN 0
        ELSE IF \E k \in 1 .. Len(text) : DigitOf(text[k]) >= base_ THEN 0
        ELSE Wrapped(value * IF Ch(unspaced, 1) = 45 THEN -1 ELSE 1)
atol(str) == strtol(str, 10)

\* div and ldiv; their correction is for a negative remainder of a positive number.
div(numer, denom) ==
    LET quot == Quotient(numer, denom)
        rem == Remainder(numer, denom)
    IN  IF numer >= 0 /\ rem < 0 THEN [quot |-> quot + 1, rem |-> rem - denom] ELSE [quot |-> quot, rem |-> rem]
labs(x) == IF x < 0 THEN Wrapped(-x) ELSE x

-----------------------------------------------------------------------------
(***************************************************************************)
(* Arrays; places from 0 on.                                               *)
(***************************************************************************)

bsearch(key, a) ==
    LET n == Cardinality(DOMAIN a)
        look[start \in 0 .. n, end \in 0 .. n] ==
            LET mid == (start + end) \div 2
            IN  IF start >= end THEN NULL
                ELSE IF key = a[mid] THEN mid
                ELSE IF key < a[mid] THEN look[start, mid]
                ELSE look[mid + 1, end]
    IN  look[0, n]

\* The partition around the last element: the smaller ones go to the front,
\* then the pivot behind them.
Partition(a, start, end) ==
    LET pivot == end - 1
        Look(acc, j) ==
            IF acc.a[j] < acc.a[pivot] THEN [a |-> swap(acc.a, acc.i + 1, j), i |-> acc.i + 1] ELSE acc
        done == FoldLeft(Look, [a |-> a, i |-> start - 1], [k \in 1 .. pivot - start |-> start + k - 1])
    IN  [a |-> swap(done.a, done.i + 1, pivot), pivot |-> done.i + 1]

RECURSIVE qsort_inplace(_, _, _)
qsort_inplace(a, start, end) ==
    IF end - start <= 1 THEN a
    ELSE LET p == Partition(a, start, end)
         IN  qsort_inplace(qsort_inplace(p.a, start, p.pivot), p.pivot + 1, end)
qsort(a) == qsort_inplace(a, 0, Cardinality(DOMAIN a))

-----------------------------------------------------------------------------
(***************************************************************************)
(* The order of bytes: shifts, and masks that keep one byte.               *)
(***************************************************************************)

Byte == 2 ^ ByteBits
Shl(v, n, bytes) == (v * Byte ^ n) % Byte ^ bytes
Shr(v, n) == v \div Byte ^ n
Keep(v, k) == ((v \div Byte ^ k) % Byte) * Byte ^ k

switch_endian_16(v) == Shl(v, 1, 2) + Shr(v, 1)
switch_endian_32(v) == Shl(v, 3, 4) + Keep(Shl(v, 1, 4), 2) + Keep(Shr(v, 1), 1) + Shr(v, 3)
switch_endian_64(v) ==
    Shl(v, 7, 8) + Keep(Shl(v, 5, 8), 6) + Keep(Shl(v, 3, 8), 5) + Keep(Shl(v, 1, 8), 4) +
    Keep(Shr(v, 1), 3) + Keep(Shr(v, 3), 2) + Keep(Shr(v, 5), 1) + Shr(v, 7)

\* The processor is little-endian: the same in both directions.
htons(v) == switch_endian_16(v)
htonl(v) == switch_endian_32(v)

-----------------------------------------------------------------------------
(***************************************************************************)
(* The memory of a process: tables maps its pages to frames, and memory     *)
(* holds the bytes of the frames.                                           *)
(***************************************************************************)

mmu_get_physical_address_pdt(tables, va) ==
    IF va \div PageSize \in DOMAIN tables THEN tables[va \div PageSize] * PageSize + (va % PageSize) ELSE NULL

\* mmu_readb, mmu_readw, mmu_readl: only the address of the first byte is
\* translated.
mmu_read(tables, memory, va, width) ==
    LET pa == mmu_get_physical_address_pdt(tables, va)
    IN  [k \in 1 .. width |-> IF pa = NULL THEN 0 ELSE memory[pa + k - 1]]
mmu_write(tables, memory, va, data) ==
    LET pa == mmu_get_physical_address_pdt(tables, va)
    IN  IF pa = NULL THEN memory
        ELSE [a \in DOMAIN memory |-> IF a \in pa .. pa + Len(data) - 1 THEN data[a - pa + 1] ELSE memory[a]]

\* The end of the string is the first zero or the first page that is not mapped.
mmu_strlen(tables, memory, va) ==
    CHOOSE len \in 0 .. Cardinality(DOMAIN memory) :
        /\ mmu_read(tables, memory, va + len, 1) = <<0>>
        /\ \A k \in 0 .. len - 1 : mmu_read(tables, memory, va + k, 1) # <<0>>

\* What is copied to the kernel.
mmu_memcpy(tables, memory, va, n) ==
    LET pieces == Pieces(n, <<4, 2, 1>>)
    IN  FlattenSeq([k \in 1 .. Len(pieces) |-> mmu_read(tables, memory, va + pieces[k].at, pieces[k].width)])

mmu_strcpy(tables, memory, va) ==
    Append(mmu_memcpy(tables, memory, va, mmu_strlen(tables, memory, va)), 0)

mmu_strncpy(tables, memory, va, n) ==
    LET len == mmu_strlen(tables, memory, va)
    IN  mmu_memcpy(tables, memory, va, IF len < n THEN len ELSE n) \o
        [k \in 1 .. (IF len < n THEN n - len ELSE 0) + 1 |-> 0]
=============================================================================
