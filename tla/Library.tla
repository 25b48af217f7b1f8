------------------------------ MODULE Library ------------------------------
(***************************************************************************)
(* One call of a function of modules Strings and Numbers, and what the      *)
(* function is for, said without saying how it is done.                     *)
(***************************************************************************)
EXTENDS Numbers

CONSTANT Calls         \* the calls: records with the function f and its arguments

VARIABLES
    call,              \* the call
    answer             \* <<>> before it returned, <<what it returned>> after

libvars == <<call, answer>>

LibraryInit == call \in Calls /\ answer = <<>>

\* Memory after a call that has the place d for a destination, s for a source.
Copy(c) ==
    CASE c.f = "memcpy" -> memcpy(c.m, c.d, c.s, c.n, c.widths)
      [] c.f = "memmove" -> memmove(c.m, c.d, c.s, c.n, c.widths)
      [] c.f = "strcpy" -> strcpy(c.m, c.d, c.s, c.widths)
      [] c.f = "strdup" -> strdup(c.m, c.s, c.d, c.widths)
      [] c.f = "strncpy" -> strncpy(c.m, c.d, c.s, c.n, c.widths)
      [] c.f = "strcat" -> strcat(c.m, c.d, c.s, c.widths)

Classes(x) ==
    [cntrl |-> iscntrl(x), blank |-> isblank(x), space |-> isspace(x), upper |-> isupper(x), lower |-> islower(x),
     alpha |-> isalpha(x), digit |-> isdigit(x), xdigit |-> isxdigit(x), alnum |-> isalnum(x), punct |-> ispunct(x),
     graph |-> isgraph(x), print |-> isprint(x), up |-> toupper(x), low |-> tolower(x)]

\* The functions of two strings, all at once.
Compared(a, b) ==
    [strcmp |-> strcmp(a, b), stricmp |-> stricmp(a, b), strncmp |-> strncmp(a, b, Len(b)),
     strchr |-> IF b = <<>> THEN strchr(a, 0) ELSE strchr(a, b[1]),
     strrchr |-> IF b = <<>> THEN strrchr(a, 0) ELSE strrchr(a, b[1]),
     strcspn |-> strcspn(a, b), strspn |-> strspn(a, b), strpbrk |-> strpbrk(a, b), strstr |-> strstr(a, b),
     tokens |-> Tokens(a, b), strupr |-> strupr(a), strlwr |-> strlwr(a)]

Apply(c) ==
    CASE c.f \in {"memcpy", "memmove", "strcpy", "strdup", "strncpy", "strcat"} -> Copy(c)
      [] c.f = "ctype" -> Classes(c.c)
      [] c.f = "compare" -> Compared(c.a, c.b)
      [] c.f = "ltoa" -> ltoa(c.value, c.base)
      [] c.f = "lutoa" -> lutoa(c.value, c.base)
      [] c.f = "ftoa" -> ftoa(c.special, c.value, c.precision)
      [] c.f = "strtol" -> strtol(c.str, c.base)
      [] c.f = "div" -> div(c.value, c.denom)
      [] c.f = "labs" -> labs(c.value)
      [] c.f = "bsearch" -> bsearch(c.key, c.array)
      [] c.f = "qsort" -> qsort(c.array)
      [] c.f = "htons" -> htons(c.value)
      [] c.f = "htonl" -> htonl(c.value)
      [] c.f = "htonll" -> switch_endian_64(c.value)
      [] c.f = "mmu_strncpy" -> mmu_strncpy(c.tables, c.m, c.va, c.n)
      [] c.f = "mmu_strcpy" -> mmu_strcpy(c.tables, c.m, c.va)
      [] c.f = "mmu_write" -> mmu_write(c.tables, c.m, c.va, c.data)

LibraryCall ==
    /\ answer = <<>>
    /\ answer' = <<Apply(call)>>
    /\ UNCHANGED call

-----------------------------------------------------------------------------
\* Memory outside of a range is kept.
Kept(old, new, from, to) == \A a \in DOMAIN old \ (from .. to) : new[a] = old[a]

\* memcpy and memmove put the old bytes of the source into the destination, even
\* where the two overlap; the string functions put the string there, whole or cut.
CopyRight(c, m) ==
    LET source == StringAt(c.m, c.s)
        old == StringAt(c.m, c.d)
    IN  CASE c.f \in {"memcpy", "memmove"} ->
                \A a \in DOMAIN c.m : m[a] = IF a \in c.d .. c.d + c.n - 1 THEN c.m[a - c.d + c.s] ELSE c.m[a]
          [] c.f \in {"strcpy", "strdup"} -> StringAt(m, c.d) = source /\ Kept(c.m, m, c.d, c.d + Len(source))
          [] c.f = "strncpy" ->
                /\ StringAt(m, c.d) = SubSeq(source, 1, Min({c.n, Len(source)}))
                /\ Kept(c.m, m, c.d, c.d + c.n)
          [] c.f = "strcat" ->
                StringAt(m, c.d) = old \o source /\ Kept(c.m, m, c.d, c.d + Len(old) + Len(source))

\* Every character is of one kind, and changing its case can be undone.
ClassesRight(x, r) ==
    /\ r.cntrl # r.print
    /\ r.print <=> (x = 32 \/ r.alnum \/ r.punct) /\ ~(x = 32 /\ r.graph)
    /\ ~(r.alnum /\ r.punct) /\ ~(r.alpha /\ r.digit) /\ ~(r.upper /\ r.lower)
    /\ r.alpha <=> r.up # r.low
    /\ r.upper => r.low # x /\ toupper(r.low) = x
    /\ r.lower => r.up # x /\ tolower(r.up) = x
    /\ r.blank => r.space
    /\ r.digit => r.xdigit

\* A place is the first one with a property.
Is1st(place, size, P(_)) ==
    \/ place = NULL /\ \A i \in 0 .. size - 1 : ~P(i)
    \/ place \in 0 .. size - 1 /\ P(place) /\ \A i \in 0 .. place - 1 : ~P(i)

ComparedRight(a, b, r) ==
    LET set == ToSet(b)
        wanted == IF b = <<>> THEN 0 ELSE b[1]
    IN  /\ (r.strcmp = 0) = (a = b)
        /\ (r.stricmp = 0) = (strlwr(a) = strlwr(b))
        /\ b # <<>> => (r.strncmp = 0) = IsPrefix(b, a)
        /\ Is1st(r.strchr, Len(a) + 1, LAMBDA i : Ch(a, i + 1) = wanted)
        /\ wanted \in ToSet(a) => a[r.strrchr + 1] = wanted /\ wanted \notin ToSet(From(a, r.strrchr + 1))
        /\ ToSet(SubSeq(a, 1, r.strcspn)) \cap set = {} /\ (r.strcspn < Len(a) => a[r.strcspn + 1] \in set)
        /\ ToSet(SubSeq(a, 1, r.strspn)) \subseteq set /\ (r.strspn < Len(a) => a[r.strspn + 1] \notin set)
        /\ Is1st(r.strpbrk, Len(a), LAMBDA i : a[i + 1] \in set)
        /\ b # <<>> => Is1st(r.strstr, Len(a), LAMBDA i : IsPrefix(b, From(a, i)))
        \* the tokens are what is left of the string without the delimiters
        /\ FlattenSeq(r.tokens) = SelectSeq(a, LAMBDA x : x \notin set)
        /\ Len(r.tokens) = Cardinality({i \in 1 .. Len(a) : a[i] \in set}) + 1

\* The value of a numeral.
ValueOf(digits, base) == FoldLeft(LAMBDA v, x : v * base + DigitOf(x), 0, digits)

\* A numeral without leading zeros.
Numeral(text, value, base) ==
    /\ \A k \in 1 .. Len(text) : DigitOf(text[k]) < base
    /\ ValueOf(text, base) = value
    /\ text[1] = 48 => Len(text) = 1

\* Base 10 is signed, the others print the magnitude.
LtoaRight(c, r) ==
    IF c.base < 2 \/ c.base > 36 THEN r = <<>>
    ELSE IF c.value < 0 /\ c.base = 10 THEN r[1] = 45 /\ Numeral(From(r, 1), -c.value, 10)
    ELSE Numeral(r, Magnitude(c.value), c.base)

\* The numeral, the point and as many digits as asked for; excepted are negative
\* fractions, which get a second sign, and fractions that begin with a 0, which
\* is not written in front but behind.
FtoaRight(c, r) ==
    c.special = "no" /\ c.value >= 0 /\ (c.precision > 0 => (10 * (c.value % 8)) \div 8 > 0 \/ c.value % 8 = 0) =>
        LET point == Len(r) - c.precision
        IN  /\ c.precision > 0 => r[point] = 46
            /\ Numeral(SubSeq(r, 1, IF c.precision > 0 THEN point - 1 ELSE Len(r)), c.value \div 8, 10)
            /\ c.precision > 0 =>
                  ValueOf(From(r, point), 10) = ((c.value % 8) * 10 ^ c.precision) \div 8

\* A string that as a whole is blanks, a sign, a prefix and digits gives the
\* number, any other 0.
StrtolRight(c, r) ==
    LET Readings ==
            {w \in [b : 0 .. Len(c.str), s : {<<>>, <<43>>, <<45>>}, p : {<<>>, <<48, 120>>, <<48, 88>>}, base : {c.base, 8, 10, 16}] :
                LET digits == From(c.str, w.b + Len(w.s) + Len(w.p))
                IN  /\ \A k \in 1 .. w.b : isspace(c.str[k])
                    /\ IsPrefix(w.s \o w.p, From(c.str, w.b))
                    /\ digits # <<>> /\ \A k \in 1 .. Len(digits) : DigitOf(digits[k]) < w.base
                    /\ IF w.p # <<>> THEN c.base \in {0, 16} /\ w.base = 16
                       ELSE IF c.base = 0 THEN w.base = IF digits[1] = 48 THEN 8 ELSE 10
                       ELSE w.base = c.base /\ c.base \in 2 .. 36}
        Number(w) == Wrapped((IF w.s = <<45>> THEN -1 ELSE 1) * ValueOf(From(c.str, w.b + Len(w.s) + Len(w.p)), w.base))
    IN  IF Readings = {} THEN r = 0 ELSE {Number(w) : w \in Readings} = {r}

\* And what ltoa wrote is read back.
ReadsBack(c, r) == c.base = 10 => strtol(r, 10) = c.value

SortedRight(a, r) ==
    /\ \A i, j \in DOMAIN r : i < j => r[i] <= r[j]
    /\ \A v \in {a[i] : i \in DOMAIN a} \cup {r[i] : i \in DOMAIN r} :
          Cardinality({i \in DOMAIN a : a[i] = v}) = Cardinality({i \in DOMAIN r : r[i] = v})

\* The bytes come in the opposite order.
SwappedRight(v, r, bytes) == \A k \in 0 .. bytes - 1 : (r \div Byte ^ k) % Byte = (v \div Byte ^ (bytes - 1 - k)) % Byte

\* The bytes of a process's memory one by one, to the first zero; a word that
\* goes on into a page whose frame is not the next one is excepted.
UserByte(c, k) == mmu_read(c.tables, c.m, c.va + k, 1)[1]
Straddles(c, n) ==
    \E p \in ToSet(Pieces(n, <<4, 2, 1>>)) :
        LET first == (c.va + p.at) \div PageSize
            final == (c.va + p.at + p.width - 1) \div PageSize
        IN  first # final /\ ~(first \in DOMAIN c.tables /\ final \in DOMAIN c.tables
                               /\ c.tables[final] = c.tables[first] + 1)
UserRight(c, r) ==
    LET len == Min({k \in 0 .. Cardinality(DOMAIN c.m) : UserByte(c, k) = 0})
        n == IF c.f = "mmu_strncpy" THEN Min({len, c.n}) ELSE len
    IN  ~Straddles(c, n) =>
        /\ Len(r) = IF c.f = "mmu_strncpy" THEN c.n + 1 ELSE len + 1
        /\ \A k \in 1 .. Len(r) : r[k] = IF k <= n THEN UserByte(c, k - 1) ELSE 0
WriteRight(c, r) ==
    LET n == Len(c.data)
    IN  IF c.va \div PageSize \notin DOMAIN c.tables THEN r = c.m
        ELSE (c.va % PageSize) + n <= PageSize =>
             /\ \A k \in 1 .. n : mmu_read(c.tables, r, c.va + k - 1, 1) = <<c.data[k]>>
             /\ Cardinality({a \in DOMAIN r : r[a] # c.m[a]}) <= n

Right(c, r) ==
    CASE c.f \in {"memcpy", "memmove", "strcpy", "strdup", "strncpy", "strcat"} -> CopyRight(c, r)
      [] c.f = "ctype" -> ClassesRight(c.c, r)
      [] c.f = "compare" -> ComparedRight(c.a, c.b, r)
      [] c.f = "ltoa" -> LtoaRight(c, r) /\ ReadsBack(c, r)
      [] c.f = "lutoa" -> Numeral(r, c.value, c.base)
      [] c.f = "ftoa" -> FtoaRight(c, r)
      [] c.f = "strtol" -> StrtolRight(c, r)
      [] c.f = "div" ->
            /\ c.value = r.quot * c.denom + r.rem
            /\ Magnitude(r.rem) < Magnitude(c.denom)
            /\ r.rem = 0 \/ (r.rem < 0) = (c.value < 0)
      [] c.f = "labs" -> c.value # -(2 ^ (Bits - 1)) => r \in {c.value, -c.value} /\ r >= 0
      [] c.f = "bsearch" ->
            IF r = NULL THEN \A i \in DOMAIN c.array : c.array[i] # c.key ELSE c.array[r] = c.key
      [] c.f = "qsort" -> SortedRight(c.array, r)
      [] c.f = "htons" -> SwappedRight(c.value, r, 2)
      [] c.f = "htonl" -> SwappedRight(c.value, r, 4)
      [] c.f = "htonll" -> SwappedRight(c.value, r, 8)
      [] c.f \in {"mmu_strncpy", "mmu_strcpy"} -> UserRight(c, r)
      [] c.f = "mmu_write" -> WriteRight(c, r)

\* Every call of the string, number, sorting and byte-order functions (libc/string.c,
\* stdlib.c, ctype.c, arpa/inet.c) and of the copies to and from a program's pages
\* (cpu/mmu.c) returns what the function is for: with overlapping arguments, at the
\* ends of the number range and across pages.  Excepted are a word that straddles a
\* page, which mmu.c translates by its first byte, and the defects Right names.
LibraryIsReference == answer # <<>> => Right(call, answer[1])
=============================================================================
