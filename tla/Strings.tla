------------------------------ MODULE Strings ------------------------------
(***************************************************************************)
(* The string and memory functions of the C library (libc/string.c and      *)
(* ctype.c; the library of the programs has the same code but for the wide  *)
(* copies of memcpy).  Characters are their codes.  Functions that only     *)
(* read take a string as the sequence of its characters, functions that     *)
(* write take the memory, a function from addresses to bytes.               *)
(***************************************************************************)
EXTENDS Integers, Sequences, SequencesExt, FiniteSetsExt

\* ctype.c
isblank(c) == c \in {32, 9}
iscntrl(c) == c \in 0 .. 31 \/ c = 127
isdigit(c) == c \in 48 .. 57
isgraph(c) == c \in 33 .. 126
islower(c) == c \in 97 .. 122
isupper(c) == c \in 65 .. 90
isalpha(c) == islower(c) \/ isupper(c)
isalnum(c) == isalpha(c) \/ isdigit(c)
isprint(c) == isgraph(c) \/ c = 32
ispunct(c) == isgraph(c) /\ ~isalnum(c)
isspace(c) == isblank(c) \/ c \in 9 .. 13
isxdigit(c) == isdigit(c) \/ c \in 97 .. 102 \/ c \in 65 .. 70
toupper(c) == IF c \in 97 .. 122 THEN 65 + c - 97 ELSE c
tolower(c) == IF c \in 65 .. 90 THEN 97 + c - 65 ELSE c

-----------------------------------------------------------------------------
(***************************************************************************)
(* Memory.                                                                 *)
(***************************************************************************)

\* The pieces in which n bytes are copied: as many of the widest as fit, then
\* of the next.  The widths of 16 and 8 depend on the processor.
Pieces(n, widths) ==
    FlattenSeq([k \in 1 .. Len(widths) |->
        LET from == IF k = 1 THEN 0 ELSE n - (n % widths[k - 1])
        IN  [j \in 1 .. (n - from) \div widths[k] |->
                [at |-> from + (j - 1) * widths[k], width |-> widths[k]]]])

\* A piece is loaded as a whole and then stored.
Moved(m, d, s, n) == [a \in DOMAIN m |-> IF a \in d .. d + n - 1 THEN m[a - d + s] ELSE m[a]]

memcpy(m, d, s, n, widths) ==
    FoldLeft(LAMBDA acc, p : Moved(acc, d + p.at, s + p.at, p.width), m, Pieces(n, widths))

\* A fault: the copy always goes upwards.
MemmoveUp(m, d, s, n, widths) == memcpy(m, d, s, n, widths)

memmove(m, d, s, n, widths) ==
    IF d < s THEN memcpy(m, d, s, n, widths)
    ELSE FoldLeft(LAMBDA acc, i : Moved(acc, d + i, s + i, 1), m, [k \in 1 .. n |-> n - k])

memset(m, p, value, n) == [a \in DOMAIN m |-> IF a \in p .. p + n - 1 THEN value ELSE m[a]]

\* swap of two elements of an array through a copy of the first.
swap(m, a, b) == [m EXCEPT ![a] = m[b], ![b] = m[a]]

strlen(m, p) == CHOOSE l \in 0 .. Cardinality(DOMAIN m) : m[p + l] = 0 /\ \A k \in 0 .. l - 1 : m[p + k] # 0
StringAt(m, p) == [k \in 1 .. strlen(m, p) |-> m[p + k - 1]]

strcpy(m, d, s, widths) ==
    LET len == strlen(m, s) IN [memcpy(m, d, s, len, widths) EXCEPT ![d + len] = 0]

\* n characters at most, zeros up to n, and one more.
strncpy(m, d, s, n, widths) ==
    LET len == strlen(m, s)
        copied == memcpy(m, d, s, IF len < n THEN len ELSE n, widths)
    IN  [memset(copied, d + len, 0, n - len) EXCEPT ![d + n] = 0]

strncat(m, d, s, n, widths) == strncpy(m, d + strlen(m, d), s, n, widths)
strcat(m, d, s, widths) == strncat(m, d, s, strlen(m, s), widths)

\* to: what malloc returned
strdup(m, s, to, widths) == strcpy(m, to, s, widths)

-----------------------------------------------------------------------------
(***************************************************************************)
(* Comparing.  Ch is a character of a string or its terminator.            *)
(***************************************************************************)

Ch(s, k) == IF k <= Len(s) THEN s[k] ELSE 0

\* The difference at the first of the places where the strings differ.
FirstDifference(a, b, places) == IF places = {} THEN 0 ELSE Ch(a, Min(places)) - Ch(b, Min(places))

memcmp(a, b, num) == FirstDifference(a, b, {k \in 1 .. num : Ch(a, k) # Ch(b, k)})

strncmp(a, b, num) ==
    IF a = <<>> THEN Ch(b, 1) ELSE IF b = <<>> THEN -Ch(a, 1) ELSE memcmp(a, b, num)

strincmp(a, b, num) ==
    IF a = <<>> THEN Ch(b, 1) ELSE IF b = <<>> THEN -Ch(a, 1)
    ELSE FirstDifference(a, b, {k \in 1 .. num : toupper(Ch(a, k)) # toupper(Ch(b, k))})

\* "x || y" of C: the sign is lost.
Or(x, y) == IF x # 0 \/ y # 0 THEN 1 ELSE 0
AfterShorter(a, b) == LET k == Min({Len(a), Len(b)}) + 1 IN Ch(a, k) - Ch(b, k)

strcmp(a, b) ==
    IF a = <<>> THEN Ch(b, 1) ELSE IF b = <<>> THEN -Ch(a, 1)
    ELSE Or(strncmp(a, b, Min({Len(a), Len(b)})), AfterShorter(a, b))

stricmp(a, b) ==
    IF a = <<>> THEN Ch(b, 1) ELSE IF b = <<>> THEN -Ch(a, 1)
    ELSE Or(strincmp(a, b, Min({Len(a), Len(b)})), AfterShorter(a, b))

strupr(s) == [k \in 1 .. Len(s) |-> toupper(s[k])]
strlwr(s) == [k \in 1 .. Len(s) |-> tolower(s[k])]

-----------------------------------------------------------------------------
(***************************************************************************)
(* Searching.  A place is an index from 0 on; NULL is -1.                  *)
(***************************************************************************)

NULL == -1
FirstPlace(places) == IF places = {} THEN NULL ELSE Min(places)

memchr(s, value, num) == FirstPlace({i \in 0 .. num - 1 : Ch(s, i + 1) = value})
strchr(s, character) == memchr(s, character, Len(s) + 1)

\* The search is downwards from the end; its index is unsigned and the loop
\* has no other end, so that it leaves the string when there is nothing to find.
Wild == -2
strrchr(s, character) ==
    LET places == {i \in 0 .. Len(s) - 1 : s[i + 1] = character}
    IN  IF places = {} THEN Wild ELSE Max(places)

\* The inner loop of the four functions below: c is one of the characters of s.
Among(c, s) == \E j \in 1 .. Len(s) : s[j] = c

strcspn(a, b) == Min({i \in 0 .. Len(a) : i = Len(a) \/ Among(a[i + 1], b)})
strspn(a, b) == Min({i \in 0 .. Len(a) : i = Len(a) \/ ~Among(a[i + 1], b)})
strpbrk(a, b) == FirstPlace({i \in 0 .. Len(a) - 1 : Among(a[i + 1], b)})

strstr(a, b) ==
    FirstPlace({i \in 0 .. Len(a) - 1 :
        /\ a[i + 1] = Ch(b, 1)
        /\ \A j \in 1 .. Len(b) : Ch(a, i + j) = b[j]})

\* One call of strtok that begins at place from: the token, and where the next
\* call begins.
strtok(s, from, delimiters) ==
    LET i == from + strcspn(SubSeq(s, from + 1, Len(s)), delimiters)
    IN  [token |-> SubSeq(s, from + 1, i), last |-> IF i = Len(s) THEN NULL ELSE i + 1]

\* The tokens of all calls until NULL.
Tokens(s, delimiters) ==
    LET rest[from \in 0 .. Len(s)] ==
            LET t == strtok(s, from, delimiters)
            IN  <<t.token>> \o IF t.last = NULL THEN <<>> ELSE rest[t.last]
    IN  rest[0]
=============================================================================
