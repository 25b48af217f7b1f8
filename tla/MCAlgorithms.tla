---------------------------- MODULE MCAlgorithms ----------------------------
(***************************************************************************)
(* The sequential parts of the kernel, one at a time: a behaviour runs the  *)
(* search of the heap, or a call of the library, or a printf, or a screen,  *)
(* or the start of the kernel, while the others are at rest.                *)
(***************************************************************************)
EXTENDS HeapSearch, Library, Printf, Screen, Boot

-----------------------------------------------------------------------------
(* The calls of the library. *)

\* memory of 40 bytes of which every byte is different, for copies that overlap
Bytes == [a \in 0 .. 39 |-> a]
MovePlaces == {<<0, 1>>, <<1, 0>>, <<0, 7>>, <<7, 0>>, <<2, 20>>, <<17, 3>>, <<5, 5>>, <<0, 15>>}
MoveCalls ==
    {[f |-> "memmove", m |-> Bytes, d |-> p[1], s |-> p[2], n |-> n, widths |-> w] :
        p \in MovePlaces, n \in {0, 1, 3, 6, 15, 16, 19}, w \in {<<16, 8, 4, 2, 1>>, <<4, 2, 1>>}}
\* "ab" or less at 1, "cde" or less at 10, 9 elsewhere
Text(p, q) == [a \in 0 .. 19 |-> IF a \in 1 .. p THEN 96 + a ELSE IF a = p + 1 THEN 0
                                 ELSE IF a \in 10 .. 9 + q THEN 90 + a ELSE IF a = 10 + q THEN 0 ELSE 9]
StringCalls ==
    {[f |-> f, m |-> Text(p, q), d |-> 1, s |-> 10, n |-> n, widths |-> <<4, 2, 1>>] :
        f \in {"memcpy", "strcpy", "strdup", "strncpy", "strcat"}, p \in 0 .. 2, q \in 0 .. 3, n \in 0 .. 4}

Words(alphabet, max) == UNION {[1 .. n -> alphabet] : n \in 0 .. max}
CompareCalls == {[f |-> "compare", a |-> a, b |-> b] : a \in Words({97, 65, 98}, 3), b \in Words({97, 65, 98}, 2)}

NumberCalls ==
    {[f |-> f, value |-> v, base |-> b] : f \in {"ltoa"}, v \in {-1024, -1023, -100, -17, -10, -9, -1, 0, 1, 7, 10, 99, 1023}, b \in {1, 2, 8, 10, 16, 36, 37}}
    \cup {[f |-> "lutoa", value |-> v, base |-> b] : v \in {0, 1, 9, 10, 100, 1023, 1024, 2047}, b \in {2, 10, 16, 36}}
    \cup {[f |-> "ftoa", special |-> "no", value |-> v, precision |-> p] : v \in -9 .. 17, p \in 0 .. 3}
    \cup {[f |-> "ftoa", special |-> s, value |-> v, precision |-> 6] : v \in {-8, 8}, s \in {"nan", "inf"}}
    \cup {[f |-> "strtol", str |-> s, base |-> b] : s \in Words({32, 45, 48, 49, 120, 97}, 4), b \in {0, 1, 2, 10, 16, 36}}
    \cup {[f |-> "div", value |-> v, denom |-> d] : v \in -5 .. 5, d \in {-3, -1, 1, 2, 3}}
    \cup {[f |-> "labs", value |-> v] : v \in {-1024, -1023, -1, 0, 1023}}
    \cup {[f |-> "ctype", c |-> ch] : ch \in 0 .. 127}
    \cup {[f |-> "htons", value |-> v] : v \in 0 .. 15}
    \cup {[f |-> "htonl", value |-> v] : v \in {0, 1, 27, 45, 77, 255}}
    \cup {[f |-> "htonll", value |-> v] : v \in {0, 1, 27, 1000, 12345, 65535}}

Arrays(n) == [0 .. n - 1 -> 1 .. 3]
ArrayCalls ==
    {[f |-> "qsort", array |-> a] : a \in UNION {Arrays(n) : n \in 0 .. 5}}
    \cup {[f |-> "bsearch", key |-> k, array |-> a] :
            k \in 0 .. 4, a \in {v \in UNION {Arrays(n) : n \in 0 .. 5} : \A i, j \in DOMAIN v : i < j => v[i] <= v[j]}}

\* Two or three mapped pages of 8 bytes, in order or not, a string that ends at z
Frames == {[p \in 1 .. 2 |-> p], [p \in 1 .. 2 |-> 3 - p], [p \in 1 .. 1 |-> 0], [p \in 1 .. 3 |-> (p * 2) % 5]}
Physical(z) == [a \in 0 .. 47 |-> IF a % 8 = z THEN 0 ELSE 100 + a]
UserCalls ==
    {[f |-> f, tables |-> t, m |-> Physical(z), va |-> va, n |-> n] :
        f \in {"mmu_strcpy", "mmu_strncpy"}, t \in Frames, z \in {3, 7, 9}, va \in 8 .. 20, n \in {0, 2, 5}}
    \cup {[f |-> "mmu_write", tables |-> t, m |-> Physical(3), va |-> va, data |-> data] :
        t \in Frames, va \in {0, 8, 11, 14, 17}, data \in {<<1>>, <<1, 2>>, <<1, 2, 3, 4>>}}
MCCalls == MoveCalls \cup StringCalls \cup CompareCalls \cup NumberCalls \cup ArrayCalls \cup UserCalls

-----------------------------------------------------------------------------
(* The directives of a format, two at a time: every one after every other. *)

D(flag, width, precision, mod, kind, args) ==
    [flag |-> flag, width |-> width, precision |-> precision, mod |-> mod, kind |-> kind, args |-> args]
Numbers3 == {<<0>>, <<7>>, <<1000>>}
Items ==
    {D("", 0, -1, "", "=", <<>>), D("", 0, -1, "", "%", <<>>), D("", 0, -1, "", "c", <<65>>)}
    \cup {D("", 0, -1, m, "d", a) : m \in {"", "l"}, a \in Numbers3 \cup {<<-1024>>}}
    \cup {D("0", w, -1, m, "d", a) : w \in {2, 4}, m \in {"", "l"}, a \in Numbers3}
    \cup {D("", 0, -1, m, "x", a) : m \in {"", "l", "h"}, a \in {<<0>>, <<1000>>, <<-1>>}}
    \cup {D("0", w, -1, m, "x", a) : w \in {2, 4, 8}, m \in {"", "l", "h"}, a \in {<<10>>, <<-1>>}}
    \cup {D("", 0, -1, m, "u", a) : m \in {"", "l"}, a \in {<<0>>, <<-1>>}}
    \cup {D("0", 32, -1, "", "b", a) : a \in {<<5>>, <<-1>>}}
    \cup {D("", 0, -1, "", "X", <<170>>), D("", 0, -1, "", "p", <<-1>>), D("", 0, -1, "", "p", <<12>>)}
    \cup {D("", 0, p, m, "f", a) : p \in {-1, 2}, m \in {"", "l"}, a \in {<<16>>, <<-8>>}} \cup {D("", 0, 2, "", "f", <<12>>)}
    \cup {D(f, w, p, "", "s", <<s>>) : <<f, w>> \in {<<"", 0>>, <<"-", 79>>}, p \in {-1, 4, 12}, s \in {<<>>, <<66, 67>>, <<68, 69, 70, 71, 72>>}}
    \cup {D("", 0, -2, "", "s", <<n, s>>) : n \in {0, 3}, s \in {<<66>>, <<68, 69, 70, 71, 72>>}}
MCLists == {<<i, j>> : i \in Items, j \in Items}

-----------------------------------------------------------------------------
(* The places for tty_gotoxy: the corner, the ends, and one below the screen. *)

MCPlaces == {<<0, 0>>, <<0, -1>>, <<-2, 0>>, <<0, Height>>}

-----------------------------------------------------------------------------
(* The machines to start. *)

Header(class) == [class |-> class, multi |-> FALSE, secondary |-> 0, line |-> 11, known |-> TRUE, native |-> FALSE]
Multi(h) == [h EXCEPT !.multi = TRUE]
To(bus) == [Header("bridge") EXCEPT !.secondary = bus]
\* An IDE controller as the second function of the ISA bridge, and network cards,
\* more than there is room for.
Simple == (<<0, 0, 0>> :> Header("host")) @@ (<<0, 1, 0>> :> Multi(Header("isa"))) @@ (<<0, 1, 1>> :> Header("ide"))
Cards == (<<0, 2, 0>> :> Header("ethernet")) @@ (<<0, 3, 0>> :> [Header("ethernet") EXCEPT !.line = 10])
Deep == (<<0, 0, 0>> :> Header("host")) @@ (<<0, 2, 0>> :> To(1)) @@ (<<1, 0, 0>> :> To(2)) @@ (<<2, 1, 0>> :> Header("ide"))
          @@ (<<1, 2, 0>> :> Multi(Header("usb"))) @@ (<<1, 2, 1>> :> Header("ethernet")) @@ (<<1, 2, 2>> :> To(3)) @@ (<<3, 3, 0>> :> Header("ethernet"))
Buried == (<<0, 0, 0>> :> Header("host")) @@ (<<0, 1, 0>> :> Multi(Header("ide"))) @@ (<<0, 1, 1>> :> [Header("ethernet") EXCEPT !.known = FALSE])
Several == Simple @@ (<<0, 3, 0>> :> Header("usb")) @@ (<<0, 3, 1>> :> Header("ethernet"))
WithFloppy == (<<0, 0, 0>> :> Header("host")) @@ (<<0, 1, 0>> :> [Header("floppy") EXCEPT !.line = 5])
Host == (<<0, 0, 0>> :> Multi(Header("host"))) @@ (<<0, 1, 0>> :> Header("ide"))
Gap == (<<0, 0, 0>> :> Header("host")) @@ (<<0, 1, 0>> :> Multi(Header("isa"))) @@ (<<0, 1, 2>> :> [Header("ide") EXCEPT !.native = TRUE])
Hostless == (<<0, 1, 0>> :> To(1)) @@ (<<1, 2, 0>> :> Header("ide"))
Trees == {Gap, Hostless, Simple, Simple @@ Cards, Simple @@ Cards @@ (<<0, 1, 2>> :> Header("ethernet")), Deep, Buried, Several, WithFloppy, Host}

AllTags == <<"cmdline", "meminfo", "bootdev", "acpi">>
RootIs(k, d, p) == [kind |-> k, disk |-> d, partition |-> p]
Machine == [magic |-> TRUE, tags |-> AllTags, ram |-> TRUE, cpuid |-> TRUE, sse |-> TRUE, acpi |-> "ok", memtest |-> "0",
          pci |-> Simple, floppy |-> TRUE, drives |-> {<<"fd", 0>>, <<"hd", 0>>, <<"cd", 0>>}, root |-> RootIs("hd", 0, 1),
          mbr |-> [p \in 0 .. 3 |-> IF p \in {0, 1} THEN "known" ELSE "none"], init |-> TRUE, resets |-> TRUE]
MCSetups ==
    {[Machine EXCEPT !.pci = t, !.root = r, !.floppy = f] :
        t \in Trees, f \in BOOLEAN,
        r \in {RootIs("hd", 0, 1), RootIs("cd", 0, 0), RootIs("fd", 0, 0), RootIs("hd", 1, 0), RootIs("hd", 96, 0), RootIs("hd", 0, 2), RootIs("hd", 0, 4), RootIs("bad", 0, 0)}}
    \cup {[Machine EXCEPT !.magic = FALSE], [Machine EXCEPT !.ram = FALSE], [Machine EXCEPT !.cpuid = FALSE], [Machine EXCEPT !.init = FALSE], [Machine EXCEPT !.resets = FALSE],
          [Machine EXCEPT !.tags = <<"meminfo", "cmdline">>], [Machine EXCEPT !.tags = <<"bootdev", "cmdline">>]}
    \cup {[Machine EXCEPT !.acpi = a, !.memtest = m, !.sse = s] : a \in {"ok", "bad", "stuck"}, m \in {"0", "1", "x", "junk", "absent"}, s \in BOOLEAN}

-----------------------------------------------------------------------------
(* A part at rest has returned. *)

SearchRests ==
    /\ hb = [size |-> 2, lfb |-> 0, bitmap |-> [c \in 0 .. 1 |-> 1]]
    /\ blocks_needed = 1 /\ x = 2 /\ wrapped = TRUE /\ result = NotHere
LibraryRests == call = [f |-> "labs", value |-> 0] /\ answer = <<0>>
PrintfRests == list = <<>> /\ pf = [at |-> 1, str |-> <<>>, args |-> <<>>]
ScreenRests ==
    /\ graphics = FALSE
    /\ text_buffer = [p \in Cells |-> Nothing] /\ fb = [p \in Cells |-> Nothing]
    /\ pos_x = 0 /\ pos_y = 0 /\ text_color = DefaultColor
    /\ wrote = MaxOut /\ calls = MaxCalls
    /\ tape = [p \in {} |-> Nothing] /\ place = 0 /\ bottom = Height - 1 /\ astray = FALSE
BootRests ==
    /\ setup = Machine /\ at = 1 /\ tags = <<>> /\ ready = {} /\ routines = NoRoutines
    /\ eth = <<>> /\ found = <<>> /\ root = <<>> /\ outcome = "hung" /\ early = {}

Init ==
    \/ SearchInit /\ LibraryRests /\ PrintfRests /\ ScreenRests /\ BootRests
    \/ LibraryInit /\ SearchRests /\ PrintfRests /\ ScreenRests /\ BootRests
    \/ PrintfInit /\ SearchRests /\ LibraryRests /\ ScreenRests /\ BootRests
    \/ ScreenInit /\ SearchRests /\ LibraryRests /\ PrintfRests /\ BootRests
    \/ BootInit /\ SearchRests /\ LibraryRests /\ PrintfRests /\ ScreenRests

vars == <<svars, libvars, pfvars, screenvars, bootvars>>

Next ==
    \/ SearchNext /\ UNCHANGED <<libvars, pfvars, screenvars, bootvars>>
    \/ LibraryCall /\ UNCHANGED <<svars, pfvars, screenvars, bootvars>>
    \/ PrintfNext /\ UNCHANGED <<svars, libvars, screenvars, bootvars>>
    \/ ScreenNext /\ UNCHANGED <<svars, libvars, pfvars, bootvars>>
    \/ BootNext /\ UNCHANGED <<svars, libvars, pfvars, screenvars>>

\* The loop of the search goes on: it is code between two returns.
Spec == Init /\ [][Next]_vars /\ WF_svars(SearchNext)
=============================================================================
