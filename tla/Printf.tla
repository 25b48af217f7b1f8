------------------------------- MODULE Printf -------------------------------
(***************************************************************************)
(* vsprintf (libc/stdio.c; the library of the programs has the same text),  *)
(* one action per iteration of its loop.  A format is a sequence of         *)
(* one-character strings, what is printed a sequence of character codes.    *)
(* The destination is full of zeros, as every caller's is but printuuid's   *)
(* from its second call on: texts are appended at its first zero (strcat),  *)
(* and nothing ends the characters that are stored one by one.              *)
(***************************************************************************)
EXTENDS Numbers

CONSTANTS
    Lists,         \* the directives of a call: sequences of records, see Spelling
    ShortBits      \* bits of a short (16)

VARIABLES
    list,          \* the directives the format was written with
    pf             \* the locals of vsprintf; str is what was stored so far

pfvars == <<list, pf>>

Code == ("%" :> 37) @@ (" " :> 32) @@ ("=" :> 61) @@ ("0" :> 48) @@ ("1" :> 49) @@ ("2" :> 50) @@ ("3" :> 51)
        @@ ("4" :> 52) @@ ("5" :> 53) @@ ("6" :> 54) @@ ("7" :> 55) @@ ("8" :> 56) @@ ("9" :> 57)
DigitChars == {"0", "1", "2", "3", "4", "5", "6", "7", "8", "9"}
DigitChar(n) == CHOOSE d \in DigitChars : Code[d] = 48 + n
Fill(code, n) == [k \in 1 .. n |-> code]

\* A directive: its parts in the order in which they are written.  kind is the
\* conversion or "=" for a plain character; precision -1 is none, -2 is .*
Spelling(d) ==
    LET Numeral10(n) == IF n < 10 THEN <<DigitChar(n)>> ELSE <<DigitChar(n \div 10), DigitChar(n % 10)>>
    IN  IF d.kind = "=" THEN <<"=">>
        ELSE <<"%">> \o (IF d.flag = "" THEN <<>> ELSE <<d.flag>>)
             \o (IF d.width = 0 THEN <<>> ELSE Numeral10(d.width))
             \o (CASE d.precision = -1 -> <<>> [] d.precision = -2 -> <<".", "*">> [] OTHER -> <<".">> \o Numeral10(d.precision))
             \o (IF d.mod = "" THEN <<>> ELSE <<d.mod>>) \o <<d.kind>>

format == FlattenSeq([k \in 1 .. Len(list) |-> Spelling(list[k])])

PrintfInit ==
    /\ list \in Lists
    /\ pf = [at |-> 1, modifier |-> 0, curr_mod |-> "", padding |-> FALSE, padding_char |-> 0, width |-> 0,
             precision_toggle |-> FALSE, precision |-> 0, left_align |-> FALSE, buf |-> <<>>,
             args |-> FlattenSeq([k \in 1 .. Len(list) |-> list[k].args]), str |-> <<>>]

Here == format[pf.at]
Following == format[pf.at + 1]

\* Inside a directive the character at hand has been dealt with, and the one
\* after it is looked at.
Directive == pf.modifier # 0 \/ pf.padding \/ pf.curr_mod # "" \/ Here = "%"

PlainChar ==
    /\ pf.at <= Len(format)
    /\ ~Directive
    /\ pf' = [pf EXCEPT !.at = @ + 1, !.str = Append(@, Code[Here])]
    /\ UNCHANGED list

\* The characters that go on with the directive: `continue` leaves the format
\* where it is.
Flagged(c) ==
    CASE c = "-" -> [pf EXCEPT !.curr_mod = c, !.left_align = TRUE]
      [] c = " " -> [pf EXCEPT !.curr_mod = c, !.padding = TRUE, !.padding_char = 32]
      [] c = "0" /\ ~pf.padding /\ pf.curr_mod = "" ->
            [pf EXCEPT !.curr_mod = c, !.padding = TRUE, !.padding_char = 48]
      [] c \in DigitChars /\ pf.precision_toggle -> [pf EXCEPT !.precision = @ * 10 + Code[c] - 48]
      [] c \in DigitChars -> [pf EXCEPT !.curr_mod = IF @ = "" THEN " " ELSE @, !.width = @ * 10 + Code[c] - 48]
      [] c = "." -> [pf EXCEPT !.curr_mod = c, !.precision_toggle = TRUE]
      [] c = "*" -> [pf EXCEPT !.curr_mod = c]
      [] c = "l" -> [pf EXCEPT !.modifier = @ + 1]
      [] c = "h" -> [pf EXCEPT !.modifier = @ - 1]

Flag ==
    /\ pf.at < Len(format)
    /\ Directive
    /\ Following \in DigitChars \cup {"-", " ", ".", "*", "l", "h"}
    /\ pf' = [Flagged(Following) EXCEPT !.at = @ + 1]
    /\ UNCHANGED list

\* What is left behind by a finished directive; padding_char and left_align stay.
ResetKeepingWidth(p) ==
    [p EXCEPT !.curr_mod = "", !.modifier = 0, !.padding = FALSE, !.precision_toggle = FALSE, !.precision = 0]
Reset(p) ==
    [p EXCEPT !.curr_mod = "", !.modifier = 0, !.padding = FALSE, !.width = 0, !.precision_toggle = FALSE, !.precision = 0]

\* `break`: two characters are done with.
Finished(p, text, args) == Reset([p EXCEPT !.at = @ + 2, !.str = @ \o text, !.args = args])

Literal ==
    /\ pf.at < Len(format)
    /\ Directive
    /\ \/ Following = "%" /\ pf' = Finished(pf, <<37>>, pf.args)
       \/ Following = "c" /\ pf' = Finished(pf, <<Head(pf.args)>>, Tail(pf.args))
    /\ UNCHANGED list

\* A string, cut or filled up to the precision.  One that is shorter than the
\* width is filled behind it, or moved in buf, of which then only as many
\* characters are taken as the string has.
StringDirective ==
    /\ pf.at < Len(format)
    /\ Directive
    /\ Following = "s"
    /\ LET star == pf.precision_toggle /\ pf.curr_mod = "*"
           args == IF star THEN Tail(pf.args) ELSE pf.args
           source == Head(args)
           buf_len == IF star THEN Head(pf.args) ELSE IF pf.precision_toggle THEN pf.precision ELSE Len(source)
           text == [k \in 1 .. buf_len |-> IF k <= Len(source) THEN source[k] ELSE 32]
           missing == IF pf.width > buf_len THEN pf.width - buf_len ELSE 0
       IN  /\ pf' = [Finished(pf, IF pf.left_align THEN text \o Fill(32, missing)
                                  ELSE SubSeq(Fill(32, missing) \o text, 1, buf_len), Tail(args))
                     EXCEPT !.buf = IF pf.left_align THEN text \o Fill(32, missing) ELSE Fill(32, missing) \o text]
    /\ UNCHANGED list

\* (short)v and (unsigned)v
Short(v) == ((v + 2 ^ (ShortBits - 1)) % 2 ^ ShortBits) - 2 ^ (ShortBits - 1)
Unsigned(v, modifier) == v % 2 ^ (IF modifier = -1 THEN ShortBits ELSE Bits)

\* The text of a number; an octal number and X are converted as signed.
NumberText(kind, modifier, v) ==
    LET signed == IF modifier = -1 THEN Short(v) ELSE v
    IN  CASE kind = "u" -> lutoa(Unsigned(v, modifier), 10)
          [] kind \in {"d", "i"} -> ltoa(signed, 10)
          [] kind = "o" -> ltoa(signed, 8)
          [] kind = "b" -> lutoa(Unsigned(v, modifier), 2)
          [] kind \in {"x", "p"} -> lutoa(Unsigned(v, modifier), 16)
          [] kind = "X" -> strupr(ltoa(signed, 16))
          [] kind = "f" -> ftoa("no", v, IF pf.precision_toggle THEN pf.precision ELSE 6)

\* p sets what 08l would have; with more than one l or h nothing is converted
\* and buf is printed again; the padding is only for a directive that began with
\* 0 or a blank.
NumberDirective ==
    /\ pf.at < Len(format)
    /\ Directive
    /\ Following \in {"u", "i", "d", "o", "b", "p", "x", "X", "f"}
    /\ LET p == IF Following = "p"
                THEN [pf EXCEPT !.modifier = 1, !.padding = TRUE, !.width = 8, !.padding_char = 48] ELSE pf
           converted == p.modifier \in (IF Following = "f" THEN {0, 1} ELSE {-1, 0, 1})
           text == IF converted THEN NumberText(Following, p.modifier, Head(p.args)) ELSE p.buf
           padded == (IF p.padding /\ p.width > Len(text) THEN Fill(p.padding_char, p.width - Len(text)) ELSE <<>>) \o text
       IN  pf' = [Finished(p, padded, IF converted THEN Tail(p.args) ELSE p.args) EXCEPT !.buf = padded]
    /\ UNCHANGED list

PrintfNext == PlainChar \/ Flag \/ Literal \/ StringDirective \/ NumberDirective

-----------------------------------------------------------------------------
\* What a directive is written for: the number in its base with its sign, zeros
\* in front up to the width, a string cut or filled to its precision and filled
\* behind it to its width.
Meaning(d) ==
    LET v == IF d.args = <<>> THEN 0 ELSE d.args[Len(d.args)]
        Zeros(text) == (IF d.flag = "0" THEN Fill(48, d.width - Len(text)) ELSE <<>>) \o text
        Number(base) == Digits(IF d.mod = "h" THEN v % 2 ^ ShortBits ELSE v % 2 ^ Bits, base)
        wanted == CASE d.precision = -1 -> Len(v) [] d.precision = -2 -> d.args[1] [] OTHER -> d.precision
    IN  CASE d.kind = "=" -> <<61>>
          [] d.kind = "%" -> <<37>>
          [] d.kind = "c" -> <<v>>
          [] d.kind = "s" -> SubSeq(v \o Fill(32, wanted), 1, wanted) \o Fill(32, d.width - wanted)
          [] d.kind = "d" -> IF v < 0 THEN <<45>> \o Digits(-v, 10) ELSE Zeros(Digits(v, 10))
          [] d.kind = "u" -> Zeros(Number(10))
          [] d.kind = "b" -> Zeros(Number(2))
          [] d.kind = "x" -> Zeros(Number(16))
          [] d.kind = "X" -> strupr(Zeros(Number(16)))
          [] d.kind = "p" -> Fill(48, 8 - Len(Number(16))) \o Number(16)
          [] d.kind = "f" -> ftoa("no", v, IF d.precision = -1 THEN 6 ELSE d.precision)

\* A call prints what each of its directives is written for, whatever directive
\* came before it, and uses up its arguments (stdio.c:174): no flag, width or
\* precision of one directive reaches the next, no digit is taken for another part.
PrintedIsMeant ==
    pf.at > Len(format) =>
        /\ pf.str = FlattenSeq([k \in 1 .. Len(list) |-> Meaning(list[k])])
        /\ pf.args = <<>>
=============================================================================
