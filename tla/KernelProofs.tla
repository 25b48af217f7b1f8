---------------------------- MODULE KernelProofs ----------------------------
(***************************************************************************)
(* Three parts of the kernel.  The terminal, for buffers of any size: the  *)
(* indices stay in their buffers, read returns exactly what was typed,     *)
(* write shows exactly what it was given, whenever the keyboard interrupts *)
(* (outside the two windows that overrun and clash name).  The screen, of  *)
(* any size: it shows the end of what was written.  The start, on every    *)
(* machine: nothing is used before it is set up, the search for devices    *)
(* finds each once, and the root is the one that was asked for.            *)
(***************************************************************************)
EXTENDS Terminal, Screen, Boot, SequenceTheorems, NaturalsInduction, WellFoundedInduction, TLAPS

\* The buffer holds the text that was typed; delivered is what lies before
\* in_buffer_start.
InputInv ==
    ~overrun =>
        /\ Len(text) = in_end
        /\ Copied <= in_end /\ (pc = "take" => in_start < in_end)
        /\ Len(delivered) = Copied
        /\ \A k \in 1 .. Len(text) : in_buffer[k - 1] = text[k]
        /\ \A k \in 1 .. Len(delivered) : delivered[k] = text[k]

\* The number of characters shown before the buffer was last filled.
Base == IF pc \in {"flush", "flush_last"} THEN Len(shown) - i ELSE Len(shown)

\* A write that nobody interrupts: what it shows is what was flushed, then the
\* buffer, then what is left to do.
Parts ==
    /\ Base >= 0
    /\ Len(message) = Base + out_end + Len(todo)
    /\ \A k \in 1 .. Len(shown) : shown[k] = message[k]
    /\ \A k \in 0 .. out_end - 1 : out_buffer[k] = message[Base + k + 1]
    /\ \A k \in 1 .. Len(todo) : todo[k] = message[Base + out_end + k]

Idle == pc \notin Writing => out_end = 0
Room == pc \in {"store", "load"} => out_end < OutSize
Busy == pc \in Writing \ {"put", "flush_last"} => todo # <<>>
OutputInv ==
    ~clash =>
        /\ pc \notin Writing => shown = message
        /\ pc \in Writing => Parts
        /\ pc \in {"store", "bump"} => i = out_end
        /\ pc \in {"load", "bump"} => out_buffer[out_end] = todo[1]
        /\ pc \in {"flush", "flush_last"} => i <= out_end
        /\ pc = "flush_last" => todo = <<>>
        /\ pc = "flush" => out_end = OutSize

IInv == TypeOK /\ InputInv /\ Idle /\ Room /\ Busy /\ OutputInv
-----------------------------------------------------------------------------
(* The parts of the keyboard interrupt.                                    *)

\* What a sequence is after its last element was removed, or one was added.
LEMMA FrontFacts ==
    ASSUME NEW S, NEW s \in Seq(S), s # <<>>
    PROVE  /\ Front(s) \in Seq(S)
           /\ Len(Front(s)) = Len(s) - 1
           /\ \A k \in 1 .. Len(s) - 1 : Front(s)[k] = s[k]
<1>1. Len(s) \in Nat \ {0}
  BY EmptySeq
<1>2. \A j \in 1 .. Len(s) - 1 : s[j] \in S
  BY <1>1, ElementOfSeq
<1>3. /\ SubSeq(s, 1, Len(s) - 1) \in Seq(S)
      /\ Len(SubSeq(s, 1, Len(s) - 1)) = IF 1 <= Len(s) - 1 THEN Len(s) - 1 - 1 + 1 ELSE 0
      /\ \A j \in 1 .. Len(s) - 1 - 1 + 1 : SubSeq(s, 1, Len(s) - 1)[j] = s[1 + j - 1]
  BY <1>1, <1>2, SubSeqProperties
<1>4. Len(Front(s)) = Len(s) - 1
  <2>1. \A n \in Nat \ {0} : (IF 1 <= n - 1 THEN n - 1 - 1 + 1 ELSE 0) = n - 1
    OBVIOUS
  <2> QED
    BY <1>1, <1>3, <2>1, Zenon DEF Front
<1>5. ASSUME NEW j \in 1 .. Len(s) - 1 PROVE Front(s)[j] = s[j]
  <2>1. j \in 1 .. Len(s) - 1 - 1 + 1 /\ 1 + j - 1 = j
    BY <1>1
  <2>2. SubSeq(s, 1, Len(s) - 1)[j] = s[1 + j - 1]
    BY <2>1, <1>3
  <2> QED
    BY <2>1, <2>2 DEF Front
<1> QED
  BY <1>3, <1>4, <1>5 DEF Front

\* The interrupt types, takes back or does nothing.
LEMMA KeyCases ==
    ASSUME TypeOK, NEW k \in Keys, KeyDown(k)
    PROVE  /\ UNCHANGED <<pc, i>> /\ ~stopped
           /\ pressed' \subseteq Combo /\ stopped' \in BOOLEAN
           /\ \/ Ignored
              \/ kblayout[k] \in Bytes /\ in_end < InSize /\ TypeChar(kblayout[k])
              \/ in_start < in_end /\ in_end < InSize /\ Erase
BY TerminalAssumption DEF TypeOK, KeyDown, tty_read_char, CanErase

-----------------------------------------------------------------------------
(* Types and bounds.                                                       *)

\* The echo keeps the output buffer's type.
LEMMA EchoType ==
    ASSUME TypeOK, NEW c \in Bytes \cup {Backspace}, Echo(c)
    PROVE  /\ out_buffer' \in [0 .. OutSize - 1 -> Bytes \cup {Backspace}]
           /\ out_end' = 0 /\ clash' \in BOOLEAN
           /\ UNCHANGED <<todo, message, shown>>
BY TerminalAssumption DEF TypeOK, Echo, Wrap

\* A key keeps every type.
LEMMA KeyType ==
    ASSUME TypeOK, NEW k \in Keys, KeyDown(k)
    PROVE  TypeOK'
<1>1. CASE Ignored
  BY <1>1, KeyCases DEF TypeOK, Ignored, input, output
<1>2. CASE kblayout[k] \in Bytes /\ in_end < InSize /\ TypeChar(kblayout[k])
  <2>1. text' \in Seq(Bytes)
    BY <1>2, AppendProperties DEF TypeOK, TypeChar
  <2>2. in_buffer' \in [0 .. InSize - 1 -> Bytes] /\ in_end' \in 0 .. InSize
    BY <1>2, TerminalAssumption DEF TypeOK, TypeChar
  <2>3. Echo(kblayout[k]) /\ UNCHANGED <<in_start, left, delivered, overrun>>
    BY <1>2 DEF TypeChar
  <2> QED
    BY <1>2, <2>1, <2>2, <2>3, EchoType, KeyCases, TerminalAssumption DEF TypeOK
<1>3. CASE in_start < in_end /\ in_end < InSize /\ Erase
  <2>1. text' \in Seq(Bytes)
    BY <1>3, FrontFacts DEF TypeOK, Erase
  <2>2. in_end' \in 0 .. InSize
    BY <1>3, TerminalAssumption DEF TypeOK, Erase
  <2>4. overrun' \in BOOLEAN
    BY <1>3 DEF Erase
  <2>3. Echo(Backspace) /\ UNCHANGED <<in_buffer, in_start, left, delivered>>
    BY <1>3 DEF Erase
  <2> QED
    BY <1>3, <2>1, <2>2, <2>3, <2>4, EchoType, KeyCases, TerminalAssumption DEF TypeOK
<1> QED
  BY <1>1, <1>2, <1>3, KeyCases

\* Every step keeps every type.
LEMMA TypeStep ==
    ASSUME TypeOK, Busy, Room, [Next]_vars
    PROVE  TypeOK'
<1>1. ASSUME NEW k \in Keys, KeyDown(k) PROVE TypeOK'
  BY <1>1, KeyType
<1>2. ASSUME NEW k \in Combo, KeyUp(k) PROVE TypeOK'
  BY <1>2 DEF TypeOK, KeyUp, input, output
<1>3. ASSUME NEW len \in Lengths, Read(len) PROVE TypeOK'
  BY <1>3, TerminalAssumption DEF TypeOK, Read, ScanStart, At, PCs, Reading, output
<1>4. ASSUME NEW buf \in Messages, Write(buf) PROVE TypeOK'
  <2>1. buf \in Seq(Bytes) /\ <<>> \in Seq(Bytes \cup {Backspace})
    BY <1>4, EmptySeq, TerminalAssumption
  <2> QED
    BY <1>4, <2>1, TerminalAssumption DEF TypeOK, Write, At, PCs, Writing, input
<1>5. ASSUME Scan PROVE TypeOK'
  BY <1>5, TerminalAssumption DEF TypeOK, Scan, ScanStart, Wrap, At, PCs, Reading, input, output
<1>16. ASSUME Turn PROVE TypeOK'
  <2>1. in_start' \in 0 .. InSize - 1
    BY <1>16, TerminalAssumption DEF TypeOK, Turn, Wrap
  <2> QED
    BY <1>16, <2>1, TerminalAssumption DEF TypeOK, Turn, PCs, Reading, output
<1>6. ASSUME Copy PROVE TypeOK'
  <2>1. in_start \in 0 .. InSize - 1 /\ left > 0
    BY <1>6, TerminalAssumption DEF TypeOK, Copy, At
  <2>2. delivered' \in Seq(Bytes)
    BY <1>6, <2>1, AppendProperties DEF TypeOK, Copy
  <2> QED
    BY <1>6, <2>1, <2>2, TerminalAssumption DEF TypeOK, Copy, PCs, Reading, output
<1>7. ASSUME Advance PROVE TypeOK'
  BY <1>7, TerminalAssumption DEF TypeOK, Advance, At, PCs, Reading, output
<1>8. ASSUME ReadReturns PROVE TypeOK'
  BY <1>8, TerminalAssumption DEF TypeOK, ReadReturns, At, PCs, output
<1>9. ASSUME Put PROVE TypeOK'
  BY <1>9, TerminalAssumption DEF TypeOK, Put, Full, At, PCs, Writing, input, output
<1>10. ASSUME Store PROVE TypeOK'
  <2>1. Head(todo) \in Bytes
    BY <1>10, HeadTailProperties DEF TypeOK, Store, At, Busy, Writing
  <2> QED
    BY <1>10, <2>1, TerminalAssumption DEF TypeOK, Store, At, PCs, Writing, input
<1>11. ASSUME Load PROVE TypeOK'
  BY <1>11, TerminalAssumption DEF TypeOK, Room, Load, At, PCs, Writing, input, output
<1>12. ASSUME Bump PROVE TypeOK'
  <2>1. Tail(todo) \in Seq(Bytes)
    BY <1>12, HeadTailProperties DEF TypeOK, Bump, At, Busy, Writing
  <2> QED
    BY <1>12, <2>1, TerminalAssumption DEF TypeOK, Bump, At, PCs, Writing, input
<1>13. ASSUME Flush PROVE TypeOK'
  <2>1. Wrap(i, OutSize) \in 0 .. OutSize - 1
    BY <1>13, TerminalAssumption DEF TypeOK, Flush, Wrap, At
  <2>2. shown' \in Seq(Bytes \cup {Backspace})
    BY <1>13, <2>1, AppendProperties DEF TypeOK, Flush
  <2> QED
    BY <1>13, <2>1, <2>2, TerminalAssumption DEF TypeOK, Flush, At, input
<1>14. ASSUME FlushReturns PROVE TypeOK'
  BY <1>14, TerminalAssumption DEF TypeOK, FlushReturns, At, PCs, Writing, input
<1>15. CASE UNCHANGED vars
  BY <1>15 DEF TypeOK, vars, input, output
<1> QED
  BY <1>1, <1>2, <1>3, <1>4, <1>5, <1>6, <1>7, <1>8, <1>9, <1>10, <1>11, <1>12, <1>13,
     <1>14, <1>15, <1>16 DEF Next, Kernel

-----------------------------------------------------------------------------
(* The input.                                                              *)

\* A key keeps the correspondence of text, buffer and what was delivered.
LEMMA KeyInput ==
    ASSUME TypeOK, InputInv, NEW k \in Keys, KeyDown(k)
    PROVE  InputInv'
<1>1. CASE Ignored
  BY <1>1, KeyCases DEF InputInv, Copied, Ignored, input
<1> SUFFICES ASSUME ~overrun' PROVE InputInv'
  BY DEF InputInv
<1>2. CASE kblayout[k] \in Bytes /\ in_end < InSize /\ TypeChar(kblayout[k])
  <2> DEFINE c == kblayout[k]
  <2>1. /\ ~overrun /\ UNCHANGED <<in_start, delivered, overrun, pc>>
        /\ text' = Append(text, c) /\ in_end' = in_end + 1
        /\ in_buffer' = [in_buffer EXCEPT ![in_end] = c]
    BY <1>2, KeyCases DEF TypeChar
  <2>2. /\ Len(text') = Len(text) + 1
        /\ \A j \in 1 .. Len(text) : text'[j] = text[j]
        /\ text'[Len(text) + 1] = c
        /\ Len(text) \in Nat /\ Len(delivered) \in Nat
    BY <1>2, <2>1, AppendProperties, LenProperties DEF TypeOK
  <2>3. \A j \in 1 .. Len(text') : in_buffer'[j - 1] = text'[j]
    <3> SUFFICES ASSUME NEW j \in 1 .. Len(text') PROVE in_buffer'[j - 1] = text'[j]
      OBVIOUS
    <3>1. Len(text) = in_end /\ in_end \in 0 .. InSize - 1 /\ InSize \in Nat
      BY <1>2, <2>1, TerminalAssumption DEF InputInv, TypeOK
    <3>2. CASE j = in_end + 1
      BY <2>1, <2>2, <3>1, <3>2 DEF TypeOK
    <3>3. CASE j \in 1 .. in_end
      <4>1. in_buffer'[j - 1] = in_buffer[j - 1]
        BY <2>1, <3>1, <3>3 DEF TypeOK
      <4>2. in_buffer[j - 1] = text[j]
        BY <2>1, <3>1, <3>3 DEF InputInv
      <4> QED
        BY <2>2, <3>1, <3>3, <4>1, <4>2
    <3> QED
      BY <2>2, <3>1, <3>2, <3>3
  <2>4. Copied' = Copied /\ Copied <= in_end /\ Len(text) = in_end /\ Len(delivered) = Copied /\ in_end \in Nat /\ Copied \in Nat
    BY <2>1, TerminalAssumption DEF TypeOK, InputInv, Copied
  <2>5. Len(text') = in_end' /\ Copied' <= in_end' /\ Len(delivered') = Copied' /\ (pc' = "take" => in_start' < in_end')
    <3>1. (pc = "take" => in_start < in_end) /\ in_start \in Nat
      BY <2>1, TerminalAssumption DEF InputInv, TypeOK
    <3> QED BY <2>1, <2>2, <2>4, <3>1
  <2>6. \A j \in 1 .. Len(delivered') : delivered'[j] = text'[j]
    <3>1. \A j \in 1 .. Len(delivered) : j \in 1 .. Len(text) /\ delivered[j] = text[j]
      BY <2>1, <2>4 DEF InputInv
    <3> QED BY <2>1, <2>2, <3>1
  <2> QED
    BY <2>3, <2>5, <2>6 DEF InputInv
<1>3. CASE in_start < in_end /\ in_end < InSize /\ Erase
  <2>1. /\ ~overrun /\ ~(pc \in {"take", "advance"} /\ in_end = in_start + 1)
        /\ UNCHANGED <<in_buffer, in_start, delivered, pc>>
        /\ in_end' = in_end - 1
        /\ text' = IF text = <<>> THEN text ELSE Front(text)
    BY <1>3, KeyCases DEF Erase
  <2>2. Len(text) = in_end /\ text # <<>> /\ Len(delivered) \in Nat
    BY <1>3, <2>1, EmptySeq, LenProperties DEF InputInv, TypeOK
  <2>3. /\ Len(text') = in_end - 1
        /\ \A j \in 1 .. in_end - 1 : text'[j] = text[j]
    BY <2>1, <2>2, FrontFacts DEF TypeOK
  <2>4. Copied' = Copied /\ Copied <= in_end - 1 /\ Len(delivered) = Copied
    BY <1>3, <2>1 DEF InputInv, Copied, TypeOK
  <2>5. in_end \in Nat
    BY TerminalAssumption DEF TypeOK
  <2>6. \A j \in 1 .. Len(text') : in_buffer'[j - 1] = text'[j]
    BY <2>1, <2>2, <2>3, <2>5 DEF InputInv
  <2>7. \A j \in 1 .. Len(delivered') : delivered'[j] = text'[j]
    BY <2>1, <2>2, <2>3, <2>4, <2>5 DEF InputInv
  <2>8. pc' = "take" => in_start' < in_end'
    BY <1>3, <2>1, TerminalAssumption DEF TypeOK
  <2> QED
    BY <2>1, <2>3, <2>4, <2>6, <2>7, <2>8 DEF InputInv
<1> QED
  BY <1>1, <1>2, <1>3, KeyCases

\* Every step keeps it.
LEMMA InputStep ==
    ASSUME TypeOK, InputInv, [Next]_vars
    PROVE  InputInv'
<1>1. ASSUME NEW k \in Keys, KeyDown(k) PROVE InputInv'
  BY <1>1, KeyInput
<1>2. ASSUME NEW k \in Combo, KeyUp(k) PROVE InputInv'
  BY <1>2 DEF InputInv, Copied, KeyUp, input
<1>3. ASSUME NEW len \in Lengths, Read(len) PROVE InputInv'
  BY <1>3 DEF InputInv, Copied, Read, At
<1>4. ASSUME NEW buf \in Messages, Write(buf) PROVE InputInv'
  BY <1>4 DEF InputInv, Copied, Write, At, input
<1>5. ASSUME Scan PROVE InputInv'
  BY <1>5 DEF InputInv, Copied, Scan, At, input
<1>11. ASSUME Turn PROVE InputInv'
  <2> SUFFICES ASSUME ~overrun PROVE InputInv'
    BY <1>11 DEF Turn, InputInv
  <2>1. in_start < in_end /\ pc = "copy" /\ Len(delivered) = in_start
    BY <1>11 DEF InputInv, Copied, Turn, At, TypeOK
  <2>2. /\ in_start' = in_start /\ pc' = "take"
        /\ UNCHANGED <<in_buffer, in_end, text, delivered, overrun>>
    BY <1>11, <2>1 DEF Turn, Wrap, TypeOK
  <2> QED
    BY <2>1, <2>2 DEF InputInv, Copied, TypeOK
<1>6. ASSUME Copy PROVE InputInv'
  <2> SUFFICES ASSUME ~overrun PROVE InputInv'
    BY <1>6 DEF Copy, InputInv
  <2>1. Len(text) = in_end /\ in_start < in_end /\ Len(delivered) = in_start
    BY <1>6 DEF InputInv, Copied, Copy, At, TypeOK
  <2>2. /\ in_start' = in_start /\ pc' = "advance"
        /\ delivered' = Append(delivered, in_buffer[in_start])
        /\ UNCHANGED <<in_buffer, in_end, text, overrun>>
    BY <1>6, <2>1 DEF Copy, TypeOK
  <2>3. in_buffer[in_start] \in Bytes /\ in_buffer[in_start] = text[in_start + 1]
    BY <2>1 DEF InputInv, TypeOK
  <2>4. /\ Len(delivered') = in_start + 1
        /\ \A j \in 1 .. in_start : delivered'[j] = delivered[j]
        /\ delivered'[in_start + 1] = text[in_start + 1]
    BY <2>1, <2>2, <2>3, AppendProperties DEF TypeOK
  <2> QED
    BY <2>1, <2>2, <2>4 DEF InputInv, Copied, TypeOK
<1>7. ASSUME Advance PROVE InputInv'
  BY <1>7 DEF InputInv, Copied, Advance, At, TypeOK
<1>8. ASSUME ReadReturns PROVE InputInv'
  BY <1>8 DEF InputInv, Copied, ReadReturns, Wrap, At, TypeOK
<1>9. ASSUME Put \/ Store \/ Load \/ Bump \/ Flush \/ FlushReturns PROVE InputInv'
  BY <1>9 DEF InputInv, Copied, Put, Store, Load, Bump, Flush, FlushReturns, At, input
<1>10. CASE UNCHANGED vars
  BY <1>10 DEF InputInv, Copied, vars, input
<1> QED
  BY <1>1, <1>2, <1>3, <1>4, <1>5, <1>6, <1>7, <1>8, <1>9, <1>10, <1>11 DEF Next, Kernel

-----------------------------------------------------------------------------
(* The output.                                                             *)

\* Outside a write the buffer is empty; a store has room and a character.
LEMMA PlaceStep ==
    ASSUME TypeOK, Idle, Room, Busy, [Next]_vars
    PROVE  Idle' /\ Room' /\ Busy'
<1>1. ASSUME NEW k \in Keys, KeyDown(k) PROVE Idle' /\ Room' /\ Busy'
  <2>1. UNCHANGED <<pc, todo>> /\ (out_end' = out_end \/ out_end' = 0)
    BY <1>1, KeyCases DEF Ignored, TypeChar, Erase, Echo, output
  <2> QED
    BY <2>1, TerminalAssumption DEF Idle, Room, Busy
<1>2. ASSUME NEW k \in Combo, KeyUp(k) PROVE Idle' /\ Room' /\ Busy'
  BY <1>2 DEF Idle, Room, Busy, KeyUp, output
<1>3. ASSUME NEW len \in Lengths, Read(len) PROVE Idle' /\ Room' /\ Busy'
  BY <1>3 DEF Idle, Room, Busy, Read, At, Writing, output
<1>4. ASSUME NEW buf \in Messages, Write(buf) PROVE Idle' /\ Room' /\ Busy'
  BY <1>4 DEF Idle, Room, Busy, Write, At, Writing
<1>5. ASSUME Scan \/ Turn \/ Copy \/ Advance \/ ReadReturns PROVE Idle' /\ Room' /\ Busy'
  BY <1>5 DEF Idle, Room, Busy, Scan, Turn, Copy, Advance, ReadReturns, At, Writing, output
<1>6. ASSUME Put PROVE Idle' /\ Room' /\ Busy'
  BY <1>6, TerminalAssumption DEF TypeOK, Idle, Room, Busy, Put, Full, At, Writing, output
<1>7. ASSUME Store \/ Load PROVE Idle' /\ Room' /\ Busy'
  BY <1>7 DEF Idle, Room, Busy, Store, Load, At, Writing, output
<1>8. ASSUME Bump PROVE Idle' /\ Room' /\ Busy'
  BY <1>8 DEF Idle, Room, Busy, Bump, At, Writing
<1>9. ASSUME Flush PROVE Idle' /\ Room' /\ Busy'
  BY <1>9 DEF Idle, Room, Busy, Flush, At, Writing
<1>10. ASSUME FlushReturns PROVE Idle' /\ Room' /\ Busy'
  BY <1>10, TerminalAssumption DEF Idle, Room, Busy, FlushReturns, At, Writing
<1>11. CASE UNCHANGED vars
  BY <1>11 DEF Idle, Room, Busy, vars, output
<1> QED
  BY <1>1, <1>2, <1>3, <1>4, <1>5, <1>6, <1>7, <1>8, <1>9, <1>10, <1>11 DEF Next, Kernel

\* A key during a write is a clash, and at any other time changes nothing that counts.
LEMMA KeyOutput ==
    ASSUME TypeOK, OutputInv, NEW k \in Keys, KeyDown(k)
    PROVE  OutputInv'
<1>1. CASE Ignored
  BY <1>1, KeyCases DEF OutputInv, Parts, Base, Ignored, output
<1>2. CASE \E c \in Bytes \cup {Backspace} : Echo(c)
  <2>1. UNCHANGED <<pc, message, shown>> /\ (~clash' => ~clash /\ pc \notin Writing)
    BY <1>2, KeyCases DEF Echo
  <2> QED
    BY <2>1 DEF OutputInv, Writing
<1> QED
  BY <1>1, <1>2, KeyCases DEF TypeChar, Erase

\* Every step keeps the order of what is shown, buffered and left to do.
LEMMA OutputStep ==
    ASSUME TypeOK, Idle, Room, Busy, OutputInv, [Next]_vars
    PROVE  OutputInv'
<1>1. ASSUME NEW k \in Keys, KeyDown(k) PROVE OutputInv'
  BY <1>1, KeyOutput
<1>2. ASSUME NEW k \in Combo, KeyUp(k) PROVE OutputInv'
  BY <1>2 DEF OutputInv, Parts, Base, KeyUp, output
<1>3. ASSUME NEW len \in Lengths, Read(len) PROVE OutputInv'
  BY <1>3 DEF OutputInv, Read, At, Writing, output
<1>4. ASSUME NEW buf \in Messages, Write(buf) PROVE OutputInv'
  <2>1. buf \in Seq(Bytes) /\ Len(buf) \in Nat
    BY TerminalAssumption, LenProperties
  <2>2. pc' = "put" /\ todo' = buf /\ message' = buf /\ shown' = <<>> /\ out_end' = 0
    BY <1>4 DEF Write, At, Idle, Writing
  <2>3. Base' = 0 /\ Len(shown') = 0
    BY <2>2 DEF Base
  <2>4. Parts'
    BY <2>1, <2>2, <2>3 DEF Parts
  <2> QED
    BY <2>2, <2>4 DEF OutputInv, Writing
<1>5. ASSUME Scan \/ Turn \/ Copy \/ Advance \/ ReadReturns PROVE OutputInv'
  BY <1>5 DEF OutputInv, Scan, Turn, Copy, Advance, ReadReturns, At, Writing, output
<1> SUFFICES ASSUME ~clash, pc \in Writing, Parts,
                    Put \/ Store \/ Load \/ Bump \/ Flush \/ FlushReturns
             PROVE  OutputInv'
  <2>1. CASE UNCHANGED vars
    BY <2>1 DEF OutputInv, Parts, Base, vars, output
  <2>2. ASSUME clash, Put \/ Store \/ Load \/ Bump \/ Flush \/ FlushReturns PROVE OutputInv'
    BY <2>2 DEF OutputInv, Put, Store, Load, Bump, Flush, FlushReturns, output
  <2>3. ASSUME Put \/ Store \/ Load \/ Bump \/ Flush \/ FlushReturns PROVE pc \in Writing
    BY <2>3 DEF Put, Store, Load, Bump, Flush, FlushReturns, At, Writing
  <2> QED
    BY <1>1, <1>2, <1>3, <1>4, <1>5, <2>1, <2>2, <2>3 DEF Next, Kernel, OutputInv
<1>0. /\ Len(shown) \in Nat /\ Len(todo) \in Nat /\ Len(message) \in Nat
      /\ out_end \in 0 .. OutSize /\ OutSize \in Nat \ {0} /\ i \in Nat
  BY LenProperties, TerminalAssumption DEF TypeOK
<1>6. CASE Put
  <2>1. UNCHANGED output /\ Base' = Len(shown) /\ Base = Len(shown) /\ pc' \in Writing
    BY <1>0, <1>6 DEF Put, At, Base, Writing, output
  <2>2. Parts'
    BY <2>1 DEF Parts, output
  <2> QED
    BY <1>0, <1>6, <2>1, <2>2 DEF OutputInv, Put, Full, At, Writing, output
<1>7. CASE Store
  <2>1. /\ pc = "store" /\ pc' = "load" /\ i = out_end /\ out_end < OutSize /\ todo # <<>>
        /\ out_buffer' = [out_buffer EXCEPT ![out_end] = todo[1]]
        /\ UNCHANGED <<out_end, todo, message, shown, clash>>
    BY <1>7 DEF Store, At, OutputInv, Room, Busy, Writing
  <2>2. /\ Base' = Base
        /\ out_buffer'[out_end] = todo[1]
        /\ \A k \in 0 .. out_end - 1 : out_buffer'[k] = out_buffer[k]
    BY <1>0, <2>1 DEF Base, TypeOK
  <2>3. Parts'
    BY <1>0, <2>1, <2>2 DEF Parts
  <2> QED
    BY <2>1, <2>2, <2>3 DEF OutputInv, Writing
<1>8. CASE Load
  <2>1. /\ pc = "load" /\ pc' = "bump" /\ i' = out_end /\ UNCHANGED output
        /\ out_buffer[out_end] = todo[1]
    BY <1>8 DEF Load, At, OutputInv
  <2>2. Base' = Base
    BY <2>1 DEF Base, output
  <2>3. Parts'
    BY <2>1, <2>2 DEF Parts, output
  <2> QED
    BY <2>1, <2>3 DEF OutputInv, Writing, output
<1>9. CASE Bump
  <2>1. /\ pc = "bump" /\ pc' = "put" /\ out_end' = out_end + 1 /\ todo' = Tail(todo)
        /\ todo # <<>> /\ out_buffer[out_end] = todo[1]
        /\ UNCHANGED <<out_buffer, message, shown, clash>>
    BY <1>9 DEF Bump, At, OutputInv, Busy, Writing
  <2>2. /\ Len(todo') = Len(todo) - 1
        /\ \A k \in 1 .. Len(todo') : todo'[k] = todo[k + 1]
    BY <2>1, HeadTailProperties DEF TypeOK
  <2>3. Base' = Base /\ Len(todo) >= 1
    BY <1>0, <2>1, EmptySeq DEF Base, TypeOK
  <2>4. \A k \in 0 .. out_end' - 1 : out_buffer'[k] = message'[Base' + k + 1]
    BY <1>0, <2>1, <2>3 DEF Parts
  <2>5. \A k \in 1 .. Len(todo') : todo'[k] = message'[Base' + out_end' + k]
    <3> SUFFICES ASSUME NEW k \in 1 .. Len(todo') PROVE todo'[k] = message[Base + (out_end + 1) + k]
      BY <2>1, <2>3
    <3>1. k + 1 \in 1 .. Len(todo) /\ Base \in Int
      BY <1>0, <2>2 DEF Base
    <3>2. todo[k + 1] = message[Base + out_end + (k + 1)]
      BY <3>1 DEF Parts
    <3>3. Base + out_end + (k + 1) = Base + (out_end + 1) + k
      BY <1>0, <3>1
    <3> QED
      BY <2>2, <3>2, <3>3
  <2>6. Len(message') = Base' + out_end' + Len(todo')
    <3>1. Base \in Int /\ Len(message) = Base + out_end + Len(todo)
      BY <1>0 DEF Parts, Base
    <3> QED
      BY <1>0, <2>1, <2>2, <2>3, <3>1
  <2> QED
    BY <2>1, <2>3, <2>4, <2>5, <2>6 DEF OutputInv, Parts, Writing
<1>10. CASE Flush
  <2>1. i < out_end
    BY <1>0, <1>10 DEF Flush, At, OutputInv
  <2>2. /\ pc' = pc /\ pc \in {"flush", "flush_last"} /\ i' = i + 1
        /\ shown' = Append(shown, out_buffer[i])
        /\ UNCHANGED <<out_buffer, out_end, todo, message, clash>>
    BY <1>0, <1>10, <2>1 DEF Flush, At, Wrap
  <2>3. out_buffer[i] \in Bytes \cup {Backspace}
    BY <1>0, <2>1 DEF TypeOK
  <2>4. /\ Len(shown') = Len(shown) + 1
        /\ \A k \in 1 .. Len(shown) : shown'[k] = shown[k]
        /\ shown'[Len(shown) + 1] = out_buffer[i]
    BY <2>2, <2>3, AppendProperties DEF TypeOK
  <2>5. Base' = Base /\ Base = Len(shown) - i
    BY <1>0, <2>2, <2>4 DEF Base
  <2>6. out_buffer[i] = message[Len(shown) + 1]
    <3>1. out_buffer[i] = message[Base + i + 1] /\ Base + i + 1 = Len(shown) + 1
      BY <1>0, <2>1, <2>5 DEF Parts
    <3> QED
      BY <3>1
  <2>7. \A k \in 1 .. Len(shown') : shown'[k] = message'[k]
    BY <1>0, <2>2, <2>4, <2>6 DEF Parts
  <2>8. Parts'
    BY <1>0, <2>2, <2>5, <2>7 DEF Parts
  <2> QED
    BY <1>0, <2>1, <2>2, <2>8 DEF OutputInv, Writing
<1>11. CASE FlushReturns
  <2>1. /\ pc \in {"flush", "flush_last"} /\ i = out_end /\ out_end' = 0 /\ i' = 0
        /\ pc' = IF pc = "flush" THEN "store" ELSE "user"
        /\ UNCHANGED <<out_buffer, todo, message, shown, clash>>
    BY <1>11 DEF FlushReturns, At
  <2>2. Base + out_end = Len(shown)
    BY <1>0, <2>1 DEF Base
  <2>3. CASE pc = "flush"
    <3>1. Base' = Len(shown) /\ pc' = "store"
      BY <2>1, <2>3 DEF Base
    <3>2. Parts'
      BY <1>0, <2>1, <2>2, <3>1 DEF Parts
    <3> QED
      BY <2>1, <3>1, <3>2 DEF OutputInv, Writing
  <2>4. CASE pc = "flush_last"
    <3>1. pc' = "user" /\ todo = <<>>
      BY <2>1, <2>4 DEF OutputInv
    <3>2. Len(todo) = 0
      BY <3>1
    <3>3. Len(shown) = Len(message) /\ \A k \in 1 .. Len(shown) : shown[k] = message[k]
      BY <1>0, <2>2, <3>2 DEF Parts
    <3>4. message \in Seq(Bytes \cup {Backspace}) /\ shown \in Seq(Bytes \cup {Backspace})
      BY SeqMonotonic DEF TypeOK
    <3>5. shown = message
      BY <3>3, <3>4, SeqEqual
    <3> QED
      BY <2>1, <3>1, <3>5 DEF OutputInv, Writing
  <2> QED
    BY <2>1, <2>3, <2>4
<1> QED
  BY <1>6, <1>7, <1>8, <1>9, <1>10, <1>11

-----------------------------------------------------------------------------
(* The theorems.                                                           *)

\* IInv holds initially and after every step.
THEOREM Invariant == Spec => []IInv
<1>1. Init => IInv
  <2> SUFFICES ASSUME Init PROVE IInv
    OBVIOUS
  <2>1. <<>> \in Seq(Bytes) /\ <<>> \in Seq(Bytes \cup {Backspace}) /\ Len(<<>>) = 0
    BY EmptySeq
  <2>2. TypeOK
    BY <2>1, TerminalAssumption DEF Init, TypeOK, PCs
  <2>5. /\ pc = "user" /\ in_start = 0 /\ in_end = 0 /\ out_end = 0
        /\ text = <<>> /\ delivered = <<>> /\ shown = <<>> /\ message = <<>>
    BY DEF Init
  <2>6. Len(text) = 0 /\ Len(delivered) = 0
    BY <2>1, <2>5, Zenon
  <2>3. InputInv
    BY <2>5, <2>6 DEF InputInv, Copied
  <2>4. Idle /\ Room /\ Busy /\ OutputInv
    BY <2>5, TerminalAssumption DEF Idle, Room, Busy, OutputInv, Writing
  <2> QED
    BY <2>2, <2>3, <2>4 DEF IInv
<1>2. IInv /\ [Next]_vars => IInv'
  BY TypeStep, InputStep, PlaceStep, OutputStep DEF IInv
<1> QED
  BY <1>1, <1>2, PTL DEF Spec

\* No index leaves its buffer, whenever the keyboard interrupts a call.
THEOREM TypeCorrect == Spec => []TypeOK
<1>1. IInv => TypeOK
  BY DEF IInv
<1> QED
  BY <1>1, Invariant, PTL

\* read returns what was typed, once and in order, for a buffer of any size.
THEOREM InputStaysExact == Spec => []InputIsExact
<1>1. IInv => InputIsExact
  BY DEF IInv, InputInv, InputIsExact
<1> QED
  BY <1>1, Invariant, PTL

\* write shows what it was given, for a buffer and a message of any size.
THEOREM OutputStaysExact == Spec => []WrittenIsShown
<1>1. IInv => WrittenIsShown
  BY DEF IInv, OutputInv, WrittenIsShown, Writing
<1> QED
  BY <1>1, Invariant, PTL
-----------------------------------------------------------------------------
(* The screen.                                                             *)

LEMMA Edges ==
    /\ Width \in Nat \ {0} /\ Height \in Nat \ {0} /\ TabStop \in Nat \ {0}
    /\ Width * Height \in Nat
    /\ Width * Height = Height * Width
    /\ (Height - 1) * Width = Height * Width - Width
    /\ Width * (Height - 1) = Height * Width - Width
<1>1. Width \in Nat \ {0} /\ Height \in Nat \ {0} /\ TabStop \in Nat \ {0}
  BY ScreenAssumption
<1> QED BY <1>1, Z3

\* The row and the column of a place on the tape.
LEMMA RowOfPlace ==
    ASSUME NEW w \in Nat \ {0}, NEW q \in Nat, NEW r \in 0 .. w - 1
    PROVE  (q * w + r) \div w = q /\ (q * w + r) % w = r
<1> DEFINE a == q * w + r
           p == a \div w
           s == a % w
<1>1. a \in Nat
  BY Z3
<1>2. p \in Int /\ s \in 0 .. w - 1 /\ a = p * w + s
  BY <1>1, Z3
<1>3. a = q * w + r
  OBVIOUS
<1> HIDE DEF a, p, s
<1>4. CASE p < q
  <2>1. q * w = p * w + (q - p) * w /\ (q - p) * w >= w /\ p * w \in Int
    BY <1>2, <1>4, Z3
  <2> QED BY <1>2, <1>3, <2>1
<1>5. CASE q < p
  <2>1. p * w = q * w + (p - q) * w /\ (p - q) * w >= w /\ q * w \in Int
    BY <1>2, <1>5, Z3
  <2> QED BY <1>2, <1>3, <2>1
<1>6. CASE p = q
  <2>1. q * w \in Int
    BY Z3
  <2> QED BY <1>2, <1>3, <1>6, <2>1 DEF a, p, s
<1> QED BY <1>2, <1>4, <1>5, <1>6

\* The cells f show the tape t from o on, as far as it was written.
Shows(f, o, t) == \A p \in Cells : o + p \in DOMAIN t => Shown(f[p], t[o + p])

\* The first place of the tape that is shown.
Origin == Top * Width

ScreenTypes ==
    /\ place \in Int /\ bottom \in Int /\ bottom >= Height - 1
    /\ pos_x \in Int /\ pos_y \in Int

\* The cursor is on the screen or at the begin of the row below it.
CursorIn ==
    /\ pos_x \in 0 .. Width - 1 /\ pos_y \in 0 .. Height
    /\ pos_y = Height => pos_x = 0
    /\ place = Origin + pos_y * Width + pos_x

ShowsText == Shows(text_buffer, Origin, tape) /\ Shows(fb, Origin, tape)

ScreenInv == ScreenTypes /\ (~astray => CursorIn /\ ShowsText)

LEMMA InvShows == ScreenInv => ScreenIsText
<1> SUFFICES ASSUME ScreenInv, ~astray PROVE ScreenIsText
  BY DEF ScreenIsText
<1>1. pos_y \in Int /\ pos_x \in Int /\ Top \in Int /\ Width \in Int
  BY Edges DEF ScreenInv, ScreenTypes, Top
<1>2. pos_y * Width \in Int /\ Top * Width \in Int
  BY <1>1
<1>3. pos_y * Width + pos_x = place - Top * Width
  BY <1>1, <1>2 DEF ScreenInv, CursorIn, Origin
<1>4. Shows(text_buffer, Top * Width, tape) /\ Shows(fb, Top * Width, tape)
  BY DEF ScreenInv, ShowsText, Origin
<1> QED BY <1>3, <1>4 DEF ScreenIsText, Shows

\* The cells that are written show the character that is meant, one from 0x80
\* on less its colour or its shape.
LEMMA CellShows ==
    ASSUME NEW c
    PROVE  Shown(Cell(c), Meant(c)) /\ Shown(Glyph(c), Meant(c))
BY DEF Shown, Cell, Glyph, Meant

LEMMA SpaceShows == Shown(Cell(Space), Meant(Space)) /\ Shown(Glyph(Space), Meant(Space))
BY CellShows DEF Space

\* What is written to the cells from u on and to the tape from o + u on.
LEMMA WriteShows ==
    ASSUME NEW f, NEW t, NEW o \in Int, NEW u \in Int, NEW n \in Int, NEW cell, NEW meant, NEW S,
           \A p \in Cells : o + p \in S <=> p \in u .. u + n - 1, Shows(f, o, t), Shown(cell, meant)
    PROVE  Shows(Written(f, u, n, cell), o, Over([p \in S |-> meant], t))
<1> SUFFICES ASSUME NEW p \in Cells, o + p \in S \cup DOMAIN t
             PROVE  Shown(Written(f, u, n, cell)[p], Over([q \in S |-> meant], t)[o + p])
  BY DEF Shows, Over
<1>1. Written(f, u, n, cell)[p] = IF p \in u .. u + n - 1 THEN cell ELSE f[p]
  BY DEF Written
<1>2. Over([q \in S |-> meant], t)[o + p] = IF o + p \in S THEN meant ELSE t[o + p]
  BY DEF Over
<1> QED BY <1>1, <1>2 DEF Shows

\* A scroll clears the row that comes into sight.
LEMMA ScrollShows ==
    ASSUME NEW f, NEW t, NEW o \in Int, NEW row \in Int, row * Width = o + Height * Width, Shows(f, o, t)
    PROVE  Shows(Scrolled(f), o + Width, Over(RowOf(row, Nothing), t))
<1>0. /\ Width \in Nat \ {0} /\ Height * Width \in Nat
      /\ Cells = 0 .. Height * Width - 1
      /\ Width * (Height - 1) = Height * Width - Width
  BY Edges DEF Cells
<1> DEFINE B == Height * Width
           R == row * Width .. row * Width + Width - 1
<1>1. B \in Nat /\ Cells = 0 .. B - 1 /\ R = o + B .. o + B + Width - 1
  BY <1>0
<1>2. RowOf(row, Nothing) = [p \in R |-> Nothing]
  BY DEF RowOf
<1>3. \A p \in Cells : Scrolled(f)[p] = IF p < B - Width THEN f[p + Width] ELSE Nothing
  BY <1>0 DEF Scrolled
<1> HIDE DEF B, R
<1> SUFFICES ASSUME NEW p \in Cells, (o + Width) + p \in R \cup DOMAIN t
             PROVE  Shown(Scrolled(f)[p], Over(RowOf(row, Nothing), t)[(o + Width) + p])
  BY <1>2 DEF Shows, Over
<1>4. Over(RowOf(row, Nothing), t)[(o + Width) + p] =
          IF (o + Width) + p \in R THEN Nothing ELSE t[(o + Width) + p]
  BY <1>2 DEF Over
<1>5. CASE p < B - Width
  <2>1. (o + Width) + p \notin R /\ p + Width \in Cells /\ o + (p + Width) = (o + Width) + p
    BY <1>0, <1>1, <1>5
  <2> QED BY <1>3, <1>4, <1>5, <2>1 DEF Shows
<1>6. CASE ~(p < B - Width)
  <2>1. (o + Width) + p \in R
    BY <1>0, <1>1, <1>6
  <2> QED BY <1>3, <1>4, <1>6, <2>1 DEF Shown
<1> QED BY <1>5, <1>6

\* Nothing more is written.
LEMMA EmptyShows ==
    ASSUME NEW f, NEW o, NEW t, Shows(f, o, t)
    PROVE  Shows(f, o, Over([p \in {} |-> Nothing], t))
  BY DEF Shows, Over

\* Where the cursor is in numbers.
LEMMA Cursor ==
    ASSUME ScreenTypes, CursorIn
    PROVE  /\ Top \in Nat /\ Origin \in Int /\ pos_y * Width \in Int
           /\ place \div Width = Top + pos_y /\ place % Width = pos_x
           /\ (Top + pos_y) * Width = Origin + pos_y * Width
           /\ (Top + pos_y + 1) * Width = Origin + pos_y * Width + Width
           /\ (Top + 1) * Width = Origin + Width
           /\ (pos_y + 1) * Width = pos_y * Width + Width
           /\ (pos_y - 1) * Width = pos_y * Width - Width
           /\ pos_y < Height => pos_y * Width \in 0 .. Height * Width - Width
           /\ pos_y = Height => pos_y * Width = Height * Width
<1>0. Width \in Nat \ {0} /\ Height \in Nat \ {0}
  BY Edges
<1>1. Top \in Nat /\ pos_y \in Nat /\ pos_x \in 0 .. Width - 1 /\ pos_y <= Height
  BY <1>0 DEF Top, ScreenTypes, CursorIn
<1>2. /\ Top * Width \in Int /\ pos_y * Width \in Int
      /\ (Top + pos_y) * Width = Top * Width + pos_y * Width
      /\ (Top + pos_y + 1) * Width = Top * Width + pos_y * Width + Width
      /\ (Top + 1) * Width = Top * Width + Width
      /\ (pos_y + 1) * Width = pos_y * Width + Width
      /\ (pos_y - 1) * Width = pos_y * Width - Width
  BY <1>0, <1>1, Z3
<1>3. place = (Top + pos_y) * Width + pos_x
  BY <1>2 DEF CursorIn, Origin
<1>4. place \div Width = Top + pos_y /\ place % Width = pos_x
  BY <1>0, <1>1, <1>3, RowOfPlace
<1>5. ASSUME pos_y < Height PROVE pos_y * Width \in 0 .. Height * Width - Width
  <2> DEFINE d == Height - pos_y - 1
  <2>1. d \in Nat /\ Height = pos_y + 1 + d
    BY <1>0, <1>1, <1>5
  <2> HIDE DEF d
  <2>2. (pos_y + 1 + d) * Width = pos_y * Width + Width + d * Width /\ d * Width \in Nat /\ pos_y * Width \in Nat
    BY <1>0, <1>1, <2>1, Z3
  <2>3. Height * Width = pos_y * Width + Width + d * Width
    BY <2>1, <2>2
  <2> QED BY <1>0, <2>2, <2>3
<1>6. Origin = Top * Width
  BY DEF Origin
<1>7. /\ Origin \in Int
      /\ (Top + pos_y) * Width = Origin + pos_y * Width
      /\ (Top + pos_y + 1) * Width = Origin + pos_y * Width + Width
      /\ (Top + 1) * Width = Origin + Width
  BY <1>2, <1>6
<1> QED BY <1>1, <1>2, <1>4, <1>5, <1>7

LEMMA ScreenStarts == ScreenInit => ScreenInv
<1> SUFFICES ASSUME ScreenInit PROVE ScreenInv
  OBVIOUS
<1>1. Top = 0 /\ Origin = 0 /\ 0 * Width = 0
  BY Edges DEF ScreenInit, Top, Origin
<1>2. ScreenTypes /\ CursorIn
  BY <1>1, Edges DEF ScreenInit, ScreenTypes, CursorIn
<1>3. ShowsText
  BY DEF ScreenInit, ShowsText, Shows
<1> QED BY <1>2, <1>3 DEF ScreenInv

\* tty_gotoxy keeps the cursor or puts it on the screen.
LEMMA GoTo ==
    ASSUME NEW x1 \in Int, NEW y1 \in Int, x1 >= -Width, y1 >= -Height, gotoxy(x1, y1), ScreenTypes
    PROVE  LET xy == Resolved(x1, y1)
           IN  /\ xy[1] \in Nat /\ xy[2] \in Nat
               /\ OnScreen(xy) => /\ pos_x' = xy[1] /\ pos_x' \in 0 .. Width - 1
                                  /\ pos_y' = xy[2] /\ pos_y' \in 0 .. Height - 1
               /\ ~OnScreen(xy) => pos_x' = pos_x /\ pos_y' = pos_y
<1>0. Width \in Nat /\ Height \in Nat
  BY Edges
<1>1. Resolved(x1, y1)[1] \in Nat /\ Resolved(x1, y1)[2] \in Nat
  BY <1>0 DEF Resolved
<1> QED BY <1>0, <1>1 DEF gotoxy, OnScreen

\* From x1, y1 on the screen.
LEMMA GoToCell ==
    ASSUME NEW x1 \in 0 .. Width - 1, NEW y1 \in 0 .. Height - 1, gotoxy(x1, y1)
    PROVE  pos_x' = x1 /\ pos_y' = y1
<1>0. Width \in Nat /\ Height \in Nat
  BY Edges
<1> QED BY <1>0 DEF gotoxy, OnScreen, Resolved

\* A step that leaves bottom alone leaves the origin.
LEMMA OriginStays == bottom' = bottom => Origin' = Origin /\ Top' = Top
  BY DEF Origin, Top

LEMMA PutStep ==
    ASSUME ScreenInv, NEW c, PutChar(c)
    PROVE  ScreenInv'
<1> DEFINE full == pos_y * Width + pos_x = Width * Height
           px == IF full THEN 0 ELSE pos_x
           py == IF full THEN Height - 1 ELSE pos_y
           u == py * Width + px
           Drawn(cells, cell) == Written(IF full THEN Scrolled(cells) ELSE cells, u, 1, cell)
           row == place \div Width
           W == [p \in {place} |-> Meant(c)]
<1>1. /\ text_buffer' = Drawn(text_buffer, Cell(c)) /\ fb' = Drawn(fb, Glyph(c))
      /\ pos_x' = IF px + 1 = Width THEN 0 ELSE px + 1
      /\ pos_y' = IF px + 1 = Width THEN py + 1 ELSE py
      /\ ShowRow(row, W) /\ place' = place + 1 /\ astray' = astray
  BY DEF PutChar
<1>0. Width \in Nat \ {0} /\ Height \in Nat \ {0}
  BY Edges
<1>2. ScreenTypes'
  <2>1. row \in Int
    BY <1>0 DEF ScreenInv, ScreenTypes
  <2>2. (bottom' = row /\ row > bottom) \/ bottom' = bottom
    BY <1>1 DEF ShowRow
  <2>3. bottom' \in Int /\ bottom' >= Height - 1 /\ place' \in Int
    BY <1>0, <1>1, <2>1, <2>2 DEF ScreenInv, ScreenTypes
  <2>4. px \in Int /\ py \in Int
    BY <1>0 DEF ScreenInv, ScreenTypes
  <2> HIDE DEF px, py
  <2>5. pos_x' \in Int /\ pos_y' \in Int
    BY <1>0, <1>1, <2>4
  <2> QED BY <2>3, <2>5 DEF ScreenTypes
<1>3. ASSUME ~astray PROVE CursorIn' /\ ShowsText'
  <2>0. ScreenTypes /\ CursorIn /\ ShowsText
    BY <1>3 DEF ScreenInv
  <2>1. /\ Top \in Nat /\ Origin \in Int /\ pos_y * Width \in Int /\ row = Top + pos_y
        /\ (Top + pos_y) * Width = Origin + pos_y * Width
        /\ (Top + 1) * Width = Origin + Width
        /\ (pos_y + 1) * Width = pos_y * Width + Width
        /\ pos_y < Height => pos_y * Width \in 0 .. Height * Width - Width
        /\ pos_y = Height => pos_y * Width = Height * Width
    BY <2>0, Cursor
  <2>2. /\ pos_x \in 0 .. Width - 1 /\ pos_y \in 0 .. Height /\ (pos_y = Height => pos_x = 0)
        /\ place = Origin + pos_y * Width + pos_x
    BY <2>0 DEF CursorIn
  <2>3. /\ Width * Height = Height * Width /\ Height * Width \in Nat
        /\ (Height - 1) * Width = Height * Width - Width
    BY Edges
  <2>4. Top = bottom - Height + 1 /\ bottom \in Int
    BY <2>0 DEF Top, ScreenTypes
  <2>5. CASE pos_y < Height
    <3>1. ~full
      BY <1>0, <2>1, <2>2, <2>3, <2>5
    <3>2. px = pos_x /\ py = pos_y /\ u = pos_y * Width + pos_x
      BY <3>1
    <3>3. bottom' = bottom /\ tape' = Over(W, tape)
      BY <1>0, <1>1, <2>1, <2>2, <2>4, <2>5 DEF ShowRow
    <3>4. Origin' = Origin
      BY <3>3, OriginStays
    <3>5. u \in Int /\ place = Origin + u
      BY <1>0, <2>1, <2>2, <3>2
    <3>6. text_buffer' = Written(text_buffer, u, 1, Cell(c)) /\ fb' = Written(fb, u, 1, Glyph(c))
      BY <1>1, <3>1
    <3> HIDE DEF u, full
    <3>7. \A p \in Cells : Origin + p \in {place} <=> p \in u .. u + 1 - 1
      BY <2>1, <3>5, Edges DEF Cells
    <3>8. ShowsText'
      BY <2>0, <2>1, <3>3, <3>4, <3>5, <3>6, <3>7, CellShows, WriteShows DEF ShowsText
    <3>9. /\ pos_x' = IF pos_x + 1 = Width THEN 0 ELSE pos_x + 1
          /\ pos_y' = IF pos_x + 1 = Width THEN pos_y + 1 ELSE pos_y
      BY <1>1, <3>2
    <3>10. pos_y' * Width + pos_x' = pos_y * Width + pos_x + 1
      <4>1. CASE pos_x + 1 = Width
        BY <1>0, <2>1, <2>2, <3>9, <4>1
      <4>2. CASE pos_x + 1 # Width
        BY <1>0, <2>1, <2>2, <3>9, <4>2
      <4> QED BY <4>1, <4>2
    <3>11. /\ pos_x' \in 0 .. Width - 1 /\ pos_y' \in 0 .. Height
           /\ (pos_y' = Height => pos_x' = 0) /\ pos_y' * Width \in Int
      BY <1>0, <2>1, <2>2, <2>5, <3>9
    <3>12. place' = Origin' + pos_y' * Width + pos_x'
      BY <1>1, <2>1, <2>2, <3>4, <3>10, <3>11
    <3> QED BY <3>8, <3>11, <3>12 DEF CursorIn
  <2>6. CASE pos_y = Height
    <3>1. full /\ pos_x = 0
      BY <2>1, <2>2, <2>3, <2>6
    <3>2. px = 0 /\ py = Height - 1 /\ u = Height * Width - Width
      BY <2>3, <3>1, <1>0
    <3>3. bottom' = row /\ tape' = Over(W, Over(RowOf(row, Nothing), tape)) /\ row = bottom + 1
      BY <1>0, <1>1, <2>1, <2>2, <2>4, <2>6 DEF ShowRow
    <3>4. Top' = Top + 1
      BY <1>0, <2>4, <3>3 DEF Top
    <3>5. Origin' = Origin + Width
      BY <2>1, <3>4 DEF Origin
    <3>6. u \in Int /\ place = (Origin + Width) + u /\ Origin + Width \in Int
      BY <1>0, <2>1, <2>2, <2>3, <2>6, <3>1, <3>2
    <3>7. row \in Int /\ row * Width = Origin + Height * Width
      BY <2>1, <2>2, <2>6
    <3>8. text_buffer' = Written(Scrolled(text_buffer), u, 1, Cell(c)) /\ fb' = Written(Scrolled(fb), u, 1, Glyph(c))
      BY <1>1, <3>1
    <3> HIDE DEF px, py
    <3>9. px + 1 = 1 /\ py + 1 = Height /\ py = Height - 1
      BY <1>0, <3>2
    <3>10. /\ pos_x' = IF 1 = Width THEN 0 ELSE 1
           /\ pos_y' = IF 1 = Width THEN Height ELSE Height - 1
      BY <1>1, <3>9
    <3> HIDE DEF u, full, row
    <3>11. \A p \in Cells : (Origin + Width) + p \in {place} <=> p \in u .. u + 1 - 1
      BY <3>6, Edges DEF Cells
    <3>12. /\ Shows(Scrolled(text_buffer), Origin + Width, Over(RowOf(row, Nothing), tape))
           /\ Shows(Scrolled(fb), Origin + Width, Over(RowOf(row, Nothing), tape))
      BY <2>0, <2>1, <3>7, ScrollShows DEF ShowsText
    <3>13. ShowsText'
      BY <3>3, <3>5, <3>6, <3>8, <3>11, <3>12, CellShows, WriteShows DEF ShowsText
    <3>14. pos_y' * Width + pos_x' = Height * Width - Width + 1
      <4>1. CASE Width = 1
        BY <1>0, <2>3, <3>10, <4>1
      <4>2. CASE Width # 1
        BY <1>0, <2>3, <3>10, <4>2
      <4> QED BY <4>1, <4>2
    <3>15. /\ pos_x' \in 0 .. Width - 1 /\ pos_y' \in 0 .. Height
           /\ (pos_y' = Height => pos_x' = 0) /\ pos_y' * Width \in Int
      BY <1>0, <3>10
    <3>16. place' = Origin' + pos_y' * Width + pos_x'
      BY <1>0, <1>1, <2>1, <2>3, <3>2, <3>5, <3>6, <3>14, <3>15
    <3> QED BY <3>13, <3>15, <3>16 DEF CursorIn
  <2> QED BY <1>0, <2>2, <2>5, <2>6
<1> QED BY <1>1, <1>2, <1>3 DEF ScreenInv

LEMMA BackSpaceStep ==
    ASSUME ScreenInv, BackSpace
    PROVE  ScreenInv'
<1>1. /\ ~(pos_x = 0 /\ pos_y = 0)
      /\ pos_x' = IF pos_x = 0 THEN Width - 1 ELSE pos_x - 1
      /\ pos_y' = IF pos_x = 0 THEN pos_y - 1 ELSE pos_y
      /\ text_buffer' = Written(text_buffer, pos_y' * Width + pos_x', 1, Cell(Space))
      /\ fb' = Written(fb, pos_y' * Width + pos_x', 1, Glyph(Space))
      /\ place' = place - 1 /\ tape' = Over([p \in {place - 1} |-> Meant(Space)], tape)
      /\ bottom' = bottom /\ astray' = astray
  BY DEF BackSpace
<1>0. Width \in Nat \ {0} /\ Height \in Nat \ {0}
  BY Edges
<1>2. ScreenTypes'
  BY <1>0, <1>1 DEF ScreenInv, ScreenTypes
<1>3. ASSUME ~astray PROVE CursorIn' /\ ShowsText'
  <2>0. ScreenTypes /\ CursorIn /\ ShowsText
    BY <1>3 DEF ScreenInv
  <2>1. /\ Origin \in Int /\ pos_y * Width \in Int /\ (pos_y - 1) * Width = pos_y * Width - Width
    BY <2>0, Cursor
  <2>2. /\ pos_x \in 0 .. Width - 1 /\ pos_y \in 0 .. Height /\ (pos_y = Height => pos_x = 0)
        /\ place = Origin + pos_y * Width + pos_x
    BY <2>0 DEF CursorIn
  <2>3. Origin' = Origin
    BY <1>1, OriginStays
  <2>4. pos_y' * Width + pos_x' = pos_y * Width + pos_x - 1 /\ pos_y' * Width \in Int
    <3>1. CASE pos_x = 0
      BY <1>0, <1>1, <2>1, <2>2, <3>1
    <3>2. CASE pos_x # 0
      BY <1>0, <1>1, <2>1, <2>2, <3>2
    <3> QED BY <3>1, <3>2
  <2>5. pos_x' \in 0 .. Width - 1 /\ pos_y' \in 0 .. Height /\ (pos_y' = Height => pos_x' = 0)
    BY <1>0, <1>1, <2>2
  <2>6. place' = Origin' + pos_y' * Width + pos_x'
    BY <1>1, <2>1, <2>2, <2>3, <2>4, <2>5
  <2>7. PICK u : u = pos_y' * Width + pos_x'
    OBVIOUS
  <2>8. u \in Int /\ place - 1 = Origin + u
    BY <1>1, <2>1, <2>2, <2>4, <2>5, <2>7
  <2>9. \A p \in Cells : Origin + p \in {place - 1} <=> p \in u .. u + 1 - 1
    BY <2>1, <2>8, Edges DEF Cells
  <2>10. ShowsText'
    BY <1>1, <2>0, <2>1, <2>3, <2>7, <2>8, <2>9, SpaceShows, WriteShows DEF ShowsText
  <2> QED BY <2>5, <2>6, <2>10 DEF CursorIn
<1> QED BY <1>1, <1>2, <1>3 DEF ScreenInv

LEMMA TabStep ==
    ASSUME ScreenInv, Tab
    PROVE  ScreenInv'
<1> DEFINE room == IF pos_x < Width THEN Width - pos_x ELSE 0
           stop == TabStop - (pos_x % TabStop)
           n == IF stop < room THEN stop ELSE room
           u == pos_y * Width + pos_x
<1>1. /\ pos_x' = pos_x + n /\ pos_y' = pos_y
      /\ text_buffer' = Written(text_buffer, u, n, Cell(Space)) /\ fb' = Written(fb, u, n, Glyph(Space))
      /\ astray' = (astray \/ pos_x' >= Width \/ pos_y = Height)
      /\ place' = place + n /\ tape' = Over([p \in place .. place + n - 1 |-> Meant(Space)], tape)
      /\ bottom' = bottom
  BY DEF Tab
<1>0. Width \in Nat \ {0} /\ Height \in Nat \ {0} /\ TabStop \in Nat \ {0}
  BY Edges
<1>2. n \in Nat
  <2>1. pos_x \in Int
    BY DEF ScreenInv, ScreenTypes
  <2>2. stop \in Nat
    <3>1. pos_x % TabStop \in 0 .. TabStop - 1
      BY <1>0, <2>1, Z3
    <3> QED BY <1>0, <3>1
  <2> HIDE DEF stop
  <2> QED BY <1>0, <2>1, <2>2
<1> HIDE DEF n
<1>3. ScreenTypes'
  BY <1>1, <1>2 DEF ScreenInv, ScreenTypes
<1>4. ASSUME ~astray' PROVE CursorIn' /\ ShowsText'
  <2>0. ~astray /\ pos_x' < Width /\ pos_y # Height
    <3>1. ~astray /\ ~(pos_x' >= Width) /\ pos_y # Height
      BY <1>1, <1>4, Zenon
    <3>2. pos_x' \in Int
      BY <1>3 DEF ScreenTypes
    <3> QED BY <1>0, <3>1, <3>2
  <2>1. ScreenTypes /\ CursorIn /\ ShowsText
    BY <2>0 DEF ScreenInv
  <2>2. Origin \in Int /\ pos_y * Width \in Int
    BY <2>1, Cursor
  <2>3. pos_x \in 0 .. Width - 1 /\ pos_y \in 0 .. Height /\ place = Origin + pos_y * Width + pos_x
    BY <2>1 DEF CursorIn
  <2>4. Origin' = Origin
    BY <1>1, OriginStays
  <2>5. u \in Int /\ place = Origin + u
    BY <1>0, <2>2, <2>3
  <2>6. CursorIn'
    BY <1>0, <1>1, <1>2, <2>0, <2>2, <2>3, <2>4 DEF CursorIn
  <2> HIDE DEF u
  <2>7. \A p \in Cells : Origin + p \in place .. place + n - 1 <=> p \in u .. u + n - 1
    BY <1>2, <2>2, <2>5, Edges DEF Cells
  <2>8. ShowsText'
    BY <1>1, <1>2, <2>1, <2>2, <2>4, <2>5, <2>7, SpaceShows, WriteShows DEF ShowsText
  <2> QED BY <2>6, <2>8
<1> QED BY <1>3, <1>4 DEF ScreenInv

LEMMA ReturnStep ==
    ASSUME ScreenInv, Return
    PROVE  ScreenInv'
<1>1. /\ gotoxy(0, pos_y) /\ place' = place - (place % Width)
      /\ UNCHANGED <<text_buffer, fb, tape, bottom, astray>>
  BY DEF Return
<1>0. Width \in Nat \ {0} /\ Height \in Nat \ {0}
  BY Edges
<1>2. ScreenTypes'
  <2>1. pos_x' \in Int /\ pos_y' \in Int
    BY <1>0, <1>1 DEF gotoxy, Resolved, ScreenInv, ScreenTypes
  <2>2. place' \in Int
    BY <1>0, <1>1 DEF ScreenInv, ScreenTypes
  <2> QED BY <1>1, <2>1, <2>2 DEF ScreenInv, ScreenTypes
<1>3. ASSUME ~astray PROVE CursorIn' /\ ShowsText'
  <2>0. ScreenTypes /\ CursorIn /\ ShowsText
    BY <1>3 DEF ScreenInv
  <2>1. Origin \in Int /\ pos_y * Width \in Int /\ place % Width = pos_x
    BY <2>0, Cursor
  <2>2. /\ pos_x \in 0 .. Width - 1 /\ pos_y \in 0 .. Height /\ (pos_y = Height => pos_x = 0)
        /\ place = Origin + pos_y * Width + pos_x
    BY <2>0 DEF CursorIn
  <2>3. Origin' = Origin
    BY <1>1, OriginStays
  <2>4. pos_x' = 0 /\ pos_y' = pos_y
    <3>1. CASE pos_y < Height
      <4>1. 0 \in 0 .. Width - 1 /\ pos_y \in 0 .. Height - 1
        BY <1>0, <2>2, <3>1
      <4> QED BY <1>1, <4>1, GoToCell
    <3>2. CASE pos_y = Height
      BY <1>0, <1>1, <2>2, <3>2 DEF gotoxy, Resolved, OnScreen
    <3> QED BY <1>0, <2>2, <3>1, <3>2
  <2>5. place' = Origin' + pos_y' * Width + pos_x'
    BY <1>1, <2>1, <2>2, <2>3, <2>4
  <2>6. CursorIn'
    BY <1>0, <2>2, <2>4, <2>5 DEF CursorIn
  <2>7. ShowsText'
    BY <1>1, <2>0, <2>3 DEF ShowsText
  <2> QED BY <2>6, <2>7
<1> QED BY <1>1, <1>2, <1>3 DEF ScreenInv

LEMMA NewLineStep ==
    ASSUME ScreenInv, NewLine
    PROVE  ScreenInv'
<1> DEFINE row == place \div Width
           E == [p \in {} |-> Nothing]
<1>1. /\ IF pos_y + 1 = Height
         THEN /\ text_buffer' = Scrolled(text_buffer) /\ fb' = Scrolled(fb)
              /\ gotoxy(0, Height - 1)
         ELSE gotoxy(0, pos_y + 1) /\ UNCHANGED <<text_buffer, fb>>
      /\ IF row > bottom THEN UNCHANGED <<place, tape, bottom>>
         ELSE place' = (row + 1) * Width /\ ShowRow(row + 1, E)
      /\ astray' = astray
  BY DEF NewLine
<1>0. Width \in Nat \ {0} /\ Height \in Nat \ {0}
  BY Edges
<1>2. ScreenTypes'
  <2>0. ScreenTypes
    BY DEF ScreenInv
  <2>1. row \in Int
    BY <1>0, <2>0 DEF ScreenTypes
  <2>2. pos_x' \in Int /\ pos_y' \in Int
    <3>1. pos_y + 1 \in Int /\ Height - 1 \in Int
      BY <1>0, <2>0 DEF ScreenTypes
    <3>2. ASSUME NEW y1 \in Int, gotoxy(0, y1) PROVE pos_x' \in Int /\ pos_y' \in Int
      BY <1>0, <2>0, <3>2 DEF gotoxy, Resolved, ScreenTypes
    <3> QED BY <1>1, <3>1, <3>2
  <2>3. place' \in Int /\ bottom' \in Int /\ bottom' >= Height - 1
    <3> HIDE DEF row
    <3>1. CASE row > bottom
      BY <1>1, <2>0, <3>1 DEF ScreenTypes
    <3>2. CASE ~(row > bottom)
      BY <1>0, <1>1, <2>0, <2>1, <3>2 DEF ScreenTypes, ShowRow
    <3> QED BY <3>1, <3>2
  <2> QED BY <2>2, <2>3 DEF ScreenTypes
<1>3. ASSUME ~astray PROVE CursorIn' /\ ShowsText'
  <2>0. ScreenTypes /\ CursorIn /\ ShowsText
    BY <1>3 DEF ScreenInv
  <2>1. /\ Top \in Nat /\ Origin \in Int /\ pos_y * Width \in Int /\ row = Top + pos_y
        /\ (Top + pos_y) * Width = Origin + pos_y * Width
        /\ (Top + pos_y + 1) * Width = Origin + pos_y * Width + Width
        /\ (Top + 1) * Width = Origin + Width
        /\ (pos_y + 1) * Width = pos_y * Width + Width
    BY <2>0, Cursor
  <2>2. /\ pos_x \in 0 .. Width - 1 /\ pos_y \in 0 .. Height /\ (pos_y = Height => pos_x = 0)
        /\ place = Origin + pos_y * Width + pos_x
    BY <2>0 DEF CursorIn
  <2>3. Height * Width \in Nat /\ (Height - 1) * Width = Height * Width - Width
    BY Edges
  <2>4. Top = bottom - Height + 1 /\ bottom \in Int
    BY <2>0 DEF Top, ScreenTypes
  <2> HIDE DEF row
  <2>5. CASE pos_y + 1 < Height
    <3>1. /\ gotoxy(0, pos_y + 1) /\ UNCHANGED <<text_buffer, fb>>
          /\ place' = (row + 1) * Width /\ ShowRow(row + 1, E)
      BY <1>0, <1>1, <2>1, <2>2, <2>4, <2>5
    <3>2. bottom' = bottom /\ tape' = Over(E, tape)
      BY <1>0, <2>1, <2>2, <2>4, <2>5, <3>1 DEF ShowRow
    <3>3. Origin' = Origin
      BY <3>2, OriginStays
    <3>4. 0 \in 0 .. Width - 1 /\ pos_y + 1 \in 0 .. Height - 1
      BY <1>0, <2>2, <2>5
    <3>5. pos_x' = 0 /\ pos_y' = pos_y + 1
      BY <3>1, <3>4, GoToCell
    <3>6. place' = Origin' + pos_y' * Width + pos_x'
      BY <1>0, <2>1, <3>1, <3>3, <3>5
    <3>7. CursorIn'
      BY <1>0, <2>2, <2>5, <3>5, <3>6 DEF CursorIn
    <3>8. ShowsText'
      BY <2>0, <3>1, <3>2, <3>3, EmptyShows DEF ShowsText
    <3> QED BY <3>7, <3>8
  <2>6. CASE pos_y + 1 = Height
    <3>1. /\ text_buffer' = Scrolled(text_buffer) /\ fb' = Scrolled(fb) /\ gotoxy(0, Height - 1)
          /\ place' = (row + 1) * Width /\ ShowRow(row + 1, E)
      BY <1>0, <1>1, <2>1, <2>2, <2>4, <2>6
    <3>2. bottom' = row + 1 /\ tape' = Over(E, Over(RowOf(row + 1, Nothing), tape)) /\ row = bottom
      BY <1>0, <2>1, <2>2, <2>4, <2>6, <3>1 DEF ShowRow
    <3>3. Top' = Top + 1
      BY <1>0, <2>4, <3>2 DEF Top
    <3>4. Origin' = Origin + Width
      BY <2>1, <3>3 DEF Origin
    <3>5. 0 \in 0 .. Width - 1 /\ Height - 1 \in 0 .. Height - 1
      BY <1>0
    <3>6. pos_x' = 0 /\ pos_y' = Height - 1
      BY <3>1, <3>5, GoToCell
    <3>7. row + 1 \in Int /\ (row + 1) * Width = Origin + Height * Width
      BY <1>0, <2>1, <2>2, <2>6
    <3>8. place' = Origin' + pos_y' * Width + pos_x'
      BY <1>0, <2>1, <2>3, <3>1, <3>4, <3>6, <3>7
    <3>9. CursorIn'
      BY <1>0, <3>6, <3>8 DEF CursorIn
    <3>10. /\ Shows(Scrolled(text_buffer), Origin + Width, Over(RowOf(row + 1, Nothing), tape))
           /\ Shows(Scrolled(fb), Origin + Width, Over(RowOf(row + 1, Nothing), tape))
      BY <2>0, <2>1, <3>7, ScrollShows DEF ShowsText
    <3>11. ShowsText'
      BY <3>1, <3>2, <3>4, <3>10, EmptyShows DEF ShowsText
    <3> QED BY <3>9, <3>11
  <2>7. CASE pos_y = Height
    <3>1. gotoxy(0, pos_y + 1) /\ UNCHANGED <<text_buffer, fb, place, tape, bottom>>
      BY <1>0, <1>1, <2>1, <2>2, <2>4, <2>7
    <3>2. UNCHANGED <<pos_x, pos_y>>
      BY <1>0, <2>7, <3>1 DEF gotoxy, Resolved, OnScreen
    <3>3. Origin' = Origin
      BY <3>1, OriginStays
    <3>4. CursorIn'
      BY <2>0, <3>1, <3>2, <3>3 DEF CursorIn
    <3>5. ShowsText'
      BY <2>0, <3>1, <3>3 DEF ShowsText
    <3> QED BY <3>4, <3>5
  <2> QED BY <1>0, <2>2, <2>5, <2>6, <2>7
<1> QED BY <1>1, <1>2, <1>3 DEF ScreenInv

LEMMA ClearStep ==
    ASSUME ScreenInv, tty_clear
    PROVE  ScreenInv'
<1>1. /\ text_buffer' = Written(text_buffer, 0, Width * Height, Cell(Space))
      /\ fb' = Written(fb, 0, Width * Height, Glyph(Space))
      /\ gotoxy(0, 0)
      /\ tape' = Over([p \in Top * Width .. Top * Width + Width * Height - 1 |-> Meant(Space)], tape)
      /\ place' = Top * Width /\ bottom' = bottom
  BY DEF tty_clear
<1>0. Width \in Nat \ {0} /\ Height \in Nat \ {0} /\ Width * Height \in Nat
  BY Edges
<1>2. 0 \in 0 .. Width - 1 /\ 0 \in 0 .. Height - 1
  BY <1>0
<1>3. pos_x' = 0 /\ pos_y' = 0
  BY <1>1, <1>2, GoToCell
<1>4. Top \in Int /\ bottom \in Int /\ bottom >= Height - 1
  BY <1>0 DEF Top, ScreenInv, ScreenTypes
<1>5. Origin \in Int /\ Origin = Top * Width /\ Origin' = Origin
  BY <1>0, <1>1, <1>4, OriginStays DEF Origin
<1>6. ScreenTypes' /\ CursorIn'
  <2>1. 0 * Width = 0
    BY <1>0
  <2> QED BY <1>0, <1>1, <1>3, <1>4, <1>5, <2>1 DEF ScreenTypes, CursorIn
<1>7. ASSUME NEW f, NEW cell, Shown(cell, Meant(Space))
      PROVE  Shows(Written(f, 0, Width * Height, cell), Origin, tape')
  <2> DEFINE B == Width * Height
             S == Origin .. Origin + B - 1
  <2>1. \A p \in Cells : p \in 0 .. B - 1 /\ p \in 0 .. 0 + B - 1 /\ Origin + p \in S
    BY <1>0, <1>5 DEF Cells
  <2>2. tape' = Over([p \in S |-> Meant(Space)], tape)
    BY <1>1, <1>5
  <2> HIDE DEF B, S
  <2>3. \A p \in Cells : tape'[Origin + p] = Meant(Space)
    BY <2>1, <2>2 DEF Over
  <2>4. \A p \in Cells : Written(f, 0, B, cell)[p] = cell
    BY <2>1 DEF Written
  <2>5. Shows(Written(f, 0, B, cell), Origin, tape')
    BY <1>7, <2>3, <2>4 DEF Shows
  <2> QED BY <2>5 DEF B
<1>8. ShowsText'
  BY <1>1, <1>5, <1>7, SpaceShows DEF ShowsText
<1> QED BY <1>6, <1>8 DEF ScreenInv

LEMMA GoToStep ==
    ASSUME ScreenInv, tty_gotoxy
    PROVE  ScreenInv'
<1>1. PICK xy \in Places :
          /\ gotoxy(xy[1], xy[2])
          /\ place' = IF OnScreen(Resolved(xy[1], xy[2]))
                      THEN (Top + Resolved(xy[1], xy[2])[2]) * Width + Resolved(xy[1], xy[2])[1] ELSE place
  BY DEF tty_gotoxy
<1>2. UNCHANGED <<text_buffer, fb, tape, bottom, astray>>
  BY DEF tty_gotoxy
<1>0. Width \in Nat \ {0} /\ Height \in Nat \ {0}
  BY Edges
<1>3. xy[1] \in Int /\ xy[2] \in Int /\ xy[1] >= -Width /\ xy[2] >= -Height
  BY ScreenAssumption
<1>4. ScreenTypes
  BY DEF ScreenInv
<1> DEFINE r == Resolved(xy[1], xy[2])
<1>5. /\ r[1] \in Nat /\ r[2] \in Nat
      /\ OnScreen(r) => /\ pos_x' = r[1] /\ pos_x' \in 0 .. Width - 1
                        /\ pos_y' = r[2] /\ pos_y' \in 0 .. Height - 1
      /\ ~OnScreen(r) => pos_x' = pos_x /\ pos_y' = pos_y
  BY <1>1, <1>3, <1>4, GoTo
<1>6. place' = IF OnScreen(r) THEN (Top + r[2]) * Width + r[1] ELSE place
  BY <1>1
<1>7. Origin' = Origin
  BY <1>2, OriginStays
<1> HIDE DEF r
<1>8. CASE OnScreen(r)
  <2>1. Top \in Int /\ pos_y' \in Int
    BY <1>0, <1>4, <1>5, <1>8 DEF Top, ScreenTypes
  <2>2. place' = (Top + pos_y') * Width + pos_x'
    BY <1>5, <1>6, <1>8
  <2>3. PICK y1 \in Int : y1 = pos_y'
    BY <2>1
  <2>4. (Top + y1) * Width = Top * Width + y1 * Width /\ Top * Width \in Int /\ y1 * Width \in Int
    BY <1>0, <2>1, Z3
  <2>5. place' = Origin' + pos_y' * Width + pos_x' /\ place' \in Int
    BY <1>0, <1>5, <1>7, <1>8, <2>2, <2>3, <2>4 DEF Origin
  <2>6. ScreenTypes' /\ CursorIn'
    BY <1>0, <1>2, <1>4, <1>5, <1>8, <2>5 DEF ScreenTypes, CursorIn
  <2>7. ~astray => ShowsText'
    BY <1>2, <1>7 DEF ScreenInv, ShowsText
  <2> QED BY <1>2, <2>6, <2>7 DEF ScreenInv
<1>9. CASE ~OnScreen(r)
  <2>1. UNCHANGED <<pos_x, pos_y, place>>
    BY <1>5, <1>6, <1>9
  <2> QED BY <1>2, <1>7, <2>1 DEF ScreenInv, ScreenTypes, CursorIn, ShowsText
<1> QED BY <1>8, <1>9

LEMMA ScreenSteps == ScreenInv /\ [ScreenNext]_screenvars => ScreenInv'
<1> SUFFICES ASSUME ScreenInv, [ScreenNext]_screenvars PROVE ScreenInv'
  OBVIOUS
<1>1. CASE tty_setcolor \/ UNCHANGED screenvars
  <2>1. UNCHANGED <<text_buffer, fb, pos_x, pos_y, tape, place, bottom, astray>>
    BY <1>1 DEF tty_setcolor, screenvars
  <2>2. Origin' = Origin
    BY <2>1, OriginStays
  <2> QED BY <2>1, <2>2 DEF ScreenInv, ScreenTypes, CursorIn, ShowsText
<1> QED BY <1>1, PutStep, BackSpaceStep, TabStep, ReturnStep, NewLineStep, ClearStep, GoToStep DEF ScreenNext

\* For a screen of any size, whatever is written in whatever order: until a tab leaves
\* its row, memory and screen show the last rows of the text, each character up to 0x7F
\* in its colour, and the cursor is where the next character goes.
THEOREM ScreenShowsText == ScreenSpec => []ScreenIsText
  BY InvShows, ScreenStarts, ScreenSteps, PTL DEF ScreenSpec

-----------------------------------------------------------------------------
(* Numbers and sequences.                                                  *)

\* A set of natural numbers has a least one.
LEMMA LeastNumber ==
    ASSUME NEW S, S \subseteq Nat, S # {}
    PROVE  \E m \in S : \A k \in 0 .. m - 1 : k \notin S
<1>1. IsWellFoundedOn(OpToRel(<, Nat), Nat)
  BY NatLessThanWellFounded
<1>2. PICK m \in S : \A k \in S : ~(<<k, m>> \in OpToRel(<, Nat))
  BY <1>1, WFMin
<1>3. ASSUME NEW k \in 0 .. m - 1 PROVE k \notin S
  <2>1. k \in Nat /\ m \in Nat /\ k < m
    BY <1>3
  <2> QED BY <1>2, <2>1 DEF OpToRel
<1> QED BY <1>3

\* Induction from above: a set that has a number below N when it has all larger ones.
LEMMA Downwards ==
    ASSUME NEW N \in Nat, NEW S, \A b \in 0 .. N - 1 : (\A c \in b + 1 .. N - 1 : c \in S) => b \in S
    PROVE  \A b \in 0 .. N - 1 : b \in S
<1> DEFINE Bad == {k \in 0 .. N - 1 : N - 1 - k \notin S}
<1>0. Bad \subseteq Nat
  OBVIOUS
<1>1. ASSUME Bad # {} PROVE FALSE
  <2>1. PICK m \in Bad : \A k \in 0 .. m - 1 : k \notin Bad
    <3> HIDE DEF Bad
    <3> QED BY <1>0, <1>1, LeastNumber
  <2>2. m \in 0 .. N - 1 /\ N - 1 - m \in 0 .. N - 1 /\ N - 1 - m \notin S
    BY <2>1
  <2>3. ASSUME NEW c \in N - 1 - m + 1 .. N - 1 PROVE c \in S
    <3>1. N - 1 - c \in 0 .. m - 1 /\ N - 1 - c \in 0 .. N - 1 /\ N - 1 - (N - 1 - c) = c
      BY <2>2
    <3> QED BY <2>1, <3>1
  <2> QED BY <2>2, <2>3
<1>2. ASSUME NEW b \in 0 .. N - 1 PROVE b \in S
  <2>1. N - 1 - b \in 0 .. N - 1 /\ N - 1 - (N - 1 - b) = b
    OBVIOUS
  <2> QED BY <1>1, <2>1
<1> QED BY <1>2

\* Two sequences without a repetition and without a common element.
LEMMA JoinedOnce ==
    ASSUME NEW S, NEW s \in Seq(S), NEW t \in Seq(S)
    PROVE  /\ s \o t \in Seq(S)
           /\ ToSet(s \o t) = ToSet(s) \cup ToSet(t)
           /\ IsInjective(s) /\ IsInjective(t) /\ ToSet(s) \cap ToSet(t) = {} => IsInjective(s \o t)
<1>1. /\ s \o t \in Seq(S) /\ Len(s \o t) = Len(s) + Len(t) /\ Len(s) \in Nat /\ Len(t) \in Nat
      /\ DOMAIN (s \o t) = 1 .. Len(s) + Len(t) /\ DOMAIN s = 1 .. Len(s) /\ DOMAIN t = 1 .. Len(t)
      /\ \A k \in 1 .. Len(s) : (s \o t)[k] = s[k]
      /\ \A k \in 1 .. Len(t) : (s \o t)[Len(s) + k] = t[k]
  OBVIOUS
<1>2. ASSUME NEW k \in 1 .. Len(s) + Len(t), k \notin 1 .. Len(s)
      PROVE  k - Len(s) \in 1 .. Len(t) /\ (s \o t)[k] = t[k - Len(s)]
  <2>1. k - Len(s) \in 1 .. Len(t) /\ Len(s) + (k - Len(s)) = k
    BY <1>1, <1>2
  <2> QED BY <1>1, <2>1
<1> DEFINE st == s \o t
<1> HIDE DEF st
<1>3. ToSet(st) \subseteq ToSet(s) \cup ToSet(t)
  <2>1. ASSUME NEW k \in DOMAIN st PROVE st[k] \in ToSet(s) \cup ToSet(t)
    BY <1>1, <1>2 DEF ToSet, st
  <2> QED BY <2>1 DEF ToSet
<1>4. ToSet(s) \subseteq ToSet(st)
  <2>1. ASSUME NEW k \in DOMAIN s PROVE s[k] \in ToSet(st)
    BY <1>1 DEF ToSet, st
  <2> QED BY <2>1 DEF ToSet
<1>5. ToSet(t) \subseteq ToSet(st)
  <2>1. ASSUME NEW k \in DOMAIN t PROVE t[k] \in ToSet(st)
    <3>1. Len(s) + k \in DOMAIN st /\ st[Len(s) + k] = t[k]
      BY <1>1 DEF st
    <3> QED BY <3>1 DEF ToSet
  <2> QED BY <2>1 DEF ToSet
<1>6. ASSUME IsInjective(s), IsInjective(t), ToSet(s) \cap ToSet(t) = {} PROVE IsInjective(st)
  <2> SUFFICES ASSUME NEW a \in DOMAIN st, NEW b \in DOMAIN st, st[a] = st[b] PROVE a = b
    BY DEF IsInjective
  <2>0. a \in 1 .. Len(s) + Len(t) /\ b \in 1 .. Len(s) + Len(t)
    BY <1>1 DEF st
  <2>1. CASE a \in 1 .. Len(s) /\ b \in 1 .. Len(s)
    BY <1>1, <1>6, <2>1 DEF IsInjective, st
  <2>2. CASE a \notin 1 .. Len(s) /\ b \notin 1 .. Len(s)
    <3>1. a - Len(s) \in DOMAIN t /\ b - Len(s) \in DOMAIN t /\ t[a - Len(s)] = t[b - Len(s)]
      BY <1>1, <1>2, <2>0, <2>2 DEF st
    <3>2. a - Len(s) = b - Len(s)
      BY <1>6, <3>1 DEF IsInjective
    <3> QED BY <1>1, <2>0, <3>2
  <2>3. CASE a \in 1 .. Len(s) /\ b \notin 1 .. Len(s)
    <3>1. st[a] \in ToSet(s)
      BY <1>1, <2>3 DEF ToSet, st
    <3>2. st[b] \in ToSet(t)
      BY <1>1, <1>2, <2>0, <2>3 DEF ToSet, st
    <3> QED BY <1>6, <3>1, <3>2
  <2>4. CASE a \notin 1 .. Len(s) /\ b \in 1 .. Len(s)
    <3>1. st[b] \in ToSet(s)
      BY <1>1, <2>4 DEF ToSet, st
    <3>2. st[a] \in ToSet(t)
      BY <1>1, <1>2, <2>0, <2>4 DEF ToSet, st
    <3> QED BY <1>6, <3>1, <3>2
  <2> QED BY <2>1, <2>2, <2>3, <2>4
<1> QED BY <1>1, <1>3, <1>4, <1>5, <1>6 DEF st

\* FlattenSeq joins the sequences one after the other.
Flat(ss) == LET flatten[k \in 1 .. Len(ss)] == IF k = 1 THEN ss[k] ELSE flatten[k - 1] \o ss[k] IN flatten

LEMMA FlatRecursion ==
    ASSUME NEW ss, Len(ss) \in Nat \ {0}
    PROVE  /\ FlattenSeq(ss) = Flat(ss)[Len(ss)]
           /\ Flat(ss) = [k \in 1 .. Len(ss) |-> IF k = 1 THEN ss[k] ELSE Flat(ss)[k - 1] \o ss[k]]
<1> DEFINE Body(w, n) == [k \in 1 .. n |-> IF k = 1 THEN ss[k] ELSE w[k - 1] \o ss[k]]
           Bad == {n \in Nat : ~\E w : w = Body(w, n)}
<1>1. ASSUME Bad # {} PROVE FALSE
  <2>1. PICK m \in Bad : \A k \in 0 .. m - 1 : k \notin Bad
    BY <1>1, LeastNumber
  <2>2. m \in Nat /\ ~\E w : w = Body(w, m)
    BY <2>1
  <2>3. CASE m = 0
    <3> DEFINE v == [k \in 1 .. 0 |-> ss]
    <3>1. v = Body(v, m)
      BY <2>3
    <3> QED BY <2>2, <3>1
  <2>4. CASE m # 0
    <3>1. m - 1 \in Nat /\ m - 1 \in 0 .. m - 1
      BY <2>2, <2>4
    <3>2. PICK w : w = Body(w, m - 1)
      BY <2>1, <3>1
    <3> DEFINE v == [k \in 1 .. m |-> IF k = m THEN (IF m = 1 THEN ss[m] ELSE w[m - 1] \o ss[m]) ELSE w[k]]
    <3>3. ASSUME NEW k \in 1 .. m PROVE v[k] = IF k = 1 THEN ss[k] ELSE v[k - 1] \o ss[k]
      <4>1. CASE k = m /\ m = 1
        BY <4>1
      <4>2. CASE k = m /\ m # 1
        <5>1. m - 1 \in 1 .. m /\ m - 1 # m
          BY <2>2, <2>4, <4>2
        <5>2. v[m - 1] = w[m - 1]
          BY <5>1
        <5> QED BY <4>2, <5>2
      <4>3. CASE k # m
        <5>1. k \in 1 .. m - 1
          BY <2>2, <4>3
        <5>2. w[k] = IF k = 1 THEN ss[k] ELSE w[k - 1] \o ss[k]
          BY <3>2, <5>1
        <5>3. k # 1 => k - 1 \in 1 .. m /\ k - 1 # m
          BY <2>2, <5>1
        <5> QED BY <4>3, <5>2, <5>3
      <4> QED BY <4>1, <4>2, <4>3
    <3>4. v = Body(v, m)
      BY <3>3
    <3> QED BY <2>2, <3>4
  <2> QED BY <2>3, <2>4
<1>2. \E w : w = Body(w, Len(ss))
  BY <1>1
<1>3. Flat(ss) = [k \in 1 .. Len(ss) |-> IF k = 1 THEN ss[k] ELSE Flat(ss)[k - 1] \o ss[k]]
  BY <1>2 DEF Flat
<1>4. FlattenSeq(ss) = Flat(ss)[Len(ss)]
  BY DEF FlattenSeq, Flat
<1> QED BY <1>3, <1>4

LEMMA FlatIs ==
    ASSUME NEW S, NEW ss \in Seq(Seq(S))
    PROVE  /\ FlattenSeq(ss) \in Seq(S)
           /\ ToSet(FlattenSeq(ss)) = UNION {ToSet(ss[k]) : k \in 1 .. Len(ss)}
           /\ /\ \A k \in 1 .. Len(ss) : IsInjective(ss[k])
              /\ \A j, k \in 1 .. Len(ss) : j # k => ToSet(ss[j]) \cap ToSet(ss[k]) = {}
              => IsInjective(FlattenSeq(ss))
<1> DEFINE L == Len(ss)
           All(n) == UNION {ToSet(ss[k]) : k \in 1 .. n}
           Once == /\ \A k \in 1 .. L : IsInjective(ss[k])
                   /\ \A j, k \in 1 .. L : j # k => ToSet(ss[j]) \cap ToSet(ss[k]) = {}
           w == Flat(ss)
           Ok(n) == w[n] \in Seq(S) /\ ToSet(w[n]) = All(n) /\ (Once => IsInjective(w[n]))
<1>0. L \in Nat /\ \A k \in 1 .. L : ss[k] \in Seq(S)
  OBVIOUS
<1>1. CASE L = 0
  <2>1. ss = <<>>
    BY <1>1
  <2>2. FlattenSeq(ss) = ss
    BY <1>1 DEF FlattenSeq
  <2>3. ToSet(ss) = {} /\ IsInjective(ss) /\ ss \in Seq(S)
    BY <2>1 DEF ToSet, IsInjective
  <2>4. All(L) = {}
    BY <1>1
  <2> QED BY <2>2, <2>3, <2>4
<1>2. CASE L # 0
  <2>1. /\ FlattenSeq(ss) = w[L]
        /\ w = [k \in 1 .. L |-> IF k = 1 THEN ss[k] ELSE w[k - 1] \o ss[k]]
    BY <1>0, <1>2, FlatRecursion
  <2> HIDE DEF w, L
  <2> DEFINE Bad == {n \in 1 .. L : ~Ok(n)}
  <2>2. ASSUME Bad # {} PROVE FALSE
    <3>0. Bad \subseteq Nat
      BY <1>0
    <3> HIDE DEF Bad
    <3>1. PICK m \in Bad : \A k \in 0 .. m - 1 : k \notin Bad
      BY <2>2, <3>0, LeastNumber
    <3> USE DEF Bad
    <3>2. m \in 1 .. L /\ ~Ok(m) /\ ss[m] \in Seq(S)
      BY <1>0, <3>1
    <3>3. CASE m = 1
      <4>1. w[m] = ss[m]
        BY <2>1, <3>2, <3>3
      <4>2. All(m) = ToSet(ss[m])
        BY <3>3
      <4>3. Once => IsInjective(ss[m])
        BY <3>2
      <4> QED BY <3>2, <4>1, <4>2, <4>3
    <3>4. CASE m # 1
      <4>1. m - 1 \in 1 .. L /\ m - 1 \in 0 .. m - 1 /\ m - 1 \in Nat
        BY <1>0, <3>2, <3>4
      <4>2. Ok(m - 1)
        BY <3>1, <4>1
      <4>3. w[m] = w[m - 1] \o ss[m]
        BY <2>1, <3>2, <3>4
      <4>4. All(m) = All(m - 1) \cup ToSet(ss[m])
        <5>1. 1 .. m = (1 .. m - 1) \cup {m}
          BY <3>2, <1>0
        <5> QED BY <5>1
      <4>5. ASSUME Once PROVE All(m - 1) \cap ToSet(ss[m]) = {} /\ IsInjective(ss[m])
        <5>1. \A k \in 1 .. m - 1 : k \in 1 .. L /\ k # m
          BY <1>0, <3>2
        <5> QED BY <3>2, <4>5, <5>1
      <4> DEFINE u == w[m - 1]
                 t == ss[m]
      <4>6. /\ u \o t \in Seq(S) /\ ToSet(u \o t) = ToSet(u) \cup ToSet(t)
            /\ IsInjective(u) /\ IsInjective(t) /\ ToSet(u) \cap ToSet(t) = {} => IsInjective(u \o t)
        BY <3>2, <4>2, JoinedOnce
      <4> HIDE DEF All, Once
      <4>7. Ok(m)
        BY <4>2, <4>3, <4>4, <4>5, <4>6
      <4> QED BY <3>2, <4>7
    <3> QED BY <3>3, <3>4
  <2>3. Ok(L)
    <3>1. L \in 1 .. L
      BY <1>0, <1>2
    <3> HIDE DEF Ok
    <3> QED BY <2>2, <3>1
  <2> QED BY <2>1, <2>3 DEF L
<1> QED BY <1>1, <1>2

-----------------------------------------------------------------------------
(* The search for devices.                                                 *)

\* What is found on a bus depends only on the buses with a larger number.
ScanBody(buses, bus) == FlattenSeq([n \in 1 .. DeviceCount |-> pci_check_device(bus, n - 1, buses)])

LEMMA ScanBelow ==
    ASSUME Numbered(setup.pci), NEW bus \in BusNumbers, NEW g, NEW h,
           \A c \in bus + 1 .. BusCount - 1 : g[c] = h[c]
    PROVE  ScanBody(g, bus) = ScanBody(h, bus)
<1>1. ASSUME NEW f \in DOMAIN setup.pci, f[1] = bus
      PROVE  pci_check_function(f, g) = pci_check_function(f, h)
  BY <1>1 DEF pci_check_function, Numbered
<1>2. ASSUME NEW device, NEW n
      PROVE  CheckOther(<<bus, device, n>>, g) = CheckOther(<<bus, device, n>>, h)
  <2>1. <<bus, device, n>>[1] = bus
    OBVIOUS
  <2> QED BY <1>1, <2>1 DEF CheckOther, Present
<1>3. ASSUME NEW device PROVE pci_check_device(bus, device, g) = pci_check_device(bus, device, h)
  <2>1. <<bus, device, 0>>[1] = bus
    OBVIOUS
  <2>2. Present(<<bus, device, 0>>) =>
           pci_check_function(<<bus, device, 0>>, g) = pci_check_function(<<bus, device, 0>>, h)
    BY <1>1, <2>1 DEF Present
  <2>3. [n \in 1 .. FunctionCount - 1 |-> CheckOther(<<bus, device, n>>, g)]
          = [n \in 1 .. FunctionCount - 1 |-> CheckOther(<<bus, device, n>>, h)]
    BY <1>2
  <2> QED BY <2>2, <2>3, Zenon DEF pci_check_device
<1>4. [n \in 1 .. DeviceCount |-> pci_check_device(bus, n - 1, g)]
        = [n \in 1 .. DeviceCount |-> pci_check_device(bus, n - 1, h)]
  BY <1>3
<1> QED BY <1>4, Zenon DEF ScanBody

\* The functions pci_check_bus and Behind are what their equations say.
LEMMA ScanRecursion ==
    ASSUME Numbered(setup.pci)
    PROVE  \A bus \in BusNumbers : pci_check_bus[bus] = ScanBody(pci_check_bus, bus)
<1> DEFINE Body(w, n) == [c \in BusCount - n .. BusCount - 1 |-> ScanBody(w, c)]
           Bad == {n \in 0 .. BusCount : ~\E w : w = Body(w, n)}
<1>0. BusCount \in Nat
  BY BootAssumption
<1>1. ASSUME Bad # {} PROVE FALSE
  <2>0. Bad \subseteq Nat
    BY <1>0
  <2>1. PICK m \in Bad : \A k \in 0 .. m - 1 : k \notin Bad
    <3> HIDE DEF Bad
    <3> QED BY <1>1, <2>0, LeastNumber
  <2>2. m \in 0 .. BusCount /\ ~\E w : w = Body(w, m)
    BY <2>1
  <2>3. CASE m = 0
    <3> DEFINE v == [c \in BusCount - m .. BusCount - 1 |-> 0]
    <3>1. BusCount - m .. BusCount - 1 = {}
      BY <1>0, <2>3
    <3>2. v = Body(v, m)
      BY <3>1
    <3> QED BY <2>2, <3>2
  <2>4. CASE m # 0
    <3>1. m - 1 \in 0 .. BusCount /\ m - 1 \in 0 .. m - 1
      BY <1>0, <2>2, <2>4
    <3>2. PICK w : w = Body(w, m - 1)
      BY <2>1, <3>1
    <3> DEFINE v == [c \in BusCount - m .. BusCount - 1 |-> IF c = BusCount - m THEN ScanBody(w, c) ELSE w[c]]
    <3>3. ASSUME NEW c \in BusCount - m .. BusCount - 1 PROVE v[c] = ScanBody(v, c)
      <4>1. c \in BusNumbers
        BY <1>0, <2>2 DEF BusNumbers
      <4>2. \A d \in c + 1 .. BusCount - 1 : v[d] = w[d]
        BY <1>0, <2>2
      <4>3. ScanBody(v, c) = ScanBody(w, c)
        <5> HIDE DEF v
        <5> QED BY <4>1, <4>2, ScanBelow
      <4>4. CASE c = BusCount - m
        BY <4>3, <4>4
      <4>5. CASE c # BusCount - m
        <5>1. c \in BusCount - (m - 1) .. BusCount - 1
          BY <1>0, <2>2, <4>5
        <5>2. w[c] = ScanBody(w, c)
          BY <3>2, <5>1
        <5> QED BY <4>3, <4>5, <5>2
      <4> QED BY <4>4, <4>5
    <3>4. v = Body(v, m)
      BY <3>3
    <3> QED BY <2>2, <3>4
  <2> QED BY <2>3, <2>4
<1>2. \E w : w = Body(w, BusCount)
  <2>1. BusCount \in 0 .. BusCount
    BY <1>0
  <2> HIDE DEF Body
  <2> QED BY <1>1, <2>1
<1>3. BusCount - BusCount .. BusCount - 1 = BusNumbers
  BY <1>0 DEF BusNumbers
<1>4. \E w : w = [c \in BusNumbers |-> ScanBody(w, c)]
  BY <1>2, <1>3
<1>5. pci_check_bus = [c \in BusNumbers |-> ScanBody(pci_check_bus, c)]
  <2>1. \E w : w = [c \in BusNumbers |-> FlattenSeq([n \in 1 .. DeviceCount |-> pci_check_device(c, n - 1, w)])]
    BY <1>4, Zenon DEF ScanBody
  <2>2. pci_check_bus = [c \in BusNumbers |-> FlattenSeq([n \in 1 .. DeviceCount |-> pci_check_device(c, n - 1, pci_check_bus)])]
    BY <2>1, Zenon DEF pci_check_bus
  <2> QED BY <2>2, Zenon DEF ScanBody
<1> QED BY <1>5, Zenon

BehindBody(buses, bus) == {bus} \cup UNION {buses[setup.pci[f].secondary] : f \in Bridges(bus)}

LEMMA BehindBelow ==
    ASSUME Numbered(setup.pci), NEW bus \in BusNumbers, NEW g, NEW h,
           \A c \in bus + 1 .. BusCount - 1 : g[c] = h[c]
    PROVE  BehindBody(g, bus) = BehindBody(h, bus)
<1>1. \A f \in Bridges(bus) : setup.pci[f].secondary \in bus + 1 .. BusCount - 1
  BY DEF Bridges, Numbered
<1> QED BY <1>1 DEF BehindBody

LEMMA BehindRecursion ==
    ASSUME Numbered(setup.pci)
    PROVE  \A bus \in BusNumbers : Behind[bus] = BehindBody(Behind, bus)
<1> DEFINE Body(w, n) == [c \in BusCount - n .. BusCount - 1 |-> BehindBody(w, c)]
           Bad == {n \in 0 .. BusCount : ~\E w : w = Body(w, n)}
<1>0. BusCount \in Nat
  BY BootAssumption
<1>1. ASSUME Bad # {} PROVE FALSE
  <2>0. Bad \subseteq Nat
    BY <1>0
  <2>1. PICK m \in Bad : \A k \in 0 .. m - 1 : k \notin Bad
    <3> HIDE DEF Bad
    <3> QED BY <1>1, <2>0, LeastNumber
  <2>2. m \in 0 .. BusCount /\ ~\E w : w = Body(w, m)
    BY <2>1
  <2>3. CASE m = 0
    <3> DEFINE v == [c \in BusCount - m .. BusCount - 1 |-> 0]
    <3>1. BusCount - m .. BusCount - 1 = {}
      BY <1>0, <2>3
    <3>2. v = Body(v, m)
      BY <3>1
    <3> QED BY <2>2, <3>2
  <2>4. CASE m # 0
    <3>1. m - 1 \in 0 .. BusCount /\ m - 1 \in 0 .. m - 1
      BY <1>0, <2>2, <2>4
    <3>2. PICK w : w = Body(w, m - 1)
      BY <2>1, <3>1
    <3> DEFINE v == [c \in BusCount - m .. BusCount - 1 |-> IF c = BusCount - m THEN BehindBody(w, c) ELSE w[c]]
    <3>3. ASSUME NEW c \in BusCount - m .. BusCount - 1 PROVE v[c] = BehindBody(v, c)
      <4>1. c \in BusNumbers
        BY <1>0, <2>2 DEF BusNumbers
      <4>2. \A d \in c + 1 .. BusCount - 1 : v[d] = w[d]
        BY <1>0, <2>2
      <4>3. BehindBody(v, c) = BehindBody(w, c)
        <5> HIDE DEF v
        <5> QED BY <4>1, <4>2, BehindBelow
      <4>4. CASE c = BusCount - m
        BY <4>3, <4>4
      <4>5. CASE c # BusCount - m
        <5>1. c \in BusCount - (m - 1) .. BusCount - 1
          BY <1>0, <2>2, <4>5
        <5>2. w[c] = BehindBody(w, c)
          BY <3>2, <5>1
        <5> QED BY <4>3, <4>5, <5>2
      <4> QED BY <4>4, <4>5
    <3>4. v = Body(v, m)
      BY <3>3
    <3> QED BY <2>2, <3>4
  <2> QED BY <2>3, <2>4
<1>2. \E w : w = Body(w, BusCount)
  <2>1. BusCount \in 0 .. BusCount
    BY <1>0
  <2> HIDE DEF Body
  <2> QED BY <1>1, <2>1
<1>3. BusCount - BusCount .. BusCount - 1 = BusNumbers
  BY <1>0 DEF BusNumbers
<1>4. \E w : w = [c \in BusNumbers |-> BehindBody(w, c)]
  BY <1>2, <1>3
<1>5. Behind = [c \in BusNumbers |-> BehindBody(Behind, c)]
  <2>1. \E w : w = [c \in BusNumbers |-> {c} \cup UNION {w[setup.pci[f].secondary] : f \in Bridges(c)}]
    BY <1>4, Zenon DEF BehindBody
  <2>2. Behind = [c \in BusNumbers |-> {c} \cup UNION {Behind[setup.pci[f].secondary] : f \in Bridges(c)}]
    BY <2>1, Zenon DEF Behind
  <2> QED BY <2>2, Zenon DEF BehindBody
<1> QED BY <1>5, Zenon

\* A bus behind another has a larger number, and the bridge to it is behind it too.
LEMMA BehindIs ==
    ASSUME Numbered(setup.pci)
    PROVE  \A bus \in BusNumbers :
              /\ bus \in Behind[bus]
              /\ \A c \in Behind[bus] : c \in BusNumbers /\ c >= bus
              /\ \A c \in Behind[bus] \ {bus} :
                    \E f \in DOMAIN setup.pci : setup.pci[f].class = "bridge" /\ setup.pci[f].secondary = c /\ f[1] \in Behind[bus]
<1> DEFINE Ok(bus) ==
              /\ bus \in Behind[bus]
              /\ \A c \in Behind[bus] : c \in BusNumbers /\ c >= bus
              /\ \A c \in Behind[bus] \ {bus} :
                    \E f \in DOMAIN setup.pci : setup.pci[f].class = "bridge" /\ setup.pci[f].secondary = c /\ f[1] \in Behind[bus]
           S == {bus \in BusNumbers : Ok(bus)}
<1>0. BusCount \in Nat
  BY BootAssumption
<1>1. ASSUME NEW bus \in 0 .. BusCount - 1, \A c \in bus + 1 .. BusCount - 1 : c \in S
      PROVE  bus \in S
  <2>0. bus \in BusNumbers
    BY DEF BusNumbers
  <2>1. Behind[bus] = {bus} \cup UNION {Behind[setup.pci[f].secondary] : f \in Bridges(bus)}
    BY <2>0, BehindRecursion DEF BehindBody
  <2>2. ASSUME NEW f \in Bridges(bus)
        PROVE  /\ f \in DOMAIN setup.pci /\ f[1] = bus /\ setup.pci[f].class = "bridge"
               /\ setup.pci[f].secondary \in bus + 1 .. BusCount - 1
               /\ Ok(setup.pci[f].secondary)
    <3>1. /\ f \in DOMAIN setup.pci /\ f[1] = bus /\ setup.pci[f].class = "bridge"
          /\ setup.pci[f].secondary \in bus + 1 .. BusCount - 1
      BY DEF Bridges, Numbered
    <3> QED BY <1>1, <3>1
  <2>3. ASSUME NEW c \in Behind[bus], c # bus
        PROVE  /\ c \in BusNumbers /\ c >= bus
               /\ \E f \in DOMAIN setup.pci : setup.pci[f].class = "bridge" /\ setup.pci[f].secondary = c /\ f[1] \in Behind[bus]
    <3>1. PICK f \in Bridges(bus) : c \in Behind[setup.pci[f].secondary]
      BY <2>1, <2>3
    <3> DEFINE s == setup.pci[f].secondary
    <3>2. s \in bus + 1 .. BusCount - 1 /\ Ok(s) /\ f \in DOMAIN setup.pci /\ f[1] = bus /\ setup.pci[f].class = "bridge"
      BY <2>2
    <3>3. c \in BusNumbers /\ c >= s
      BY <3>1, <3>2
    <3>4. c >= bus
      BY <3>2, <3>3 DEF BusNumbers
    <3>5. Behind[s] \subseteq Behind[bus]
      BY <2>1
    <3>6. CASE c = s
      BY <2>1, <3>2, <3>3, <3>4, <3>6
    <3>7. CASE c # s
      BY <3>1, <3>2, <3>3, <3>4, <3>5, <3>7
    <3> QED BY <3>6, <3>7
  <2>4. bus >= bus /\ bus \in Behind[bus]
    BY <2>1, <1>0
  <2> QED BY <2>0, <2>3, <2>4
<1>2. \A bus \in 0 .. BusCount - 1 : bus \in S
  <2> HIDE DEF S
  <2> QED BY <1>0, <1>1, Downwards
<1> QED BY <1>2 DEF BusNumbers

\* No bus is behind two bridges of one bus.
LEMMA BehindApart ==
    ASSUME Numbered(setup.pci),
           NEW g \in DOMAIN setup.pci, NEW h \in DOMAIN setup.pci, g # h, g[1] = h[1],
           setup.pci[g].class = "bridge", setup.pci[h].class = "bridge"
    PROVE  Behind[setup.pci[g].secondary] \cap Behind[setup.pci[h].secondary] = {}
<1> DEFINE s == setup.pci[g].secondary
           t == setup.pci[h].secondary
           Both == Behind[s] \cap Behind[t]
<1>0. BusCount \in Nat
  BY BootAssumption
<1>1. s \in BusNumbers /\ t \in BusNumbers /\ s # t /\ s > g[1] /\ t > h[1] /\ g[1] \in Nat
  <2>1. g[1] \in BusNumbers
    BY DEF Numbered
  <2>2. s \in g[1] + 1 .. BusCount - 1 /\ t \in h[1] + 1 .. BusCount - 1 /\ s # t
    BY DEF Numbered
  <2> QED BY <1>0, <2>1, <2>2 DEF BusNumbers
<1>2. ASSUME Both # {} PROVE FALSE
  <2>0. Both \subseteq Nat
    BY <1>0, <1>1, BehindIs DEF BusNumbers
  <2>1. PICK c \in Both : \A k \in 0 .. c - 1 : k \notin Both
    <3> HIDE DEF Both
    <3> QED BY <1>2, <2>0, LeastNumber
  <2> HIDE DEF s, t
  <2>2. c \in Behind[s] /\ c \in Behind[t]
    BY <2>1
  <2> HIDE DEF Both
  <2>3. ASSUME NEW f \in DOMAIN setup.pci, NEW e \in DOMAIN setup.pci,
               setup.pci[f].class = "bridge", setup.pci[e].class = "bridge", setup.pci[f].secondary = setup.pci[e].secondary
        PROVE  f = e
    BY <2>3 DEF Numbered
  <2>4. CASE c = s
    <3>1. PICK f \in DOMAIN setup.pci : setup.pci[f].class = "bridge" /\ setup.pci[f].secondary = c /\ f[1] \in Behind[t]
      BY <1>1, <2>2, <2>4, BehindIs
    <3>2. f = g
      BY <2>3, <2>4, <3>1 DEF s
    <3>3. g[1] >= t
      BY <1>1, <3>1, <3>2, BehindIs
    <3> QED BY <1>1, <3>3 DEF BusNumbers
  <2>5. CASE c = t
    <3>1. PICK f \in DOMAIN setup.pci : setup.pci[f].class = "bridge" /\ setup.pci[f].secondary = c /\ f[1] \in Behind[s]
      BY <1>1, <2>2, <2>5, BehindIs
    <3>2. f = h
      BY <2>3, <2>5, <3>1 DEF t
    <3>3. h[1] >= s
      BY <1>1, <3>1, <3>2, BehindIs
    <3> QED BY <1>1, <3>3 DEF BusNumbers
  <2>6. CASE c # s /\ c # t
    <3>1. PICK f \in DOMAIN setup.pci : setup.pci[f].class = "bridge" /\ setup.pci[f].secondary = c /\ f[1] \in Behind[s]
      BY <1>1, <2>2, <2>6, BehindIs
    <3>2. PICK e \in DOMAIN setup.pci : setup.pci[e].class = "bridge" /\ setup.pci[e].secondary = c /\ e[1] \in Behind[t]
      BY <1>1, <2>2, <2>6, BehindIs
    <3>3. f = e
      BY <2>3, <3>1, <3>2
    <3>4. c \in f[1] + 1 .. BusCount - 1 /\ f[1] \in BusNumbers
      BY <3>1 DEF Numbered
    <3>5. f[1] \in 0 .. c - 1
      BY <1>0, <3>4 DEF BusNumbers
    <3>6. f[1] \in Both
      BY <3>1, <3>2, <3>3 DEF Both
    <3> QED BY <2>1, <3>5, <3>6
  <2> QED BY <2>4, <2>5, <2>6
<1> QED BY <1>2

\* What is to be found on a bus and behind it, and behind one function.
Counted(f) == Present(<<f[1], f[2], 0>>) /\ setup.pci[<<f[1], f[2], 0>>].multi = (f[3] # 0)
On(bus) == {f \in DOMAIN setup.pci : f[1] \in Behind[bus] /\ Counted(f)}
Sub(g) == IF setup.pci[g].class = "bridge" THEN On(setup.pci[g].secondary) ELSE {}

Gives(s, set) == s \in Seq(DOMAIN setup.pci) /\ ToSet(s) = set /\ IsInjective(s)
Scanned(bus) == Gives(pci_check_bus[bus], On(bus))

LEMMA GivesNone == Gives(<<>>, {})
<1>1. <<>> \in Seq(DOMAIN setup.pci) /\ DOMAIN <<>> = {}
  OBVIOUS
<1> QED BY <1>1 DEF Gives, ToSet, IsInjective

LEMMA GivesOne == ASSUME NEW f \in DOMAIN setup.pci PROVE Gives(<<f>>, {f})
<1>1. <<f>> \in Seq(DOMAIN setup.pci)
  OBVIOUS
<1>2. DOMAIN <<f>> = {1} /\ <<f>>[1] = f
  <2>1. Len(<<f>>) = 1 /\ DOMAIN <<f>> = 1 .. Len(<<f>>) /\ <<f>>[1] = f
    OBVIOUS
  <2>2. 1 .. 1 = {1}
    OBVIOUS
  <2> QED BY <2>1, <2>2, Zenon
<1>3. ToSet(<<f>>) = {f}
  BY <1>2, Zenon DEF ToSet
<1>4. IsInjective(<<f>>)
  BY <1>2, Zenon DEF IsInjective
<1> QED BY <1>1, <1>3, <1>4, Zenon DEF Gives

LEMMA GivesBoth ==
    ASSUME NEW s, NEW t, NEW X, NEW Y, Gives(s, X), Gives(t, Y), X \cap Y = {}
    PROVE  Gives(s \o t, X \cup Y)
<1> DEFINE S == DOMAIN setup.pci
<1>1. s \in Seq(S) /\ t \in Seq(S) /\ ToSet(s) = X /\ ToSet(t) = Y /\ IsInjective(s) /\ IsInjective(t)
  BY DEF Gives
<1>2. s \o t \in Seq(S) /\ ToSet(s \o t) = X \cup Y /\ IsInjective(s \o t)
  <2> HIDE DEF S
  <2>1. /\ s \o t \in Seq(S)
        /\ ToSet(s \o t) = ToSet(s) \cup ToSet(t)
        /\ IsInjective(s) /\ IsInjective(t) /\ ToSet(s) \cap ToSet(t) = {} => IsInjective(s \o t)
    BY <1>1, JoinedOnce
  <2> QED BY <1>1, <2>1, Zenon
<1> QED BY <1>2 DEF Gives

LEMMA GivesAll ==
    ASSUME NEW n \in Nat, NEW ss, NEW X, ss = [k \in 1 .. n |-> ss[k]],
           \A k \in 1 .. n : Gives(ss[k], X[k]),
           \A j, k \in 1 .. n : j # k => X[j] \cap X[k] = {}
    PROVE  Gives(FlattenSeq(ss), UNION {X[k] : k \in 1 .. n})
<1>1. \A k \in 1 .. n : ss[k] \in Seq(DOMAIN setup.pci) /\ ToSet(ss[k]) = X[k] /\ IsInjective(ss[k])
  BY DEF Gives
<1>2. ss \in Seq(Seq(DOMAIN setup.pci)) /\ Len(ss) = n
  <2> DEFINE T == Seq(DOMAIN setup.pci)
  <2>1. \A k \in 1 .. n : ss[k] \in T
    BY <1>1
  <2> HIDE DEF T
  <2>2. ss \in Seq(T) /\ Len(ss) = n
    BY <2>1
  <2> QED BY <2>2 DEF T
<1>3. UNION {ToSet(ss[k]) : k \in 1 .. n} = UNION {X[k] : k \in 1 .. n}
  BY <1>1
<1>4. \A j, k \in 1 .. n : j # k => ToSet(ss[j]) \cap ToSet(ss[k]) = {}
  BY <1>1
<1> QED BY <1>1, <1>2, <1>3, <1>4, FlatIs DEF Gives

LEMMA FunctionGives ==
    ASSUME Numbered(setup.pci), NEW g \in DOMAIN setup.pci,
           \A c \in g[1] + 1 .. BusCount - 1 : Scanned(c)
    PROVE  Gives(pci_check_function(g, pci_check_bus), Sub(g))
<1>1. CASE setup.pci[g].class = "bridge"
  <2>1. setup.pci[g].secondary \in g[1] + 1 .. BusCount - 1
    BY <1>1 DEF Numbered
  <2> QED BY <1>1, <2>1 DEF Scanned, pci_check_function, Sub
<1>2. CASE setup.pci[g].class # "bridge"
  BY <1>2, GivesNone DEF pci_check_function, Sub
<1> QED BY <1>1, <1>2

\* Nothing is behind two functions of a bus, or on the bus and behind it.
LEMMA SubAbove ==
    ASSUME Numbered(setup.pci), NEW g \in DOMAIN setup.pci, NEW f \in Sub(g)
    PROVE  f \in DOMAIN setup.pci /\ f[1] > g[1] /\ setup.pci[g].class = "bridge"
           /\ f[1] \in Behind[setup.pci[g].secondary]
<1>1. setup.pci[g].class = "bridge" /\ f \in DOMAIN setup.pci /\ f[1] \in Behind[setup.pci[g].secondary]
  BY DEF Sub, On
<1>2. setup.pci[g].secondary \in g[1] + 1 .. BusCount - 1 /\ g[1] \in BusNumbers /\ BusCount \in Nat
  BY <1>1, BootAssumption DEF Numbered
<1>3. setup.pci[g].secondary \in BusNumbers /\ setup.pci[g].secondary > g[1]
  BY <1>2 DEF BusNumbers
<1>4. f[1] >= setup.pci[g].secondary /\ f[1] \in BusNumbers
  BY <1>1, <1>3, BehindIs
<1>5. f[1] > g[1]
  <2> DEFINE s == setup.pci[g].secondary
  <2>1. s \in Nat /\ f[1] \in Nat /\ g[1] \in Nat /\ f[1] >= s /\ s > g[1]
    BY <1>2, <1>3, <1>4 DEF BusNumbers
  <2> HIDE DEF s
  <2> QED BY <2>1
<1> QED BY <1>1, <1>5

LEMMA Apart ==
    ASSUME Numbered(setup.pci), NEW g \in DOMAIN setup.pci, NEW h \in DOMAIN setup.pci, g # h, g[1] = h[1]
    PROVE  ({g} \cup Sub(g)) \cap ({h} \cup Sub(h)) = {}
<1>0. g[1] \in Nat
  BY BootAssumption DEF Numbered, BusNumbers
<1>1. g \notin Sub(h) /\ h \notin Sub(g)
  BY <1>0, SubAbove
<1>2. ASSUME NEW f \in Sub(g), f \in Sub(h) PROVE FALSE
  BY <1>2, SubAbove, BehindApart
<1> QED BY <1>1, <1>2

LEMMA OtherGives ==
    ASSUME Numbered(setup.pci), NEW bus \in BusNumbers, NEW d, NEW n,
           \A c \in bus + 1 .. BusCount - 1 : Scanned(c)
    PROVE  Gives(CheckOther(<<bus, d, n>>, pci_check_bus),
                 IF Present(<<bus, d, n>>) THEN {<<bus, d, n>>} \cup Sub(<<bus, d, n>>) ELSE {})
<1> DEFINE g == <<bus, d, n>>
<1>0. g[1] = bus
  OBVIOUS
<1> HIDE DEF g
<1>1. CASE Present(g)
  <2>1. g \in DOMAIN setup.pci
    BY <1>1 DEF Present
  <2>2. Gives(pci_check_function(g, pci_check_bus), Sub(g))
    BY <1>0, <2>1, FunctionGives
  <2>3. g \notin Sub(g)
    <3>1. g[1] \in Nat
      BY <1>0, BootAssumption DEF BusNumbers
    <3> QED BY <2>1, <3>1, SubAbove
  <2>4. Gives(<<g>>, {g})
    BY <2>1, GivesOne
  <2>5. Gives(<<g>> \o pci_check_function(g, pci_check_bus), {g} \cup Sub(g))
    BY <2>2, <2>3, <2>4, GivesBoth
  <2> QED BY <1>1, <2>5 DEF CheckOther, g
<1>2. CASE ~Present(g)
  BY <1>2, GivesNone DEF CheckOther, g
<1> QED BY <1>1, <1>2

\* One device: what its functions give.
Part(bus, d, n) ==
    IF Present(<<bus, d, n>>) /\ HeaderRead(<<bus, d, n>>)
    THEN Sub(<<bus, d, n>>) \cup (IF Counted(<<bus, d, n>>) THEN {<<bus, d, n>>} ELSE {})
    ELSE {}
DeviceSet(bus, d) == UNION {Part(bus, d, n) : n \in 0 .. FunctionCount - 1}

LEMMA PartIn ==
    ASSUME NEW bus, NEW d, NEW n
    PROVE  /\ Part(bus, d, n) \subseteq {<<bus, d, n>>} \cup Sub(<<bus, d, n>>)
           /\ Part(bus, d, n) # {} => <<bus, d, n>> \in DOMAIN setup.pci
  BY DEF Part, Present

LEMMA PartsApart ==
    ASSUME Numbered(setup.pci), NEW bus, NEW d, NEW e, NEW n, NEW m, d # e \/ n # m
    PROVE  Part(bus, d, n) \cap Part(bus, e, m) = {}
<1> DEFINE g == <<bus, d, n>>
           h == <<bus, e, m>>
<1>1. g # h /\ g[1] = h[1]
  OBVIOUS
<1>2. Part(bus, d, n) \subseteq {g} \cup Sub(g) /\ (Part(bus, d, n) # {} => g \in DOMAIN setup.pci)
  BY PartIn
<1>3. Part(bus, e, m) \subseteq {h} \cup Sub(h) /\ (Part(bus, e, m) # {} => h \in DOMAIN setup.pci)
  BY PartIn
<1> HIDE DEF g, h
<1>4. CASE g \in DOMAIN setup.pci /\ h \in DOMAIN setup.pci
  <2>1. ({g} \cup Sub(g)) \cap ({h} \cup Sub(h)) = {}
    BY <1>1, <1>4, Apart
  <2> QED BY <1>2, <1>3, <2>1
<1> QED BY <1>2, <1>3, <1>4

LEMMA DeviceGives ==
    ASSUME Numbered(setup.pci), NEW bus \in BusNumbers, NEW d,
           \A c \in bus + 1 .. BusCount - 1 : Scanned(c)
    PROVE  Gives(pci_check_device(bus, d, pci_check_bus), DeviceSet(bus, d))
<1> DEFINE g == <<bus, d, 0>>
           others == [n \in 1 .. FunctionCount - 1 |-> CheckOther(<<bus, d, n>>, pci_check_bus)]
<1>0. /\ FunctionCount \in Nat \ {0} /\ FunctionCount - 1 \in Nat
      /\ 0 .. FunctionCount - 1 = {0} \cup (1 .. FunctionCount - 1)
  BY BootAssumption
<1>1. \A n : /\ <<bus, d, n>>[1] = bus /\ <<bus, d, n>>[2] = d /\ <<bus, d, n>>[3] = n
  OBVIOUS
<1>2. \A n : /\ HeaderRead(<<bus, d, n>>) <=> Present(g) /\ (n = 0 \/ setup.pci[g].multi)
             /\ Counted(<<bus, d, n>>) <=> Present(g) /\ setup.pci[g].multi = (n # 0)
  BY <1>1 DEF HeaderRead, Counted
<1> HIDE DEF g
<1>3. CASE ~Present(g)
  <2>1. \A n : Part(bus, d, n) = {}
    BY <1>2, <1>3 DEF Part
  <2>2. DeviceSet(bus, d) = {}
    BY <2>1 DEF DeviceSet
  <2> QED BY <1>3, <2>2, GivesNone DEF pci_check_device, g
<1>4. CASE Present(g)
  <2>0. g \in DOMAIN setup.pci /\ g[1] = bus /\ setup.pci[g].multi \in BOOLEAN
    BY <1>1, <1>4 DEF Present, Numbered, g
  <2>1. Gives(pci_check_function(g, pci_check_bus), Sub(g))
    BY <2>0, FunctionGives
  <2>2. CASE ~setup.pci[g].multi
    <3>0. HeaderRead(<<bus, d, 0>>) /\ Counted(<<bus, d, 0>>) /\ \A n \in 1 .. FunctionCount - 1 : ~HeaderRead(<<bus, d, n>>)
      <4>1. setup.pci[g].multi = (0 # 0)
        BY <2>0, <2>2
      <4> QED BY <1>0, <1>2, <1>4, <2>2, <4>1
    <3>1. Part(bus, d, 0) = Sub(g) \cup {g}
      BY <1>4, <3>0 DEF Part, g
    <3>2. \A n \in 1 .. FunctionCount - 1 : Part(bus, d, n) = {}
      BY <3>0 DEF Part
    <3>3. DeviceSet(bus, d) = Sub(g) \cup {g}
      BY <1>0, <3>1, <3>2 DEF DeviceSet
    <3>4. g \notin Sub(g)
      <4>1. g[1] \in Nat
        BY <2>0, BootAssumption DEF BusNumbers
      <4> QED BY <2>0, <4>1, SubAbove
    <3>5. Gives(pci_check_function(g, pci_check_bus) \o <<g>>, Sub(g) \cup {g})
      BY <2>0, <2>1, <3>4, GivesOne, GivesBoth
    <3>6. pci_check_device(bus, d, pci_check_bus) = pci_check_function(g, pci_check_bus) \o <<g>>
      BY <1>4, <2>2 DEF pci_check_device, g
    <3> QED BY <3>3, <3>5, <3>6
  <2>3. CASE setup.pci[g].multi
    <3> DEFINE X == [n \in 1 .. FunctionCount - 1 |-> Part(bus, d, n)]
    <3>0. /\ HeaderRead(<<bus, d, 0>>) /\ ~Counted(<<bus, d, 0>>)
          /\ \A n \in 1 .. FunctionCount - 1 : HeaderRead(<<bus, d, n>>) /\ Counted(<<bus, d, n>>)
      <4>1. setup.pci[g].multi # (0 # 0)
        BY <2>0, <2>3
      <4>2. \A n \in 1 .. FunctionCount - 1 : setup.pci[g].multi = (n # 0)
        <5>1. setup.pci[g].multi = TRUE
          BY <2>0, <2>3
        <5>2. \A n \in 1 .. FunctionCount - 1 : (n # 0) = TRUE
          BY <1>0
        <5> QED BY <5>1, <5>2, Zenon
      <4> QED BY <1>0, <1>2, <1>4, <2>3, <4>1, <4>2
    <3>1. Part(bus, d, 0) = Sub(g)
      BY <1>4, <3>0 DEF Part, g
    <3>2. ASSUME NEW n \in 1 .. FunctionCount - 1
          PROVE  Part(bus, d, n) = IF Present(<<bus, d, n>>) THEN {<<bus, d, n>>} \cup Sub(<<bus, d, n>>) ELSE {}
      BY <3>0 DEF Part
    <3>3. \A n \in 1 .. FunctionCount - 1 : Gives(others[n], X[n])
      BY <3>2, OtherGives
    <3>4. \A j, k \in 1 .. FunctionCount - 1 : j # k => X[j] \cap X[k] = {}
      BY PartsApart
    <3>5. Gives(FlattenSeq(others), UNION {X[n] : n \in 1 .. FunctionCount - 1})
      <4>1. others = [n \in 1 .. FunctionCount - 1 |-> others[n]]
        OBVIOUS
      <4> HIDE DEF others, X
      <4> QED BY <1>0, <3>3, <3>4, <4>1, GivesAll
    <3>6. UNION {X[n] : n \in 1 .. FunctionCount - 1} = UNION {Part(bus, d, n) : n \in 1 .. FunctionCount - 1}
      OBVIOUS
    <3>7. Sub(g) \cap UNION {Part(bus, d, n) : n \in 1 .. FunctionCount - 1} = {}
      <4>1. \A n \in 1 .. FunctionCount - 1 : Part(bus, d, 0) \cap Part(bus, d, n) = {}
        BY <1>0, PartsApart
      <4> QED BY <3>1, <4>1
    <3>8. DeviceSet(bus, d) = Sub(g) \cup UNION {Part(bus, d, n) : n \in 1 .. FunctionCount - 1}
      BY <1>0, <3>1 DEF DeviceSet
    <3>9. pci_check_device(bus, d, pci_check_bus) = pci_check_function(g, pci_check_bus) \o FlattenSeq(others)
      BY <1>4, <2>3 DEF pci_check_device, g
    <3> DEFINE Y == UNION {Part(bus, d, n) : n \in 1 .. FunctionCount - 1}
    <3>10. Gives(FlattenSeq(others), Y)
      BY <3>5, <3>6
    <3> HIDE DEF others, X, Y
    <3>11. Gives(pci_check_function(g, pci_check_bus) \o FlattenSeq(others), Sub(g) \cup Y)
      <4>1. Sub(g) \cap Y = {}
        BY <3>7 DEF Y
      <4> QED BY <2>1, <3>10, <4>1, GivesBoth
    <3> QED BY <3>8, <3>9, <3>11 DEF Y
  <2> QED BY <2>0, <2>2, <2>3
<1> QED BY <1>3, <1>4

\* A bus: what its devices give is what is on it and behind it.
LEMMA BusSet ==
    ASSUME Numbered(setup.pci), NEW bus \in BusNumbers
    PROVE  UNION {DeviceSet(bus, k - 1) : k \in 1 .. DeviceCount} = On(bus)
<1> DEFINE U == UNION {DeviceSet(bus, k - 1) : k \in 1 .. DeviceCount}
<1>0. /\ DeviceCount \in Nat /\ FunctionCount \in Nat /\ BusCount \in Nat
      /\ Behind[bus] = {bus} \cup UNION {Behind[setup.pci[f].secondary] : f \in Bridges(bus)}
      /\ bus \in Behind[bus]
  BY BootAssumption, BehindRecursion, BehindIs DEF BehindBody
<1>1. ASSUME NEW d, NEW n, NEW f \in Part(bus, d, n) PROVE f \in On(bus)
  <2> DEFINE g == <<bus, d, n>>
  <2>0. g[1] = bus
    OBVIOUS
  <2> HIDE DEF g
  <2>1. g \in DOMAIN setup.pci /\ HeaderRead(g)
    BY DEF Part, Present, g
  <2>2. CASE f = g /\ Counted(g)
    BY <1>0, <2>0, <2>1, <2>2 DEF On
  <2>3. CASE f \in Sub(g)
    <3>1. setup.pci[g].class = "bridge" /\ f \in On(setup.pci[g].secondary)
      BY <2>3 DEF Sub
    <3>2. g \in Bridges(bus)
      BY <2>0, <2>1, <3>1 DEF Bridges
    <3>3. Behind[setup.pci[g].secondary] \subseteq Behind[bus]
      BY <1>0, <3>2
    <3> QED BY <3>1, <3>3 DEF On
  <2> QED BY <2>2, <2>3 DEF Part, g
<1>2. U \subseteq On(bus)
  BY <1>1 DEF DeviceSet
<1>3. ASSUME NEW g \in DOMAIN setup.pci, g[1] = bus
      PROVE  Part(bus, g[2], g[3]) \subseteq U /\ g = <<bus, g[2], g[3]>>
  <2>1. g \in BusNumbers \X (0 .. DeviceCount - 1) \X (0 .. FunctionCount - 1)
    BY DEF Numbered
  <2>2. g = <<bus, g[2], g[3]>> /\ g[2] \in 0 .. DeviceCount - 1 /\ g[3] \in 0 .. FunctionCount - 1
    BY <1>3, <2>1
  <2>3. g[2] + 1 \in 1 .. DeviceCount /\ (g[2] + 1) - 1 = g[2]
    BY <1>0, <2>2
  <2>4. Part(bus, g[2], g[3]) \subseteq DeviceSet(bus, g[2])
    BY <2>2 DEF DeviceSet
  <2>5. DeviceSet(bus, (g[2] + 1) - 1) \subseteq U
    BY <2>3
  <2> QED BY <2>2, <2>3, <2>4, <2>5
<1> HIDE DEF U
<1>4. ASSUME NEW f \in On(bus) PROVE f \in U
  <2>0. f \in DOMAIN setup.pci /\ f[1] \in Behind[bus] /\ Counted(f)
    BY DEF On
  <2>1. CASE f[1] = bus
    <3>1. f = <<bus, f[2], f[3]>> /\ Part(bus, f[2], f[3]) \subseteq U
      BY <1>3, <2>0, <2>1
    <3>2. HeaderRead(f)
      <4>1. setup.pci[<<f[1], f[2], 0>>].multi = (f[3] # 0) /\ Present(<<f[1], f[2], 0>>)
        BY <2>0 DEF Counted
      <4> QED BY <4>1 DEF HeaderRead
    <3>3. f \in Part(bus, f[2], f[3])
      BY <2>0, <3>1, <3>2 DEF Part, Present
    <3> QED BY <3>1, <3>3
  <2>2. CASE f[1] # bus
    <3>1. PICK g \in Bridges(bus) : f[1] \in Behind[setup.pci[g].secondary]
      BY <1>0, <2>0, <2>2
    <3>2. g \in DOMAIN setup.pci /\ g[1] = bus /\ HeaderRead(g) /\ setup.pci[g].class = "bridge"
      BY DEF Bridges
    <3>3. f \in Sub(g)
      BY <2>0, <3>1, <3>2 DEF Sub, On
    <3>4. g = <<bus, g[2], g[3]>> /\ Part(bus, g[2], g[3]) \subseteq U
      BY <1>3, <3>2
    <3>5. f \in Part(bus, g[2], g[3])
      BY <3>2, <3>3, <3>4 DEF Part, Present
    <3> QED BY <3>4, <3>5
  <2> QED BY <2>1, <2>2
<1> QED BY <1>2, <1>4 DEF U

LEMMA ScanIs ==
    ASSUME Numbered(setup.pci)
    PROVE  \A bus \in BusNumbers : Scanned(bus)
<1> DEFINE S == {bus \in BusNumbers : Scanned(bus)}
<1>0. BusCount \in Nat /\ DeviceCount \in Nat
  BY BootAssumption
<1>1. ASSUME NEW bus \in 0 .. BusCount - 1, \A c \in bus + 1 .. BusCount - 1 : c \in S
      PROVE  bus \in S
  <2>0. bus \in BusNumbers
    BY DEF BusNumbers
  <2>1. \A c \in bus + 1 .. BusCount - 1 : Scanned(c)
    BY <1>1
  <2> DEFINE ss == [k \in 1 .. DeviceCount |-> pci_check_device(bus, k - 1, pci_check_bus)]
             X == [k \in 1 .. DeviceCount |-> DeviceSet(bus, k - 1)]
  <2>2. \A k \in 1 .. DeviceCount : Gives(ss[k], X[k])
    BY <2>0, <2>1, DeviceGives
  <2>3. ASSUME NEW j \in 1 .. DeviceCount, NEW k \in 1 .. DeviceCount, j # k PROVE X[j] \cap X[k] = {}
    <3>1. j - 1 # k - 1
      BY <1>0, <2>3
    <3>2. \A n, m : Part(bus, j - 1, n) \cap Part(bus, k - 1, m) = {}
      BY <3>1, PartsApart
    <3> QED BY <3>2 DEF DeviceSet
  <2>4. Gives(FlattenSeq(ss), UNION {X[k] : k \in 1 .. DeviceCount})
    <3>1. ss = [k \in 1 .. DeviceCount |-> ss[k]]
      OBVIOUS
    <3> HIDE DEF ss, X
    <3> QED BY <1>0, <2>2, <2>3, <3>1, GivesAll
  <2>5. UNION {X[k] : k \in 1 .. DeviceCount} = On(bus)
    <3>1. UNION {X[k] : k \in 1 .. DeviceCount} = UNION {DeviceSet(bus, k - 1) : k \in 1 .. DeviceCount}
      OBVIOUS
    <3> QED BY <2>0, <3>1, BusSet
  <2>6. pci_check_bus[bus] = FlattenSeq(ss)
    BY <2>0, ScanRecursion DEF ScanBody
  <2> HIDE DEF ss, X
  <2>7. Scanned(bus)
    BY <2>4, <2>5, <2>6 DEF Scanned
  <2> QED BY <2>0, <2>7
<1>2. \A bus \in 0 .. BusCount - 1 : bus \in S
  <2> HIDE DEF S
  <2> QED BY <1>0, <1>1, Downwards
<1> QED BY <1>2 DEF BusNumbers

\* Every function that is expected is found, and once.
LEMMA DiscoverFinds ==
    ASSUME Numbered(setup.pci), Present(<<0, 0, 0>>), ~setup.pci[<<0, 0, 0>>].multi
    PROVE  Gives(pci_discover_devices, Expected)
<1>1. 0 \in BusNumbers
  BY BootAssumption DEF BusNumbers
<1>2. On(0) = Expected
  BY DEF On, Expected, Counted
<1> QED BY <1>1, <1>2, ScanIs DEF Scanned, pci_discover_devices

-----------------------------------------------------------------------------
(* The start of the kernel.                                                *)

\* A service is there once the stage that gives it is over.
After(n, service) == at > n => service \in ready

Services ==
    /\ at > 3 \/ "meminfo" \in ToSet(tags) \/ "bitmap" \in ready
    /\ After(3, "bitmap") /\ After(4, "mmu") /\ After(5, "heap") /\ After(6, "fb") /\ After(7, "tty")
    /\ After(11, "gdt") /\ After(12, "idt") /\ After(13, "exceptions") /\ After(14, "irqs") /\ After(15, "pic")
    /\ After(17, "syscall") /\ After(18, "timer") /\ After(20, "interrupts")
    /\ After(23, "devfs") /\ After(24, "procfs") /\ After(25, "tmpfs") /\ After(26, "process")
    /\ After(27, "udp") /\ After(28, "tcp") /\ After(29, "dns") /\ After(31, "rootfs") /\ After(32, "vfs")
    \* between get_cpuid_info and fpu_init the wide registers are out of reach
    /\ at = 10 \/ "wide" \in ready

\* What an interrupt may find: the gates, the keyboard behind the terminal, the
\* network cards behind the protocols.
Handlers ==
    /\ "interrupts" \in ready => at > 20
    /\ \A line \in DOMAIN routines :
          /\ routines[line] = "keyboard_init" => at > 18
          /\ routines[line] = "ethernet_handler" => at > 29

BootInv ==
    /\ tags \in Seq(STRING)
    /\ at \in 1 .. 34
    /\ setup.magic /\ Told("meminfo") => Services /\ Handlers /\ early = {}

\* The places of the stages.
LEMMA StagePlace ==
    ASSUME at \in 1 .. 34
    PROVE  /\ (Stage("serial_init") => at = 1) /\ (Stage("check_multiboot2") => at = 2) /\ (Stage("tags") => at = 3)
           /\ (Stage("mmu_init") => at = 4) /\ (Stage("kernel_malloc_init") => at = 5) /\ (Stage("framebuffer_setup") => at = 6)
           /\ (Stage("tty_init") => at = 7) /\ (Stage("checks") => at = 8) /\ (Stage("get_cpuid_info") => at = 9)
           /\ (Stage("fpu_init") => at = 10) /\ (Stage("gdt_init") => at = 11) /\ (Stage("idt_init") => at = 12)
           /\ (Stage("isr_init") => at = 13) /\ (Stage("irq_init") => at = 14) /\ (Stage("pic_remap") => at = 15)
           /\ (Stage("alloctest") => at = 16) /\ (Stage("syscall_init") => at = 17) /\ (Stage("timer_init") => at = 18)
           /\ (Stage("keyboard_init") => at = 19) /\ (Stage("interrupts_enable") => at = 20) /\ (Stage("acpi_init") => at = 21)
           /\ (Stage("memtest") => at = 22) /\ (Stage("dev_init") => at = 23) /\ (Stage("proc_init") => at = 24)
           /\ (Stage("tmp_init") => at = 25) /\ (Stage("process_init") => at = 26) /\ (Stage("udp_init") => at = 27)
           /\ (Stage("tcp_init") => at = 28) /\ (Stage("dns_init") => at = 29) /\ (Stage("pci_init") => at = 30)
           /\ (Stage("fs_init") => at = 31) /\ (Stage("vfs_init") => at = 32) /\ (Stage("vfs_mount") => at = 33)
           /\ (Stage("system") => at = 34)
  BY DEF Stage, Order

LEMMA BootStarts == ASSUME BootInit PROVE BootInv
  BY BootAssumption DEF BootInit, BootInv, Services, Handlers, After, Told, NoRoutines, Stage

LEMMA SetsSteps ==
    ASSUME BootInv,
           \/ mmu_init \/ kernel_malloc_init \/ framebuffer_setup \/ tty_init \/ gdt_init \/ pic_remap \/ alloctest
           \/ dev_init \/ proc_init \/ tmp_init \/ process_init \/ udp_init \/ tcp_init \/ dns_init
           \/ vfs_init \/ vfs_mount \/ isr_init \/ irq_init \/ syscall_init
    PROVE  BootInv'
<1>1. CASE mmu_init
  BY <1>1, StagePlace DEF mmu_init, Sets, Use, Continue, RestOfBoot, BootInv, Services, Handlers, After, Told
<1>2. CASE kernel_malloc_init
  BY <1>2, StagePlace DEF kernel_malloc_init, Sets, Use, Continue, RestOfBoot, BootInv, Services, Handlers, After, Told
<1>3. CASE framebuffer_setup
  BY <1>3, StagePlace DEF framebuffer_setup, Sets, Use, Continue, RestOfBoot, BootInv, Services, Handlers, After, Told
<1>4. CASE tty_init
  BY <1>4, StagePlace DEF tty_init, Sets, Use, Continue, RestOfBoot, BootInv, Services, Handlers, After, Told
<1>5. CASE gdt_init
  BY <1>5, StagePlace DEF gdt_init, Sets, Use, Continue, RestOfBoot, BootInv, Services, Handlers, After, Told
<1>6. CASE pic_remap
  BY <1>6, StagePlace DEF pic_remap, Sets, Use, Continue, RestOfBoot, BootInv, Services, Handlers, After, Told
<1>7. CASE alloctest
  BY <1>7, StagePlace DEF alloctest, Sets, Use, Continue, RestOfBoot, BootInv, Services, Handlers, After, Told
<1>8. CASE dev_init
  BY <1>8, StagePlace DEF dev_init, Sets, Use, Continue, RestOfBoot, BootInv, Services, Handlers, After, Told
<1>9. CASE proc_init
  BY <1>9, StagePlace DEF proc_init, Sets, Use, Continue, RestOfBoot, BootInv, Services, Handlers, After, Told
<1>10. CASE tmp_init
  BY <1>10, StagePlace DEF tmp_init, Sets, Use, Continue, RestOfBoot, BootInv, Services, Handlers, After, Told
<1>11. CASE process_init
  BY <1>11, StagePlace DEF process_init, Sets, Use, Continue, RestOfBoot, BootInv, Services, Handlers, After, Told
<1>12. CASE udp_init
  BY <1>12, StagePlace DEF udp_init, Sets, Use, Continue, RestOfBoot, BootInv, Services, Handlers, After, Told
<1>13. CASE tcp_init
  BY <1>13, StagePlace DEF tcp_init, Sets, Use, Continue, RestOfBoot, BootInv, Services, Handlers, After, Told
<1>14. CASE dns_init
  BY <1>14, StagePlace DEF dns_init, Sets, Use, Continue, RestOfBoot, BootInv, Services, Handlers, After, Told
<1>15. CASE vfs_init
  BY <1>15, StagePlace DEF vfs_init, Sets, Use, Continue, RestOfBoot, BootInv, Services, Handlers, After, Told
<1>16. CASE vfs_mount
  BY <1>16, StagePlace DEF vfs_mount, Sets, Use, Continue, RestOfBoot, BootInv, Services, Handlers, After, Told
<1>17. CASE isr_init
  BY <1>17, StagePlace DEF isr_init, Sets, Use, Continue, RestOfBoot, BootInv, Services, Handlers, After, Told
<1>18. CASE irq_init
  BY <1>18, StagePlace DEF irq_init, Sets, Use, Continue, RestOfBoot, BootInv, Services, Handlers, After, Told
<1>19. CASE syscall_init
  BY <1>19, StagePlace DEF syscall_init, Sets, Use, Continue, RestOfBoot, BootInv, Services, Handlers, After, Told
<1> QED BY <1>1, <1>2, <1>3, <1>4, <1>5, <1>6, <1>7, <1>8, <1>9, <1>10, <1>11, <1>12, <1>13, <1>14, <1>15, <1>16, <1>17, <1>18, <1>19

\* A tag that is read is not the memory tag, or the bitmap is there.
LEMMA TagSteps == ASSUME BootInv, ReadTag \/ TagsRead PROVE BootInv'
<1>1. CASE ReadTag
  <2>1. tags \in Seq(STRING) /\ tags # <<>> /\ tags' = Tail(tags) /\ at = 3
    BY <1>1, StagePlace DEF ReadTag, BootInv
  <2>2. Tail(tags) \in Seq(STRING)
    BY <2>1
  <2>3. "meminfo" \in ToSet(tags) => Head(tags) = "meminfo" \/ "meminfo" \in ToSet(Tail(tags))
    <3>1. ASSUME NEW k \in DOMAIN tags, tags[k] = "meminfo", k # 1
          PROVE  k - 1 \in DOMAIN Tail(tags) /\ Tail(tags)[k - 1] = "meminfo"
      BY <2>1, <3>1
    <3> QED BY <2>1, <3>1 DEF ToSet
  <2> QED BY <1>1, <2>1, <2>2, <2>3 DEF ReadTag, BootInv, Services, Handlers, After, Told
<1>2. CASE TagsRead
  <2>1. "meminfo" \notin ToSet(<<>>)
    BY DEF ToSet
  <2> QED BY <1>2, <2>1, StagePlace DEF TagsRead, Continue, RestOfBoot, BootInv, Services, Handlers, After, Told
<1> QED BY <1>1, <1>2

\* The stages before the devices that can give up, or that change more than they give.
LEMMA EarlySteps ==
    ASSUME BootInv,
           serial_init \/ check_multiboot2 \/ Checks \/ get_cpuid_info \/ fpu_init \/ idt_init
    PROVE  BootInv'
<1>1. CASE serial_init
  BY <1>1, StagePlace DEF serial_init, Continue, RestOfBoot, BootInv, Services, Handlers, After, Told
<1>2. CASE check_multiboot2
  BY <1>2, StagePlace DEF check_multiboot2, Continue, Panic, Use, BootInv, Services, Handlers, After, Told
<1>3. CASE Checks
  BY <1>3, StagePlace DEF Checks, Continue, Panic, Use, BootInv, Services, Handlers, After, Told
<1>4. CASE get_cpuid_info
  BY <1>4, StagePlace DEF get_cpuid_info, Continue, Use, RestOfBoot, BootInv, Services, Handlers, After, Told
<1>5. CASE fpu_init
  BY <1>5, StagePlace DEF fpu_init, Continue, Use, RestOfBoot, BootInv, Services, Handlers, After, Told
<1>6. CASE idt_init
  BY <1>6, StagePlace DEF idt_init, Continue, RestOfBoot, BootInv, Services, Handlers, After, Told
<1> QED BY <1>1, <1>2, <1>3, <1>4, <1>5, <1>6

LEMMA InterruptSteps ==
    ASSUME BootInv,
           timer_init \/ keyboard_init \/ interrupts_enable \/ Interrupt \/ acpi_init \/ memtest
    PROVE  BootInv'
<1>1. CASE timer_init
  BY <1>1, StagePlace DEF timer_init, Installs, irq_install_handler, Continue, Use, BootInv, Services, Handlers, After, Told
<1>2. CASE keyboard_init
  BY <1>2, StagePlace DEF keyboard_init, Installs, irq_install_handler, Continue, Use, BootInv, Services, Handlers, After, Told
<1>3. CASE interrupts_enable
  BY <1>3, StagePlace DEF interrupts_enable, Continue, Use, RestOfBoot, BootInv, Services, Handlers, After, Told
<1>4. CASE Interrupt
  <2>1. UNCHANGED <<setup, at, tags, ready, routines>> /\ "interrupts" \in ready
    BY <1>4 DEF Interrupt
  <2>2. PICK line \in DOMAIN routines :
            early' = early \cup (({"gdt", "idt", "irqs", "pic"} \cup HandlerUses(routines[line])) \ ready)
    BY <1>4 DEF Interrupt, Use
  <2>3. ASSUME setup.magic, Told("meminfo") PROVE {"gdt", "idt", "irqs", "pic"} \cup HandlerUses(routines[line]) \subseteq ready
    <3>1. at > 20 /\ {"gdt", "idt", "irqs", "pic", "tty", "heap", "wide"} \subseteq ready
      BY <2>1, <2>3 DEF BootInv, Services, Handlers, After, Told
    <3>2. CASE routines[line] = "ethernet_handler"
      <4>1. {"udp", "tcp", "dns"} \subseteq ready
        BY <2>3, <3>2 DEF BootInv, Services, Handlers, After, Told
      <4> QED BY <3>1, <3>2, <4>1 DEF HandlerUses
    <3>3. CASE routines[line] # "ethernet_handler"
      BY <3>1, <3>3 DEF HandlerUses
    <3> QED BY <3>2, <3>3
  <2> QED BY <2>1, <2>2, <2>3 DEF BootInv, Services, Handlers, After, Told
<1>5. CASE acpi_init
  <2>1. at = 21 /\ UNCHANGED <<setup, tags, ready>> /\ early' = early \cup ({"mmu", "bitmap"} \ ready) /\ at' \in {21, 22}
    BY <1>5, StagePlace DEF acpi_init, acpi_read_rsdt, acpi_read_fadt, Use, Continue, BootInv
  <2>2. DOMAIN routines' = DOMAIN routines /\ \A line \in DOMAIN routines : routines'[line] \in {routines[line], "acpi_sci_handler"}
    <3>1. CASE UNCHANGED routines
      BY <3>1
    <3>2. CASE irq_install_handler([l \in {9} |-> "acpi_sci_handler"])
      BY <3>2 DEF irq_install_handler
    <3> QED BY <1>5, <3>1, <3>2 DEF acpi_init, acpi_read_rsdt, acpi_read_fadt
  <2> QED BY <2>1, <2>2 DEF BootInv, Services, Handlers, After, Told
<1>6. CASE memtest
  BY <1>6, StagePlace DEF memtest, Panic, Use, Continue, BootInv, Services, Handlers, After, Told
<1> QED BY <1>1, <1>2, <1>3, <1>4, <1>5, <1>6

LEMMA DeviceSteps == ASSUME BootInv, PciFound \/ PciDone \/ fs_init \/ system PROVE BootInv'
<1>1. CASE PciDone
  BY <1>1, StagePlace DEF PciDone, Continue, BootInv, Services, Handlers, After, Told
<1>2. CASE fs_init
  BY <1>2, StagePlace DEF fs_init, Panic, Use, Continue, iodriver_init, irq_install_handler, BootInv, Services, Handlers, After, Told
<1>3. CASE system
  BY <1>3, StagePlace DEF system, Panic, Use, BootInv, Services, Handlers, After, Told
<1>4. CASE PciFound
  <2>1. PICK f : pci_device_found(f)
    BY <1>4 DEF PciFound
  <2> DEFINE header == setup.pci[f]
  <2>2. at = 30 /\ UNCHANGED <<setup, at, tags>>
    BY <1>4, StagePlace DEF PciFound, BootInv
  <2>3. CASE ata_init(header)
    BY <2>2, <2>3 DEF ata_init, irq_install_handler, Use, BootInv, Services, Handlers, After, Told
  <2>4. CASE floppy_init(header)
    BY <2>2, <2>4 DEF floppy_init, irq_install_handler, Use, BootInv, Services, Handlers, After, Told
  <2>5. CASE ethernet_init(header)
    BY <2>2, <2>5 DEF ethernet_init, irq_install_handler, Use, BootInv, Services, Handlers, After, Told
  <2>6. CASE UNCHANGED <<routines, ready, eth, early>>
    BY <2>2, <2>6 DEF BootInv, Services, Handlers, After, Told
  <2> QED BY <2>1, <2>3, <2>4, <2>5, <2>6 DEF pci_device_found
<1> QED BY <1>1, <1>2, <1>3, <1>4

LEMMA BootSteps == BootInv /\ [BootNext]_bootvars => BootInv'
<1> SUFFICES ASSUME BootInv, [BootNext]_bootvars PROVE BootInv'
  OBVIOUS
<1>1. CASE UNCHANGED bootvars
  BY <1>1 DEF bootvars, BootInv, Services, Handlers, After, Told
<1>2. CASE BootNext
  BY <1>2, SetsSteps, TagSteps, EarlySteps, InterruptSteps, DeviceSteps DEF BootNext
<1> QED BY <1>1, <1>2

\* On every machine whose loader is multiboot2 and tells about memory: no stage of
\* kernel_main, no driver it starts and no interrupt that comes in between uses what
\* is not set up yet (kernel.c:215).
THEOREM StartsInOrder == BootSpec => []NothingTooEarly
<1>1. BootInv => NothingTooEarly
  BY DEF BootInv, NothingTooEarly
<1> QED BY <1>1, BootStarts, BootSteps, PTL DEF BootSpec

-----------------------------------------------------------------------------
(* What was asked for.                                                     *)

\* The machines that BootedAsAsked is about.
Asked ==
    /\ setup.magic /\ Told("meminfo")
    /\ Present(<<0, 0, 0>>) /\ ~setup.pci[<<0, 0, 0>>].multi
    /\ setup.root.disk < 96

\* What was found so far, and the driver that makes of it.
FoundInv ==
    /\ at < 30 => found = <<>>
    /\ found \in Seq(DOMAIN setup.pci) /\ Len(found) <= Len(pci_discover_devices)
    /\ \A k \in 1 .. Len(found) : found[k] = pci_discover_devices[k]
    /\ at > 30 => Len(found) = Len(pci_discover_devices)
    /\ "ata" \in ready <=> \E k \in 1 .. Len(found) : setup.pci[found[k]].class = "ide"
    /\ "floppy" \in ready => setup.floppy

\* A stage that was passed found what it needs.
Checked == Told("bootdev") /\ setup.ram /\ setup.cpuid
Tested == setup.memtest \in {"0", "1", "x"}
RootThere ==
    /\ setup.root.kind # "bad"
    /\ IF setup.root.kind = "fd" THEN setup.floppy ELSE Has("ide")
    /\ <<setup.root.kind, setup.root.disk>> \in setup.drives
    /\ setup.resets /\ setup.root.partition <= 3 /\ setup.mbr[setup.root.partition] = "known"
RootIsAsked == RootThere /\ root = <<parse_cmdline_root(setup.root), setup.root.partition>>

Passed ==
    /\ at > 8 => Checked
    /\ at > 22 => Tested
    /\ at > 31 => RootIsAsked
    /\ outcome = "up" => at = 34 /\ setup.init
    /\ outcome = "panic" => ~Bootable

AskedInv == setup \in Setups /\ (Asked => FoundInv /\ Passed)

LEMMA BootableIs == Bootable <=> Checked /\ Tested /\ setup.init /\ RootThere
  BY DEF Bootable, Checked, Tested, RootThere

LEMMA SetupStays ==
    ASSUME setup' = setup
    PROVE  /\ pci_discover_devices' = pci_discover_devices
           /\ Expected' = Expected
           /\ (Has("ide"))' = Has("ide")
           /\ Asked' <=> Asked
           /\ Checked' <=> Checked
           /\ Tested' <=> Tested
           /\ RootThere' <=> RootThere
           /\ Bootable' <=> Bootable
           /\ (parse_cmdline_root(setup.root))' = parse_cmdline_root(setup.root)
<1>1. pci_check_bus' = pci_check_bus
  BY DEF pci_check_bus, pci_check_device, Present, pci_check_function, CheckOther
<1>2. pci_discover_devices' = pci_discover_devices
  BY <1>1 DEF pci_discover_devices, Present
<1>3. Behind' = Behind
  BY DEF Behind, Bridges, HeaderRead, Present
<1>4. Expected' = Expected
  BY <1>3 DEF Expected, Present
<1>5. (Has("ide"))' = Has("ide")
  BY <1>4 DEF Has
<1>6. /\ Asked' <=> Asked
      /\ Checked' <=> Checked
      /\ Tested' <=> Tested
  BY DEF Asked, Checked, Tested, Told, Present
<1>7. RootThere' <=> RootThere
  BY <1>5 DEF RootThere
<1>8. Bootable' <=> Bootable
  BY <1>5 DEF Bootable, Told
<1>9. (parse_cmdline_root(setup.root))' = parse_cmdline_root(setup.root)
  BY DEF parse_cmdline_root
<1> QED BY <1>2, <1>4, <1>5, <1>6, <1>7, <1>8, <1>9

LEMMA AskedStarts == ASSUME BootInit PROVE AskedInv
<1>1. ASSUME Asked PROVE Gives(pci_discover_devices, Expected)
  BY <1>1, BootAssumption, DiscoverFinds DEF BootInit, Asked
<1>2. ASSUME Asked PROVE FoundInv
  <2>1. Len(pci_discover_devices) \in Nat
    BY <1>1, <1>2 DEF Gives
  <2> QED BY <2>1 DEF BootInit, FoundInv
<1>3. Passed
  BY DEF BootInit, Passed
<1> QED BY <1>2, <1>3 DEF BootInit, AskedInv

\* A step that changes neither what was found nor the root, and passes no check.
LEMMA QuietStep ==
    ASSUME BootInv, AskedInv, setup' = setup, found' = found, root' = root,
           \A s \in {"ata", "floppy"} : s \in ready' <=> s \in ready,
           outcome' = outcome \/ outcome' \notin {"up", "panic"},
           at' \in {at, at + 1}, outcome = "running" \/ at' = at,
           at' = at + 1 => at \notin {8, 22, 30, 31}
    PROVE  AskedInv'
<1>0. at \in Nat /\ at' \in Nat
  BY DEF BootInv
<1>1. ASSUME Asked PROVE FoundInv'
  BY <1>0, <1>1, SetupStays DEF AskedInv, FoundInv
<1>2. ASSUME Asked PROVE Passed'
  <2>1. FoundInv /\ Passed
    BY <1>2 DEF AskedInv
  <2>2. RootIsAsked' <=> RootIsAsked
    BY SetupStays DEF RootIsAsked
  <2>3. (at' > 8 => at > 8) /\ (at' > 22 => at > 22) /\ (at' > 31 => at > 31)
    BY <1>0
  <2>4. outcome' \in {"up", "panic"} => outcome' = outcome /\ at' = at
    OBVIOUS
  <2> QED BY <2>1, <2>2, <2>3, <2>4, SetupStays DEF Passed
<1> QED BY <1>1, <1>2, SetupStays DEF AskedInv

\* A stage that gives up on a machine that cannot be started.
LEMMA PanicStep ==
    ASSUME BootInv, AskedInv, NEW services, Panic(services), UNCHANGED <<setup, tags>>,
           outcome = "running", Asked => ~Bootable
    PROVE  AskedInv'
<1>1. UNCHANGED <<at, ready, found, root, setup>> /\ outcome' = "panic"
  BY DEF Panic
<1>2. ASSUME Asked PROVE FoundInv'
  BY <1>1, <1>2, SetupStays DEF AskedInv, FoundInv
<1>3. ASSUME Asked PROVE Passed'
  <2>1. Passed
    BY <1>3 DEF AskedInv
  <2>2. RootIsAsked' <=> RootIsAsked
    BY <1>1, SetupStays DEF RootIsAsked
  <2> QED BY <1>1, <1>3, <2>1, <2>2, SetupStays DEF Passed
<1> QED BY <1>1, <1>2, <1>3, SetupStays DEF AskedInv

\* Most stages are such steps.
QuietStage ==
    \/ mmu_init \/ kernel_malloc_init \/ framebuffer_setup \/ tty_init \/ gdt_init \/ pic_remap \/ alloctest
    \/ dev_init \/ proc_init \/ tmp_init \/ process_init \/ udp_init \/ tcp_init \/ dns_init
    \/ vfs_init \/ vfs_mount \/ isr_init \/ irq_init \/ syscall_init \/ serial_init \/ ReadTag
    \/ TagsRead \/ get_cpuid_info \/ fpu_init \/ idt_init \/ timer_init \/ keyboard_init \/ interrupts_enable
    \/ Interrupt \/ acpi_init

LEMMA QuietSteps == ASSUME BootInv, AskedInv, QuietStage PROVE AskedInv'
<1> DEFINE Same ==
              /\ setup' = setup /\ found' = found /\ root' = root
              /\ "ata" \in ready' <=> "ata" \in ready
              /\ "floppy" \in ready' <=> "floppy" \in ready
              /\ outcome = "running" /\ outcome' \in {"running", "hung"}
              /\ at' \in {at, at + 1} /\ (at' = at + 1 => at \notin {8, 22, 30, 31})
<1>0. at \in 1 .. 34
  BY DEF BootInv
<1>1. ASSUME mmu_init PROVE Same
  BY <1>0, <1>1, StagePlace DEF mmu_init, Sets, Stage, Continue, RestOfBoot
<1>2. ASSUME kernel_malloc_init PROVE Same
  BY <1>0, <1>2, StagePlace DEF kernel_malloc_init, Sets, Stage, Continue, RestOfBoot
<1>3. ASSUME framebuffer_setup PROVE Same
  BY <1>0, <1>3, StagePlace DEF framebuffer_setup, Sets, Stage, Continue, RestOfBoot
<1>4. ASSUME tty_init PROVE Same
  BY <1>0, <1>4, StagePlace DEF tty_init, Sets, Stage, Continue, RestOfBoot
<1>5. ASSUME gdt_init PROVE Same
  BY <1>0, <1>5, StagePlace DEF gdt_init, Sets, Stage, Continue, RestOfBoot
<1>6. ASSUME pic_remap PROVE Same
  BY <1>0, <1>6, StagePlace DEF pic_remap, Sets, Stage, Continue, RestOfBoot
<1>7. ASSUME alloctest PROVE Same
  BY <1>0, <1>7, StagePlace DEF alloctest, Sets, Stage, Continue, RestOfBoot
<1>8. ASSUME dev_init PROVE Same
  BY <1>0, <1>8, StagePlace DEF dev_init, Sets, Stage, Continue, RestOfBoot
<1>9. ASSUME proc_init PROVE Same
  BY <1>0, <1>9, StagePlace DEF proc_init, Sets, Stage, Continue, RestOfBoot
<1>10. ASSUME tmp_init PROVE Same
  BY <1>0, <1>10, StagePlace DEF tmp_init, Sets, Stage, Continue, RestOfBoot
<1>11. ASSUME process_init PROVE Same
  BY <1>0, <1>11, StagePlace DEF process_init, Sets, Stage, Continue, RestOfBoot
<1>12. ASSUME udp_init PROVE Same
  BY <1>0, <1>12, StagePlace DEF udp_init, Sets, Stage, Continue, RestOfBoot
<1>13. ASSUME tcp_init PROVE Same
  BY <1>0, <1>13, StagePlace DEF tcp_init, Sets, Stage, Continue, RestOfBoot
<1>14. ASSUME dns_init PROVE Same
  BY <1>0, <1>14, StagePlace DEF dns_init, Sets, Stage, Continue, RestOfBoot
<1>15. ASSUME vfs_init PROVE Same
  BY <1>0, <1>15, StagePlace DEF vfs_init, Sets, Stage, Continue, RestOfBoot
<1>16. ASSUME vfs_mount PROVE Same
  BY <1>0, <1>16, StagePlace DEF vfs_mount, Sets, Stage, Continue, RestOfBoot
<1>17. ASSUME isr_init PROVE Same
  BY <1>0, <1>17, StagePlace DEF isr_init, Sets, Stage, Continue, RestOfBoot
<1>18. ASSUME irq_init PROVE Same
  BY <1>0, <1>18, StagePlace DEF irq_init, Sets, Stage, Continue, RestOfBoot
<1>19. ASSUME syscall_init PROVE Same
  BY <1>0, <1>19, StagePlace DEF syscall_init, Sets, Stage, Continue, RestOfBoot
<1>20. ASSUME serial_init PROVE Same
  BY <1>0, <1>20, StagePlace DEF serial_init, Stage, Continue, RestOfBoot
<1>21. ASSUME ReadTag PROVE Same
  BY <1>0, <1>21, StagePlace DEF ReadTag, Stage
<1>22. ASSUME TagsRead PROVE Same
  BY <1>0, <1>22, StagePlace DEF TagsRead, Stage, Continue, RestOfBoot
<1>23. ASSUME get_cpuid_info PROVE Same
  BY <1>0, <1>23, StagePlace DEF get_cpuid_info, Stage, Continue, RestOfBoot
<1>24. ASSUME fpu_init PROVE Same
  BY <1>0, <1>24, StagePlace DEF fpu_init, Stage, Continue, RestOfBoot
<1>25. ASSUME idt_init PROVE Same
  BY <1>0, <1>25, StagePlace DEF idt_init, Stage, Continue, RestOfBoot
<1>26. ASSUME timer_init PROVE Same
  BY <1>0, <1>26, StagePlace DEF timer_init, Stage, Installs, Continue
<1>27. ASSUME keyboard_init PROVE Same
  BY <1>0, <1>27, StagePlace DEF keyboard_init, Stage, Installs, Continue
<1>28. ASSUME interrupts_enable PROVE Same
  BY <1>0, <1>28, StagePlace DEF interrupts_enable, Stage, Continue, RestOfBoot
<1>29. ASSUME Interrupt PROVE Same
  BY <1>0, <1>29, StagePlace DEF Interrupt, Stage
<1>30. ASSUME acpi_init PROVE Same
  BY <1>0, <1>30, StagePlace DEF acpi_init, Stage, acpi_read_rsdt, acpi_read_fadt, Continue
<1>31. Same
  BY <1>1, <1>2, <1>3, <1>4, <1>5, <1>6, <1>7, <1>8, <1>9, <1>10, <1>11, <1>12, <1>13, <1>14, <1>15, <1>16, <1>17, <1>18, <1>19, <1>20, <1>21, <1>22, <1>23, <1>24, <1>25, <1>26, <1>27, <1>28, <1>29, <1>30, Zenon DEF QuietStage
<1> QED BY <1>0, <1>31, QuietStep

\* The checks: what makes a stage give up makes the machine one that cannot be started.
LEMMA CheckSteps ==
    ASSUME BootInv, AskedInv, check_multiboot2 \/ Checks \/ memtest
    PROVE  AskedInv'
<1>0. at \in 1 .. 34
  BY DEF BootInv
<1>1. CASE check_multiboot2
  <2>1. setup' = setup /\ tags' = tags /\ outcome = "running" /\ at = 2
    BY <1>0, <1>1, StagePlace DEF check_multiboot2, Stage
  <2>2. CASE ~setup.magic /\ Panic({})
    BY <2>1, <2>2, PanicStep DEF Asked
  <2>3. CASE Continue /\ UNCHANGED <<ready, routines, eth, found, root, early>>
    BY <1>0, <2>1, <2>3, QuietStep DEF Continue
  <2> QED BY <1>1, <2>2, <2>3 DEF check_multiboot2
<1>2. CASE Checks
  <2>1. setup' = setup /\ tags' = tags /\ outcome = "running" /\ at = 8
    BY <1>0, <1>2, StagePlace DEF Checks, Stage
  <2>2. CASE Panic({"tty"}) /\ ~(Told("bootdev") /\ Told("meminfo") /\ setup.ram /\ setup.cpuid)
    BY <2>1, <2>2, PanicStep DEF Asked, Bootable
  <2>3. CASE Continue /\ UNCHANGED <<ready, found, root>> /\ Told("bootdev") /\ setup.ram /\ setup.cpuid
    <3>1. at' = 9 /\ outcome' = outcome
      BY <2>1, <2>3 DEF Continue
    <3>2. ASSUME Asked PROVE FoundInv'
      BY <2>1, <2>3, <3>1, <3>2, SetupStays DEF AskedInv, FoundInv
    <3>3. Passed'
      <4>1. Checked'
        BY <2>1, <2>3, SetupStays DEF Checked
      <4> QED BY <2>1, <3>1, <4>1 DEF Passed
    <3> QED BY <2>1, <3>2, <3>3, SetupStays DEF AskedInv
  <2> QED BY <1>2, <2>2, <2>3 DEF Checks
<1>3. CASE memtest
  <2>1. setup' = setup /\ tags' = tags /\ outcome = "running" /\ at = 22
    BY <1>0, <1>3, StagePlace DEF memtest, Stage
  <2>2. CASE ~validate_cmdline_memtest(setup.memtest) /\ Panic({"tty"})
    BY <2>1, <2>2, PanicStep DEF Bootable, validate_cmdline_memtest
  <2>3. CASE validate_cmdline_memtest(setup.memtest) /\ Continue /\ UNCHANGED <<ready, found, root>>
    <3>1. at' = 23 /\ outcome' = outcome
      BY <2>1, <2>3 DEF Continue
    <3>2. ASSUME Asked PROVE FoundInv'
      BY <2>1, <2>3, <3>1, <3>2, SetupStays DEF AskedInv, FoundInv
    <3>3. ASSUME Asked PROVE Passed'
      <4>1. setup \in Setups /\ Passed
        BY <3>3 DEF AskedInv
      <4>2. Tested'
        BY <2>1, <2>3, <4>1, BootAssumption, SetupStays DEF Tested, validate_cmdline_memtest
      <4>3. Checked'
        BY <2>1, <4>1, SetupStays DEF Passed
      <4> QED BY <2>1, <3>1, <4>2, <4>3 DEF Passed
    <3> QED BY <2>1, <3>2, <3>3, SetupStays DEF AskedInv
  <2> QED BY <1>3, <2>2, <2>3 DEF memtest
<1> QED BY <1>1, <1>2, <1>3

\* A function that is found gives ata when it is a controller, and only then.
LEMMA PciSteps == ASSUME BootInv, AskedInv, PciFound \/ PciDone PROVE AskedInv'
<1>0. at \in 1 .. 34 /\ setup \in Setups
  BY DEF BootInv, AskedInv
<1> DEFINE disc == pci_discover_devices
<1>a. ASSUME Asked PROVE Gives(disc, Expected)
  BY <1>a, <1>0, BootAssumption, DiscoverFinds DEF Asked
<1>1. CASE PciDone
  <2>1. setup' = setup /\ outcome' = outcome /\ outcome = "running" /\ at = 30 /\ at' = 31 /\ UNCHANGED <<ready, found, root>> /\ Len(found) = Len(disc)
    BY <1>0, <1>1, StagePlace DEF PciDone, Stage, Continue
  <2>2. ASSUME Asked PROVE FoundInv'
    BY <2>1, <2>2, SetupStays DEF AskedInv, FoundInv
  <2>3. ASSUME Asked PROVE Passed'
    <3>1. Passed
      BY <2>3 DEF AskedInv
    <3> QED BY <2>1, <3>1, SetupStays DEF Passed
  <2> QED BY <2>1, <2>2, <2>3, SetupStays DEF AskedInv
<1>2. CASE PciFound
  <2> DEFINE f == disc[Len(found) + 1]
             header == setup.pci[f]
  <2>1. /\ setup' = setup /\ outcome' = outcome /\ outcome = "running" /\ at = 30 /\ at' = at /\ root' = root
        /\ Len(found) < Len(disc) /\ pci_device_found(f)
    BY <1>0, <1>2, StagePlace DEF PciFound, Stage
  <2>2. found' = Append(found, f)
    BY <2>1 DEF pci_device_found
  <2>3. /\ "ata" \in ready' <=> "ata" \in ready \/ header.class = "ide"
        /\ "floppy" \in ready' => "floppy" \in ready \/ setup.floppy
    <3> HIDE DEF f
    <3> QED BY <2>1 DEF pci_device_found, ata_init, floppy_init, ethernet_init
  <2>4. ASSUME Asked PROVE FoundInv'
    <3>0. FoundInv /\ disc \in Seq(DOMAIN setup.pci)
      BY <1>a, <2>4 DEF AskedInv, Gives
    <3> HIDE DEF disc
    <3>1. found \in Seq(DOMAIN setup.pci) /\ Len(found) \in Nat /\ Len(disc) \in Nat /\ f \in DOMAIN setup.pci
      BY <2>1, <3>0 DEF FoundInv
    <3> HIDE DEF f
    <3>2. /\ found' \in Seq(DOMAIN setup.pci) /\ Len(found') = Len(found) + 1 /\ found'[Len(found) + 1] = f
          /\ \A k \in 1 .. Len(found) : found'[k] = found[k]
      BY <2>2, <3>1
    <3>3. \A k \in 1 .. Len(found') : k \in 1 .. Len(found) \/ k = Len(found) + 1
      BY <3>1, <3>2
    <3>4. \A k \in 1 .. Len(found') : found'[k] = disc[k]
      BY <3>0, <3>2, <3>3 DEF FoundInv, f, disc
    <3>5. (\E k \in 1 .. Len(found') : setup.pci[found'[k]].class = "ide")
              <=> (\E k \in 1 .. Len(found) : setup.pci[found[k]].class = "ide") \/ header.class = "ide"
      <4>1. Len(found) + 1 \in 1 .. Len(found') /\ \A k \in 1 .. Len(found) : k \in 1 .. Len(found')
        BY <3>1, <3>2
      <4> QED BY <3>2, <3>3, <4>1
    <3>6. Len(found') <= Len(disc)
      BY <2>1, <3>1, <3>2
    <3>7. disc' = disc
      BY <2>1, SetupStays DEF disc
    <3> QED BY <2>1, <2>3, <3>0, <3>2, <3>4, <3>5, <3>6, <3>7 DEF FoundInv, disc
  <2>5. ASSUME Asked PROVE Passed'
    <3>1. Passed
      BY <2>5 DEF AskedInv
    <3> QED BY <2>1, <3>1, SetupStays DEF Passed
  <2> QED BY <2>1, <2>4, <2>5, SetupStays DEF AskedInv
<1> QED BY <1>1, <1>2

\* The drive of the command line is there when the machine has it.
LEMMA DriveIs ==
    ASSUME setup \in Setups, setup.root.kind # "bad", setup.root.disk < 96
    PROVE  /\ parse_cmdline_root(setup.root) \in Drives <=> <<setup.root.kind, setup.root.disk>> \in setup.drives
           /\ DriverOf(parse_cmdline_root(setup.root)) = IF setup.root.kind = "fd" THEN "floppy" ELSE "ata"
<1> DEFINE r == setup.root
           Number(kind, disk) == IF kind = "fd" THEN disk ELSE IF kind = "hd" THEN 128 + disk ELSE 224 + disk
<1>1. r.kind \in Kinds /\ r.disk \in 0 .. 95 /\ setup.drives \subseteq Kinds \X (0 .. 95)
  <2>1. r.kind \in Kinds \cup {"bad"} /\ r.disk \in Nat /\ setup.drives \subseteq Kinds \X (0 .. 95)
    BY BootAssumption, Zenon
  <2>2. \A n \in Nat : n < 96 => n \in 0 .. 95
    OBVIOUS
  <2> QED BY <2>1, <2>2, Zenon
<1>2. parse_cmdline_root(r) = Number(r.kind, r.disk)
  BY <1>1 DEF parse_cmdline_root, Kinds
<1>3. ASSUME NEW d \in setup.drives PROVE parse_cmdline_root([kind |-> d[1], disk |-> d[2]]) = Number(d[1], d[2])
  BY <1>1 DEF parse_cmdline_root, Kinds
<1>4. Drives = {Number(d[1], d[2]) : d \in setup.drives}
  BY <1>3 DEF Drives
<1>5. ASSUME NEW k \in Kinds, NEW l \in Kinds, NEW c \in 0 .. 95, NEW e \in 0 .. 95, Number(k, c) = Number(l, e)
      PROVE  k = l /\ c = e
  BY <1>5 DEF Kinds
<1>6. Number(r.kind, r.disk) \in {Number(d[1], d[2]) : d \in setup.drives} <=> <<r.kind, r.disk>> \in setup.drives
  <2>1. ASSUME NEW d \in setup.drives, Number(d[1], d[2]) = Number(r.kind, r.disk) PROVE d = <<r.kind, r.disk>>
    <3>1. d[1] \in Kinds /\ d[2] \in 0 .. 95 /\ d = <<d[1], d[2]>>
      BY <1>1
    <3>2. d[1] = r.kind /\ d[2] = r.disk
      <4> HIDE DEF Number, r
      <4> QED BY <1>1, <1>5, <2>1, <3>1
    <3> QED BY <3>1, <3>2
  <2>2. <<r.kind, r.disk>>[1] = r.kind /\ <<r.kind, r.disk>>[2] = r.disk
    OBVIOUS
  <2> HIDE DEF Number, r
  <2> QED BY <2>1, <2>2
<1>7. DriverOf(Number(r.kind, r.disk)) = IF r.kind = "fd" THEN "floppy" ELSE "ata"
  BY <1>1 DEF DriverOf, Kinds
<1> QED BY <1>2, <1>4, <1>6, <1>7

\* fs_init: the root is what was asked for, or the machine does not have it.
LEMMA RootSteps == ASSUME BootInv, AskedInv, fs_init PROVE AskedInv'
<1>0. at = 31 /\ outcome = "running" /\ setup \in Setups /\ setup' = setup /\ tags' = tags
  BY StagePlace DEF fs_init, Stage, BootInv, AskedInv
<1> DEFINE drive == parse_cmdline_root(setup.root)
           partition == setup.root.partition
           Sound == validate_cmdline_root /\ ~Driverless(drive)
           Inside == drive \in Drives /\ partition <= 3
<1>1. ASSUME Asked, setup.root.kind # "bad"
      PROVE  /\ Driverless(drive) <=> ~(IF setup.root.kind = "fd" THEN setup.floppy ELSE Has("ide"))
             /\ drive \in Drives <=> <<setup.root.kind, setup.root.disk>> \in setup.drives
             /\ DriverOf(drive) = "ata" /\ ~Driverless(drive) => "ata" \in ready
             /\ DriverOf(drive) = "floppy" /\ ~Driverless(drive) => setup.floppy
             /\ DriverOf(drive) \in {"ata", "floppy"}
  <2>1. /\ drive \in Drives <=> <<setup.root.kind, setup.root.disk>> \in setup.drives
        /\ DriverOf(drive) = IF setup.root.kind = "fd" THEN "floppy" ELSE "ata"
    BY <1>0, <1>1, DriveIs DEF Asked
  <2>2. FoundInv /\ Gives(pci_discover_devices, Expected)
    BY <1>0, <1>1, BootAssumption, DiscoverFinds DEF Asked, AskedInv
  <2>3. "ata" \in ready <=> Has("ide")
    <3>1. /\ Len(found) = Len(pci_discover_devices) /\ Len(found) \in Nat
          /\ \A k \in 1 .. Len(found) : found[k] = pci_discover_devices[k]
          /\ "ata" \in ready <=> \E k \in 1 .. Len(found) : setup.pci[found[k]].class = "ide"
      BY <1>0, <2>2 DEF FoundInv
    <3>2. /\ ToSet(pci_discover_devices) = Expected
          /\ DOMAIN pci_discover_devices = 1 .. Len(pci_discover_devices)
      BY <2>2 DEF Gives
    <3>3. Expected = {pci_discover_devices[k] : k \in 1 .. Len(found)}
      BY <3>1, <3>2 DEF ToSet
    <3>4. (\E e \in Expected : setup.pci[e].class = "ide") <=> (\E k \in 1 .. Len(found) : setup.pci[found[k]].class = "ide")
      BY <3>1, <3>3
    <3> QED BY <3>1, <3>4 DEF Has
  <2>4. "floppy" \in ready => setup.floppy
    BY <2>2 DEF FoundInv
  <2> HIDE DEF drive
  <2>5. Driverless(drive) <=> DriverOf(drive) \notin ready /\ ~(DriverOf(drive) = "floppy" /\ setup.floppy)
    BY DEF Driverless
  <2> QED BY <2>1, <2>3, <2>4, <2>5
<1> HIDE DEF drive
<1>2. CASE ~validate_cmdline_root /\ Panic({"tty"})
  <2>1. ~Bootable
    BY <1>2 DEF validate_cmdline_root, Bootable
  <2> QED BY <1>0, <1>2, <2>1, PanicStep
<1>3. CASE validate_cmdline_root /\ Driverless(drive) /\ Panic({})
  <2>1. Asked => ~Bootable
    BY <1>1, <1>3, BootableIs DEF validate_cmdline_root, RootThere
  <2> QED BY <1>0, <1>3, <2>1, PanicStep
<1>4. CASE outcome' = "wild" /\ UNCHANGED <<at, ready, found, root>>
  BY <1>0, <1>4, QuietStep
<1>5. CASE ~setup.resets /\ Panic({"interrupts"})
  BY <1>0, <1>5, PanicStep DEF Bootable
<1>6. CASE ~mbr_init(partition) /\ Panic({"interrupts", "wide", "heap"})
  BY <1>0, <1>6, PanicStep DEF Bootable, mbr_init
<1>7. CASE /\ Sound /\ Inside /\ setup.resets /\ mbr_init(partition)
           /\ iodriver_init(drive)
           /\ ready' = ready \cup {"rootfs", DriverOf(drive)}
           /\ root' = <<drive, partition>>
           /\ Continue
           /\ UNCHANGED <<found, eth>>
  <2>1. at' = 32 /\ outcome' = "running" /\ setup.root.kind # "bad"
    BY <1>0, <1>7 DEF Continue, validate_cmdline_root
  <2>2. ASSUME Asked PROVE RootIsAsked'
    <3>1. RootThere
      BY <1>1, <1>7, <2>1, <2>2 DEF RootThere, mbr_init
    <3> QED BY <1>0, <1>7, <3>1, SetupStays DEF RootIsAsked, drive
  <2>3. ASSUME Asked PROVE FoundInv'
    <3>1. FoundInv
      BY <2>3 DEF AskedInv
    <3>2. /\ "ata" \in ready' <=> "ata" \in ready
          /\ "floppy" \in ready' => setup.floppy
      BY <1>1, <1>7, <2>1, <2>3, <3>1 DEF FoundInv
    <3> QED BY <1>0, <1>7, <2>1, <3>1, <3>2, SetupStays DEF FoundInv
  <2>4. ASSUME Asked PROVE Passed'
    <3>1. Passed
      BY <2>4 DEF AskedInv
    <3> QED BY <1>0, <2>1, <2>2, <2>4, <3>1, SetupStays DEF Passed
  <2> QED BY <1>0, <2>3, <2>4, SetupStays DEF AskedInv
<1> QED BY <1>2, <1>3, <1>4, <1>5, <1>6, <1>7 DEF fs_init, drive

LEMMA SystemSteps == ASSUME BootInv, AskedInv, system PROVE AskedInv'
<1>0. at = 34 /\ outcome = "running" /\ setup \in Setups /\ setup' = setup /\ tags' = tags
  BY StagePlace DEF system, Stage, BootInv, AskedInv
<1>1. CASE ~setup.init /\ Panic({"process", "vfs", "mmu"})
  BY <1>0, <1>1, PanicStep DEF Bootable
<1>2. CASE setup.init /\ outcome' = "up" /\ UNCHANGED <<at, ready, found, root>>
  <2>1. ASSUME Asked PROVE FoundInv'
    BY <1>0, <1>2, <2>1, SetupStays DEF FoundInv, AskedInv
  <2>2. ASSUME Asked PROVE Passed'
    <3>1. Passed
      BY <2>2 DEF AskedInv
    <3>2. RootIsAsked' <=> RootIsAsked
      BY <1>0, <1>2, SetupStays DEF RootIsAsked
    <3> QED BY <1>0, <1>2, <3>1, <3>2, SetupStays DEF Passed
  <2> QED BY <1>0, <2>1, <2>2, SetupStays DEF AskedInv
<1> QED BY <1>1, <1>2 DEF system

LEMMA AskedSteps == BootInv /\ AskedInv /\ [BootNext]_bootvars => AskedInv'
<1> SUFFICES ASSUME BootInv, AskedInv, [BootNext]_bootvars PROVE AskedInv'
  OBVIOUS
<1>1. CASE UNCHANGED bootvars
  <2>1. UNCHANGED <<setup, at, ready, found, root, outcome>>
    BY <1>1 DEF bootvars
  <2> QED BY <2>1, QuietStep DEF BootInv
<1>2. CASE BootNext
  BY <1>2, QuietSteps, CheckSteps, PciSteps, RootSteps, SystemSteps, Zenon DEF BootNext, QuietStage
<1> QED BY <1>1, <1>2

\* On every machine whose buses are numbered as the firmware does it, and for every
\* command line: the kernel comes up only with the drive and the partition that the
\* command line names as root, gives up only when the machine lacks something, and
\* when it is up every function on the bus, however deep behind bridges, was given to
\* its driver, and once (kernel.c:92, pci.c:159, cmdline.c:58).
THEOREM StartsAsAsked == BootSpec => []BootedAsAsked
<1>1. ASSUME AskedInv PROVE BootedAsAsked
  <2> SUFFICES ASSUME Asked
               PROVE  /\ outcome = "up" => Bootable /\ root = <<parse_cmdline_root(setup.root), setup.root.partition>>
                      /\ outcome = "panic" => ~Bootable
                      /\ outcome = "up" => ToSet(found) = Expected /\ IsInjective(found)
    BY DEF BootedAsAsked, Asked
  <2>1. setup \in Setups /\ FoundInv /\ Passed
    BY <1>1 DEF AskedInv
  <2>2. Gives(pci_discover_devices, Expected)
    BY <2>1, BootAssumption, DiscoverFinds DEF Asked
  <2>3. ASSUME outcome = "up" PROVE Bootable /\ root = <<parse_cmdline_root(setup.root), setup.root.partition>>
    BY <2>1, <2>3, BootableIs DEF Passed, RootIsAsked
  <2>4. ASSUME outcome = "up" PROVE found = pci_discover_devices
    <3>1. /\ found \in Seq(DOMAIN setup.pci) /\ Len(found) = Len(pci_discover_devices)
          /\ \A k \in 1 .. Len(found) : found[k] = pci_discover_devices[k]
      BY <2>1, <2>4 DEF Passed, FoundInv
    <3>2. pci_discover_devices \in Seq(DOMAIN setup.pci)
      BY <2>2 DEF Gives
    <3> QED BY <3>1, <3>2, SeqEqual
  <2> QED BY <2>1, <2>2, <2>3, <2>4 DEF Gives, Passed
<1>2. AskedInv => BootedAsAsked
  BY <1>1
<1> QED BY <1>2, BootStarts, BootSteps, AskedStarts, AskedSteps, PTL DEF BootSpec
=============================================================================
