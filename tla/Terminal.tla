------------------------------ MODULE Terminal ------------------------------
(***************************************************************************)
(* The terminal: drivers/tty.c between the keyboard interrupt              *)
(* (drivers/keyboard.c) and the system calls read and write on the         *)
(* terminal in use (libc/stdio.c).                                         *)
(*                                                                         *)
(* A call runs with interrupts on and the scheduler off, so one call is in *)
(* progress at a time and the keyboard may interrupt it between any two    *)
(* accesses to the buffers; the interrupt itself, its echo included, is    *)
(* one step.  The kernel is built without optimisation: every access       *)
(* reads memory again, and out_buffer_end++ is a load and a store.         *)
(*                                                                         *)
(* The steps of a call are the accesses that the interrupt can tell apart; *)
(* a local variable is 0 while it is not in use.                           *)
(* canon and echo are always on.  Where a character appears on the screen  *)
(* is left out.                                                            *)
(***************************************************************************)
EXTENDS Integers, Sequences, SequencesExt

CONSTANTS
    Keys,          \* the keys, by their scan codes
    kblayout,      \* [Keys -> Bytes \cup {Backspace}]
    Combo,         \* Ctrl, Alt and Del
    Bytes,         \* characters other than '\b'
    Newline,       \* '\n'
    Backspace,     \* '\b'
    InSize,        \* in_buffer_size (1024)
    OutSize,       \* out_buffer_size (1024)
    Lengths,       \* lengths that read is called with
    Messages       \* sequences that write is called with

ASSUME TerminalAssumption ==
    /\ Newline \in Bytes /\ Backspace \notin Bytes
    /\ kblayout \in [Keys -> Bytes \cup {Backspace}]
    /\ Combo \subseteq Keys /\ Combo # {}
    /\ InSize \in Nat \ {0} /\ OutSize \in Nat \ {0}
    /\ Lengths \subseteq Nat
    /\ Messages \subseteq Seq(Bytes)

VARIABLES
    in_buffer, in_start, in_end,        \* tty_t
    out_buffer, out_end,                \* tty_t; out_buffer_start is always 0
    pressed,                            \* the keys of Combo that are down
    stopped,                            \* the machine has stopped in panic
    pc,                                 \* the next step of the call
    i,                                  \* tty_canon_has_eol, tty_flush: i; tty_write: the
                                        \* value of out_buffer_end in a register
    left,                               \* tty_read: len
    todo,                               \* tty_write: what is left of buf
    text,                               \* history: what was typed and not taken back
    delivered,                          \* history: what read has returned so far
    overrun,                            \* history: a character was taken back while read copied it
    message,                            \* history: what the last write was asked to show
    shown,                              \* history: what it has shown so far
    clash                               \* history: a key was echoed during the last write

input  == <<in_buffer, in_start, in_end, left, text, delivered, overrun>>
output == <<out_buffer, out_end, todo, message, shown, clash>>
vars == <<input, output, pressed, stopped, pc, i>>

\* The program runs, or the kernel for it.
Reading == {"scan", "copy", "take", "advance"}
Writing == {"put", "store", "load", "bump", "flush", "flush_last"}
PCs == Reading \cup Writing \cup {"user"}

\* The CPU is about to take this step of the call.
At(label) == pc = label /\ ~stopped

\* An index that has reached the size starts again.
Wrap(n, size) == IF n = size THEN 0 ELSE n

-----------------------------------------------------------------------------
(* The keyboard interrupt.                                                 *)

\* tty_write of one character, all at once, then tty_flush.
Echo(c) ==
    /\ out_buffer' = [out_buffer EXCEPT ![Wrap(out_end, OutSize)] = c]
    /\ out_end' = 0
    /\ clash' = (clash \/ pc \in Writing)
    /\ UNCHANGED <<todo, message, shown>>

\* tty_read_char: nothing happens any more when the buffer's end is reached.
Ignored == UNCHANGED <<input, output>>

TypeChar(c) ==
    /\ in_buffer' = [in_buffer EXCEPT ![in_end] = c]
    /\ in_end' = in_end + 1
    /\ text' = Append(text, c)
    /\ Echo(c)
    /\ UNCHANGED <<in_start, left, delivered, overrun>>

CanEraseRead == in_end > 0
CanErase == in_end > in_start
Erase ==
    /\ in_end' = in_end - 1
    /\ text' = IF text = <<>> THEN text ELSE Front(text)
    /\ overrun' = (overrun \/ (pc \in {"take", "advance"} /\ in_end = in_start + 1))
    /\ Echo(Backspace)
    /\ UNCHANGED <<in_buffer, in_start, left, delivered>>

tty_read_char(c) ==
    \/ in_end = InSize /\ Ignored
    \/ in_end # InSize /\ c # Backspace /\ TypeChar(c)
    \/ in_end # InSize /\ c = Backspace /\ CanErase /\ Erase
    \/ in_end # InSize /\ c = Backspace /\ ~CanErase /\ Ignored

\* keyboard_handler for a key that goes down, or repeats, and for one that goes up.
KeyDown(k) ==
    /\ ~stopped
    /\ tty_read_char(kblayout[k])
    /\ pressed' = pressed \cup ({k} \cap Combo)
    /\ stopped' = (Combo \subseteq pressed')
    /\ UNCHANGED <<pc, i>>

KeyUp(k) ==
    /\ ~stopped
    /\ k \in pressed
    /\ pressed' = pressed \ {k}
    /\ UNCHANGED <<input, output, stopped, pc, i>>

-----------------------------------------------------------------------------
(* read: wait for a line, then copy.                                       *)

ScanStartLate == IF in_start < InSize THEN in_start + 1 ELSE in_start
ScanStart == in_start

Read(len) ==
    /\ At("user")
    /\ pc' = "scan"
    /\ i' = ScanStart
    /\ left' = len
    /\ UNCHANGED <<in_buffer, in_start, in_end, text, delivered, overrun, output, pressed, stopped>>

\* One iteration of tty_canon_has_eol; when it found nothing the CPU halts until the
\* next interrupt, at the latest the timer's, and the search starts again.
Scan ==
    /\ At("scan")
    /\ \/ i = in_end /\ i' = ScanStart /\ pc' = "scan"
       \/ /\ i # in_end /\ in_buffer[Wrap(i, InSize)] # Newline
          /\ i' = Wrap(i, InSize) + 1 /\ pc' = "scan"
       \/ /\ i # in_end /\ in_buffer[Wrap(i, InSize)] = Newline
          /\ i' = 0 /\ pc' = "copy"
    /\ UNCHANGED <<input, output, pressed, stopped>>

\* tty_read: the tests of one turn, one character, and the loop's in_buffer_start++
\* after it.
Turn ==
    /\ At("copy")
    /\ left > 0 /\ in_start # in_end /\ Wrap(in_start, InSize) # in_end
    /\ in_start' = Wrap(in_start, InSize)
    /\ pc' = "take"
    /\ UNCHANGED <<in_buffer, in_end, left, text, delivered, overrun, output, pressed, stopped, i>>

Copy ==
    /\ At("take")
    /\ delivered' = IF overrun THEN delivered ELSE Append(delivered, in_buffer[in_start])
    /\ left' = left - 1
    /\ pc' = "advance"
    /\ UNCHANGED <<in_buffer, in_start, in_end, text, overrun, output, pressed, stopped, i>>

Advance ==
    /\ At("advance")
    /\ in_start' = in_start + 1
    /\ pc' = "copy"
    /\ UNCHANGED <<in_buffer, in_end, left, text, delivered, overrun, output, pressed, stopped, i>>

\* tty_read returns, from the loop's condition or from the break after the wrap.
ReadReturns ==
    /\ At("copy")
    /\ \/ (left = 0 \/ in_start = in_end) /\ UNCHANGED in_start
       \/ /\ left > 0 /\ in_start # in_end /\ Wrap(in_start, InSize) = in_end
          /\ in_start' = in_end
    /\ left' = 0
    /\ pc' = "user"
    /\ UNCHANGED <<in_buffer, in_end, text, delivered, overrun, output, pressed, stopped, i>>

-----------------------------------------------------------------------------
(* write: fill the buffer and flush it.                                    *)

Write(buf) ==
    /\ At("user")
    /\ pc' = "put"
    /\ todo' = buf
    /\ message' = buf
    /\ shown' = <<>>
    /\ clash' = FALSE
    /\ UNCHANGED <<out_buffer, out_end, input, pressed, stopped, i>>

\* The loop's condition, the test for a full buffer, and the load of the index.
FullLate == out_end = OutSize + 1
Full == out_end = OutSize
Put ==
    /\ At("put")
    /\ \/ todo = <<>> /\ pc' = "flush_last" /\ i' = 0
       \/ todo # <<>> /\ Full /\ pc' = "flush" /\ i' = 0
       \/ todo # <<>> /\ ~Full /\ pc' = "store" /\ i' = out_end
    /\ UNCHANGED <<input, output, pressed, stopped>>

Store ==
    /\ At("store")
    /\ out_buffer' = [out_buffer EXCEPT ![i] = Head(todo)]
    /\ pc' = "load"
    /\ UNCHANGED <<out_end, todo, message, shown, clash, input, pressed, stopped, i>>

\* out_buffer_end++.
Load ==
    /\ At("load")
    /\ i' = out_end
    /\ pc' = "bump"
    /\ UNCHANGED <<input, output, pressed, stopped>>

Bump ==
    /\ At("bump")
    /\ out_end' = i + 1
    /\ todo' = Tail(todo)
    /\ i' = 0
    /\ pc' = "put"
    /\ UNCHANGED <<out_buffer, message, shown, clash, input, pressed, stopped>>

\* One iteration of tty_flush.
Flush ==
    /\ At("flush") \/ At("flush_last")
    /\ i # out_end
    /\ i' = Wrap(i, OutSize) + 1
    /\ shown' = IF clash THEN shown ELSE Append(shown, out_buffer[Wrap(i, OutSize)])
    /\ UNCHANGED <<out_buffer, out_end, todo, message, clash, input, pressed, stopped, pc>>

FlushReturnsEarly ==
    /\ At("flush") \/ At("flush_last")
    /\ i + 1 >= out_end
    /\ out_end' = 0
    /\ i' = 0
    /\ pc' = IF pc = "flush" THEN "store" ELSE "user"
    /\ UNCHANGED <<out_buffer, todo, message, shown, clash, input, pressed, stopped>>

\* tty_flush returns: into tty_write, which goes on with the store, or at its end.
FlushReturns ==
    /\ At("flush") \/ At("flush_last")
    /\ i = out_end
    /\ out_end' = 0
    /\ i' = 0
    /\ pc' = IF pc = "flush" THEN "store" ELSE "user"
    /\ UNCHANGED <<out_buffer, todo, message, shown, clash, input, pressed, stopped>>

-----------------------------------------------------------------------------
\* tty_init and keyboard_init; the buffers are not cleared.
Init ==
    /\ in_buffer \in [0 .. InSize - 1 -> Bytes]
    /\ out_buffer \in [0 .. OutSize - 1 -> Bytes]
    /\ in_start = 0 /\ in_end = 0 /\ out_end = 0
    /\ pressed = {} /\ stopped = FALSE
    /\ pc = "user"
    /\ i = 0 /\ left = 0 /\ todo = <<>>
    /\ text = <<>> /\ delivered = <<>> /\ overrun = FALSE
    /\ message = <<>> /\ shown = <<>> /\ clash = FALSE

\* The CPU inside a call.
Kernel ==
    \/ Scan \/ Turn \/ Copy \/ Advance \/ ReadReturns
    \/ Put \/ Store \/ Load \/ Bump \/ Flush \/ FlushReturns

Next ==
    \/ Kernel
    \/ \E k \in Keys : KeyDown(k)
    \/ \E k \in Combo : KeyUp(k)
    \/ \E len \in Lengths : Read(len)
    \/ \E buf \in Messages : Write(buf)

\* The CPU goes on with the call after every interrupt.
Spec == Init /\ [][Next]_vars /\ WF_vars(Kernel)

-----------------------------------------------------------------------------
(* Properties.                                                             *)

\* Every variable has its type; the indices never leave their buffers, whatever the
\* keyboard does in the middle of a call.
TypeOK ==
    /\ in_buffer \in [0 .. InSize - 1 -> Bytes]
    /\ out_buffer \in [0 .. OutSize - 1 -> Bytes \cup {Backspace}]
    /\ in_start \in 0 .. InSize /\ in_end \in 0 .. InSize
    /\ out_end \in 0 .. OutSize
    /\ pressed \subseteq Combo /\ stopped \in BOOLEAN
    /\ pc \in PCs
    /\ i \in Nat
    /\ pc = "scan" => i <= InSize
    /\ pc \in {"store", "bump"} => i < OutSize
    /\ pc \in {"flush", "flush_last"} => i <= OutSize
    /\ pc \in {"take", "advance"} => in_start < InSize
    /\ left \in Nat /\ (pc = "take" => left > 0)
    /\ todo \in Seq(Bytes) /\ text \in Seq(Bytes) /\ delivered \in Seq(Bytes)
    /\ message \in Seq(Bytes) /\ shown \in Seq(Bytes \cup {Backspace})
    /\ overrun \in BOOLEAN /\ clash \in BOOLEAN

\* The number of characters that read has copied.
Copied == IF pc = "advance" THEN in_start + 1 ELSE in_start

\* read returns what was typed and not taken back, each character once and in order,
\* with any keys at any moment of the call, as long as the last character was not
\* taken back between the test that found it and in_buffer_start++.
InputIsExact ==
    ~overrun =>
        /\ Len(delivered) = Copied
        /\ Copied <= Len(text)
        /\ \A k \in 1 .. Len(delivered) : delivered[k] = text[k]

\* write shows its characters, all and in order, through a buffer that may be
\* shorter, unless a key is echoed meanwhile.
WrittenIsShown == pc = "user" /\ ~clash => shown = message

\* A complete line wakes the reader and read returns, unless the line is taken back.
HasLine == \E k \in in_start .. in_end - 1 : in_buffer[k] = Newline
LineIsRead == (pc = "scan" /\ HasLine) ~> (pc = "user" \/ stopped \/ ~HasLine)

\* write returns.
WriteReturns == (pc = "put") ~> (pc = "user" \/ stopped)
=============================================================================
