------------------------------- MODULE Screen -------------------------------
(***************************************************************************)
(* The screen of a terminal: the second half of drivers/tty.c with          *)
(* drivers/video/framebuffer.c.  One action per character written or call   *)
(* made.  A cell is a character and its colour; in a graphics mode a cell   *)
(* of the framebuffer is the block of pixels the character is drawn in.     *)
(* Characters are signed: those from 0x80 on are negative numbers.          *)
(*                                                                         *)
(* Beside it goes what the screen is meant to show: an endless tape of      *)
(* cells, written at a place that only moves to and fro, of which the       *)
(* screen shows the last rows.                                              *)
(***************************************************************************)
EXTENDS Integers

CONSTANTS
    Width, Height,     \* text_buffer_width, text_buffer_height
    TabStop,           \* 8
    DefaultColor,      \* DEFAULT_COLOR
    Colors,            \* the colours that tty_setcolor is called with
    Places,            \* the places that tty_gotoxy is called with
    High,              \* the characters, by number, that may be bytes from 0x80 on
    MaxOut,            \* bound: characters written
    MaxCalls           \* bound: other calls

ASSUME ScreenAssumption ==
    /\ {Width, Height, TabStop, MaxOut, MaxCalls} \subseteq Nat \ {0}
    /\ Places \subseteq Int \X Int
    /\ \A xy \in Places : xy[1] >= -Width /\ xy[2] >= -Height    \* from the end: 19 columns, one row

VARIABLES
    graphics,            \* whether the framebuffer is in a graphics mode
    text_buffer, fb,     \* [0 .. Width * Height - 1 -> cells]
    pos_x, pos_y,        \* text_buffer_pos_x, text_buffer_pos_y
    text_color,
    wrote, calls,        \* how many characters were written, and calls made
    tape,                \* what was written: a function from places to cells
    place,               \* where on the tape the next character goes
    bottom,              \* the last row of the tape that is shown
    astray               \* a tab has left the row: see Tab

screenvars == <<graphics, text_buffer, fb, pos_x, pos_y, text_color, wrote, calls, tape, place, bottom, astray>>

Cells == 0 .. Width * Height - 1
Space == 0             \* the characters written are numbered from 1 on, or from -1 down
Nothing == <<0, 0>>    \* memset 0: black on black
NoGlyph == -MaxOut - 1 \* no character: what lies before the font
Ones == 255            \* a colour byte of ones: white on white

\* A character as it is meant.
Meant(c) == <<c, text_color>>

\* (color << 8) | c: the sign of a negative character covers the colour.
Cell(c) == IF c < 0 THEN <<c, Ones>> ELSE <<c, text_color>>

\* In a graphics mode the character is drawn in its colour with the shape
\* ascii[c], which for a negative character is not in the font.
Glyph(c) == IF ~graphics THEN Cell(c) ELSE <<IF c < 0 THEN NoGlyph ELSE c, text_color>>

\* text_buffer is not cleared when it is allocated, nor is the framebuffer.
ScreenInit ==
    /\ graphics \in BOOLEAN
    /\ text_buffer = [p \in Cells |-> <<NoGlyph, 1>>]
    /\ fb = [p \in Cells |-> <<NoGlyph, 2>>]
    /\ pos_x = 0 /\ pos_y = 0
    /\ text_color = DefaultColor
    /\ wrote = 0 /\ calls = 0
    /\ tape = [p \in {} |-> Nothing]
    /\ place = 0
    /\ bottom = Height - 1
    /\ astray = FALSE

Top == bottom - Height + 1
Over(f, g) == [p \in DOMAIN f \cup DOMAIN g |-> IF p \in DOMAIN f THEN f[p] ELSE g[p]]
RowOf(row, cell) == [p \in row * Width .. row * Width + Width - 1 |-> cell]

\* The tape moves up when its place is on a row that is not shown yet.
ShowRow(row, written) ==
    IF row > bottom
    THEN bottom' = row /\ tape' = Over(written, Over(RowOf(row, Nothing), tape))
    ELSE bottom' = bottom /\ tape' = Over(written, tape)

-----------------------------------------------------------------------------
\* tty_gotoxy: nothing happens for a place that is not on the screen.
Resolved(x, y) == <<IF x < 0 THEN x + Width ELSE x, IF y < 0 THEN y + Height ELSE y>>
OnScreen(xy) == xy[1] < Width /\ xy[2] < Height
gotoxy(x, y) ==
    LET xy == Resolved(x, y)
    IN  /\ pos_x' = IF OnScreen(xy) THEN xy[1] ELSE pos_x
        /\ pos_y' = IF OnScreen(xy) THEN xy[2] ELSE pos_y

\* tty_handle_scroll and the scroll of the framebuffer: every row but the first
\* moves up and the last one is cleared.
ScrolledKeeping(cells) == [p \in Cells |-> IF p < Width * (Height - 1) THEN cells[p + Width] ELSE cells[p]]
Scrolled(cells) == [p \in Cells |-> IF p < Width * (Height - 1) THEN cells[p + Width] ELSE Nothing]

\* Writing one cell after another from p on, into memory and on the screen.
Written(cells, p, n, cell) == [q \in Cells |-> IF q \in p .. p + n - 1 THEN cell ELSE cells[q]]

Quiet == UNCHANGED <<graphics, text_color, calls>>
MayWrite == wrote < MaxOut /\ wrote' = wrote + 1

\* An ordinary character.  The screen is scrolled when the cursor is behind the
\* last cell, not when it gets there.
PutChar(c) ==
    /\ MayWrite
    /\ LET full == pos_y * Width + pos_x = Width * Height
           px == IF full THEN 0 ELSE pos_x
           py == IF full THEN Height - 1 ELSE pos_y
           Drawn(cells, cell) == Written(IF full THEN Scrolled(cells) ELSE cells, py * Width + px, 1, cell)
       IN  /\ text_buffer' = Drawn(text_buffer, Cell(c))
           /\ fb' = Drawn(fb, Glyph(c))
           /\ pos_x' = IF px + 1 = Width THEN 0 ELSE px + 1
           /\ pos_y' = IF px + 1 = Width THEN py + 1 ELSE py
    /\ ShowRow(place \div Width, [p \in {place} |-> Meant(c)])
    /\ place' = place + 1
    /\ UNCHANGED astray
    /\ Quiet

\* '\b': back by one cell, over the edge of a row, which is erased.
BackSpace ==
    /\ MayWrite
    /\ ~(pos_x = 0 /\ pos_y = 0)
    /\ pos_x' = IF pos_x = 0 THEN Width - 1 ELSE pos_x - 1
    /\ pos_y' = IF pos_x = 0 THEN pos_y - 1 ELSE pos_y
    /\ text_buffer' = Written(text_buffer, pos_y' * Width + pos_x', 1, Cell(Space))
    /\ fb' = Written(fb, pos_y' * Width + pos_x', 1, Glyph(Space))
    /\ place' = place - 1
    /\ tape' = Over([p \in {place - 1} |-> Meant(Space)], tape)
    /\ UNCHANGED <<bottom, astray>>
    /\ Quiet

\* '\t': spaces to the next stop or to the edge.  At the edge the cursor stays
\* behind the last column and later characters run on past the row; below the
\* last row the spaces are stored behind the buffer.
Tab ==
    /\ MayWrite
    /\ LET room == IF pos_x < Width THEN Width - pos_x ELSE 0
           stop == TabStop - (pos_x % TabStop)
           n == IF stop < room THEN stop ELSE room
       IN  /\ pos_x' = pos_x + n
           /\ text_buffer' = Written(text_buffer, pos_y * Width + pos_x, n, Cell(Space))
           /\ fb' = Written(fb, pos_y * Width + pos_x, n, Glyph(Space))
           /\ astray' = (astray \/ pos_x' >= Width \/ pos_y = Height)
           /\ place' = place + n
           /\ tape' = Over([p \in place .. place + n - 1 |-> Meant(Space)], tape)
    /\ UNCHANGED <<pos_y, bottom>>
    /\ Quiet

\* '\r'
Return ==
    /\ MayWrite
    /\ gotoxy(0, pos_y)
    /\ place' = place - (place % Width)
    /\ UNCHANGED <<text_buffer, fb, tape, bottom, astray>>
    /\ Quiet

\* '\n'.  Behind the last cell it asks for a row below the screen: nothing
\* happens, the row is begun already.
NewLine ==
    /\ MayWrite
    /\ IF pos_y + 1 = Height
       THEN /\ text_buffer' = Scrolled(text_buffer)
            /\ fb' = Scrolled(fb)
            /\ gotoxy(0, Height - 1)
       ELSE gotoxy(0, pos_y + 1) /\ UNCHANGED <<text_buffer, fb>>
    /\ LET row == place \div Width
       IN  IF row > bottom THEN UNCHANGED <<place, tape, bottom>>
           ELSE place' = (row + 1) * Width /\ ShowRow(row + 1, [p \in {} |-> Nothing])
    /\ UNCHANGED astray
    /\ Quiet

-----------------------------------------------------------------------------
MayCall == calls < MaxCalls /\ calls' = calls + 1

tty_setcolor ==
    /\ MayCall
    /\ text_color' \in Colors \ {text_color}
    /\ UNCHANGED <<graphics, text_buffer, fb, pos_x, pos_y, wrote, tape, place, bottom, astray>>

\* Every cell is set, then every cell is drawn.
tty_clear ==
    /\ MayCall
    /\ text_buffer' = Written(text_buffer, 0, Width * Height, Cell(Space))
    /\ fb' = Written(fb, 0, Width * Height, Glyph(Space))
    /\ gotoxy(0, 0)
    /\ tape' = Over([p \in Top * Width .. Top * Width + Width * Height - 1 |-> Meant(Space)], tape)
    /\ place' = Top * Width
    /\ astray' = FALSE
    /\ UNCHANGED <<graphics, text_color, wrote, bottom>>

tty_gotoxy ==
    /\ MayCall
    /\ \E xy \in Places :
          /\ gotoxy(xy[1], xy[2])
          /\ place' = IF OnScreen(Resolved(xy[1], xy[2]))
                      THEN (Top + Resolved(xy[1], xy[2])[2]) * Width + Resolved(xy[1], xy[2])[1] ELSE place
    /\ UNCHANGED <<graphics, text_buffer, fb, text_color, wrote, tape, bottom, astray>>

ScreenNext ==
    \/ PutChar(wrote + 1)
    \/ wrote + 1 \in High /\ PutChar(-(wrote + 1))
    \/ BackSpace \/ Tab \/ Return \/ NewLine \/ tty_setcolor \/ tty_clear \/ tty_gotoxy
ScreenSpec == ScreenInit /\ [][ScreenNext]_screenvars

-----------------------------------------------------------------------------
\* A cell shows the character that was meant in its colour.  Of a character
\* from 0x80 on it keeps only one of the two, the character where it is stored
\* as a number and the colour where it is drawn.
Shown(cell, meant) ==
    \/ cell = meant
    \/ meant[1] < 0 /\ (cell = <<meant[1], Ones>> \/ cell = <<NoGlyph, meant[2]>>)

\* Until a tab leaves its row, memory and screen show the last rows of what was
\* written, each character in its place and, up to 0x7F, in its colour, the new
\* rows empty, and the cursor is where the next character goes (tty.c:147):
\* wrapping, scrolling, going back over the edge of a row and filling the last
\* cell never lose or repeat a row.
ScreenIsText ==
    ~astray =>
        /\ pos_y * Width + pos_x = place - Top * Width
        /\ \A p \in Cells :
              Top * Width + p \in DOMAIN tape =>
                 Shown(text_buffer[p], tape[Top * Width + p]) /\ Shown(fb[p], tape[Top * Width + p])
=============================================================================
