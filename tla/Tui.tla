-------------------------------- MODULE Tui ---------------------------------
(***************************************************************************)
(* The text console driver, src/src/drivers/tui/tui.c, with the CRT        *)
(* controller's cursor registers it programs through port.c.               *)
(*                                                                         *)
(* The kernel runs with interrupts off and has one thread, so every driver *)
(* call is one step, but for printing: a call hands its characters over    *)
(* in todo, and every iteration of the loop of TUI_writeBuf is a step.     *)
(*                                                                         *)
(* Video memory is modelled by the visible page.  A store beyond it never  *)
(* reaches a visible cell, as TUI_scroll reads inside the page only; that  *)
(* the cursor, where the stores go, stays inside the 32 KB the adapter     *)
(* decodes is the invariant CursorInVideoMemory.                           *)
(***************************************************************************)
EXTENDS Integers, Sequences

CONSTANTS
    TUI_WIDTH, TUI_HEIGHT,  \* 80 and 25
    TUI_MEM_CELLS,          \* TUI_MEM_SIZE / sizeof(char_t): 16384
    UINT8,                  \* 2^8, the range of pos_t's fields and of a port
    LF, TAB, BS, SPACE,     \* the characters the driver treats specially
    Glyphs,                 \* the other characters callers print
    Colors,                 \* the colours callers ask for
    Strings,                \* the strings callers print
    InitText,               \* "TUI init.\n"
    BootScreens,            \* what the firmware may leave on the screen
    Rows, Cols,             \* what callers pass to the positioning functions
    EdgeTabs                \* callers print tabs close to the right edge

COLOR_BLACK == 0
COLOR_WHITE == 15

Chars == Glyphs \cup {SPACE, LF, TAB, BS}

\* Char_t values a cell can hold: any character in any two 4-bit colours.
Color4 == 0 .. 15
Cell == [c : Chars, fore : Color4, back : Color4]
Pos == [col : 0 .. UINT8 - 1, row : 0 .. UINT8 - 1]
Page == 0 .. TUI_WIDTH * TUI_HEIGHT - 1

ASSUME SizeAssumption ==
    /\ TUI_WIDTH \in Nat \ {0}
    /\ TUI_HEIGHT \in Nat \ {0}
    /\ UINT8 \in Nat
    /\ TUI_WIDTH < UINT8 /\ TUI_HEIGHT < UINT8
    /\ TUI_MEM_CELLS \in Nat
    /\ (TUI_HEIGHT - 1) * TUI_WIDTH + UINT8 <= TUI_MEM_CELLS
    /\ TUI_MEM_CELLS <= UINT8 * UINT8

ASSUME CharAssumption == LF # TAB /\ TAB # BS /\ LF # BS

\* What the driver may assume of its callers: positions are on the screen,
\* colours are the 16 of color.h.
ASSUME CallerAssumption ==
    /\ Rows \subseteq 0 .. TUI_HEIGHT - 1
    /\ Cols \subseteq 0 .. TUI_WIDTH - 1
    /\ Colors \subseteq Color4
    /\ InitText \in Seq(Chars)
    /\ Strings \subseteq Seq(Chars)
    /\ BootScreens \subseteq [Page -> Cell]
    /\ EdgeTabs \in BOOLEAN

VARIABLES
    up,         \* TUI_init has run
    mem,        \* TUI_buffer: the visible page
    TUI_pos,    \* [col, row]
    TUI_color,  \* [fore, back]
    crtc,       \* the CRT controller: [sel, reg]
    todo        \* the characters handed over and not yet printed

vars == <<up, mem, TUI_pos, TUI_color, crtc, todo>>

-----------------------------------------------------------------------------
(* port.c and the device behind the two ports.                             *)

TUI_ADDR == 980             \* 0x3D4
TUI_DATA == 981             \* 0x3D5
TUI_CURSOR_H == 14          \* 0xE
TUI_CURSOR_L == 15          \* 0xF

Crtc == [sel : {TUI_CURSOR_H, TUI_CURSOR_L},
         reg : [{TUI_CURSOR_H, TUI_CURSOR_L} -> 0 .. UINT8 - 1]]

port_outb(crt, port, data) ==
    IF port = TUI_ADDR
    THEN [sel |-> data, reg |-> crt.reg]
    ELSE [sel |-> crt.sel, reg |-> [crt.reg EXCEPT ![crt.sel] = data]]

port_inb(crt) == crt.reg[crt.sel]

-----------------------------------------------------------------------------
(* Values.                                                                 *)

make_col(fore, back) == [fore |-> fore, back |-> back]
make_pos(col, row) == [col |-> col, row |-> row]
make_char(c, color) == [c |-> c, fore |-> color.fore, back |-> color.back]

Index(pos) == pos.row * TUI_WIDTH + pos.col

TUI_write(m, idx, ch) == [i \in Page |-> IF i = idx THEN ch ELSE m[i]]

TUI_putEntryAt(m, c, color, x, y) ==
    TUI_write(m, y * TUI_WIDTH + x, make_char(c, color))

\* color_t is the bitwise or of the two 4-bit fields.
Bit(n, b) == (n \div b) % 2
BitOr(m, n) ==
    LET or(b) == IF Bit(m, b) = 1 \/ Bit(n, b) = 1 THEN b ELSE 0
    IN  or(1) + or(2) + or(4) + or(8)

TUI_getColor(color) == BitOr(color.back, color.fore)

\* A register of the controller is selected, then written.
Programmed(crt, half, data) ==
    port_outb(port_outb(crt, TUI_ADDR, half), TUI_DATA, data)

\* The cursor registers after TUI_setPos(pos): the high half, then the low.
CursorAt(crt, pos) ==
    LET index == Index(pos) % (UINT8 * UINT8)
    IN  Programmed(
            Programmed(crt, TUI_CURSOR_H, (index \div UINT8) % UINT8),
            TUI_CURSOR_L, index % UINT8)

-----------------------------------------------------------------------------
(* What one character does: TUI_escapeConv, else the glyph, then the       *)
(* scroll.  Positions first, then the page.                                *)

Escape == {LF, TAB, BS}

TabWidth(col) == IF col % 4 = 0 THEN 4 ELSE 4 - (col % 4)

\* Defect: the column is not kept to eight bits.
EscapedPosWide(c, pos) ==
    IF c = LF THEN make_pos(0, pos.row + 1)
    ELSE IF c = TAB THEN make_pos(pos.col + TabWidth(pos.col), pos.row)
    ELSE make_pos(IF pos.col > 0 THEN pos.col - 1 ELSE 0, pos.row)

EscapedPos(c, pos) ==
    IF c = LF THEN make_pos(0, (pos.row + 1) % UINT8)
    ELSE IF c = TAB THEN make_pos((pos.col + TabWidth(pos.col)) % UINT8, pos.row)
    ELSE make_pos(IF pos.col > 0 THEN pos.col - 1 ELSE 0, pos.row)

\* ++col is an 8-bit value before it is compared with the width.
GlyphPos(pos) ==
    LET col == (pos.col + 1) % UINT8
    IN  IF col >= TUI_WIDTH THEN make_pos(0, (pos.row + 1) % UINT8)
                            ELSE make_pos(col, pos.row)

Moved(c, pos) == IF c \in Escape THEN EscapedPos(c, pos) ELSE GlyphPos(pos)

Drawn(m, c, pos) ==
    IF c \notin Escape
    THEN TUI_putEntryAt(m, c, TUI_color, pos.col, pos.row)
    ELSE IF c = BS /\ pos.col > 0
         THEN TUI_write(m, Index(pos) - 1, make_char(SPACE, TUI_color))
         ELSE m

\* Defects: a row too late, a row too early.
MustScrollLate(pos) == pos.row > TUI_HEIGHT
MustScrollEarly(pos) == pos.row >= TUI_HEIGHT - 1

MustScroll(pos) == pos.row >= TUI_HEIGHT

\* Defect: what is copied gets the new colour.
ScrolledRecolored(m) ==
    [i \in Page |-> IF i < (TUI_HEIGHT - 1) * TUI_WIDTH
                    THEN make_char(m[i + TUI_WIDTH].c, TUI_color)
                    ELSE make_char(SPACE, TUI_color)]

Scrolled(m) ==
    [i \in Page |-> IF i < (TUI_HEIGHT - 1) * TUI_WIDTH
                    THEN m[i + TUI_WIDTH]
                    ELSE make_char(SPACE, TUI_color)]

\* TUI_setPos: the position, and the cursor of the device with it.
SetPos(pos) == TUI_pos' = pos /\ crtc' = CursorAt(crtc, pos)

TUI_putChar(c) ==
    LET pos == Moved(c, TUI_pos)
        m == Drawn(mem, c, TUI_pos)
    IN  IF MustScroll(pos)
        THEN /\ mem' = Scrolled(m)
             /\ SetPos(make_pos(pos.col, TUI_HEIGHT - 1))
        ELSE /\ mem' = m
             /\ SetPos(pos)

-----------------------------------------------------------------------------
(* The calls.                                                              *)

Idle == up /\ todo = <<>>

\* A caller that keeps its tabs away from the right edge.
TabFits(c) == c = TAB => TUI_pos.col + TabWidth(TUI_pos.col) < TUI_WIDTH
CallerPuts(c) == EdgeTabs \/ TabFits(c)
CallerWrites(s) == EdgeTabs \/ \A i \in 1 .. Len(s) : s[i] # TAB

Cleared(color) == [i \in Page |-> make_char(SPACE, color)]

TUI_init ==
    /\ ~up
    /\ up' = TRUE
    /\ TUI_color' = make_col(COLOR_WHITE, COLOR_BLACK)
    /\ mem' = Cleared(make_col(COLOR_WHITE, COLOR_BLACK))
    /\ SetPos(make_pos(0, 0))
    /\ todo' = InitText

TUI_clear ==
    /\ Idle
    /\ mem' = Cleared(TUI_color)
    /\ SetPos(make_pos(0, 0))
    /\ UNCHANGED <<up, TUI_color, todo>>

\* A caller's own TUI_putChar: the step of TUI_writeBuf below prints it.
PutChar(c) ==
    /\ Idle
    /\ CallerPuts(c)
    /\ todo' = <<c>>
    /\ UNCHANGED <<up, mem, TUI_pos, TUI_color, crtc>>

\* TUI_writeString: the length is taken once, then the loop below prints.
TUI_writeString(s) ==
    /\ Idle
    /\ CallerWrites(s)
    /\ todo' = s
    /\ UNCHANGED <<up, mem, TUI_pos, TUI_color, crtc>>

\* One iteration of the loop of TUI_writeBuf, or a lone TUI_putChar.
TUI_writeBuf ==
    /\ up
    /\ todo # <<>>
    /\ TUI_putChar(Head(todo))
    /\ todo' = Tail(todo)
    /\ UNCHANGED <<up, TUI_color>>

\* Defect: the two colours swapped.
TUI_setColorSwapped(color) ==
    /\ Idle
    /\ TUI_color' = make_col(COLOR_BLACK, color)
    /\ UNCHANGED <<up, mem, TUI_pos, crtc, todo>>

TUI_setColor(color) ==
    /\ Idle
    /\ TUI_color' = make_col(color, COLOR_BLACK)
    /\ UNCHANGED <<up, mem, TUI_pos, crtc, todo>>

TUI_setPos(pos) ==
    /\ Idle
    /\ SetPos(pos)
    /\ UNCHANGED <<up, mem, TUI_color, todo>>

TUI_setRow(row) == TUI_setPos([TUI_pos EXCEPT !.row = row % UINT8])
\* Defect: the device is not told.
TUI_setColumnOnly(col) ==
    /\ Idle
    /\ TUI_pos' = [TUI_pos EXCEPT !.col = col % UINT8]
    /\ UNCHANGED <<up, mem, TUI_color, crtc, todo>>

TUI_setColumn(col) == TUI_setPos([TUI_pos EXCEPT !.col = col % UINT8])

\* TUI_getPos reads the two halves of the cursor and leaves the controller
\* selecting the low one.
SelectCursor(crt, half) == port_outb(crt, TUI_ADDR, half)
GotPos(crt) ==
    make_pos(port_inb(SelectCursor(crt, TUI_CURSOR_L)),
             port_inb(SelectCursor(crt, TUI_CURSOR_H)))
TUI_getPos ==
    /\ Idle
    /\ crtc' = SelectCursor(SelectCursor(crtc, TUI_CURSOR_H), TUI_CURSOR_L)
    /\ UNCHANGED <<up, mem, TUI_pos, TUI_color, todo>>

\* A caller's own TUI_putEntryAt, in the current colour.
PutEntryAt(c, x, y) ==
    /\ Idle
    /\ mem' = TUI_putEntryAt(mem, c, TUI_color, x, y)
    /\ UNCHANGED <<up, TUI_pos, TUI_color, crtc, todo>>

Init ==
    /\ up = FALSE
    /\ mem \in BootScreens
    /\ TUI_pos = make_pos(0, 0)
    /\ TUI_color = make_col(0, 0)
    /\ crtc \in Crtc
    /\ todo = <<>>

Next ==
    \/ TUI_init
    \/ TUI_clear
    \/ \E c \in Chars : PutChar(c)
    \/ \E s \in Strings : TUI_writeString(s)
    \/ TUI_writeBuf
    \/ \E color \in Colors : TUI_setColor(color)
    \/ \E row \in Rows, col \in Cols : TUI_setPos(make_pos(col, row))
    \/ \E row \in Rows : TUI_setRow(row)
    \/ \E col \in Cols : TUI_setColumn(col)
    \/ TUI_getPos
    \/ \E c \in Glyphs, x \in Cols, y \in Rows : PutEntryAt(c, x, y)

Spec == Init /\ [][Next]_vars
-----------------------------------------------------------------------------
(* What must hold of it.                                                   *)

\* Every variable has its type: the position fits pos_t, colours four bits.
TypeOK ==
    /\ up \in BOOLEAN
    /\ mem \in [Page -> Cell]
    /\ TUI_pos \in Pos
    /\ TUI_color \in [fore : Color4, back : Color4]
    /\ crtc \in Crtc
    /\ todo \in Seq(Chars)

\* Between two calls, and between two characters of a string, the blinking
\* cursor of the device is where the next character will be stored: no path
\* through the driver moves TUI_pos and forgets the registers, and the two
\* 8-bit halves lose nothing of it.
HwCursor ==
    up => crtc.reg[TUI_CURSOR_H] * UINT8 + crtc.reg[TUI_CURSOR_L]
            = Index(TUI_pos)

\* The next character is stored inside the adapter's memory, whatever was
\* printed before.  Tabs may carry the 8-bit column far beyond the width,
\* and it wraps only at 256; the row must be on the screen all the same.
CursorInVideoMemory == up => Index(TUI_pos) < TUI_MEM_CELLS

\* TUI_getColor answers what the last TUI_setColor asked for, so a caller can
\* save and restore the colour through it, and nothing on the screen ever
\* has a background: the blanks of a scroll or of a backspace look alike
\* whatever colour was current.
BlackBackground ==
    up => /\ TUI_getColor(TUI_color) = TUI_color.fore
          /\ \A i \in Page : mem[i].back = COLOR_BLACK

\* The page moved up by lines lines, but for the cell hit; the cells that
\* came in are blank.
MovedUp(lines, hit) ==
    \A i \in Page \ {hit} :
        IF i + lines * TUI_WIDTH \in Page
        THEN mem'[i] = mem[i + lines * TUI_WIDTH]
        ELSE mem'[i].c = SPACE

\* The page stays, but for one cell, or it moves up by one line, and that
\* from the last row only.
StaysOrScrolls ==
    \E hit \in Page :
        \/ /\ MovedUp(0, hit)
           /\ TUI_pos'.row \in {TUI_pos.row, TUI_pos.row + 1}
        \/ /\ MovedUp(1, hit)
           /\ TUI_pos.row = TUI_HEIGHT - 1
           /\ TUI_pos'.row = TUI_pos.row

\* A character disturbs at most one cell of what is on the screen, and moves
\* the rest by at most one line, which it does only from the last row.  But
\* for that cell, and for the row that scrolls away, the text stays as it
\* was, even with characters printed beyond the right edge.
OneCellOneLine == [][TUI_writeBuf => StaysOrScrolls]_vars

-----------------------------------------------------------------------------
(* The driver implements the console of module Terminal, as long as callers *)
(* leave positioning to it and keep tabs away from the right edge.          *)

Visible(ch) == IF ch.c = SPACE THEN <<>> ELSE <<ch.c, ch.fore>>

\* The first n cells of row r.
ShownRow(r, n) ==
    [c \in 1 .. n |-> Visible(mem[r * TUI_WIDTH + c - 1])]

Console == INSTANCE Terminal WITH
    Width <- TUI_WIDTH,
    Height <- TUI_HEIGHT,
    Newline <- LF,
    Tab <- TAB,
    Backspace <- BS,
    Space <- SPACE,
    Glyphs <- Glyphs,
    Inks <- Color4,
    Black <- COLOR_BLACK,
    Leftovers <- {Visible(ch) : ch \in Cell},
    on <- up,
    input <- todo,
    ink <- TUI_color.fore,
    done <- IF up THEN [r \in 1 .. TUI_pos.row |-> ShownRow(r - 1, TUI_WIDTH)]
                  ELSE <<>>,
    line <- IF up THEN ShownRow(TUI_pos.row, TUI_pos.col) ELSE <<>>,
    shown <- [i \in Page |-> Visible(mem[i])]

\* What is on the screen is the text that was printed, each glyph in the
\* colour current when it was: finished lines scroll up whole and in order,
\* nothing is lost at the end of a line or of the page, and there is nothing
\* on the screen but that text.
ShowsText == Console!Spec

-----------------------------------------------------------------------------
(* What the comments of the driver say, and the code does not do.          *)

\* "If the last column is reached, go to the next line" (tui.c, TUI_putChar):
\* no character leaves the cursor beyond the last column.
WrapsAtLastColumn == up => TUI_pos.col < TUI_WIDTH

\* tui.h on TUI_getPos: gets the position of the cursor.
GetPosIsCursor == up => GotPos(crtc) = TUI_pos
=============================================================================
