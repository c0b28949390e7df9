---------------------------- MODULE KernelProofs ----------------------------
(***************************************************************************)
(* Theorems about the kernel's output.                                     *)
(*                                                                         *)
(* Part 1, the console driver (module Tui): for every screen size,         *)
(* alphabet and width of the position fields.                              *)
(*                                                                         *)
(* Part 2, the output calls (module Io): for every such console, every     *)
(* size of the message buffer, and every output of a format.               *)
(***************************************************************************)
EXTENDS Io, SequenceTheorems, WellFoundedInduction, TLAPS

-----------------------------------------------------------------------------
(* Part 1: the console driver.  Arithmetic of the page.                    *)

LEMMA Sizes ==
    /\ TUI_WIDTH \in Nat /\ TUI_WIDTH > 0
    /\ TUI_HEIGHT \in Nat /\ TUI_HEIGHT > 0
    /\ UINT8 \in Nat /\ UINT8 > 1
    /\ TUI_WIDTH < UINT8 /\ TUI_HEIGHT < UINT8
    /\ TUI_MEM_CELLS \in Nat
  BY SizeAssumption, SMT

LEMMA PageBounds ==
    /\ (TUI_HEIGHT - 1) * TUI_WIDTH \in Nat
    /\ TUI_WIDTH * TUI_HEIGHT \in Nat
    /\ (TUI_HEIGHT - 1) * TUI_WIDTH + TUI_WIDTH = TUI_WIDTH * TUI_HEIGHT
  BY Sizes, SMT

\* A row of the screen starts no later than the last one.
LEMMA RowStart ==
    ASSUME NEW r \in Nat, r < TUI_HEIGHT
    PROVE  /\ r * TUI_WIDTH \in Nat
           /\ r * TUI_WIDTH <= (TUI_HEIGHT - 1) * TUI_WIDTH
  BY Sizes, SMT

LEMMA BelowSquare ==
    ASSUME NEW q \in Nat, NEW r \in Nat, NEW u \in Nat, u * q + r < u * u
    PROVE  q < u
<1> SUFFICES ASSUME q >= u PROVE FALSE
  BY SMT
<1>1. u * q >= u * u
  BY SMT
<1> QED BY <1>1, SMT

\* The two halves of a cursor address that fits 16 bits make it up.
LEMMA Halves ==
    ASSUME NEW n \in Nat, n < UINT8 * UINT8
    PROVE  /\ n % (UINT8 * UINT8) = n
           /\ (n \div UINT8) % UINT8 \in 0 .. UINT8 - 1
           /\ n % UINT8 \in 0 .. UINT8 - 1
           /\ ((n \div UINT8) % UINT8) * UINT8 + (n % UINT8) = n
<1>1. PICK q \in Nat, r \in 0 .. UINT8 - 1 :
         /\ q = n \div UINT8 /\ r = n % UINT8
         /\ n = UINT8 * q + r
  BY Sizes, SMT
<1>2. UINT8 * UINT8 \in Nat /\ UINT8 * UINT8 > 0
  BY Sizes, SMT
<1>3. n % (UINT8 * UINT8) = n
  BY <1>2, SMT
<1>4. q < UINT8
  BY <1>1, Sizes, BelowSquare
<1>5. q % UINT8 = q
  BY <1>1, <1>4, Sizes, SMT
<1>6. q * UINT8 + r = n
  BY <1>1, Sizes, SMT
<1> QED BY <1>1, <1>3, <1>4, <1>5, <1>6, Sizes, SMT

-----------------------------------------------------------------------------
(* What the parts of a character's printing do.                            *)

OnScreen(pos) == pos \in Pos /\ pos.row < TUI_HEIGHT

LEMMA IndexBounds ==
    ASSUME NEW pos, OnScreen(pos)
    PROVE  /\ Index(pos) \in Nat
           /\ Index(pos) < TUI_MEM_CELLS
           /\ Index(pos) < UINT8 * UINT8
<1>1. pos.row \in Nat /\ pos.row < TUI_HEIGHT /\ pos.col \in 0 .. UINT8 - 1
  BY Sizes, SMT DEF OnScreen, Pos
<1>2. /\ pos.row * TUI_WIDTH \in Nat
      /\ pos.row * TUI_WIDTH <= (TUI_HEIGHT - 1) * TUI_WIDTH
  BY <1>1, RowStart
<1>3. UINT8 * UINT8 \in Nat
  BY Sizes, SMT
<1> QED BY <1>1, <1>2, <1>3, Sizes, PageBounds, SizeAssumption, SMT DEF Index

LEMMA RegisterWritten ==
    ASSUME NEW crt \in Crtc, NEW half \in {TUI_CURSOR_H, TUI_CURSOR_L},
           NEW data \in 0 .. UINT8 - 1
    PROVE  /\ Programmed(crt, half, data) \in Crtc
           /\ Programmed(crt, half, data).reg =
                [crt.reg EXCEPT ![half] = data]
<1> USE DEF Crtc, TUI_CURSOR_H, TUI_CURSOR_L
<1>1. port_outb(crt, TUI_ADDR, half) = [sel |-> half, reg |-> crt.reg]
  BY DEF port_outb
<1>2. Programmed(crt, half, data) =
        [sel |-> half, reg |-> [crt.reg EXCEPT ![half] = data]]
  BY <1>1 DEF Programmed, port_outb, TUI_ADDR, TUI_DATA
<1> QED BY <1>2

\* TUI_setPos leaves the device's cursor at the position.
LEMMA CursorSet ==
    ASSUME NEW crt \in Crtc, NEW pos, OnScreen(pos)
    PROVE  /\ CursorAt(crt, pos) \in Crtc
           /\ CursorAt(crt, pos).reg[TUI_CURSOR_H] * UINT8
                + CursorAt(crt, pos).reg[TUI_CURSOR_L] = Index(pos)
<1> DEFINE n == Index(pos)
           high == (n \div UINT8) % UINT8
           low == n % UINT8
<1>1. n \in Nat /\ n < UINT8 * UINT8
  BY IndexBounds
<1>2. /\ n % (UINT8 * UINT8) = n
      /\ high \in 0 .. UINT8 - 1
      /\ low \in 0 .. UINT8 - 1
      /\ high * UINT8 + low = n
  BY <1>1, Halves
<1> HIDE DEF n
<1> DEFINE crt1 == Programmed(crt, TUI_CURSOR_H, high)
<1>3. CursorAt(crt, pos) = Programmed(crt1, TUI_CURSOR_L, low)
  BY <1>2 DEF n, CursorAt
<1>4. crt1 \in Crtc /\ crt1.reg = [crt.reg EXCEPT ![TUI_CURSOR_H] = high]
  BY <1>2, RegisterWritten DEF TUI_CURSOR_H
<1> HIDE DEF high, low, crt1
<1>5. /\ CursorAt(crt, pos) \in Crtc
      /\ CursorAt(crt, pos).reg = [crt1.reg EXCEPT ![TUI_CURSOR_L] = low]
  BY <1>2, <1>3, <1>4, RegisterWritten DEF TUI_CURSOR_L
<1>6. /\ CursorAt(crt, pos).reg[TUI_CURSOR_H] = high
      /\ CursorAt(crt, pos).reg[TUI_CURSOR_L] = low
  BY <1>2, <1>4, <1>5 DEF Crtc, TUI_CURSOR_H, TUI_CURSOR_L
<1> QED BY <1>2, <1>5, <1>6 DEF n

\* A character moves the position by at most one row, and the column stays
\* an 8-bit value.
LEMMA MovedBounds ==
    ASSUME NEW c, NEW pos, OnScreen(pos)
    PROVE  /\ Moved(c, pos) \in Pos
           /\ Moved(c, pos).row \in {pos.row, pos.row + 1}
<1>1. /\ pos.row \in Nat /\ pos.row < TUI_HEIGHT
      /\ pos.col \in 0 .. UINT8 - 1
  BY Sizes, SMT DEF OnScreen, Pos
<1>2. /\ (pos.row + 1) % UINT8 = pos.row + 1
      /\ pos.row + 1 \in 0 .. UINT8 - 1
  BY <1>1, Sizes, SMT
<1>3. ASSUME NEW n \in Nat PROVE n % UINT8 \in 0 .. UINT8 - 1
  BY Sizes, SMT
<1>4. /\ pos.col + TabWidth(pos.col) \in Nat
      /\ pos.col + 1 \in Nat
      /\ (IF pos.col > 0 THEN pos.col - 1 ELSE 0) \in 0 .. UINT8 - 1
  BY <1>1, Sizes, SMT DEF TabWidth
<1>5. pos.row \in 0 .. UINT8 - 1 /\ 0 \in 0 .. UINT8 - 1
  BY <1>1, Sizes, SMT
<1>6. CASE c \in Escape
  BY <1>2, <1>3, <1>4, <1>5, <1>6 DEF Moved, EscapedPos, make_pos, Pos
<1>7. CASE c \notin Escape
  <2>1. (pos.col + 1) % UINT8 \in 0 .. UINT8 - 1
    BY <1>3, <1>4
  <2> QED BY <2>1, <1>2, <1>5, <1>7 DEF Moved, GlyphPos, make_pos, Pos
<1> QED BY <1>6, <1>7

LEMMA CharTypes ==
    ASSUME NEW c \in Chars, NEW color \in [fore : Color4, back : Color4]
    PROVE  make_char(c, color) \in Cell /\ SPACE \in Chars
  BY DEF make_char, Cell, Chars

LEMMA DrawnType ==
    ASSUME NEW m \in [Page -> Cell], NEW c \in Chars, NEW pos, OnScreen(pos),
           TUI_color \in [fore : Color4, back : Color4]
    PROVE  Drawn(m, c, pos) \in [Page -> Cell]
  BY CharTypes DEF Drawn, TUI_putEntryAt, TUI_write

LEMMA ScrolledType ==
    ASSUME NEW m \in [Page -> Cell],
           TUI_color \in [fore : Color4, back : Color4]
    PROVE  Scrolled(m) \in [Page -> Cell]
<1>1. ASSUME NEW i \in Page, i < (TUI_HEIGHT - 1) * TUI_WIDTH
      PROVE  i + TUI_WIDTH \in Page
  BY <1>1, Sizes, PageBounds, SMT DEF Page
<1>2. make_char(SPACE, TUI_color) \in Cell
  BY CharTypes DEF Chars
<1> QED BY <1>1, <1>2 DEF Scrolled

-----------------------------------------------------------------------------
(* The inductive invariant: the type, the row on the screen, the device in *)
(* step with the position, and no background anywhere.                     *)

NoBackground ==
    up => /\ TUI_color.back = COLOR_BLACK
          /\ \A i \in Page : mem[i].back = COLOR_BLACK

Inv ==
    /\ TypeOK
    /\ up => TUI_pos.row < TUI_HEIGHT
    /\ HwCursor
    /\ NoBackground

\* Setting any position on the screen re-establishes what Inv says of the
\* position and of the device.
LEMMA SetPosInv ==
    ASSUME TypeOK, NEW pos, OnScreen(pos), SetPos(pos)
    PROVE  /\ TUI_pos' \in Pos
           /\ TUI_pos'.row < TUI_HEIGHT
           /\ crtc' \in Crtc
           /\ HwCursor'
  BY CursorSet DEF SetPos, OnScreen, HwCursor, TypeOK, Index

\* So does a character, which also keeps the page a page without background.
LEMMA PutInv ==
    ASSUME Inv, up, NEW c \in Chars, TUI_putChar(c)
    PROVE  /\ TUI_pos' \in Pos
           /\ TUI_pos'.row < TUI_HEIGHT
           /\ crtc' \in Crtc
           /\ HwCursor'
           /\ mem' \in [Page -> Cell]
           /\ \A i \in Page : mem'[i].back = COLOR_BLACK
<1> DEFINE pos == Moved(c, TUI_pos)
           m == Drawn(mem, c, TUI_pos)
<1>1. OnScreen(TUI_pos) /\ mem \in [Page -> Cell]
  BY DEF Inv, TypeOK, OnScreen
<1>2. pos \in Pos /\ pos.row \in {TUI_pos.row, TUI_pos.row + 1}
  BY <1>1, MovedBounds
<1>3. TUI_color \in [fore : Color4, back : Color4] /\ TUI_color.back = COLOR_BLACK
  BY DEF Inv, TypeOK, NoBackground
<1>4. m \in [Page -> Cell]
  BY <1>1, <1>3, DrawnType
<1>5. \A i \in Page : m[i].back = COLOR_BLACK
  BY <1>1, <1>3 DEF Inv, NoBackground, Drawn, TUI_putEntryAt, TUI_write, make_char
<1> HIDE DEF pos, m
<1>6. CASE MustScroll(pos)
  <2> DEFINE last == make_pos(pos.col, TUI_HEIGHT - 1)
  <2>1. mem' = Scrolled(m) /\ SetPos(last)
    BY <1>6 DEF TUI_putChar, pos, m
  <2>2. OnScreen(last)
    BY <1>2, Sizes, SMT DEF OnScreen, Pos, make_pos
  <2> HIDE DEF last
  <2>3. mem' \in [Page -> Cell]
    BY <1>3, <1>4, <2>1, ScrolledType
  <2>4. ASSUME NEW i \in Page PROVE mem'[i].back = COLOR_BLACK
    <3>1. CASE i < (TUI_HEIGHT - 1) * TUI_WIDTH
      <4>1. i + TUI_WIDTH \in Page
        BY <3>1, Sizes, PageBounds, SMT DEF Page
      <4> QED BY <1>5, <2>1, <3>1, <4>1 DEF Scrolled
    <3>2. CASE ~(i < (TUI_HEIGHT - 1) * TUI_WIDTH)
      BY <1>3, <2>1, <3>2 DEF Scrolled, make_char
    <3> QED BY <3>1, <3>2
  <2> QED BY <2>1, <2>2, <2>3, <2>4, SetPosInv DEF Inv
<1>7. CASE ~MustScroll(pos)
  <2>1. mem' = m /\ SetPos(pos)
    BY <1>7 DEF TUI_putChar, pos, m
  <2>2. OnScreen(pos)
    BY <1>2, <1>7, Sizes, SMT DEF OnScreen, MustScroll, Pos
  <2> QED BY <1>4, <1>5, <2>1, <2>2, SetPosInv DEF Inv
<1> QED BY <1>6, <1>7

LEMMA ClearedPage ==
    ASSUME NEW color \in [fore : Color4, back : Color4],
           color.back = COLOR_BLACK
    PROVE  /\ Cleared(color) \in [Page -> Cell]
           /\ \A i \in Page : Cleared(color)[i].back = COLOR_BLACK
<1>1. make_char(SPACE, color) \in Cell
  BY CharTypes DEF Chars
<1> QED BY <1>1 DEF Cleared, make_char

LEMMA Origin == OnScreen(make_pos(0, 0))
  BY Sizes, SMT DEF OnScreen, Pos, make_pos

LEMMA InitInv == Init => Inv
<1> SUFFICES ASSUME Init PROVE Inv
  OBVIOUS
<1>1. TUI_pos \in Pos
  BY Origin DEF Init, OnScreen
<1>2. TUI_color \in [fore : Color4, back : Color4]
  BY SMT DEF Init, make_col, Color4
<1>3. mem \in [Page -> Cell] /\ todo \in Seq(Chars)
  BY CallerAssumption DEF Init
<1>4. crtc \in Crtc
  BY DEF Init, Crtc
<1> QED BY <1>1, <1>2, <1>3, <1>4 DEF Init, Inv, TypeOK, HwCursor, NoBackground

LEMMA StepInv == Inv /\ [Next]_vars => Inv'
<1> SUFFICES ASSUME Inv, [Next]_vars PROVE Inv'
  OBVIOUS
<1>0. TypeOK
  BY DEF Inv
<1>1. CASE TUI_init
  <2> DEFINE color == make_col(COLOR_WHITE, COLOR_BLACK)
  <2>1. /\ color \in [fore : Color4, back : Color4]
        /\ color.back = COLOR_BLACK
    BY SMT DEF make_col, COLOR_WHITE, COLOR_BLACK, Color4
  <2>2. /\ up' = TRUE /\ TUI_color' = color /\ mem' = Cleared(color)
        /\ todo' \in Seq(Chars) /\ SetPos(make_pos(0, 0))
    BY <1>1, CallerAssumption DEF TUI_init
  <2> HIDE DEF color
  <2> QED BY <1>0, <2>1, <2>2, Origin, ClearedPage, SetPosInv
          DEF Inv, TypeOK, NoBackground
<1>2. CASE TUI_clear
  <2>1. /\ up /\ mem' = Cleared(TUI_color) /\ SetPos(make_pos(0, 0))
        /\ UNCHANGED <<up, TUI_color, todo>>
    BY <1>2 DEF TUI_clear, Idle
  <2> QED BY <1>0, <2>1, Origin, ClearedPage, SetPosInv
          DEF Inv, TypeOK, NoBackground
<1>3. ASSUME NEW c \in Chars, PutChar(c) PROVE Inv'
  <2>1. <<c>> \in Seq(Chars)
    OBVIOUS
  <2> QED BY <1>3, <2>1 DEF PutChar, Inv, TypeOK, NoBackground, HwCursor, Index
<1>4. ASSUME NEW s \in Strings, TUI_writeString(s) PROVE Inv'
  <2>1. s \in Seq(Chars)
    BY CallerAssumption
  <2> QED BY <1>4, <2>1
          DEF TUI_writeString, Inv, TypeOK, NoBackground, HwCursor, Index
<1>5. CASE TUI_writeBuf
  <2>1. Head(todo) \in Chars /\ Tail(todo) \in Seq(Chars)
    BY <1>0, <1>5 DEF TUI_writeBuf, TypeOK
  <2>2. /\ up /\ TUI_putChar(Head(todo)) /\ todo' = Tail(todo)
        /\ UNCHANGED <<up, TUI_color>>
    BY <1>5 DEF TUI_writeBuf
  <2> QED BY <2>1, <2>2, PutInv DEF Inv, TypeOK, NoBackground
<1>6. ASSUME NEW color \in Colors, TUI_setColor(color) PROVE Inv'
  <2>1. /\ make_col(color, COLOR_BLACK) \in [fore : Color4, back : Color4]
        /\ make_col(color, COLOR_BLACK).back = COLOR_BLACK
    BY CallerAssumption, SMT DEF make_col, COLOR_BLACK, Color4
  <2> QED BY <1>6, <2>1
          DEF TUI_setColor, Inv, TypeOK, NoBackground, HwCursor, Index
<1>7. ASSUME NEW pos, OnScreen(pos), TUI_setPos(pos) PROVE Inv'
  <2>1. SetPos(pos) /\ UNCHANGED <<up, mem, TUI_color, todo>>
    BY <1>7 DEF TUI_setPos
  <2> QED BY <1>0, <1>7, <2>1, SetPosInv DEF Inv, TypeOK, NoBackground
<1>8. ASSUME NEW row \in Rows, NEW col \in Cols PROVE
        /\ OnScreen(make_pos(col, row))
        /\ row % UINT8 = row /\ col % UINT8 = col
  BY CallerAssumption, Sizes, SMT DEF OnScreen, Pos, make_pos
<1>9. ASSUME NEW row \in Rows, TUI_setRow(row) PROVE Inv'
  <2>1. row \in 0 .. UINT8 - 1 /\ row < TUI_HEIGHT /\ row % UINT8 = row
    BY CallerAssumption, Sizes, SMT
  <2>2. OnScreen([TUI_pos EXCEPT !.row = row % UINT8])
    BY <1>0, <2>1 DEF TypeOK, OnScreen, Pos
  <2> QED BY <1>7, <1>9, <2>2 DEF TUI_setRow
<1>10. ASSUME NEW col \in Cols, TUI_setColumn(col) PROVE Inv'
  <2>1. col \in 0 .. UINT8 - 1 /\ col % UINT8 = col
    BY CallerAssumption, Sizes, SMT
  <2>2. up
    BY <1>10 DEF TUI_setColumn, TUI_setPos, Idle
  <2>3. OnScreen([TUI_pos EXCEPT !.col = col % UINT8])
    BY <1>0, <2>1, <2>2 DEF Inv, TypeOK, OnScreen, Pos
  <2> QED BY <1>7, <1>10, <2>3 DEF TUI_setColumn
<1>11. CASE TUI_getPos
  <2>1. /\ crtc' \in Crtc /\ crtc'.reg = crtc.reg
        /\ UNCHANGED <<up, mem, TUI_pos, TUI_color, todo>>
    BY <1>0, <1>11 DEF TUI_getPos, SelectCursor, port_outb, TUI_ADDR, TypeOK, Crtc
  <2> QED BY <2>1 DEF Inv, TypeOK, NoBackground, HwCursor, Index
<1>12. ASSUME NEW c \in Glyphs, NEW x, NEW y, PutEntryAt(c, x, y) PROVE Inv'
  <2>1. make_char(c, TUI_color) \in Cell
    BY <1>0, CharTypes DEF Chars, TypeOK
  <2>2. /\ mem' \in [Page -> Cell]
        /\ up => \A i \in Page : mem'[i].back = COLOR_BLACK
    BY <1>12, <2>1 DEF PutEntryAt, TUI_putEntryAt, TUI_write, Inv, TypeOK,
                       NoBackground, make_char
  <2> QED BY <1>12, <2>2
          DEF PutEntryAt, Inv, TypeOK, NoBackground, HwCursor, Index
<1>13. CASE UNCHANGED vars
  BY <1>13 DEF vars, Inv, TypeOK, NoBackground, HwCursor, Index
<1> QED BY <1>1, <1>2, <1>3, <1>4, <1>5, <1>6, <1>7, <1>8, <1>9, <1>10,
           <1>11, <1>12, <1>13 DEF Next

LEMMA Invariance == Spec => []Inv
  BY InitInv, StepInv, PTL DEF Spec

-----------------------------------------------------------------------------
(* The theorems.                                                           *)

\* Every variable keeps its type: in particular no store leaves TUI_pos or a
\* register out of its eight bits, and no cell gets a colour of five.
THEOREM TypeCorrect == Spec => []TypeOK
  BY Invariance, PTL DEF Inv

\* The device's cursor is where the next character goes, whatever the calls.
THEOREM CursorInStep == Spec => []HwCursor
  BY Invariance, PTL DEF Inv

\* The next character is stored inside the adapter's memory, although tabs
\* carry the column as far as 255: scrolling brings the row back first.
THEOREM CursorStaysInVideoMemory == Spec => []CursorInVideoMemory
<1>1. Inv => CursorInVideoMemory
  BY IndexBounds DEF Inv, TypeOK, OnScreen, CursorInVideoMemory
<1> QED BY <1>1, Invariance, PTL

LEMMA OrWithZero == ASSUME NEW n \in Color4 PROVE BitOr(0, n) = n
<1>1. ASSUME NEW b \in {1, 2, 4, 8} PROVE ~(Bit(0, b) = 1)
  BY SMT DEF Bit
<1>2. ASSUME NEW b \in {1, 2, 4, 8}
      PROVE (IF Bit(0, b) = 1 \/ Bit(n, b) = 1 THEN b ELSE 0)
              = (IF Bit(n, b) = 1 THEN b ELSE 0)
  BY <1>1
<1>3. (IF Bit(n, 1) = 1 THEN 1 ELSE 0) + (IF Bit(n, 2) = 1 THEN 2 ELSE 0)
       + (IF Bit(n, 4) = 1 THEN 4 ELSE 0) + (IF Bit(n, 8) = 1 THEN 8 ELSE 0) = n
  BY SMT DEF Bit, Color4
<1> QED BY <1>2, <1>3 DEF BitOr

\* TUI_getColor gives back the colour TUI_setColor was given, and nothing on
\* the screen has a background.
THEOREM BackgroundStaysBlack == Spec => []BlackBackground
<1>1. Inv => BlackBackground
  <2> SUFFICES ASSUME Inv, up PROVE BlackBackground
    BY DEF BlackBackground
  <2>1. TUI_color.back = 0 /\ TUI_color.fore \in Color4
    BY DEF Inv, TypeOK, NoBackground, COLOR_BLACK
  <2>2. TUI_getColor(TUI_color) = TUI_color.fore
    BY <2>1, OrWithZero DEF TUI_getColor
  <2> QED BY <2>2 DEF Inv, NoBackground, BlackBackground
<1> QED BY <1>1, Invariance, PTL

\* The page a character draws on differs from the old one in one cell.
LEMMA DrawnOneCell ==
    ASSUME NEW m \in [Page -> Cell], NEW c, NEW pos
    PROVE  \E h : \A i \in Page \ {h} : Drawn(m, c, pos)[i] = m[i]
<1>1. CASE c \notin Escape
  <2> WITNESS pos.row * TUI_WIDTH + pos.col
  <2> QED BY <1>1 DEF Drawn, TUI_putEntryAt, TUI_write
<1>2. CASE c \in Escape
  <2> WITNESS Index(pos) - 1
  <2> QED BY <1>2 DEF Drawn, TUI_write
<1> QED BY <1>1, <1>2

LEMMA OneCellStep ==
    ASSUME Inv, up, NEW c \in Chars, TUI_putChar(c)
    PROVE  StaysOrScrolls
<1> DEFINE pos == Moved(c, TUI_pos)
           m == Drawn(mem, c, TUI_pos)
<1>1. OnScreen(TUI_pos) /\ mem \in [Page -> Cell]
  BY DEF Inv, TypeOK, OnScreen
<1>2. pos \in Pos /\ pos.row \in {TUI_pos.row, TUI_pos.row + 1}
  BY <1>1, MovedBounds
<1>3. PICK h : \A i \in Page \ {h} : m[i] = mem[i]
  BY <1>1, DrawnOneCell
<1>4. 0 \in Page
  <2>1. TUI_WIDTH * TUI_HEIGHT >= TUI_WIDTH
    BY Sizes, PageBounds, SMT
  <2> QED BY <2>1, Sizes, PageBounds, SMT DEF Page
<1>5. 0 * TUI_WIDTH = 0 /\ 1 * TUI_WIDTH = TUI_WIDTH
  BY Sizes, SMT
<1> HIDE DEF pos, m
<1>6. CASE MustScroll(pos)
  <2>1. mem' = Scrolled(m) /\ TUI_pos' = make_pos(pos.col, TUI_HEIGHT - 1)
    BY <1>6 DEF TUI_putChar, SetPos, pos, m
  <2>2. TUI_pos.row = TUI_HEIGHT - 1 /\ TUI_pos'.row = TUI_pos.row
    BY <1>1, <1>2, <1>6, <2>1, Sizes, SMT
       DEF MustScroll, OnScreen, Pos, make_pos
  <2>3. ASSUME NEW i \in Page, i + TUI_WIDTH # h
        PROVE  IF i + TUI_WIDTH \in Page THEN mem'[i] = mem[i + TUI_WIDTH]
                                         ELSE mem'[i].c = SPACE
    <3>1. i + TUI_WIDTH \in Page <=> i < (TUI_HEIGHT - 1) * TUI_WIDTH
      BY Sizes, PageBounds, SMT DEF Page
    <3> QED BY <1>3, <2>1, <2>3, <3>1 DEF Scrolled, make_char
  <2>4. \E hit \in Page : \A i \in Page \ {hit} : i + TUI_WIDTH # h
    <3>1. CASE \E j \in Page : j + TUI_WIDTH = h
      <4>1. PICK j \in Page : j + TUI_WIDTH = h
        BY <3>1
      <4>2. \A i \in Page \ {j} : i + TUI_WIDTH # h
        BY <4>1, Sizes, PageBounds, SMT DEF Page
      <4> QED BY <4>2
    <3>2. CASE ~ \E j \in Page : j + TUI_WIDTH = h
      BY <1>4, <3>2
    <3> QED BY <3>1, <3>2
  <2>5. PICK hit \in Page : MovedUp(1, hit)
    BY <1>5, <2>3, <2>4 DEF MovedUp
  <2> QED BY <2>2, <2>5 DEF StaysOrScrolls
<1>7. CASE ~MustScroll(pos)
  <2>1. mem' = m /\ TUI_pos' = pos
    BY <1>7 DEF TUI_putChar, SetPos, pos, m
  <2>2. ASSUME NEW i \in Page, i # h
        PROVE  i + 0 * TUI_WIDTH \in Page /\ mem'[i] = mem[i + 0 * TUI_WIDTH]
    <3>1. i + 0 * TUI_WIDTH = i
      BY <1>5, PageBounds, SMT DEF Page
    <3> QED BY <1>3, <2>1, <2>2, <3>1
  <2>3. \E hit \in Page : MovedUp(0, hit)
    <3>1. CASE h \in Page
      BY <2>2, <3>1 DEF MovedUp
    <3>2. CASE h \notin Page
      BY <1>4, <2>2, <3>2 DEF MovedUp
    <3> QED BY <3>1, <3>2
  <2> QED BY <1>2, <2>1, <2>3 DEF StaysOrScrolls
<1> QED BY <1>6, <1>7

\* A character disturbs one cell and moves the rest by at most one line.
THEOREM PutsOneCellOneLine == Spec => OneCellOneLine
<1>1. Inv /\ TUI_writeBuf => StaysOrScrolls
  <2> SUFFICES ASSUME Inv, TUI_writeBuf PROVE StaysOrScrolls
    OBVIOUS
  <2>1. up /\ Head(todo) \in Chars /\ TUI_putChar(Head(todo))
    BY DEF TUI_writeBuf, Inv, TypeOK
  <2> QED BY <2>1, OneCellStep
<1> QED BY <1>1, Invariance, PTL DEF OneCellOneLine

-----------------------------------------------------------------------------
(* The driver implements the console.                                      *)

\* Callers that leave positioning to the driver and print no tabs in strings.
PlainCallers ==
    /\ Rows = {} /\ Cols = {} /\ ~EdgeTabs
    /\ \A i \in 1 .. Len(InitText) : InitText[i] # TAB

\* A tab comes alone and stays on its line.
TodoOK == \A n \in 1 .. Len(todo) : todo[n] = TAB => Len(todo) = 1 /\ TabFits(TAB)

\* The cursor is on the screen, and everything from it on is blank.
BlankBehind ==
    up => /\ TUI_pos.col < TUI_WIDTH
          /\ \A i \in Page : i >= Index(TUI_pos) => mem[i].c = SPACE

TextInv == Inv /\ TodoOK /\ BlankBehind

Shades == {Visible(ch) : ch \in Cell}

\* The first n cells of row r of a page, and its first n rows.
RowOf(m, r, n) == [c \in 1 .. n |-> Visible(m[r * TUI_WIDTH + c - 1])]
RowsOf(m, n) == [r \in 1 .. n |-> RowOf(m, r - 1, TUI_WIDTH)]

\* Where a cell lies in its row, and that it lies on the page.
LEMMA CellIndex ==
    ASSUME NEW r \in Nat, r < TUI_HEIGHT, NEW c \in 0 .. TUI_WIDTH - 1
    PROVE  /\ r * TUI_WIDTH \in Nat
           /\ r * TUI_WIDTH + c \in Page
           /\ (r * TUI_WIDTH + c) \div TUI_WIDTH = r
           /\ (r * TUI_WIDTH + c) % TUI_WIDTH = c
<1> DEFINE w == r * TUI_WIDTH
<1>1. w \in Nat /\ w <= (TUI_HEIGHT - 1) * TUI_WIDTH
  BY RowStart
<1>2. w + c \in Page
  <2> DEFINE l == (TUI_HEIGHT - 1) * TUI_WIDTH
             n == TUI_WIDTH * TUI_HEIGHT
  <2>1. l \in Nat /\ n \in Nat /\ l + TUI_WIDTH = n
    BY PageBounds
  <2> HIDE DEF w, l, n
  <2>2. w + c \in 0 .. n - 1
    BY <1>1, <2>1, Sizes, SMT DEF l
  <2> QED BY <2>2 DEF Page, n
<1>3. (w + c) \div TUI_WIDTH = r /\ (w + c) % TUI_WIDTH = c
  BY Sizes, SMT
<1> QED BY <1>1, <1>2, <1>3

\* Every cell lies in a row.
LEMMA CellRow ==
    ASSUME NEW i \in Page
    PROVE  /\ i \div TUI_WIDTH \in 0 .. TUI_HEIGHT - 1
           /\ i % TUI_WIDTH \in 0 .. TUI_WIDTH - 1
           /\ i = (i \div TUI_WIDTH) * TUI_WIDTH + (i % TUI_WIDTH)
<1> DEFINE r == i \div TUI_WIDTH
           c == i % TUI_WIDTH
<1>1. i \in Nat /\ i < TUI_WIDTH * TUI_HEIGHT
  BY PageBounds, SMT DEF Page
<1>2. r \in Nat /\ c \in 0 .. TUI_WIDTH - 1 /\ i = r * TUI_WIDTH + c
  BY <1>1, Sizes, SMT
<1> HIDE DEF r, c
<1>3. r < TUI_HEIGHT
  <2> SUFFICES ASSUME r >= TUI_HEIGHT PROVE FALSE
    BY <1>2, Sizes, SMT
  <2>1. r * TUI_WIDTH >= TUI_HEIGHT * TUI_WIDTH
    BY <1>2, Sizes, SMT
  <2> QED BY <1>1, <1>2, <2>1, Sizes, SMT
<1>4. r \in 0 .. TUI_HEIGHT - 1
  BY <1>2, <1>3, Sizes, SMT
<1> QED BY <1>2, <1>4 DEF r, c

LEMMA VisibleType == ASSUME NEW m \in [Page -> Cell], NEW i \in Page PROVE Visible(m[i]) \in Shades
BY DEF Shades

LEMMA RowType ==
    ASSUME NEW m \in [Page -> Cell], NEW r \in Nat, r < TUI_HEIGHT, NEW n \in 0 .. TUI_WIDTH
    PROVE  /\ RowOf(m, r, n) \in Seq(Shades)
           /\ Len(RowOf(m, r, n)) = n
           /\ \A c \in 1 .. n : /\ r * TUI_WIDTH + c - 1 \in Page
                                /\ RowOf(m, r, n)[c] = Visible(m[r * TUI_WIDTH + c - 1])
<1>1. n \in Nat
  OBVIOUS
<1>2. ASSUME NEW c \in 1 .. n PROVE r * TUI_WIDTH + c - 1 \in Page
  <2>1. c - 1 \in 0 .. TUI_WIDTH - 1
    BY Sizes, SMT
  <2>2. r * TUI_WIDTH \in Nat /\ r * TUI_WIDTH + (c - 1) \in Page
    BY <2>1, CellIndex
  <2> QED BY <2>2
<1>3. RowOf(m, r, n) \in [1 .. n -> Shades]
  BY <1>2, VisibleType DEF RowOf
<1>4. RowOf(m, r, n) \in Seq(Shades)
  BY <1>1, <1>3, SeqDef
<1>5. Len(RowOf(m, r, n)) = n
  BY <1>1, <1>3, <1>4, LenProperties
<1> QED BY <1>2, <1>4, <1>5 DEF RowOf

LEMMA RowsType ==
    ASSUME NEW m \in [Page -> Cell], NEW n \in 0 .. TUI_HEIGHT
    PROVE  /\ RowsOf(m, n) \in Seq(Seq(Shades))
           /\ Len(RowsOf(m, n)) = n
           /\ \A r \in 1 .. n : RowsOf(m, n)[r] = RowOf(m, r - 1, TUI_WIDTH)
<1>1. n \in Nat /\ TUI_WIDTH \in 0 .. TUI_WIDTH
  BY Sizes
<1>2. ASSUME NEW r \in 1 .. n PROVE RowOf(m, r - 1, TUI_WIDTH) \in Seq(Shades)
  <2>1. r - 1 \in Nat /\ r - 1 < TUI_HEIGHT
    BY Sizes, SMT
  <2> QED BY <1>1, <2>1, RowType
<1>3. RowsOf(m, n) \in [1 .. n -> Seq(Shades)]
  BY <1>2 DEF RowsOf
<1>4. RowsOf(m, n) \in Seq(Seq(Shades))
  BY <1>1, <1>3, SeqDef
<1>5. Len(RowsOf(m, n)) = n
  BY <1>1, <1>3, <1>4, LenProperties
<1> QED BY <1>4, <1>5 DEF RowsOf

LEMMA BlankShade ==
    ASSUME NEW m \in [Page -> Cell], NEW i \in Page, m[i].c = SPACE
    PROVE  Visible(m[i]) = Console!Blank /\ Console!Blank \in Shades
<1>1. Visible(m[i]) = Console!Blank
  BY DEF Visible, Console!Blank
<1> QED BY <1>1, VisibleType

\* The screen shows the rows above the cursor and its own row up to it.
LEMMA Rendered ==
    ASSUME NEW m \in [Page -> Cell], NEW row \in Nat, row < TUI_HEIGHT,
           NEW col \in 0 .. TUI_WIDTH - 1,
           \A i \in Page : i >= row * TUI_WIDTH + col => m[i].c = SPACE
    PROVE  [i \in Page |-> Visible(m[i])]
              = Console!Render(RowsOf(m, row), RowOf(m, row, col))
<1>1. /\ row \in 0 .. TUI_HEIGHT /\ col \in 0 .. TUI_WIDTH
      /\ TUI_WIDTH \in 0 .. TUI_WIDTH /\ row * TUI_WIDTH \in Nat
  BY Sizes, RowStart
<1>2. Len(RowsOf(m, row)) = row /\ Len(RowOf(m, row, col)) = col
  BY <1>1, RowsType, RowType
<1>3. ASSUME NEW i \in Page
      PROVE  Visible(m[i]) =
                LET r == (i \div TUI_WIDTH) + 1
                    c == (i % TUI_WIDTH) + 1
                IN  IF r <= row THEN RowsOf(m, row)[r][c]
                    ELSE IF r = row + 1 /\ c <= col THEN RowOf(m, row, col)[c]
                    ELSE Console!Blank
  <2> DEFINE q == i \div TUI_WIDTH
             d == i % TUI_WIDTH
  <2>1. q \in Nat /\ q < TUI_HEIGHT /\ d \in 0 .. TUI_WIDTH - 1 /\ i = q * TUI_WIDTH + d
    BY CellRow, Sizes
  <2> HIDE DEF q, d
  <2>2. q * TUI_WIDTH \in Nat
    BY <2>1, RowStart
  <2>3. CASE q + 1 <= row
    <3>1. q + 1 \in 1 .. row /\ (q + 1) - 1 = q
      BY <2>1, <2>3
    <3>2. RowsOf(m, row)[q + 1] = RowOf(m, q, TUI_WIDTH)
      BY <1>1, <3>1, RowsType
    <3>3. d + 1 \in 1 .. TUI_WIDTH /\ q * TUI_WIDTH + (d + 1) - 1 = i
      BY <2>1, <2>2, Sizes, SMT
    <3>4. RowOf(m, q, TUI_WIDTH)[d + 1] = Visible(m[i])
      BY <1>1, <2>1, <3>3, RowType
    <3> QED BY <2>3, <3>2, <3>4 DEF q, d
  <2>4. CASE q = row /\ d < col
    <3>1. d + 1 \in 1 .. col /\ row * TUI_WIDTH + (d + 1) - 1 = i
      BY <2>1, <2>2, <2>4, <1>1, SMT
    <3>2. RowOf(m, row, col)[d + 1] = Visible(m[i])
      BY <1>1, <3>1, RowType
    <3>3. ~(q + 1 <= row) /\ q + 1 = row + 1 /\ d + 1 <= col
      BY <2>1, <2>4, <1>1, SMT
    <3> QED BY <3>2, <3>3 DEF q, d
  <2>5. CASE ~(q + 1 <= row) /\ ~(q = row /\ d < col)
    <3>1. i >= row * TUI_WIDTH + col
      <4>1. CASE q = row
        BY <1>1, <2>1, <2>5, <4>1, SMT
      <4>2. CASE q >= row + 1
        <5>1. q * TUI_WIDTH >= (row + 1) * TUI_WIDTH
          BY <2>1, <4>2, Sizes, SMT
        <5>2. (row + 1) * TUI_WIDTH = row * TUI_WIDTH + TUI_WIDTH
          BY Sizes, SMT
        <5> DEFINE a == q * TUI_WIDTH
                   b == row * TUI_WIDTH
        <5>3. a \in Nat /\ b \in Nat /\ a >= b + TUI_WIDTH /\ i = a + d
          BY <1>1, <2>1, <2>2, <5>1, <5>2
        <5> HIDE DEF a, b
        <5>4. i >= b + col
          BY <5>3, <2>1, Sizes, SMT
        <5> QED BY <5>4 DEF b
      <4> QED BY <2>1, <2>5, <4>1, <4>2, SMT
    <3>2. Visible(m[i]) = Console!Blank
      BY <3>1, BlankShade
    <3>3. ~(q + 1 = row + 1 /\ d + 1 <= col)
      BY <2>1, <2>5, <1>1, SMT
    <3> QED BY <2>5, <3>2, <3>3 DEF q, d
  <2> QED BY <2>3, <2>4, <2>5
<1> QED BY <1>2, <1>3 DEF Console!Render, Console!Screen, Page

-----------------------------------------------------------------------------
(* What storing a cell, ending a line and scrolling do to the rows.        *)

\* Two pages that agree on the cells in front of a place.
LEMMA SameRow ==
    ASSUME NEW m \in [Page -> Cell], NEW k \in [Page -> Cell],
           NEW r \in Nat, r < TUI_HEIGHT, NEW n \in 0 .. TUI_WIDTH,
           \A i \in Page : r * TUI_WIDTH <= i /\ i < r * TUI_WIDTH + n => k[i] = m[i]
    PROVE  RowOf(k, r, n) = RowOf(m, r, n)
<1>1. ASSUME NEW c \in 1 .. n
      PROVE  RowOf(k, r, n)[c] = RowOf(m, r, n)[c]
  <2> DEFINE w == r * TUI_WIDTH
  <2>1. w + c - 1 \in Page /\ w \in Nat
    BY RowType, RowStart
  <2>2. w <= w + c - 1 /\ w + c - 1 < w + n
    <3> HIDE DEF w
    <3> QED BY <2>1, Sizes, SMT
  <2>3. k[w + c - 1] = m[w + c - 1]
    BY <2>1, <2>2
  <2> QED BY <2>3, RowType
<1> QED BY <1>1, RowType, SeqEqual

LEMMA SameRows ==
    ASSUME NEW m \in [Page -> Cell], NEW k \in [Page -> Cell], NEW n \in 0 .. TUI_HEIGHT,
           \A i \in Page : i < n * TUI_WIDTH => k[i] = m[i]
    PROVE  RowsOf(k, n) = RowsOf(m, n)
<1>1. ASSUME NEW r \in 1 .. n
      PROVE  RowOf(k, r - 1, TUI_WIDTH) = RowOf(m, r - 1, TUI_WIDTH)
  <2>1. r - 1 \in Nat /\ r - 1 < TUI_HEIGHT /\ TUI_WIDTH \in 0 .. TUI_WIDTH
    BY Sizes, SMT
  <2>2. (r - 1) * TUI_WIDTH + TUI_WIDTH <= n * TUI_WIDTH
    <3>1. r * TUI_WIDTH <= n * TUI_WIDTH
      BY Sizes, SMT
    <3>2. (r - 1) * TUI_WIDTH + TUI_WIDTH = r * TUI_WIDTH
      BY Sizes, SMT
    <3> QED BY <3>1, <3>2
  <2>3. ASSUME NEW i \in Page, (r - 1) * TUI_WIDTH <= i, i < (r - 1) * TUI_WIDTH + TUI_WIDTH
        PROVE  k[i] = m[i]
    <3> DEFINE a == (r - 1) * TUI_WIDTH
               b == n * TUI_WIDTH
    <3>1. a \in Nat /\ b \in Nat /\ a + TUI_WIDTH <= b /\ i \in Nat
      BY <2>1, <2>2, RowStart, Sizes, PageBounds, SMT DEF Page
    <3>2. i < a + TUI_WIDTH
      BY <2>3
    <3> HIDE DEF a, b
    <3>3. i < b
      BY <3>1, <3>2, Sizes, SMT
    <3> QED BY <3>3 DEF b
  <2> QED BY <2>1, <2>3, SameRow
<1> QED BY <1>1 DEF RowsOf

\* A row one cell longer, a row one cell shorter.
LEMMA RowAppend ==
    ASSUME NEW m \in [Page -> Cell], NEW r \in Nat, r < TUI_HEIGHT,
           NEW n \in 0 .. TUI_WIDTH - 1
    PROVE  RowOf(m, r, n + 1) = Append(RowOf(m, r, n), Visible(m[r * TUI_WIDTH + n]))
<1>0. n \in 0 .. TUI_WIDTH /\ n + 1 \in 0 .. TUI_WIDTH /\ n \in Nat
  BY Sizes, SMT
<1>1. r * TUI_WIDTH \in Nat /\ r * TUI_WIDTH + n \in Page
  BY CellIndex
<1> DEFINE s == RowOf(m, r, n)
           e == Visible(m[r * TUI_WIDTH + n])
<1>2. s \in Seq(Shades) /\ Len(s) = n /\ e \in Shades
  BY <1>0, <1>1, RowType, VisibleType
<1>3. /\ Append(s, e) \in Seq(Shades) /\ Len(Append(s, e)) = n + 1
      /\ \A c \in 1 .. n : Append(s, e)[c] = s[c]
      /\ Append(s, e)[n + 1] = e
  BY <1>2, AppendProperties
<1>4. /\ RowOf(m, r, n + 1) \in Seq(Shades) /\ Len(RowOf(m, r, n + 1)) = n + 1
      /\ \A c \in 1 .. n + 1 : RowOf(m, r, n + 1)[c] = Visible(m[r * TUI_WIDTH + c - 1])
      /\ \A c \in 1 .. n : s[c] = Visible(m[r * TUI_WIDTH + c - 1])
  BY <1>0, RowType
<1>5. ASSUME NEW c \in 1 .. n + 1 PROVE RowOf(m, r, n + 1)[c] = Append(s, e)[c]
  <2>1. CASE c \in 1 .. n
    BY <1>3, <1>4, <2>1
  <2>2. CASE c = n + 1
    <3>1. r * TUI_WIDTH + (n + 1) - 1 = r * TUI_WIDTH + n
      BY <1>0, <1>1
    <3> QED BY <1>3, <1>4, <2>2, <3>1
  <2>3. c \in 1 .. n \/ c = n + 1
    BY <1>0, SMT
  <2> QED BY <2>1, <2>2, <2>3
<1> QED BY <1>3, <1>4, <1>5, SeqEqual

LEMMA RowCut ==
    ASSUME NEW m \in [Page -> Cell], NEW r \in Nat, r < TUI_HEIGHT,
           NEW n \in 0 .. TUI_WIDTH, NEW k \in 0 .. n
    PROVE  SubSeq(RowOf(m, r, n), 1, k) = RowOf(m, r, k)
<1> DEFINE s == RowOf(m, r, n)
<1>1. k \in 0 .. TUI_WIDTH /\ k \in Int /\ n \in Nat
  BY Sizes, SMT
<1>2. /\ s \in Seq(Shades) /\ Len(s) = n
      /\ \A c \in 1 .. n : s[c] = Visible(m[r * TUI_WIDTH + c - 1])
  BY RowType
<1>3. /\ RowOf(m, r, k) \in Seq(Shades) /\ Len(RowOf(m, r, k)) = k
      /\ \A c \in 1 .. k : RowOf(m, r, k)[c] = Visible(m[r * TUI_WIDTH + c - 1])
  BY <1>1, RowType
<1>4. \A c \in 1 .. k : s[c] \in Shades
  BY <1>1, <1>2, ElementOfSeq
<1> HIDE DEF s
<1>5. /\ SubSeq(s, 1, k) \in Seq(Shades)
      /\ Len(SubSeq(s, 1, k)) = IF 1 <= k THEN k - 1 + 1 ELSE 0
      /\ \A c \in 1 .. k - 1 + 1 : SubSeq(s, 1, k)[c] = s[1 + c - 1]
  BY <1>1, <1>4, SubSeqProperties
<1>6. Len(SubSeq(s, 1, k)) = k
  <2>1. 1 <= k => k - 1 + 1 = k
    BY <1>1
  <2>2. ~(1 <= k) => 0 = k
    BY <1>1
  <2> QED BY <1>5, <2>1, <2>2
<1>7. ASSUME NEW c \in 1 .. k PROVE SubSeq(s, 1, k)[c] = RowOf(m, r, k)[c]
  <2>1. c \in 1 .. k - 1 + 1 /\ 1 + c - 1 = c /\ c \in 1 .. n
    BY <1>1, SMT
  <2> QED BY <1>2, <1>3, <1>5, <2>1
<1> QED BY <1>3, <1>5, <1>6, <1>7, SeqEqual DEF s

\* A row whose end is blank is its beginning, padded.
LEMMA RowPadded ==
    ASSUME NEW m \in [Page -> Cell], NEW r \in Nat, r < TUI_HEIGHT,
           NEW n \in 0 .. TUI_WIDTH,
           \A i \in Page : i >= r * TUI_WIDTH + n /\ i < r * TUI_WIDTH + TUI_WIDTH
                              => m[i].c = SPACE
    PROVE  Console!Pad(RowOf(m, r, n)) = RowOf(m, r, TUI_WIDTH)
<1> DEFINE s == RowOf(m, r, n)
           t == [i \in 1 .. TUI_WIDTH - Len(s) |-> Console!Blank]
           w == r * TUI_WIDTH
           row == RowOf(m, r, TUI_WIDTH)
<1>1. TUI_WIDTH \in Nat /\ TUI_WIDTH \in 0 .. TUI_WIDTH /\ n \in Nat /\ n <= TUI_WIDTH /\ w \in Nat
  BY Sizes, RowStart, SMT
<1>2. /\ s \in Seq(Shades) /\ Len(s) = n
      /\ \A c \in 1 .. n : s[c] = Visible(m[w + c - 1])
  BY RowType
<1>3. /\ row \in Seq(Shades) /\ Len(row) = TUI_WIDTH
      /\ \A c \in 1 .. TUI_WIDTH : w + c - 1 \in Page /\ row[c] = Visible(m[w + c - 1])
  BY <1>1, RowType
<1> HIDE DEF w, s, row
<1>4. ASSUME NEW c \in n + 1 .. TUI_WIDTH
      PROVE  row[c] = Console!Blank /\ Console!Blank \in Shades
  <2>1. c \in 1 .. TUI_WIDTH
    BY <1>1, SMT
  <2>2. w + c - 1 >= w + n /\ w + c - 1 < w + TUI_WIDTH
    BY <1>1, SMT
  <2>3. m[w + c - 1].c = SPACE
    BY <1>3, <2>1, <2>2 DEF w
  <2> QED BY <1>3, <2>1, <2>3, BlankShade
<1>5. t \in Seq(Shades) /\ Len(t) = TUI_WIDTH - n
  <2>1. TUI_WIDTH - n \in Nat
    BY <1>1
  <2>2. ASSUME NEW i \in 1 .. TUI_WIDTH - n PROVE Console!Blank \in Shades
    <3>1. TUI_WIDTH \in n + 1 .. TUI_WIDTH
      BY <1>1, SMT
    <3> QED BY <1>4, <3>1
  <2>3. t \in [1 .. TUI_WIDTH - n -> Shades]
    BY <1>2, <2>2
  <2>4. t \in Seq(Shades)
    <3> DEFINE k == TUI_WIDTH - n
    <3>1. k \in Nat /\ t \in [1 .. k -> Shades]
      BY <2>1, <2>3
    <3> HIDE DEF k, t
    <3> QED BY <3>1, SeqDef
  <2> HIDE DEF t
  <2> QED BY <2>1, <2>3, <2>4, LenProperties
<1>6. \A c \in 1 .. TUI_WIDTH - n : t[c] = Console!Blank
  BY <1>2
<1> HIDE DEF t
<1>7. /\ s \o t \in Seq(Shades) /\ Len(s \o t) = n + (TUI_WIDTH - n)
      /\ \A c \in 1 .. n + (TUI_WIDTH - n) :
            (s \o t)[c] = IF c <= n THEN s[c] ELSE t[c - n]
  <2>1. /\ s \o t \in Seq(Shades) /\ Len(s \o t) = Len(s) + Len(t)
        /\ \A c \in 1 .. Len(s) + Len(t) :
              (s \o t)[c] = IF c <= Len(s) THEN s[c] ELSE t[c - Len(s)]
    BY <1>2, <1>5, ConcatProperties
  <2> QED BY <1>2, <1>5, <2>1, Zenon
<1>8. n + (TUI_WIDTH - n) = TUI_WIDTH
  BY <1>1
<1>9. ASSUME NEW c \in 1 .. TUI_WIDTH PROVE (s \o t)[c] = row[c]
  <2>1. CASE c <= n
    <3>1. c \in 1 .. n
      BY <1>1, <2>1, SMT
    <3> QED BY <1>2, <1>3, <1>7, <1>8, <2>1, <3>1
  <2>2. CASE ~(c <= n)
    <3>1. c \in n + 1 .. TUI_WIDTH /\ c - n \in 1 .. TUI_WIDTH - n
      BY <1>1, <2>2, SMT
    <3> QED BY <1>4, <1>6, <1>7, <1>8, <2>2, <3>1
  <2> QED BY <2>1, <2>2
<1>10. s \o t = row
  BY <1>3, <1>7, <1>8, <1>9, SeqEqual
<1> QED BY <1>10 DEF Console!Pad, s, t, row

\* One row more.
LEMMA RowsAppend ==
    ASSUME NEW m \in [Page -> Cell], NEW n \in 0 .. TUI_HEIGHT - 1
    PROVE  RowsOf(m, n + 1) = Append(RowsOf(m, n), RowOf(m, n, TUI_WIDTH))
<1>1. n \in 0 .. TUI_HEIGHT /\ n + 1 \in 0 .. TUI_HEIGHT /\ n \in Nat /\ n < TUI_HEIGHT
      /\ TUI_WIDTH \in 0 .. TUI_WIDTH
  BY Sizes, SMT
<1> DEFINE s == RowsOf(m, n)
           e == RowOf(m, n, TUI_WIDTH)
<1>2. /\ s \in Seq(Seq(Shades)) /\ Len(s) = n /\ e \in Seq(Shades)
      /\ \A r \in 1 .. n : s[r] = RowOf(m, r - 1, TUI_WIDTH)
  BY <1>1, RowsType, RowType
<1>3. /\ Append(s, e) \in Seq(Seq(Shades)) /\ Len(Append(s, e)) = n + 1
      /\ \A r \in 1 .. n : Append(s, e)[r] = s[r]
      /\ Append(s, e)[n + 1] = e
  BY <1>2, AppendProperties
<1>4. /\ RowsOf(m, n + 1) \in Seq(Seq(Shades)) /\ Len(RowsOf(m, n + 1)) = n + 1
      /\ \A r \in 1 .. n + 1 : RowsOf(m, n + 1)[r] = RowOf(m, r - 1, TUI_WIDTH)
  BY <1>1, RowsType
<1>5. ASSUME NEW r \in 1 .. n + 1 PROVE RowsOf(m, n + 1)[r] = Append(s, e)[r]
  <2>1. CASE r \in 1 .. n
    BY <1>2, <1>3, <1>4, <2>1
  <2>2. CASE r = n + 1
    <3>1. (n + 1) - 1 = n
      BY <1>1
    <3> QED BY <1>3, <1>4, <2>2, <3>1
  <2>3. r \in 1 .. n \/ r = n + 1
    BY <1>1, SMT
  <2> QED BY <2>1, <2>2, <2>3
<1> QED BY <1>3, <1>4, <1>5, SeqEqual

\* A scroll takes the first row away.
LEMMA RowsScrolled ==
    ASSUME NEW m \in [Page -> Cell], Scrolled(m) \in [Page -> Cell]
    PROVE  RowsOf(Scrolled(m), TUI_HEIGHT - 1) = Tail(RowsOf(m, TUI_HEIGHT))
<1> DEFINE h == TUI_HEIGHT - 1
           k == Scrolled(m)
           s == RowsOf(m, TUI_HEIGHT)
<1>1. TUI_HEIGHT \in 0 .. TUI_HEIGHT /\ h \in 0 .. TUI_HEIGHT /\ h \in Nat /\ TUI_HEIGHT = h + 1
      /\ TUI_WIDTH \in 0 .. TUI_WIDTH
  BY Sizes, SMT
<1>2. /\ s \in Seq(Seq(Shades)) /\ Len(s) = TUI_HEIGHT
      /\ \A r \in 1 .. TUI_HEIGHT : s[r] = RowOf(m, r - 1, TUI_WIDTH)
  BY <1>1, RowsType
<1>3. /\ RowsOf(k, h) \in Seq(Seq(Shades)) /\ Len(RowsOf(k, h)) = h
      /\ \A r \in 1 .. h : RowsOf(k, h)[r] = RowOf(k, r - 1, TUI_WIDTH)
  BY <1>1, RowsType
<1>4. s # <<>>
  BY <1>1, <1>2, EmptySeq
<1> HIDE DEF s
<1>5. /\ Tail(s) \in Seq(Seq(Shades)) /\ Len(Tail(s)) = h
      /\ \A r \in 1 .. h : Tail(s)[r] = s[r + 1]
  BY <1>1, <1>2, <1>4, HeadTailProperties
<1>6. ASSUME NEW r \in 1 .. h PROVE RowsOf(k, h)[r] = Tail(s)[r]
  <2>1. r - 1 \in Nat /\ r - 1 < TUI_HEIGHT /\ r \in Nat /\ r < TUI_HEIGHT
        /\ r + 1 \in 1 .. TUI_HEIGHT /\ (r + 1) - 1 = r
    BY <1>1, Sizes, SMT
  <2>2. ASSUME NEW c \in 1 .. TUI_WIDTH
        PROVE  RowOf(k, r - 1, TUI_WIDTH)[c] = RowOf(m, r, TUI_WIDTH)[c]
    <3> DEFINE i == (r - 1) * TUI_WIDTH + c - 1
    <3>1. i \in Page /\ RowOf(k, r - 1, TUI_WIDTH)[c] = Visible(k[i])
          /\ RowOf(m, r, TUI_WIDTH)[c] = Visible(m[r * TUI_WIDTH + c - 1])
      BY <1>1, <2>1, RowType
    <3>2. i + TUI_WIDTH = r * TUI_WIDTH + c - 1
      <4>1. (r - 1) * TUI_WIDTH + TUI_WIDTH = r * TUI_WIDTH
        BY <2>1, Sizes, SMT
      <4>2. (r - 1) * TUI_WIDTH \in Nat
        BY <2>1, RowStart
      <4> QED BY <4>1, <4>2, Sizes, SMT
    <3>3. i < h * TUI_WIDTH
      <4>1. r * TUI_WIDTH <= h * TUI_WIDTH /\ r * TUI_WIDTH \in Nat
        BY <1>1, <2>1, RowStart
      <4>2. r * TUI_WIDTH = (r - 1) * TUI_WIDTH + TUI_WIDTH
        BY <2>1, Sizes, SMT
      <4>3. (r - 1) * TUI_WIDTH \in Nat /\ h * TUI_WIDTH \in Nat
        BY <1>1, <2>1, RowStart, Sizes
      <4> DEFINE a == (r - 1) * TUI_WIDTH
                 b == h * TUI_WIDTH
      <4>4. a \in Nat /\ b \in Nat /\ a + TUI_WIDTH <= b
        BY <4>1, <4>2, <4>3
      <4> HIDE DEF a, b
      <4>5. a + c - 1 < b
        BY <4>4, Sizes, SMT
      <4> QED BY <4>5 DEF a, b
    <3>4. k[i] = m[i + TUI_WIDTH]
      BY <3>1, <3>3 DEF Scrolled
    <3> QED BY <3>1, <3>2, <3>4
  <2>3. /\ RowOf(k, r - 1, TUI_WIDTH) \in Seq(Shades) /\ RowOf(m, r, TUI_WIDTH) \in Seq(Shades)
        /\ Len(RowOf(k, r - 1, TUI_WIDTH)) = TUI_WIDTH /\ Len(RowOf(m, r, TUI_WIDTH)) = TUI_WIDTH
    BY <1>1, <2>1, RowType
  <2>4. RowOf(k, r - 1, TUI_WIDTH) = RowOf(m, r, TUI_WIDTH)
    BY <2>2, <2>3, SeqEqual
  <2> QED BY <1>2, <1>3, <1>5, <2>1, <2>4
<1> QED BY <1>1, <1>3, <1>5, <1>6, SeqEqual DEF s

-----------------------------------------------------------------------------
(* The steps of the driver as steps of the console.                        *)

\* The console's variables.
DoneBar == IF up THEN [r \in 1 .. TUI_pos.row |-> ShownRow(r - 1, TUI_WIDTH)] ELSE <<>>
LineBar == IF up THEN ShownRow(TUI_pos.row, TUI_pos.col) ELSE <<>>
ShownBar == [i \in Page |-> Visible(mem[i])]

LEMMA Bars ==
    ASSUME up
    PROVE  /\ DoneBar = RowsOf(mem, TUI_pos.row)
           /\ LineBar = RowOf(mem, TUI_pos.row, TUI_pos.col)
BY DEF DoneBar, LineBar, ShownRow, RowsOf, RowOf

LEMMA BarsNext ==
    ASSUME up'
    PROVE  /\ DoneBar' = RowsOf(mem', TUI_pos'.row)
           /\ LineBar' = RowOf(mem', TUI_pos'.row, TUI_pos'.col)
           /\ ShownBar' = [i \in Page |-> Visible(mem'[i])]
BY DEF DoneBar, LineBar, ShownBar, ShownRow, RowsOf, RowOf, Visible

LEMMA BarsKept ==
    ASSUME up' = up, mem' = mem, TUI_pos' = TUI_pos
    PROVE  DoneBar' = DoneBar /\ LineBar' = LineBar /\ ShownBar' = ShownBar
BY DEF DoneBar, LineBar, ShownBar, ShownRow, Visible

\* Where the position is, as numbers.
LEMMA Place ==
    ASSUME TextInv, up
    PROVE  /\ TUI_pos.row \in Nat /\ TUI_pos.row < TUI_HEIGHT
           /\ TUI_pos.row \in 0 .. TUI_HEIGHT - 1
           /\ TUI_pos.col \in 0 .. TUI_WIDTH - 1
           /\ TUI_pos.row * TUI_WIDTH \in Nat
           /\ Index(TUI_pos) = TUI_pos.row * TUI_WIDTH + TUI_pos.col
           /\ Index(TUI_pos) \in Page
           /\ mem \in [Page -> Cell]
<1>1. /\ TUI_pos \in Pos /\ TUI_pos.row < TUI_HEIGHT /\ TUI_pos.col < TUI_WIDTH
      /\ mem \in [Page -> Cell]
  BY DEF TextInv, Inv, TypeOK, BlankBehind
<1>2. TUI_pos.row \in Nat /\ TUI_pos.col \in 0 .. TUI_WIDTH - 1
      /\ TUI_pos.row \in 0 .. TUI_HEIGHT - 1
  BY <1>1, Sizes, SMT DEF Pos
<1>3. TUI_pos.row * TUI_WIDTH + TUI_pos.col \in Page
  BY <1>1, <1>2, CellIndex
<1> QED BY <1>1, <1>2, <1>3, RowStart DEF Index

\* What is shown after a step is the text laid out.
LEMMA Shown ==
    ASSUME up', mem' \in [Page -> Cell],
           TUI_pos'.row \in Nat, TUI_pos'.row < TUI_HEIGHT,
           TUI_pos'.col \in 0 .. TUI_WIDTH - 1, BlankBehind'
    PROVE  Console!Shows(RowsOf(mem', TUI_pos'.row), RowOf(mem', TUI_pos'.row, TUI_pos'.col))
<1>1. \A i \in Page : i >= TUI_pos'.row * TUI_WIDTH + TUI_pos'.col => mem'[i].c = SPACE
  BY DEF BlankBehind, Index
<1>2. ShownBar' = Console!Render(RowsOf(mem', TUI_pos'.row),
                                 RowOf(mem', TUI_pos'.row, TUI_pos'.col))
  BY <1>1, BarsNext, Rendered
<1> QED BY <1>2, BarsNext DEF Console!Shows, DoneBar, LineBar, ShownBar

LEMMA EmptyRow ==
    ASSUME NEW m \in [Page -> Cell], NEW r \in Nat, r < TUI_HEIGHT
    PROVE  RowOf(m, r, 0) = <<>>
<1>1. 0 \in 0 .. TUI_WIDTH
  BY Sizes
<1> QED BY <1>1, RowType, EmptySeq

LEMMA EmptyRows ==
    ASSUME NEW m \in [Page -> Cell]
    PROVE  RowsOf(m, 0) = <<>>
<1>1. 0 \in 0 .. TUI_HEIGHT
  BY Sizes
<1> QED BY <1>1, RowsType, EmptySeq

\* TUI_init and TUI_clear leave a blank page.
LEMMA StartsBlank ==
    ASSUME up', TUI_pos' = make_pos(0, 0), mem' \in [Page -> Cell],
           \A i \in Page : mem'[i].c = SPACE
    PROVE  BlankBehind' /\ Console!Shows(<<>>, <<>>)
<1>1. TUI_pos'.row = 0 /\ TUI_pos'.col = 0
  BY DEF make_pos
<1>2. BlankBehind'
  BY <1>1, Sizes DEF BlankBehind
<1>3. Console!Shows(RowsOf(mem', 0), RowOf(mem', 0, 0))
  <2>1. TUI_pos'.row \in Nat /\ TUI_pos'.row < TUI_HEIGHT /\ TUI_pos'.col \in 0 .. TUI_WIDTH - 1
    BY <1>1, Sizes, SMT
  <2>2. Console!Shows(RowsOf(mem', TUI_pos'.row), RowOf(mem', TUI_pos'.row, TUI_pos'.col))
    BY <1>2, <2>1, Shown
  <2> QED BY <1>1, <2>2
<1>4. RowsOf(mem', 0) = <<>> /\ RowOf(mem', 0, 0) = <<>>
  BY EmptyRow, EmptyRows, Sizes
<1> QED BY <1>2, <1>3, <1>4

\* A line ends, full or not, and the page moves up if it was the last one.
LEMMA LineEnds ==
    ASSUME TextInv, up, up', NEW m \in [Page -> Cell], Scrolled(m) \in [Page -> Cell],
           NEW k \in 0 .. TUI_WIDTH,
           RowsOf(m, TUI_pos.row) = RowsOf(mem, TUI_pos.row),
           \A i \in Page : i >= TUI_pos.row * TUI_WIDTH + k => m[i].c = SPACE,
           mem' = IF TUI_pos.row + 1 >= TUI_HEIGHT THEN Scrolled(m) ELSE m,
           TUI_pos' = make_pos(0, IF TUI_pos.row + 1 >= TUI_HEIGHT THEN TUI_HEIGHT - 1
                                  ELSE TUI_pos.row + 1)
    PROVE  BlankBehind' /\ Console!EndLine(RowOf(m, TUI_pos.row, k))
<1> DEFINE row == TUI_pos.row
           next == IF row + 1 >= TUI_HEIGHT THEN TUI_HEIGHT - 1 ELSE row + 1
           line == RowOf(m, row, TUI_WIDTH)
<1>1. /\ row \in Nat /\ row < TUI_HEIGHT /\ row \in 0 .. TUI_HEIGHT - 1
      /\ row * TUI_WIDTH \in Nat
  BY Place
<1>2. TUI_pos'.row = next /\ TUI_pos'.col = 0 /\ next \in Nat /\ next < TUI_HEIGHT
  <2>1. next \in Nat /\ next < TUI_HEIGHT
    BY <1>1, Sizes, SMT
  <2> QED BY <2>1 DEF make_pos
<1>3. Console!Pad(RowOf(m, row, k)) = line
  BY <1>1, RowPadded
<1>4. Append(DoneBar, line) = RowsOf(m, row + 1)
  BY <1>1, Bars, RowsAppend
<1>5. Len(RowsOf(m, row + 1)) = row + 1
  <2>1. row + 1 \in 0 .. TUI_HEIGHT
    BY <1>1, Sizes, SMT
  <2> QED BY <2>1, RowsType
<1>6. mem' \in [Page -> Cell]
  OBVIOUS
<1>7. Console!Kept(RowsOf(m, row + 1)) = RowsOf(mem', next)
  <2>1. CASE row + 1 >= TUI_HEIGHT
    <3>1. row + 1 = TUI_HEIGHT /\ ~(row + 1 < TUI_HEIGHT)
      BY <1>1, <2>1, Sizes, SMT
    <3> QED BY <1>5, <2>1, <3>1, RowsScrolled DEF Console!Kept
  <2>2. CASE ~(row + 1 >= TUI_HEIGHT)
    <3>1. row + 1 < TUI_HEIGHT
      BY <1>1, <2>2, Sizes, SMT
    <3> QED BY <1>5, <2>2, <3>1 DEF Console!Kept
  <2> QED BY <2>1, <2>2
<1>8. BlankBehind'
  <2>1. ASSUME NEW i \in Page, i >= next * TUI_WIDTH + 0 PROVE mem'[i].c = SPACE
    <3>0. i \in Nat
      BY PageBounds, SMT DEF Page
    <3>1. CASE row + 1 >= TUI_HEIGHT
      <4> DEFINE h == (TUI_HEIGHT - 1) * TUI_WIDTH
      <4>1. i >= h + 0 /\ h \in Nat
        BY <2>1, <3>1, PageBounds
      <4> HIDE DEF h
      <4>2. ~(i < h)
        BY <3>0, <4>1, SMT
      <4> QED BY <3>1, <4>2 DEF Scrolled, make_char, h
    <3>2. CASE ~(row + 1 >= TUI_HEIGHT)
      <4> DEFINE a == row * TUI_WIDTH
      <4>1. (row + 1) * TUI_WIDTH = a + TUI_WIDTH
        BY <1>1, Sizes, SMT
      <4>2. i >= (a + TUI_WIDTH) + 0 /\ a \in Nat
        BY <1>1, <2>1, <3>2, <4>1
      <4> HIDE DEF a
      <4>3. i >= a + k
        BY <3>0, <4>2, Sizes, SMT
      <4> QED BY <3>2, <4>3 DEF a
    <3> QED BY <3>1, <3>2
  <2> QED BY <1>2, <2>1, Sizes DEF BlankBehind, Index
<1>9. Console!Shows(RowsOf(mem', next), <<>>)
  <2>1. TUI_pos'.row \in Nat /\ TUI_pos'.row < TUI_HEIGHT /\ TUI_pos'.col \in 0 .. TUI_WIDTH - 1
    <3>1. 0 \in 0 .. TUI_WIDTH - 1
      BY Sizes, SMT
    <3> QED BY <1>2, <3>1
  <2>2. Console!Shows(RowsOf(mem', TUI_pos'.row), RowOf(mem', TUI_pos'.row, TUI_pos'.col))
    BY <1>6, <1>8, <2>1, Shown
  <2>3. RowOf(mem', next, 0) = <<>>
    BY <1>2, <1>6, EmptyRow
  <2> QED BY <1>2, <2>2, <2>3
<1> HIDE DEF row, next, line
<1>10. Console!EndLine(RowOf(m, row, k))
  BY <1>3, <1>4, <1>7, <1>9 DEF Console!EndLine, DoneBar
<1> QED BY <1>8, <1>10 DEF row

LEMMA CharDrawn ==
    ASSUME TextInv, up, NEW c \in Chars
    PROVE  /\ Drawn(mem, c, TUI_pos) \in [Page -> Cell]
           /\ Scrolled(Drawn(mem, c, TUI_pos)) \in [Page -> Cell]
<1>1. /\ OnScreen(TUI_pos) /\ mem \in [Page -> Cell]
      /\ TUI_color \in [fore : Color4, back : Color4]
  BY DEF TextInv, Inv, TypeOK, OnScreen
<1> QED BY <1>1, DrawnType, ScrolledType

\* Nothing in front of the current row changes, and in the row nothing in
\* front of the cell that was stored.
LEMMA RowsKept ==
    ASSUME TextInv, up, NEW m \in [Page -> Cell], NEW n \in 0 .. TUI_WIDTH,
           \A i \in Page : i < TUI_pos.row * TUI_WIDTH + n => m[i] = mem[i]
    PROVE  /\ RowsOf(m, TUI_pos.row) = RowsOf(mem, TUI_pos.row)
           /\ RowOf(m, TUI_pos.row, n) = RowOf(mem, TUI_pos.row, n)
<1> DEFINE a == TUI_pos.row * TUI_WIDTH
<1>1. /\ TUI_pos.row \in Nat /\ TUI_pos.row < TUI_HEIGHT /\ TUI_pos.row \in 0 .. TUI_HEIGHT
      /\ a \in Nat /\ mem \in [Page -> Cell]
  BY Place, Sizes
<1>2. \A i \in Page : i \in Nat
  BY PageBounds, SMT DEF Page
<1>3. \A i \in Page : i < a => m[i] = mem[i]
  <2> HIDE DEF a
  <2>1. \A i \in Page : i < a => i < a + n
    BY <1>1, <1>2, Sizes, SMT
  <2> QED BY <2>1 DEF a
<1>4. \A i \in Page : a <= i /\ i < a + n => m[i] = mem[i]
  OBVIOUS
<1> QED BY <1>1, <1>3, <1>4, SameRows, SameRow

LEMMA NewlineStep ==
    ASSUME TextInv, up, up', TUI_putChar(LF), LF \in Chars
    PROVE  BlankBehind' /\ Console!EndLine(LineBar)
<1> DEFINE row == TUI_pos.row
           pos == Moved(LF, TUI_pos)
<1>1. row \in Nat /\ row < TUI_HEIGHT /\ TUI_pos.col \in 0 .. TUI_WIDTH - 1
      /\ mem \in [Page -> Cell]
  BY Place
<1>2. pos = make_pos(0, row + 1)
  <2>1. (row + 1) % UINT8 = row + 1
    BY <1>1, Sizes, SMT
  <2> QED BY <2>1 DEF Moved, Escape, EscapedPos
<1>3. Drawn(mem, LF, TUI_pos) = mem
  BY CharAssumption DEF Drawn, Escape
<1>4. Scrolled(mem) \in [Page -> Cell]
  BY <1>3, CharDrawn
<1>5. /\ pos.row = row + 1 /\ pos.col = 0
      /\ mem' = IF row + 1 >= TUI_HEIGHT THEN Scrolled(mem) ELSE mem
      /\ TUI_pos' = make_pos(0, IF row + 1 >= TUI_HEIGHT THEN TUI_HEIGHT - 1 ELSE row + 1)
  BY <1>2, <1>3 DEF TUI_putChar, SetPos, MustScroll, make_pos
<1>6. /\ TUI_pos.col \in 0 .. TUI_WIDTH
      /\ \A i \in Page : i >= TUI_pos.row * TUI_WIDTH + TUI_pos.col => mem[i].c = SPACE
  <2>1. TUI_pos.col \in 0 .. TUI_WIDTH
    BY <1>1, Sizes, SMT
  <2> QED BY <2>1 DEF TextInv, BlankBehind, Index
<1> HIDE DEF row, pos
<1>7. BlankBehind' /\ Console!EndLine(RowOf(mem, TUI_pos.row, TUI_pos.col))
  BY <1>1, <1>4, <1>5, <1>6, LineEnds DEF row
<1> QED BY <1>7, Bars

LEMMA GlyphStep ==
    ASSUME TextInv, up, up', NEW c \in Chars, c \notin Escape, TUI_putChar(c)
    PROVE  LET l == Append(LineBar, Console!InInk(c))
           IN  /\ BlankBehind'
               /\ IF Len(l) = TUI_WIDTH THEN Console!EndLine(l) ELSE Console!Shows(DoneBar, l)
<1> DEFINE row == TUI_pos.row
           col == TUI_pos.col
           a == row * TUI_WIDTH
           m == Drawn(mem, c, TUI_pos)
           pos == Moved(c, TUI_pos)
<1>1. /\ row \in Nat /\ row < TUI_HEIGHT /\ col \in 0 .. TUI_WIDTH - 1
      /\ row \in 0 .. TUI_HEIGHT - 1 /\ a \in Nat /\ a + col \in Page
      /\ Index(TUI_pos) = a + col /\ mem \in [Page -> Cell]
  BY Place
<1>2. col \in 0 .. TUI_WIDTH /\ col + 1 \in 0 .. TUI_WIDTH /\ col \in Nat
  BY <1>1, Sizes, SMT
<1>3. m \in [Page -> Cell] /\ Scrolled(m) \in [Page -> Cell]
  BY CharDrawn
<1>4. \A i \in Page : m[i] = IF i = a + col THEN make_char(c, TUI_color) ELSE mem[i]
  BY DEF Drawn, TUI_putEntryAt, TUI_write
<1>5. /\ RowsOf(m, row) = RowsOf(mem, row) /\ RowOf(m, row, col) = RowOf(mem, row, col)
  <2> HIDE DEF m, a
  <2>1. \A i \in Page : i < a + col => m[i] = mem[i]
    <3>1. \A i \in Page : i < a + col => i # a + col
      BY <1>1, PageBounds, SMT DEF Page
    <3> QED BY <1>4, <3>1
  <2> QED BY <1>2, <1>3, <2>1, RowsKept DEF a
<1>6. RowOf(m, row, col + 1) = Append(LineBar, Console!InInk(c))
  <2>1. Visible(m[a + col]) = Console!InInk(c)
    BY <1>1, <1>4 DEF Visible, Console!InInk, Console!Blank, make_char
  <2>2. RowOf(m, row, col + 1) = Append(RowOf(m, row, col), Visible(m[a + col]))
    BY <1>1, <1>3, RowAppend
  <2> QED BY <1>5, <2>1, <2>2, Bars
<1>7. Len(Append(LineBar, Console!InInk(c))) = col + 1
  BY <1>1, <1>2, <1>3, <1>6, RowType
<1>8. \A i \in Page : i >= a + (col + 1) => m[i].c = SPACE
  <2> HIDE DEF m, a
  <2>1. \A i \in Page : i >= a + (col + 1) => i # a + col /\ i >= a + col
    BY <1>1, <1>2, PageBounds, SMT DEF Page
  <2> QED BY <1>1, <1>4, <2>1 DEF TextInv, BlankBehind
<1>9. (col + 1) % UINT8 = col + 1 /\ (row + 1) % UINT8 = row + 1
  <2>1. col \in Nat /\ col + 1 < UINT8 /\ row \in Nat /\ row + 1 < UINT8 /\ UINT8 \in Nat
    BY <1>1, <1>2, Sizes, SMT
  <2> HIDE DEF col, row
  <2> QED BY <2>1, SMT
<1>10. pos = GlyphPos(TUI_pos)
  BY DEF Moved
<1>11. CASE col + 1 = TUI_WIDTH
  <2>1. pos = make_pos(0, row + 1)
    BY <1>9, <1>10, <1>11, Sizes DEF GlyphPos
  <2>2. /\ pos.row = row + 1 /\ pos.col = 0
        /\ mem' = IF row + 1 >= TUI_HEIGHT THEN Scrolled(m) ELSE m
        /\ TUI_pos' = make_pos(0, IF row + 1 >= TUI_HEIGHT THEN TUI_HEIGHT - 1 ELSE row + 1)
    BY <2>1 DEF TUI_putChar, SetPos, MustScroll, make_pos
  <2> HIDE DEF m, pos
  <2>3. BlankBehind' /\ Console!EndLine(RowOf(m, row, col + 1))
    BY <1>2, <1>3, <1>5, <1>8, <2>2, LineEnds
  <2> QED BY <1>6, <1>7, <1>11, <2>3
<1>12. CASE col + 1 # TUI_WIDTH
  <2>1. col + 1 \in 0 .. TUI_WIDTH - 1 /\ ~(col + 1 >= TUI_WIDTH)
    BY <1>2, <1>12, Sizes, SMT
  <2>2. pos = make_pos(col + 1, row)
    BY <1>9, <1>10, <2>1 DEF GlyphPos
  <2>3. ~(row >= TUI_HEIGHT)
    BY <1>1, Sizes, SMT
  <2>4. mem' = m /\ TUI_pos' = pos /\ TUI_pos'.row = row /\ TUI_pos'.col = col + 1
    BY <2>2, <2>3 DEF TUI_putChar, SetPos, MustScroll, make_pos
  <2> HIDE DEF m, pos
  <2>5. BlankBehind'
    BY <1>8, <2>1, <2>4, Sizes DEF BlankBehind, Index
  <2>6. Console!Shows(RowsOf(m, row), RowOf(m, row, col + 1))
    BY <1>1, <1>3, <2>1, <2>4, <2>5, Shown
  <2> QED BY <1>5, <1>6, <1>7, <1>12, <2>5, <2>6, Bars
<1> QED BY <1>11, <1>12

LEMMA BackspaceStep ==
    ASSUME TextInv, up, up', TUI_putChar(BS), BS \in Chars
    PROVE  /\ BlankBehind'
           /\ Console!Shows(DoneBar, IF LineBar = <<>> THEN LineBar
                                     ELSE SubSeq(LineBar, 1, Len(LineBar) - 1))
<1> DEFINE row == TUI_pos.row
           col == TUI_pos.col
           a == row * TUI_WIDTH
           m == Drawn(mem, BS, TUI_pos)
           k == IF col > 0 THEN col - 1 ELSE 0
<1>1. /\ row \in Nat /\ row < TUI_HEIGHT /\ col \in 0 .. TUI_WIDTH - 1
      /\ row \in 0 .. TUI_HEIGHT - 1 /\ a \in Nat
      /\ Index(TUI_pos) = a + col /\ mem \in [Page -> Cell]
  BY Place
<1>2. /\ col \in 0 .. TUI_WIDTH /\ col \in Nat /\ k \in 0 .. col
      /\ k \in 0 .. TUI_WIDTH - 1 /\ k \in 0 .. TUI_WIDTH
  BY <1>1, Sizes, SMT
<1>3. m \in [Page -> Cell]
  BY CharDrawn
<1>4. mem' = m /\ TUI_pos' = make_pos(k, row)
  <2>1. Moved(BS, TUI_pos) = make_pos(k, row)
    BY CharAssumption DEF Moved, Escape, EscapedPos
  <2>2. ~(row >= TUI_HEIGHT)
    BY <1>1, Sizes, SMT
  <2>3. make_pos(k, row).row = row
    BY DEF make_pos
  <2> QED BY <2>1, <2>2, <2>3 DEF TUI_putChar, SetPos, MustScroll
<1>5. TUI_pos'.row = row /\ TUI_pos'.col = k
  BY <1>4 DEF make_pos
<1>6. /\ \A i \in Page : i < a + k => m[i] = mem[i]
      /\ \A i \in Page : i >= a + k => m[i].c = SPACE
  <2>1. CASE col > 0
    <3>1. m = TUI_write(mem, a + col - 1, make_char(SPACE, TUI_color))
      BY <1>1, <2>1 DEF Drawn, Escape
    <3>2. \A i \in Page : m[i] = IF i = a + col - 1 THEN make_char(SPACE, TUI_color) ELSE mem[i]
      BY <3>1 DEF TUI_write
    <3> HIDE DEF m, a
    <3>3. ASSUME NEW i \in Page
          PROVE  /\ i < a + k => i # a + col - 1
                 /\ i >= a + k => i = a + col - 1 \/ i >= a + col
      <4>1. i \in Nat /\ k = col - 1
        BY <2>1, PageBounds, SMT DEF Page
      <4> HIDE DEF k, col
      <4> QED BY <1>1, <1>2, <4>1, SMT
    <3>4. \A i \in Page : i >= a + col => mem[i].c = SPACE
      BY <1>1 DEF TextInv, BlankBehind
    <3> QED BY <3>2, <3>3, <3>4 DEF make_char
  <2>2. CASE ~(col > 0)
    <3>1. col = 0 /\ k = col
      BY <1>2, <2>2, SMT
    <3>2. m = mem
      BY <2>2 DEF Drawn, Escape
    <3>3. \A i \in Page : i >= a + col => mem[i].c = SPACE
      BY <1>1 DEF TextInv, BlankBehind
    <3> HIDE DEF m, k
    <3> QED BY <3>1, <3>2, <3>3
  <2> QED BY <2>1, <2>2
<1> HIDE DEF m, k
<1>7. BlankBehind'
  BY <1>2, <1>4, <1>5, <1>6, Sizes DEF BlankBehind, Index
<1>8. Console!Shows(RowsOf(m, row), RowOf(m, row, k))
  BY <1>1, <1>2, <1>3, <1>4, <1>5, <1>7, Shown
<1>9. RowsOf(m, row) = DoneBar /\ RowOf(m, row, k) = RowOf(mem, row, k)
  BY <1>2, <1>3, <1>6, RowsKept, Bars
<1>10. RowOf(mem, row, k) = IF LineBar = <<>> THEN LineBar
                            ELSE SubSeq(LineBar, 1, Len(LineBar) - 1)
  <2>1. LineBar = RowOf(mem, row, col) /\ LineBar \in Seq(Shades) /\ Len(LineBar) = col
    BY <1>1, <1>2, Bars, RowType
  <2>2. CASE col = 0
    <3>1. LineBar = <<>> /\ k = 0
      BY <1>2, <2>1, <2>2, EmptySeq DEF k
    <3> QED BY <2>1, <2>2, <3>1
  <2>3. CASE col # 0
    <3>1. LineBar # <<>> /\ k = col - 1
      BY <1>2, <2>1, <2>3, EmptySeq DEF k
    <3>2. SubSeq(RowOf(mem, row, col), 1, k) = RowOf(mem, row, k)
      BY <1>1, <1>2, RowCut
    <3> QED BY <2>1, <3>1, <3>2
  <2> QED BY <2>2, <2>3
<1> QED BY <1>7, <1>8, <1>9, <1>10

LEMMA TabStep ==
    ASSUME TextInv, up, up', TUI_putChar(TAB), TAB \in Chars, TabFits(TAB)
    PROVE  LET stop == Console!TabStop(Len(LineBar))
           IN  /\ BlankBehind'
               /\ stop < TUI_WIDTH
               /\ Console!Shows(DoneBar, SubSeq(Console!Pad(LineBar), 1, stop))
<1> DEFINE row == TUI_pos.row
           col == TUI_pos.col
           a == row * TUI_WIDTH
           k == col + TabWidth(col)
<1>1. /\ row \in Nat /\ row < TUI_HEIGHT /\ col \in 0 .. TUI_WIDTH - 1
      /\ row \in 0 .. TUI_HEIGHT - 1 /\ a \in Nat
      /\ Index(TUI_pos) = a + col /\ mem \in [Page -> Cell]
  BY Place
<1>2. col \in 0 .. TUI_WIDTH /\ col \in Nat
  BY <1>1, Sizes, SMT
<1>3. k = 4 * ((col \div 4) + 1) /\ k \in Nat /\ k > col
  BY <1>2, SMT DEF TabWidth
<1>4. k < TUI_WIDTH
  BY DEF TabFits
<1> HIDE DEF k
<1>5. k \in 0 .. TUI_WIDTH - 1 /\ k \in 0 .. TUI_WIDTH /\ k % UINT8 = k
  BY <1>3, <1>4, Sizes, SMT
<1>6. Console!TabStop(Len(LineBar)) = k
  <2>1. Len(LineBar) = col
    BY <1>1, <1>2, Bars, RowType
  <2> QED BY <1>3, <2>1 DEF Console!TabStop
<1>7. mem' = mem /\ TUI_pos' = make_pos(k, row)
  <2>1. Moved(TAB, TUI_pos) = make_pos(k, row)
    BY <1>5, CharAssumption DEF Moved, Escape, EscapedPos, k
  <2>2. ~(row >= TUI_HEIGHT)
    BY <1>1, Sizes, SMT
  <2>3. make_pos(k, row).row = row
    BY DEF make_pos
  <2>4. Drawn(mem, TAB, TUI_pos) = mem
    BY CharAssumption DEF Drawn, Escape
  <2> QED BY <2>1, <2>2, <2>3, <2>4 DEF TUI_putChar, SetPos, MustScroll
<1>8. TUI_pos'.row = row /\ TUI_pos'.col = k
  BY <1>7 DEF make_pos
<1>9. /\ \A i \in Page : i >= a + col => mem[i].c = SPACE
      /\ \A i \in Page : i >= a + k => mem[i].c = SPACE
  <2>1. \A i \in Page : i >= a + col => mem[i].c = SPACE
    BY <1>1 DEF TextInv, BlankBehind
  <2>2. \A i \in Page : i >= a + k => i >= a + col
    <3> HIDE DEF a
    <3> QED BY <1>1, <1>2, <1>3, PageBounds, SMT DEF Page
  <2> QED BY <2>1, <2>2
<1>10. BlankBehind'
  BY <1>4, <1>7, <1>8, <1>9 DEF BlankBehind, Index
<1>11. Console!Shows(RowsOf(mem, row), RowOf(mem, row, k))
  BY <1>1, <1>5, <1>7, <1>8, <1>10, Shown
<1>12. SubSeq(Console!Pad(LineBar), 1, k) = RowOf(mem, row, k)
  <2>1. Console!Pad(LineBar) = RowOf(mem, row, TUI_WIDTH)
    BY <1>1, <1>2, <1>9, Bars, RowPadded
  <2>2. TUI_WIDTH \in 0 .. TUI_WIDTH
    BY Sizes
  <2> QED BY <1>1, <1>5, <2>1, <2>2, RowCut
<1> QED BY <1>4, <1>6, <1>10, <1>11, <1>12, Bars

LEMMA TextInit == PlainCallers /\ Init => TextInv /\ Console!Init
<1> SUFFICES ASSUME PlainCallers, Init PROVE TextInv /\ Console!Init
  OBVIOUS
<1>1. Inv /\ ~up /\ todo = <<>> /\ mem \in [Page -> Cell]
  BY InitInv DEF Init, Inv, TypeOK
<1>2. TodoOK /\ BlankBehind
  BY <1>1 DEF TodoOK, BlankBehind
<1>3. [i \in Page |-> Visible(mem[i])] \in [Console!Screen -> {Visible(ch) : ch \in Cell}]
  BY <1>1 DEF Console!Screen, Page
<1>4. TUI_color.fore = COLOR_BLACK
  BY DEF Init, make_col, COLOR_BLACK
<1> QED BY <1>1, <1>2, <1>3, <1>4 DEF TextInv, Console!Init

\* A character of the string is shown.
LEMMA WriteBufStep ==
    ASSUME TextInv, Inv', TUI_writeBuf
    PROVE  TextInv' /\ Console!Next
<1> DEFINE c == Head(todo)
<1>1. /\ up /\ up' /\ todo # <<>> /\ todo \in Seq(Chars) /\ TUI_putChar(c)
      /\ todo' = Tail(todo) /\ TUI_color' = TUI_color
  BY DEF TUI_writeBuf, TextInv, Inv, TypeOK
<1>2. /\ c \in Chars /\ c = todo[1] /\ 1 \in 1 .. Len(todo) /\ Len(todo) \in Nat
      /\ todo' \in Seq(Chars) /\ Len(todo') = Len(todo) - 1
      /\ \A n \in 1 .. Len(todo') : todo'[n] = todo[n + 1]
  BY <1>1, HeadTailProperties, EmptySeq
<1>3. c = TAB => TabFits(TAB)
  BY <1>2 DEF TextInv, TodoOK
<1>4. TodoOK'
  <2>1. ASSUME NEW n \in 1 .. Len(todo'), todo'[n] = TAB PROVE FALSE
    <3>1. n + 1 \in 1 .. Len(todo) /\ Len(todo) # 1
      BY <1>2, SMT
    <3> QED BY <1>2, <2>1, <3>1 DEF TextInv, TodoOK
  <2> QED BY <2>1 DEF TodoOK
<1>5. Console!Consumed
  BY <1>1 DEF Console!Consumed
<1> HIDE DEF c
<1>6. Console!Pending(c)
  BY <1>1 DEF Console!Pending, c
<1>7. CASE c = LF
  <2>1. BlankBehind' /\ Console!EndLine(LineBar)
    BY <1>1, <1>2, <1>7, NewlineStep
  <2>2. Console!ShowNewline
    BY <1>5, <1>6, <1>7, <2>1 DEF Console!ShowNewline, LineBar
  <2> QED BY <1>4, <2>1, <2>2 DEF TextInv, Console!Next
<1>8. CASE c = TAB
  <2>1. /\ BlankBehind'
        /\ Console!TabStop(Len(LineBar)) < TUI_WIDTH
        /\ Console!Shows(DoneBar,
              SubSeq(Console!Pad(LineBar), 1, Console!TabStop(Len(LineBar))))
    BY <1>1, <1>2, <1>3, <1>8, TabStep
  <2>2. Console!ShowTab
    BY <1>5, <1>6, <1>8, <2>1 DEF Console!ShowTab, LineBar, DoneBar
  <2> QED BY <1>4, <2>1, <2>2 DEF TextInv, Console!Next
<1>9. CASE c = BS
  <2>1. /\ BlankBehind'
        /\ Console!Shows(DoneBar, IF LineBar = <<>> THEN LineBar
                                  ELSE SubSeq(LineBar, 1, Len(LineBar) - 1))
    BY <1>1, <1>2, <1>9, BackspaceStep
  <2>2. Console!ShowBackspace
    BY <1>5, <1>6, <1>9, <2>1 DEF Console!ShowBackspace, LineBar, DoneBar
  <2> QED BY <1>4, <2>1, <2>2 DEF TextInv, Console!Next
<1>10. CASE c \notin Escape
  <2> DEFINE l == Append(LineBar, Console!InInk(c))
  <2>1. /\ BlankBehind'
        /\ IF Len(l) = TUI_WIDTH THEN Console!EndLine(l) ELSE Console!Shows(DoneBar, l)
    BY <1>1, <1>2, <1>10, GlyphStep
  <2>2. Console!ShowGlyph(c)
    BY <1>5, <1>6, <2>1 DEF Console!ShowGlyph, LineBar, DoneBar
  <2>3. c \in Glyphs \cup {SPACE}
    BY <1>2, <1>10 DEF Chars, Escape
  <2> QED BY <1>4, <2>1, <2>2, <2>3 DEF TextInv, Console!Next
<1> QED BY <1>7, <1>8, <1>9, <1>10 DEF Escape

\* Calls that print nothing: the console takes a string, changes its ink or
\* does nothing.
LEMMA QuietStep ==
    ASSUME TextInv, up' = up, mem' = mem, TUI_pos' = TUI_pos
    PROVE  /\ BlankBehind'
           /\ DoneBar' = DoneBar /\ LineBar' = LineBar /\ ShownBar' = ShownBar
<1>1. BlankBehind'
  BY DEF TextInv, BlankBehind, Index
<1> QED BY <1>1, BarsKept

LEMMA TextStep ==
    PlainCallers /\ TextInv /\ [Next]_vars => TextInv' /\ [Console!Next]_(Console!vars)
<1> SUFFICES ASSUME PlainCallers, TextInv, [Next]_vars
             PROVE  TextInv' /\ [Console!Next]_(Console!vars)
  OBVIOUS
<1>1. Inv'
  BY StepInv DEF TextInv
<1>2. \A s \in Seq(Chars) : s \in Console!Texts
  BY DEF Console!Texts, Chars
<1>3. CASE TUI_init
  <2> DEFINE white == make_col(COLOR_WHITE, COLOR_BLACK)
  <2>1. /\ ~up /\ up' /\ TUI_color' = white /\ mem' = Cleared(white)
        /\ TUI_pos' = make_pos(0, 0) /\ todo' = InitText
    BY <1>3 DEF TUI_init, SetPos
  <2>2. mem' \in [Page -> Cell] /\ TUI_color'.fore \in Color4
    BY <1>1 DEF Inv, TypeOK
  <2>3. \A i \in Page : mem'[i].c = SPACE
    BY <2>1 DEF Cleared, make_char
  <2>4. BlankBehind' /\ Console!Shows(<<>>, <<>>)
    BY <2>1, <2>2, <2>3, StartsBlank
  <2>5. TodoOK'
    BY <2>1 DEF PlainCallers, TodoOK
  <2>6. Console!SwitchOn
    BY <1>2, <2>1, <2>2, <2>4, CallerAssumption DEF Console!SwitchOn
  <2> QED BY <1>1, <2>4, <2>5, <2>6 DEF TextInv, Console!Next
<1>4. CASE TUI_clear
  <2>1. /\ up /\ up' /\ todo = <<>> /\ todo' = <<>> /\ mem' = Cleared(TUI_color)
        /\ TUI_pos' = make_pos(0, 0) /\ TUI_color' = TUI_color
    BY <1>4 DEF TUI_clear, Idle, SetPos
  <2>2. mem' \in [Page -> Cell]
    BY <1>1 DEF Inv, TypeOK
  <2>3. \A i \in Page : mem'[i].c = SPACE
    BY <2>1 DEF Cleared, make_char
  <2>4. BlankBehind' /\ Console!Shows(<<>>, <<>>)
    BY <2>1, <2>2, <2>3, StartsBlank
  <2>5. TodoOK'
    BY <2>1 DEF TodoOK
  <2>6. Console!Clear
    BY <2>1, <2>4 DEF Console!Clear, Console!Ready
  <2> QED BY <1>1, <2>4, <2>5, <2>6 DEF TextInv, Console!Next
<1>5. ASSUME NEW s \in Seq(Chars), up, todo = <<>>, todo' = s,
             UNCHANGED <<up, mem, TUI_pos, TUI_color>>, TodoOK'
      PROVE  TextInv' /\ [Console!Next]_(Console!vars)
  <2>1. /\ BlankBehind'
        /\ DoneBar' = DoneBar /\ LineBar' = LineBar /\ ShownBar' = ShownBar
    BY <1>5, QuietStep
  <2>2. Console!Take
    BY <1>2, <1>5, <2>1 DEF Console!Take, Console!Ready, DoneBar, LineBar, ShownBar
  <2> QED BY <1>1, <1>5, <2>1, <2>2 DEF TextInv, Console!Next
<1>6. ASSUME NEW c \in Chars, PutChar(c)
      PROVE  TextInv' /\ [Console!Next]_(Console!vars)
  <2>1. <<c>> \in Seq(Chars) /\ Len(<<c>>) = 1 /\ <<c>>[1] = c
    OBVIOUS
  <2>2. /\ up /\ todo = <<>> /\ todo' = <<c>> /\ CallerPuts(c)
        /\ UNCHANGED <<up, mem, TUI_pos, TUI_color>>
    BY <1>6 DEF PutChar, Idle
  <2>3. ASSUME c = TAB PROVE TabFits(TAB)'
    BY <2>2, <2>3 DEF PlainCallers, CallerPuts, TabFits
  <2>4. TodoOK'
    BY <2>1, <2>2, <2>3 DEF TodoOK
  <2> QED BY <1>5, <2>1, <2>2, <2>4
<1>7. ASSUME NEW s \in Strings, TUI_writeString(s)
      PROVE  TextInv' /\ [Console!Next]_(Console!vars)
  <2>1. /\ s \in Seq(Chars) /\ up /\ todo = <<>> /\ todo' = s
        /\ UNCHANGED <<up, mem, TUI_pos, TUI_color>>
        /\ \A i \in 1 .. Len(s) : s[i] # TAB
    BY <1>7, CallerAssumption DEF TUI_writeString, Idle, CallerWrites, PlainCallers
  <2>2. TodoOK'
    BY <2>1 DEF TodoOK
  <2> QED BY <1>5, <2>1, <2>2
<1>8. CASE TUI_writeBuf
  BY <1>1, <1>8, WriteBufStep
<1>9. ASSUME NEW color \in Colors, TUI_setColor(color)
      PROVE  TextInv' /\ [Console!Next]_(Console!vars)
  <2>1. /\ up /\ todo = <<>> /\ todo' = <<>> /\ TUI_color'.fore = color
        /\ color \in Color4
        /\ up' = up /\ mem' = mem /\ TUI_pos' = TUI_pos
    BY <1>9, CallerAssumption DEF TUI_setColor, Idle, make_col
  <2>2. /\ BlankBehind'
        /\ DoneBar' = DoneBar /\ LineBar' = LineBar /\ ShownBar' = ShownBar
    BY <2>1, QuietStep
  <2>3. TodoOK'
    BY <2>1 DEF TodoOK
  <2>4. Console!SetInk
    BY <2>1, <2>2 DEF Console!SetInk, Console!Ready, DoneBar, LineBar, ShownBar
  <2> QED BY <1>1, <2>2, <2>3, <2>4 DEF TextInv, Console!Next
<1>10. CASE UNCHANGED <<up, mem, TUI_pos, TUI_color, todo>>
  <2>1. /\ up' = up /\ mem' = mem /\ TUI_pos' = TUI_pos /\ TUI_color' = TUI_color
        /\ todo' = todo
    BY <1>10
  <2>2. /\ BlankBehind'
        /\ DoneBar' = DoneBar /\ LineBar' = LineBar /\ ShownBar' = ShownBar
    BY <2>1, QuietStep
  <2>3. TodoOK'
    BY <2>1 DEF TextInv, TodoOK, TabFits
  <2>4. UNCHANGED Console!vars
    BY <2>1, <2>2 DEF Console!vars, DoneBar, LineBar, ShownBar
  <2> QED BY <1>1, <2>2, <2>3, <2>4 DEF TextInv
<1>11. CASE TUI_getPos
  BY <1>10, <1>11 DEF TUI_getPos
<1>12. CASE UNCHANGED vars
  BY <1>10, <1>12 DEF vars
<1> QED BY <1>3, <1>4, <1>6, <1>7, <1>8, <1>9, <1>11, <1>12 DEF Next, PlainCallers

\* The driver is a console: whatever plain callers print, the screen shows
\* that text laid out, and nothing else, at every moment.
THEOREM DriverIsConsole == ASSUME PlainCallers PROVE Spec => ShowsText
<1>1. Init => TextInv /\ Console!Init
  BY TextInit
<1>2. TextInv /\ [Next]_vars => TextInv' /\ [Console!Next]_(Console!vars)
  BY TextStep
<1> QED BY <1>1, <1>2, PTL DEF Spec, ShowsText, Console!Spec

-----------------------------------------------------------------------------
(* Part 2: the output calls.                                               *)

-----------------------------------------------------------------------------
(* A set of natural numbers has a least one.                               *)

LEMMA NatOrder == IsWellFoundedOn({p \in Nat \X Nat : p[1] < p[2]}, Nat)
<1>1. OpToRel(<, Nat) = {p \in Nat \X Nat : p[1] < p[2]}
  BY DEF OpToRel
<1> QED BY <1>1, NatLessThanWellFounded

LEMMA LeastNat ==
    ASSUME NEW T, T \subseteq Nat, T # {}
    PROVE  \E x \in T : \A y \in T : x <= y
<1> DEFINE R == {p \in Nat \X Nat : p[1] < p[2]}
<1>1. PICK x \in T : \A y \in T : ~(<<y, x>> \in R)
  <2>1. IsWellFoundedOn(R, Nat)
    BY NatOrder
  <2> HIDE DEF R
  <2> QED BY WFMin, <2>1
<1>2. ASSUME NEW y \in T PROVE x <= y
  <2>1. x \in Nat /\ y \in Nat
    OBVIOUS
  <2>2. ~(y < x)
    <3> SUFFICES ASSUME y < x PROVE FALSE
      OBVIOUS
    <3>1. <<y, x>> \in Nat \X Nat /\ <<y, x>>[1] < <<y, x>>[2]
      BY <2>1
    <3> QED BY <1>1, <3>1
  <2> QED BY <2>1, <2>2, SMT
<1> QED BY <1>2

-----------------------------------------------------------------------------
(* The string in the buffer is what the caller is owed.                    *)

\* The output is cut at the first place where it can be.
LEMMA OwedBounds ==
    ASSUME NEW out \in Seq(Chars \cup {NUL})
    PROVE  /\ OwedLength(out) \in 0 .. Len(out)
           /\ CutAt(out, OwedLength(out))
           /\ \A k \in 0 .. OwedLength(out) - 1 : ~CutAt(out, k)
<1> DEFINE T == {n \in 0 .. Len(out) : CutAt(out, n)}
<1>1. Len(out) \in T
  BY DEF CutAt
<1>2. T \subseteq Nat /\ T # {}
  BY <1>1
<1>3. PICK n \in T : \A y \in T : n <= y
  <2> HIDE DEF T
  <2> QED BY <1>2, LeastNat
<1>4. n \in 0 .. Len(out) /\ CutAt(out, n)
  OBVIOUS
<1>5. ASSUME NEW k \in 0 .. n - 1 PROVE ~CutAt(out, k)
  <2>1. k \in 0 .. Len(out) /\ ~(n <= k)
    BY <1>4, SMT
  <2> QED BY <1>3, <2>1
<1>6. \E w \in 0 .. Len(out) :
         CutAt(out, w) /\ \A k \in 0 .. w - 1 : ~CutAt(out, k)
  BY <1>4, <1>5
<1> HIDE DEF T
<1> QED BY <1>6 DEF OwedLength

\* What is owed fits the buffer and holds no NUL.
LEMMA OwedFits ==
    ASSUME NEW out \in Seq(Chars \cup {NUL})
    PROVE  /\ OwedLength(out) \in Nat
           /\ OwedLength(out) <= Len(out)
           /\ OwedLength(out) < IO_BUF_SIZE
           /\ \A i \in 1 .. OwedLength(out) : out[i] \in Chars
<1> DEFINE w == OwedLength(out)
<1>1. w \in 0 .. Len(out) /\ \A k \in 0 .. w - 1 : ~CutAt(out, k)
  BY OwedBounds
<1> HIDE DEF w
<1>2. w \in Nat /\ w <= Len(out) /\ Len(out) \in Nat /\ IO_BUF_SIZE \in Nat \ {0}
  BY <1>1, BufferAssumption, SMT
<1>3. w < IO_BUF_SIZE
  <2> SUFFICES ASSUME ~(w < IO_BUF_SIZE) PROVE FALSE
    OBVIOUS
  <2>1. IO_BUF_SIZE - 1 \in 0 .. w - 1
    BY <1>2, SMT
  <2> QED BY <1>1, <2>1 DEF CutAt
<1>4. ASSUME NEW i \in 1 .. w PROVE out[i] \in Chars
  <2>1. i - 1 \in 0 .. w - 1 /\ (i - 1) + 1 = i /\ i \in 1 .. Len(out)
    BY <1>2, SMT
  <2>2. out[i] # NUL
    BY <1>1, <2>1 DEF CutAt
  <2> QED BY <2>1, <2>2
<1> QED BY <1>2, <1>3, <1>4 DEF w

LEMMA FormattedType ==
    ASSUME NEW out \in Seq(Chars \cup {NUL}), NEW b \in [Slots -> Chars \cup {NUL}]
    PROVE  Formatted(b, out) \in [Slots -> Chars \cup {NUL}]
<1> DEFINE end == IF Len(out) < IO_BUF_SIZE THEN Len(out) ELSE IO_BUF_SIZE - 1
<1>1. end <= Len(out) /\ end \in Int
  BY BufferAssumption, SMT
<1> HIDE DEF end
<1>2. ASSUME NEW i \in Slots, i < end PROVE out[i + 1] \in Chars \cup {NUL}
  <2>1. i + 1 \in 1 .. Len(out)
    BY <1>1, <1>2, SMT DEF Slots
  <2> QED BY <2>1
<1> QED BY <1>2 DEF Formatted, end

\* strlen finds the end of what is owed.
LEMMA FormattedLength ==
    ASSUME NEW out \in Seq(Chars \cup {NUL}), NEW b \in [Slots -> Chars \cup {NUL}]
    PROVE  /\ strlen(Formatted(b, out)) = OwedLength(out)
           /\ \A i \in 1 .. OwedLength(out) : Formatted(b, out)[i - 1] = out[i]
<1> DEFINE w == OwedLength(out)
           f == Formatted(b, out)
           end == IF Len(out) < IO_BUF_SIZE THEN Len(out) ELSE IO_BUF_SIZE - 1
<1>1. /\ w \in 0 .. Len(out) /\ CutAt(out, w) /\ w < IO_BUF_SIZE
      /\ \A i \in 1 .. w : out[i] \in Chars
  BY OwedBounds, OwedFits
<1>2. \A i \in Slots : f[i] = IF i < end THEN out[i + 1]
                              ELSE IF i = end THEN NUL ELSE b[i]
  BY DEF Formatted
<1>3. NUL \notin Chars /\ IO_BUF_SIZE \in Nat \ {0} /\ Len(out) \in Nat
  BY BufferAssumption
<1> HIDE DEF w, f
<1>4. w <= end /\ end \in Nat /\ end < IO_BUF_SIZE /\ w \in Slots
  BY <1>1, <1>3, SMT DEF Slots
<1>5. ASSUME NEW i \in 1 .. w PROVE i - 1 \in Slots /\ f[i - 1] = out[i]
  <2>1. i - 1 \in Slots /\ i - 1 < end /\ (i - 1) + 1 = i
    BY <1>3, <1>4, SMT DEF Slots
  <2> QED BY <1>2, <2>1
<1>6. ASSUME NEW i \in Slots, i < w PROVE f[i] # NUL
  <2>1. i + 1 \in 1 .. w /\ (i + 1) - 1 = i
    BY <1>4, <1>6, SMT DEF Slots
  <2>2. f[i] = out[i + 1]
    BY <1>5, <2>1
  <2> QED BY <1>1, <1>3, <2>1, <2>2
<1>7. f[w] = NUL
  <2>1. w = Len(out) => w = end
    BY <1>1, <1>3, SMT
  <2>2. w = IO_BUF_SIZE - 1 => w = end
    BY <1>1, <1>3, SMT
  <2>3. w = end \/ (w < end /\ out[w + 1] = NUL)
    BY <1>1, <1>4, <2>1, <2>2, SMT DEF CutAt
  <2> QED BY <1>2, <1>4, <2>3
<1>8. ASSUME NEW n \in 0 .. IO_BUF_SIZE,
             \A i \in Slots : i < n => f[i] # NUL,
             n < IO_BUF_SIZE => f[n] = NUL
      PROVE  n = w
  <2>1. ~(w < n)
    BY <1>4, <1>7, <1>8
  <2>2. ~(n < w)
    <3> SUFFICES ASSUME n < w PROVE FALSE
      OBVIOUS
    <3>1. n \in Slots /\ n < IO_BUF_SIZE
      BY <1>3, <1>4, SMT DEF Slots
    <3> QED BY <1>6, <1>8, <3>1
  <2> QED BY <1>4, <2>1, <2>2, SMT DEF Slots
<1>9. w \in 0 .. IO_BUF_SIZE
  BY <1>3, <1>4, SMT DEF Slots
<1>10. strlen(f) = w
  BY <1>6, <1>7, <1>8, <1>9 DEF strlen
<1> QED BY <1>5, <1>10 DEF w, f

\* The string that is printed.
LEMMA StringOwed ==
    ASSUME NEW out \in Seq(Chars \cup {NUL}), NEW b \in [Slots -> Chars \cup {NUL}]
    PROVE  /\ StringIn(Formatted(b, out)) = [i \in 1 .. OwedLength(out) |-> out[i]]
           /\ StringIn(Formatted(b, out)) \in Seq(Chars)
           /\ Len(StringIn(Formatted(b, out))) = OwedLength(out)
<1>1. StringIn(Formatted(b, out)) = [i \in 1 .. OwedLength(out) |-> out[i]]
  BY FormattedLength DEF StringIn
<1>2. OwedLength(out) \in Nat /\ \A i \in 1 .. OwedLength(out) : out[i] \in Chars
  BY OwedFits
<1> QED BY <1>1, <1>2
-----------------------------------------------------------------------------
(* The inductive invariant: the console's, and while a call is running its *)
(* saved colour is the one the callers chose.                              *)

Saved ==
    ~Free => /\ up
             /\ call.curr_color = chosen
             /\ call.kind = "printf" => TUI_color = make_col(chosen, COLOR_BLACK)

IoInv ==
    /\ Inv
    /\ IoTypeOK
    /\ CallerUndisturbed
    /\ Saved
    /\ PrintsWhatIsOwed

LEMMA IoInitInv == IoInit => IoInv
<1> SUFFICES ASSUME IoInit PROVE IoInv
  OBVIOUS
<1>1. Inv
  BY InitInv DEF IoInit
<1>2. IoTypeOK
  <2>1. Wiped \in [Slots -> Chars \cup {NUL}]
    BY DEF Wiped
  <2>2. NoCall \in [kind : Kinds \cup {"none"}, curr_color : Color4, ret : Nat]
    BY SMT DEF NoCall, Color4
  <2>3. COLOR_BLACK \in Color4 /\ <<>> \in Seq(Chars \X Color4)
    BY SMT DEF COLOR_BLACK, Color4
  <2> QED BY <2>1, <2>2, <2>3 DEF IoInit, IoTypeOK
<1>3. CallerUndisturbed /\ Saved
  BY DEF IoInit, Init, CallerUndisturbed, Saved, Free, NoCall
<1>4. PrintsWhatIsOwed
  BY DEF IoInit, Init, PrintsWhatIsOwed
<1> QED BY <1>1, <1>2, <1>3, <1>4 DEF IoInv

\* What is owed for characters handed over in one colour.
LEMMA OwedType ==
    ASSUME NEW n \in Nat, NEW s, \A i \in 1 .. n : s[i] \in Chars,
           NEW fore \in Color4
    PROVE  Owed(s, n, fore) \in Seq(Chars \X Color4)
  BY DEF Owed

LEMMA ColorKept ==
    ASSUME Inv, up
    PROVE  TUI_getColor(TUI_color) = TUI_color.fore
<1>1. TUI_color.back = 0 /\ TUI_color.fore \in Color4
  BY DEF Inv, TypeOK, NoBackground, COLOR_BLACK
<1> QED BY <1>1, OrWithZero DEF TUI_getColor

LEMMA KindColors ==
    ASSUME NEW kind \in Kinds, NEW fore \in Color4
    PROVE  /\ ColorOf(kind, make_col(fore, COLOR_BLACK))
                = make_col(ColorOf(kind, make_col(fore, COLOR_BLACK)).fore, COLOR_BLACK)
           /\ ColorOf(kind, make_col(fore, COLOR_BLACK)).fore \in Color4
           /\ kind = "printf" =>
                ColorOf(kind, make_col(fore, COLOR_BLACK)) = make_col(fore, COLOR_BLACK)
  BY SMT DEF ColorOf, Kinds, make_col, Color4, COLOR_BLACK, COLOR_CYAN,
             COLOR_YELLOW, COLOR_LIGHT_RED

LEMMA BlackColor ==
    ASSUME NEW fore \in Color4
    PROVE  /\ make_col(fore, COLOR_BLACK) \in [fore : Color4, back : Color4]
           /\ make_col(fore, COLOR_BLACK).back = COLOR_BLACK
           /\ make_col(fore, COLOR_BLACK).fore = fore
  BY SMT DEF make_col, COLOR_BLACK, Color4

\* The console's part is left alone but for the colour and what is handed over.
LEMMA Recolored ==
    ASSUME Inv, UNCHANGED <<up, mem, TUI_pos, crtc>>,
           NEW fore \in Color4, TUI_color' = make_col(fore, COLOR_BLACK),
           todo' \in Seq(Chars)
    PROVE  Inv'
<1>1. TUI_color' \in [fore : Color4, back : Color4] /\ TUI_color'.back = COLOR_BLACK
  BY BlackColor
<1> QED BY <1>1 DEF Inv, TypeOK, NoBackground, HwCursor, Index, COLOR_BLACK

LEMMA IoStepInv == IoInv /\ [IoNext]_ioVars => IoInv'
<1> SUFFICES ASSUME IoInv, [IoNext]_ioVars PROVE IoInv'
  OBVIOUS
<1>0. /\ Inv /\ IoTypeOK /\ CallerUndisturbed /\ Saved /\ PrintsWhatIsOwed
      /\ chosen \in Color4
  BY DEF IoInv, IoTypeOK
<1>1. CASE IO_init
  <2>1. Inv'
    BY <1>0, <1>1, StepInv DEF IO_init, Next
  <2>2. /\ Free /\ UNCHANGED <<buf, call>>
        /\ TUI_color' = make_col(COLOR_WHITE, COLOR_BLACK)
        /\ chosen' = COLOR_WHITE /\ todo' = InitText
        /\ owed' = Owed(InitText, Len(InitText), COLOR_WHITE)
    BY <1>0, <1>1 DEF IO_init, TUI_init, Saved
  <2>3. COLOR_WHITE \in Color4 /\ InitText \in Seq(Chars)
    BY CallerAssumption, SMT DEF COLOR_WHITE, Color4
  <2>4. owed' \in Seq(Chars \X Color4)
    BY <2>2, <2>3, OwedType
  <2>5. PrintsWhatIsOwed'
    BY <2>2, <2>3, BlackColor DEF PrintsWhatIsOwed, Owed
  <2> QED BY <1>0, <2>1, <2>2, <2>3, <2>4, <2>5
          DEF IoInv, IoTypeOK, CallerUndisturbed, Saved, Free
<1>2. ASSUME NEW c \in Chars, IO_put_char(c) PROVE IoInv'
  <2>1. Inv'
    BY <1>0, <1>2, StepInv DEF IO_put_char, Next
  <2>2. /\ Free /\ up /\ UNCHANGED <<up, TUI_color, buf, call, chosen>>
        /\ todo' = <<c>> /\ owed' = <<<<c, chosen>>>>
    BY <1>2 DEF IO_put_char, PutChar, Idle
  <2>3. TUI_color.fore = chosen
    BY <1>0, <2>2, BlackColor DEF CallerUndisturbed
  <2>4. PrintsWhatIsOwed'
    BY <2>2, <2>3 DEF PrintsWhatIsOwed
  <2>5. owed' \in Seq(Chars \X Color4)
    BY <1>0, <2>2
  <2> QED BY <1>0, <2>1, <2>2, <2>4, <2>5
          DEF IoInv, IoTypeOK, CallerUndisturbed, Saved, Free
<1>3. ASSUME NEW color \in Colors, IO_set_color(color) PROVE IoInv'
  <2>1. Inv'
    BY <1>0, <1>3, StepInv DEF IO_set_color, Next
  <2>2. /\ Free /\ up /\ todo = <<>> /\ UNCHANGED <<up, todo, buf, call, owed>>
        /\ TUI_color' = make_col(color, COLOR_BLACK) /\ chosen' = color
    BY <1>3 DEF IO_set_color, TUI_setColor, Idle
  <2>3. color \in Color4
    BY CallerAssumption
  <2>4. PrintsWhatIsOwed'
    BY <1>0, <2>2 DEF PrintsWhatIsOwed
  <2> QED BY <1>0, <2>1, <2>2, <2>3, <2>4
          DEF IoInv, IoTypeOK, CallerUndisturbed, Saved, Free
<1>4. ASSUME NEW s \in Strings, IO_write_string(s) PROVE IoInv'
  <2>1. Inv'
    BY <1>0, <1>4, StepInv DEF IO_write_string, Next
  <2>2. /\ Free /\ up /\ UNCHANGED <<up, TUI_color, buf, call, chosen>>
        /\ todo' = s /\ owed' = Owed(s, Len(s), chosen) /\ s \in Seq(Chars)
    BY <1>4, CallerAssumption DEF IO_write_string, TUI_writeString, Idle
  <2>3. TUI_color.fore = chosen
    BY <1>0, <2>2, BlackColor DEF CallerUndisturbed
  <2>4. PrintsWhatIsOwed'
    BY <2>2, <2>3 DEF PrintsWhatIsOwed, Owed
  <2>5. owed' \in Seq(Chars \X Color4)
    BY <1>0, <2>2, OwedType
  <2> QED BY <1>0, <2>1, <2>2, <2>4, <2>5
          DEF IoInv, IoTypeOK, CallerUndisturbed, Saved, Free
<1>5. ASSUME NEW kind \in Kinds, NEW out \in Outputs, PrintMessage(kind, out)
      PROVE  IoInv'
  <2> DEFINE fore == ColorOf(kind, make_col(chosen, COLOR_BLACK)).fore
             n == OwedLength(out)
             called == [kind |-> kind, curr_color |-> chosen, ret |-> Len(out)]
  <2>1. /\ Free /\ up /\ UNCHANGED <<up, mem, TUI_pos, crtc, chosen>>
        /\ TUI_color' = ColorOf(kind, TUI_color)
        /\ buf' = Formatted(buf, out) /\ todo' = StringIn(Formatted(buf, out))
        /\ owed' = Owed(out, n, fore)
        /\ call' = [kind |-> kind, curr_color |-> TUI_getColor(TUI_color),
                    ret |-> Len(out)]
    BY <1>5 DEF PrintMessage, Idle
  <2>2. TUI_color = make_col(chosen, COLOR_BLACK) /\ TUI_color.fore = chosen
    BY <1>0, <2>1, BlackColor DEF CallerUndisturbed
  <2>3. call' = called
    BY <1>0, <2>1, <2>2, ColorKept
  <2>4. /\ TUI_color' = make_col(fore, COLOR_BLACK) /\ fore \in Color4
        /\ kind = "printf" => TUI_color' = make_col(chosen, COLOR_BLACK)
    BY <1>0, <2>1, <2>2, KindColors
  <2>5. out \in Seq(Chars \cup {NUL}) /\ buf \in [Slots -> Chars \cup {NUL}]
    BY <1>0, BufferAssumption DEF IoTypeOK
  <2>6. /\ todo' = [i \in 1 .. n |-> out[i]] /\ todo' \in Seq(Chars) /\ Len(todo') = n
        /\ n \in Nat /\ \A i \in 1 .. n : out[i] \in Chars
        /\ buf' \in [Slots -> Chars \cup {NUL}]
    BY <2>1, <2>5, StringOwed, OwedFits, FormattedType
  <2> HIDE DEF n, fore
  <2>7. Inv'
    BY <1>0, <2>1, <2>4, <2>6, Recolored
  <2>8. owed' \in Seq(Chars \X Color4)
    BY <2>1, <2>4, <2>6, OwedType
  <2>9. PrintsWhatIsOwed'
    <3>1. TUI_color'.fore = fore
      BY <2>4, BlackColor
    <3> QED BY <2>1, <2>6, <3>1 DEF PrintsWhatIsOwed, Owed
  <2>10. call' \in [kind : Kinds \cup {"none"}, curr_color : Color4, ret : Nat]
    BY <1>0, <2>3, <2>5
  <2>11. call'.kind # "none" /\ call'.kind = kind /\ call'.curr_color = chosen
    BY <2>3 DEF Kinds
  <2> HIDE DEF called
  <2>12. IoTypeOK'
    BY <1>0, <2>1, <2>6, <2>8, <2>10 DEF IoTypeOK
  <2>13. CallerUndisturbed' /\ Saved'
    BY <2>1, <2>4, <2>11 DEF CallerUndisturbed, Saved, Free
  <2> QED BY <2>7, <2>9, <2>12, <2>13 DEF IoInv
<1>6. CASE PrintNext
  <2>1. Inv'
    BY <1>0, <1>6, StepInv DEF PrintNext, Next
  <2>2. /\ up /\ todo # <<>> /\ todo' = Tail(todo) /\ owed' = Tail(owed)
        /\ UNCHANGED <<up, TUI_color, buf, call, chosen>>
    BY <1>6 DEF PrintNext, TUI_writeBuf
  <2>3. /\ todo \in Seq(Chars) /\ owed \in Seq(Chars \X Color4)
        /\ owed = [i \in 1 .. Len(todo) |-> <<todo[i], TUI_color.fore>>]
    BY <1>0 DEF Inv, TypeOK, IoTypeOK, PrintsWhatIsOwed
  <2>4. Len(todo) \in Nat /\ Len(todo) # 0 /\ Len(owed) = Len(todo)
    BY <2>2, <2>3
  <2>5. owed' \in Seq(Chars \X Color4) /\ Len(owed') = Len(todo) - 1
    BY <2>2, <2>3, <2>4
  <2>6. ASSUME NEW i \in 1 .. Len(todo) - 1
        PROVE  owed'[i] = <<todo'[i], TUI_color.fore>>
    <3>1. owed'[i] = owed[i + 1] /\ todo'[i] = todo[i + 1] /\ i + 1 \in 1 .. Len(todo)
      BY <2>2, <2>3, <2>4
    <3> QED BY <2>3, <3>1
  <2>7. todo' \in Seq(Chars) /\ Len(todo') = Len(todo) - 1
    BY <2>2, <2>3, <2>4
  <2>8. PrintsWhatIsOwed'
    <3>1. owed' = [i \in 1 .. Len(todo) - 1 |-> owed'[i]]
      BY <2>5
    <3>2. owed' = [i \in 1 .. Len(todo') |-> <<todo'[i], TUI_color'.fore>>]
      BY <2>2, <2>6, <2>7, <3>1
    <3> QED BY <3>2 DEF PrintsWhatIsOwed
  <2> QED BY <1>0, <2>1, <2>2, <2>5, <2>8
          DEF IoInv, IoTypeOK, CallerUndisturbed, Saved, Free
<1>7. CASE Return
  <2>1. /\ ~Free /\ todo = <<>> /\ buf' = Wiped /\ call' = NoCall
        /\ UNCHANGED <<up, mem, TUI_pos, crtc, todo, chosen, owed>>
        /\ TUI_color' = IF call.kind = "printf" THEN TUI_color
                        ELSE make_col(call.curr_color, COLOR_BLACK)
    BY <1>7 DEF Return
  <2>2. up /\ TUI_color' = make_col(chosen, COLOR_BLACK)
    BY <1>0, <2>1 DEF Saved
  <2>3. Inv'
    <3>1. todo' \in Seq(Chars)
      BY <2>1
    <3> QED BY <1>0, <2>1, <2>2, <3>1, Recolored
  <2>4. PrintsWhatIsOwed'
    BY <1>0, <2>1 DEF PrintsWhatIsOwed
  <2>5. /\ Wiped \in [Slots -> Chars \cup {NUL}]
        /\ NoCall \in [kind : Kinds \cup {"none"}, curr_color : Color4, ret : Nat]
    BY SMT DEF Wiped, NoCall, Color4
  <2> QED BY <1>0, <2>1, <2>2, <2>3, <2>4, <2>5
          DEF IoInv, IoTypeOK, CallerUndisturbed, Saved, Free, NoCall
<1>8. CASE UNCHANGED ioVars
  <2>1. UNCHANGED <<vars, buf, call, chosen, owed>>
    BY <1>8 DEF ioVars
  <2>2. Inv'
    BY <1>0, <2>1, StepInv
  <2> QED BY <1>0, <2>1, <2>2
          DEF vars, IoInv, IoTypeOK, CallerUndisturbed, Saved, Free, PrintsWhatIsOwed,
              Wiped
<1> QED BY <1>1, <1>2, <1>3, <1>4, <1>5, <1>6, <1>7, <1>8 DEF IoNext

LEMMA IoInvariance == IoSpec => []IoInv
  BY IoInitInv, IoStepInv, PTL DEF IoSpec

-----------------------------------------------------------------------------
(* The theorems.                                                           *)

\* The buffer, the running call and what is owed keep their types.
THEOREM IoTypeCorrect == IoSpec => []IoTypeOK
  BY IoInvariance, PTL DEF IoInv

\* printf, info, warn and err print the whole of their output, cut only by
\* the end of the buffer or a NUL, in one colour, and nothing of a message
\* before: strlen finds the terminator _vsnprintf stored, for every output.
THEOREM MessagesPrintWhatIsOwed == IoSpec => []PrintsWhatIsOwed
  BY IoInvariance, PTL DEF IoInv

\* Whatever messages were printed, a caller finds its colour and a clean buffer.
THEOREM CallersUndisturbed == IoSpec => []CallerUndisturbed
  BY IoInvariance, PTL DEF IoInv

\* The cursor registers and the console's types survive the colour changes and
\* the strings of io.c, which the theorems about Spec do not speak of.
THEOREM CursorInStepForIo == IoSpec => [](TypeOK /\ HwCursor)
<1>1. IoInv => TypeOK /\ HwCursor
  BY DEF IoInv, Inv
<1> QED BY <1>1, IoInvariance, PTL
=============================================================================
