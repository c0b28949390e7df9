------------------------------ MODULE Terminal ------------------------------
(***************************************************************************)
(* What a text console promises to whoever prints on it.  The console      *)
(* takes a string at a time and shows its characters in order.  It         *)
(* remembers the last finished lines and the line being written: a glyph   *)
(* is appended to that line in the current ink, a line that is full or     *)
(* ended is padded with blanks and kept, and at most Height - 1 finished   *)
(* lines are kept.  At all times the screen shows this text and nothing    *)
(* else.                                                                   *)
(*                                                                         *)
(* There is no video memory, no cursor register and no scrolling here:     *)
(* module Tui has them, and is shown to implement this specification.      *)
(***************************************************************************)
EXTENDS Integers, Sequences

CONSTANTS Width,            \* cells in a line
          Height,           \* lines on the screen
          Newline, Tab, Backspace,
          Space,            \* leaves a blank
          Glyphs,           \* leave themselves
          Inks,             \* the colours
          Black,            \* the ink of a console that is off
          Leftovers         \* what a cell can show before it is switched on

VARIABLES on,       \* the console has been switched on
          input,    \* characters taken and not yet shown
          ink,      \* the current colour
          done,     \* the finished lines still on the screen, oldest first
          line,     \* the line being written
          shown     \* the screen: a cell for every index row * Width + column

vars == <<on, input, ink, done, line, shown>>

Screen == 0 .. Width * Height - 1

Texts == Seq(Glyphs \cup {Space, Newline, Tab, Backspace})

Blank == <<>>
InInk(ch) == IF ch = Space THEN Blank ELSE <<ch, ink>>

Pad(l) == l \o [i \in 1 .. Width - Len(l) |-> Blank]

\* The text laid out on the screen, top line first.
Render(d, l) ==
    [i \in Screen |->
        LET r == (i \div Width) + 1
            c == (i % Width) + 1
        IN  IF r <= Len(d) THEN d[r][c]
            ELSE IF r = Len(d) + 1 /\ c <= Len(l) THEN l[c]
            ELSE Blank]

\* The last Height - 1 lines of d: the others have left the screen.
Kept(d) == IF Len(d) < Height THEN d ELSE Tail(d)

TabStop(col) == 4 * ((col \div 4) + 1)

-----------------------------------------------------------------------------

Shows(d, l) == done' = d /\ line' = l /\ shown' = Render(d, l)

EndLine(l) == Shows(Kept(Append(done, Pad(l))), <<>>)

Init ==
    /\ on = FALSE
    /\ input = <<>>
    /\ ink = Black
    /\ done = <<>>
    /\ line = <<>>
    /\ shown \in [Screen -> Leftovers]

SwitchOn ==
    /\ ~on
    /\ on' = TRUE
    /\ input' \in Texts
    /\ ink' \in Inks
    /\ Shows(<<>>, <<>>)

Ready == on /\ input = <<>>

Take == Ready /\ input' \in Texts /\ UNCHANGED <<on, ink, done, line, shown>>

Clear == Ready /\ Shows(<<>>, <<>>) /\ UNCHANGED <<on, input, ink>>

SetInk == Ready /\ ink' \in Inks /\ UNCHANGED <<on, input, done, line, shown>>

\* The next character of the input is ch.
Pending(ch) == on /\ input # <<>> /\ Head(input) = ch
Consumed == input' = Tail(input) /\ UNCHANGED <<on, ink>>

ShowGlyph(ch) ==
    LET l == Append(line, InInk(ch))
    IN  /\ Pending(ch)
        /\ IF Len(l) = Width THEN EndLine(l) ELSE Shows(done, l)
        /\ Consumed

ShowNewline == Pending(Newline) /\ EndLine(line) /\ Consumed

\* A tab stop beyond the end of the line is not part of the promise.
ShowTab ==
    LET stop == TabStop(Len(line))
    IN  /\ Pending(Tab)
        /\ stop < Width
        /\ Shows(done, SubSeq(Pad(line), 1, stop))
        /\ Consumed

\* A backspace erases inside its line only.
ShowBackspace ==
    /\ Pending(Backspace)
    /\ Shows(done, IF line = <<>> THEN line ELSE SubSeq(line, 1, Len(line) - 1))
    /\ Consumed

Next ==
    \/ SwitchOn
    \/ Take
    \/ Clear
    \/ SetInk
    \/ \E ch \in Glyphs \cup {Space} : ShowGlyph(ch)
    \/ ShowNewline
    \/ ShowTab
    \/ ShowBackspace

Spec == Init /\ [][Next]_vars
=============================================================================
