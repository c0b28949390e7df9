--------------------------------- MODULE Io ---------------------------------
(***************************************************************************)
(* The kernel's output calls, src/src/kernel/io.c, on top of the console    *)
(* driver: printf and its coloured variants info, warn and err format into  *)
(* the one global buffer buf, print it as a string and wipe it; the         *)
(* coloured ones change the console's colour for that time.                 *)
(*                                                                         *)
(* What _vsnprintf computes from a format and its arguments is an input     *)
(* here: any member of Outputs, the complete output, which may be longer    *)
(* than the buffer and may contain a NUL (from %c).                         *)
(***************************************************************************)
EXTENDS Tui

CONSTANTS IO_BUF_SIZE,      \* 512
          NUL,              \* the terminator
          Outputs           \* the complete outputs of the formats printed

ASSUME BufferAssumption ==
    /\ IO_BUF_SIZE \in Nat \ {0}
    /\ NUL \notin Chars
    /\ Outputs \subseteq Seq(Chars \cup {NUL})

COLOR_CYAN == 3
COLOR_LIGHT_RED == 12
COLOR_YELLOW == 14

Kinds == {"printf", "info", "warn", "err"}

VARIABLES
    buf,        \* the buffer
    call,       \* the running call: its kind, curr_color and its result
    chosen,     \* the colour the callers last asked for
    owed        \* glyphs and colours the callers have yet to see

ioVars == <<vars, buf, call, chosen, owed>>

Slots == 0 .. IO_BUF_SIZE - 1
NoCall == [kind |-> "none", curr_color |-> 0, ret |-> 0]
Free == call.kind = "none"

\* The colour of a kind of message: printf keeps the current one.
ColorOf(kind, color) ==
    CASE kind = "printf" -> color
      [] kind = "info"   -> make_col(COLOR_CYAN, COLOR_BLACK)
      [] kind = "warn"   -> make_col(COLOR_YELLOW, COLOR_BLACK)
      [] kind = "err"    -> make_col(COLOR_LIGHT_RED, COLOR_BLACK)

-----------------------------------------------------------------------------
(* Strings in the buffer.                                                  *)

\* Defect: an output that is too long fills the buffer unterminated.
FormattedUnterminated(b, out) ==
    [i \in Slots |-> IF i < Len(out) THEN out[i + 1]
                     ELSE IF i = Len(out) THEN NUL ELSE b[i]]

\* _vsnprintf: what fits is stored, and the terminator behind it, or in the
\* last byte if the output is too long.
Formatted(b, out) ==
    LET end == IF Len(out) < IO_BUF_SIZE THEN Len(out) ELSE IO_BUF_SIZE - 1
    IN  [i \in Slots |-> IF i < end THEN out[i + 1]
                         ELSE IF i = end THEN NUL ELSE b[i]]

\* strlen: bytes before the first NUL.
strlen(b) ==
    CHOOSE n \in 0 .. IO_BUF_SIZE :
        /\ \A i \in Slots : i < n => b[i] # NUL
        /\ n < IO_BUF_SIZE => b[n] = NUL

StringIn(b) == [i \in 1 .. strlen(b) |-> b[i - 1]]

\* Defect: one byte too many.
WipedBeyond == [i \in Slots \cup {IO_BUF_SIZE} |-> NUL]

Wiped == [i \in Slots |-> NUL]

-----------------------------------------------------------------------------

\* What the caller of a print is owed: the output up to the first NUL in it,
\* and of that what fits the buffer, all in one colour.
CutAt(out, n) == n = Len(out) \/ n = IO_BUF_SIZE - 1 \/ out[n + 1] = NUL
OwedLength(out) ==
    CHOOSE n \in 0 .. Len(out) :
        CutAt(out, n) /\ \A k \in 0 .. n - 1 : ~CutAt(out, k)
Owed(s, n, fore) == [i \in 1 .. n |-> <<s[i], fore>>]

IO_init ==
    /\ TUI_init
    /\ chosen' = COLOR_WHITE
    /\ owed' = Owed(InitText, Len(InitText), COLOR_WHITE)
    /\ UNCHANGED <<buf, call>>

IO_put_char(c) ==
    /\ Free
    /\ PutChar(c)
    /\ owed' = <<<<c, chosen>>>>
    /\ UNCHANGED <<buf, call, chosen>>

IO_set_color(color) ==
    /\ Free
    /\ TUI_setColor(color)
    /\ chosen' = color
    /\ UNCHANGED <<buf, call, owed>>

IO_write_string(s) ==
    /\ Free
    /\ TUI_writeString(s)
    /\ owed' = Owed(s, Len(s), chosen)
    /\ UNCHANGED <<buf, call, chosen>>

\* printf, info, warn or err up to the loop that prints the buffer: the
\* colour is saved and set, the output formatted, its length returned later.
PrintMessage(kind, out) ==
    /\ Free
    /\ Idle
    /\ TUI_color' = ColorOf(kind, TUI_color)
    /\ buf' = Formatted(buf, out)
    /\ todo' = StringIn(buf')
    /\ call' = [kind |-> kind,
                curr_color |-> TUI_getColor(TUI_color),
                ret |-> Len(out)]
    /\ owed' = Owed(out, OwedLength(out),
                    ColorOf(kind, make_col(chosen, COLOR_BLACK)).fore)
    /\ UNCHANGED <<up, mem, TUI_pos, crtc, chosen>>

\* One character of the string being printed.
PrintNext ==
    /\ TUI_writeBuf
    /\ owed' = Tail(owed)
    /\ UNCHANGED <<buf, call, chosen>>

\* Defect: warn leaves its colour behind.
ReturnColored ==
    /\ ~Free
    /\ todo = <<>>
    /\ buf' = Wiped
    /\ call' = NoCall
    /\ TUI_color' = IF call.kind \in {"printf", "warn"} THEN TUI_color
                    ELSE make_col(call.curr_color, COLOR_BLACK)
    /\ UNCHANGED <<up, mem, TUI_pos, crtc, todo, chosen, owed>>

\* The rest of the call: the buffer is wiped, the colour restored.
Return ==
    /\ ~Free
    /\ todo = <<>>
    /\ buf' = Wiped
    /\ call' = NoCall
    /\ TUI_color' = IF call.kind = "printf" THEN TUI_color
                    ELSE make_col(call.curr_color, COLOR_BLACK)
    /\ UNCHANGED <<up, mem, TUI_pos, crtc, todo, chosen, owed>>

IoInit ==
    /\ Init
    /\ buf = Wiped
    /\ call = NoCall
    /\ chosen = COLOR_BLACK
    /\ owed = <<>>

IoNext ==
    \/ IO_init
    \/ \E c \in Chars : IO_put_char(c)
    \/ \E color \in Colors : IO_set_color(color)
    \/ \E s \in Strings : IO_write_string(s)
    \/ \E kind \in Kinds, out \in Outputs : PrintMessage(kind, out)
    \/ PrintNext
    \/ Return

IoSpec == IoInit /\ [][IoNext]_ioVars

-----------------------------------------------------------------------------
(* What must hold of it.                                                   *)

\* Every variable of the calls has its type.
IoTypeOK ==
    /\ buf \in [Slots -> Chars \cup {NUL}]
    /\ call \in [kind : Kinds \cup {"none"}, curr_color : Color4, ret : Nat]
    /\ chosen \in Color4
    /\ owed \in Seq(Chars \X Color4)

\* At any time the characters still to be printed, in the colour the console
\* has then, are those the caller is owed: a message is cut only by the end
\* of the buffer or a NUL of its own, shows nothing of an earlier and longer
\* one, and changes its colour at no character.
PrintsWhatIsOwed ==
    owed = [i \in 1 .. Len(todo) |-> <<todo[i], TUI_color.fore>>]

\* Whatever coloured messages were printed, a caller finds the colour it
\* chose itself, and the buffer clean for the next message.
CallerUndisturbed ==
    Free => /\ up => TUI_color = make_col(chosen, COLOR_BLACK)
            /\ buf = Wiped
=============================================================================
