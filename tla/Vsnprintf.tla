------------------------------ MODULE Vsnprintf ------------------------------
(***************************************************************************)
(* The formatter, src/src/libc/src/stdio/vsprintf.c as the kernel builds   *)
(* it: x86_64, no floating point.                                          *)
(*                                                                         *)
(* A run is one call.  Its format is scanned as the code scans it: a step  *)
(* per ordinary character, per flag, and per field of a directive.  The    *)
(* formats are the renderings of lists of items, a literal character or a  *)
(* directive with its arguments, and what an item must print is defined    *)
(* here on its own (Meaning), not through the scanner.                     *)
(***************************************************************************)
EXTENDS Integers, Sequences, SequencesExt

CONSTANTS
    Jobs,           \* the calls: [entry, null, count, items]
    MemorySize,     \* bytes of memory modelled from the buffer on
    BufferSize,     \* PRINTF_NTOA_BUFFER_SIZE: 32
    SIZE_T,         \* 2^32
    CharBits, ShortBits, IntBits, LongBits,     \* 8, 16, 32, 64
    PointerDigits   \* sizeof(void *) * 2: 16

ASSUME SizeAssumption ==
    /\ MemorySize \in Nat
    /\ BufferSize \in Nat \ {0}
    /\ SIZE_T \in Nat /\ SIZE_T >= 100
    /\ {CharBits, ShortBits, IntBits, LongBits} \subseteq Nat \ {0}
    /\ PointerDigits \in 0 .. SIZE_T - 1

NUL == "nul"
FlagChars == {"0", "-", "+", " ", "#"}
Digit == <<"0", "1", "2", "3", "4", "5", "6", "7", "8", "9",
           "a", "b", "c", "d", "e", "f">>
Upper == <<"0", "1", "2", "3", "4", "5", "6", "7", "8", "9",
           "A", "B", "C", "D", "E", "F">>
Decimals == {Digit[d] : d \in 1 .. 10}
ValueOf(ch) == CHOOSE d \in 0 .. 9 : Digit[d + 1] = ch

Least(m, n) == IF m < n THEN m ELSE n
Most(m, n) == IF m > n THEN m ELSE n

\* Defect: a negative number stays so.
MagnitudeKept(v) == v

\* A value without its sign.
Magnitude(v) == IF v < 0 THEN -v ELSE v

\* base to the n.
Power(base, n) ==
    LET power[k \in 0 .. n] == IF k = 0 THEN 1 ELSE base * power[k - 1]
    IN  power[n]

Repeat(ch, n) == [i \in 1 .. Most(n, 0) |-> ch]

VARIABLES
    job,        \* the call
    format,     \* its text
    pc,         \* what is scanned next
    pos,        \* format, an index into the text
    va,         \* the arguments not yet taken
    flags, width, precision,
    idx,        \* where the next character goes
    memory,     \* the bytes from the buffer on
    full        \* all characters put out, stored or not

vars == <<job, format, pc, pos, va, flags, width, precision, idx, memory, full>>

-----------------------------------------------------------------------------
(* A job's format and arguments.                                           *)

\* An item: a literal character, or a directive with a value.  Width and
\* precision are <<>>, a number in the format, <<"n", k>>, or an argument,
\* <<"*", k>>.
Numeral(k) == IF k < 10 THEN <<Digit[k + 1]>>
              ELSE <<Digit[k \div 10 + 1], Digit[(k % 10) + 1]>>
FieldText(f) == IF f = <<>> THEN <<>>
                ELSE IF f[1] = "*" THEN <<"*">> ELSE Numeral(f[2])
FieldArgs(f) == IF f # <<>> /\ f[1] = "*" THEN <<f[2]>> ELSE <<>>

TextOf(item) ==
    IF item.spec = "literal" THEN <<item.arg>>
    ELSE <<"%">> \o item.flags \o FieldText(item.width)
         \o (IF item.prec = <<>> THEN <<>> ELSE <<".">> \o FieldText(item.prec))
         \o item.length \o <<item.spec>>

ArgsOf(item) ==
    IF item.spec = "literal" THEN <<>>
    ELSE FieldArgs(item.width) \o FieldArgs(item.prec)
         \o (IF item.spec = "%" THEN <<>> ELSE <<item.arg>>)

Each(op(_), items) == [i \in 1 .. Len(items) |-> op(items[i])]
Written(j) == FlattenSeq(Each(TextOf, j.items))
Passed(j) == FlattenSeq(Each(ArgsOf, j.items))

\* sprintf_ formats a string of its own.
TestFormat == <<"T", "E", "S", "T", ":", "%", "d", "lf">>
Format(j) == IF j.entry = "sprintf_" THEN TestFormat ELSE Written(j)
MaxLen(j) == IF j.entry = "sprintf_" THEN SIZE_T - 1 ELSE j.count

maxlen == MaxLen(job)
Ch(p) == IF p <= Len(format) THEN format[p] ELSE NUL

-----------------------------------------------------------------------------
(* Output: _out_buffer, or _out_null for a NULL buffer.                    *)

\* Where the k-th character of a text goes: idx is a size_t and wraps.
Place(k) == (idx + k - 1) % SIZE_T

\* Defect: one byte too many.
StoredBeyond(s) ==
    [i \in DOMAIN memory |->
        LET here == {k \in 1 .. Len(s) : Place(k) = i}
        IN  IF here # {} /\ i <= maxlen /\ ~job.null THEN s[Max(here)] ELSE memory[i]]

Stored(s) ==
    [i \in DOMAIN memory |->
        LET here == {k \in 1 .. Len(s) : Place(k) = i}
        IN  IF here # {} /\ i < maxlen /\ ~job.null THEN s[Max(here)] ELSE memory[i]]

Out(s) ==
    /\ memory' = Stored(s)
    /\ idx' = (idx + Len(s)) % SIZE_T
    /\ full' = full \o s

-----------------------------------------------------------------------------
(* Numbers, _ntoa_long and _ntoa_long_long down: the digits are collected   *)
(* in a buffer of BufferSize characters, least significant first.           *)

\* What is left of v when k digits are taken.
Quotient(v, base, k) ==
    LET left[i \in 0 .. k] == IF i = 0 THEN v ELSE left[i - 1] \div base
    IN  left[k]

DigitCount(v, base) ==
    CHOOSE n \in 1 .. BufferSize :
        /\ Quotient(v, base, n) = 0 \/ n = BufferSize
        /\ \A k \in 1 .. n - 1 : Quotient(v, base, k) # 0

Digits(v, base, fl) ==
    IF "precision" \in fl /\ v = 0 THEN <<>>
    ELSE [i \in 1 .. DigitCount(v, base) |->
            (IF "upper" \in fl THEN Upper ELSE Digit)
                [(Quotient(v, base, i - 1) % base) + 1]]

\* Zeros up to n characters, as far as the buffer goes.
ZerosTo(b, n) == b \o Repeat("0", Least(n, BufferSize) - Len(b))

\* One more character, if the buffer has room.
Add(b, ch) == IF Len(b) < BufferSize THEN Append(b, ch) ELSE b

\* Defect: no room is left for the sign.
ZeroWidthUnsigned(negative, w, fl) == w

\* The width left for zeros when a sign will follow them.
ZeroWidth(negative, w, fl) ==
    IF w > 0 /\ "-" \notin fl /\ "0" \in fl
             /\ (negative \/ fl \cap {"+", " "} # {})
    THEN w - 1 ELSE w

\* "pad leading zeros"
Padded(b, prec, w, fl) ==
    IF "-" \in fl THEN b
    ELSE IF "0" \in fl THEN ZerosTo(ZerosTo(b, prec), w)
    ELSE ZerosTo(b, prec)

\* "handle hash": it takes the place of zeros that were padded for it.
Hashed(b, base, prec, w, fl) ==
    LET n == Len(b)
        filled == "precision" \notin fl /\ n > 0 /\ (n = prec \/ n = w)
        cut == IF ~filled THEN 0 ELSE IF n > 1 /\ base = 16 THEN 2 ELSE 1
        room == SubSeq(b, 1, n - cut)
        letter == IF base = 16 THEN Add(room, IF "upper" \in fl THEN "X" ELSE "x")
                  ELSE IF base = 2 THEN Add(room, "b") ELSE room
    IN  IF "#" \in fl THEN Add(letter, "0") ELSE b

Signed(b, negative, fl) ==
    IF negative THEN Add(b, "-")
    ELSE IF "+" \in fl THEN Add(b, "+")
    ELSE IF " " \in fl THEN Add(b, " ")
    ELSE b

\* _out_rev: the buffer backwards, with spaces up to the width.
Justified(b, w, fl) ==
    LET spaces == Repeat(" ", w - Len(b))
    IN  IF "-" \in fl THEN Reverse(b) \o spaces
        ELSE IF "0" \in fl THEN Reverse(b)
        ELSE spaces \o Reverse(b)

Number(v, negative, base, prec, w, fl0) ==
    LET fl == IF v = 0 THEN fl0 \ {"#"} ELSE fl0
        ww == ZeroWidth(negative, w, fl)
        b == Padded(Digits(v, base, fl), prec, ww, fl)
    IN  Justified(Signed(Hashed(b, base, prec, ww, fl), negative, fl), ww, fl)

-----------------------------------------------------------------------------
(* The directives.                                                         *)

Bits(fl) == IF fl \cap {"long", "long_long"} # {} THEN LongBits
            ELSE IF "char" \in fl THEN CharBits
            ELSE IF "short" \in fl THEN ShortBits ELSE IntBits

AsUnsigned(v, bits) == v % Power(2, bits)
AsSigned(v, bits) == LET u == v % Power(2, bits)
                     IN  IF u < Power(2, bits - 1) THEN u ELSE u - Power(2, bits)

IntegerSpecs == {"d", "i", "u", "x", "X", "o", "b"}
Base(spec) == CASE spec \in {"x", "X"} -> 16
                [] spec = "o" -> 8
                [] spec = "b" -> 2
                [] OTHER -> 10

IntegerFlags(spec, fl) ==
    (fl \cup (IF spec = "X" THEN {"upper"} ELSE {}))
    \ ((IF Base(spec) = 10 THEN {"#"} ELSE {})
       \cup (IF spec \notin {"i", "d"} THEN {"+", " "} ELSE {})
       \cup (IF "precision" \in fl THEN {"0"} ELSE {}))

Integer(spec, arg) ==
    LET fl == IntegerFlags(spec, flags)
        v == IF spec \in {"i", "d"} THEN AsSigned(arg, Bits(fl))
             ELSE AsUnsigned(arg, Bits(fl))
    IN  Number(Magnitude(v), v < 0, Base(spec), precision, width, fl)

Pointer(arg) ==
    Number(AsUnsigned(arg, LongBits), FALSE, 16, precision, PointerDigits,
           flags \cup {"0", "upper"})

\* Text of length n in a field of the given width.
InField(s, n) ==
    LET spaces == Repeat(" ", width - n)
    IN  IF "-" \in flags THEN s \o spaces ELSE spaces \o s

String(arg) ==
    LET s == IF "precision" \in flags
             THEN SubSeq(arg, 1, Least(Len(arg), precision)) ELSE arg
    IN  InField(s, Len(s))

-----------------------------------------------------------------------------
(* The scanner, _vsnprintf.                                                *)

\* The digits from p on, and the number they make.
RunEnd(p) == CHOOSE q \in p .. Len(format) + 1 :
                 Ch(q) \notin Decimals /\ \A r \in p .. q - 1 : Ch(r) \in Decimals
RunValue(p) ==
    LET value[q \in p .. RunEnd(p)] ==
            IF q = p THEN 0 ELSE (10 * value[q - 1] + ValueOf(Ch(q - 1))) % SIZE_T
    IN  value[RunEnd(p)]

Ordinary ==
    /\ pc = "text"
    /\ Ch(pos) \notin {NUL, "%"}
    /\ Out(<<Ch(pos)>>)
    /\ pos' = pos + 1
    /\ UNCHANGED <<job, format, pc, va, flags, width, precision>>

Percent ==
    /\ pc = "text"
    /\ Ch(pos) = "%"
    /\ pos' = pos + 1
    /\ flags' = {}
    /\ pc' = "flags"
    /\ UNCHANGED <<job, format, va, width, precision, idx, memory, full>>

\* Defect: the flag is not passed.
FlagStuck ==
    /\ pc = "flags"
    /\ Ch(pos) \in FlagChars
    /\ flags' = flags \cup {Ch(pos)}
    /\ UNCHANGED <<job, format, pc, pos, va, width, precision, idx, memory, full>>

Flag ==
    /\ pc = "flags"
    /\ Ch(pos) \in FlagChars
    /\ flags' = flags \cup {Ch(pos)}
    /\ pos' = pos + 1
    /\ UNCHANGED <<job, format, pc, va, width, precision, idx, memory, full>>

Width ==
    /\ pc = "flags"
    /\ Ch(pos) \notin FlagChars
    /\ \/ /\ Ch(pos) = "*"
          /\ LET w == Head(va)
             IN  /\ width' = Magnitude(w)
                 /\ flags' = IF w < 0 THEN flags \cup {"-"} ELSE flags
          /\ va' = Tail(va)
          /\ pos' = pos + 1
       \/ /\ Ch(pos) # "*"
          /\ width' = RunValue(pos)
          /\ pos' = RunEnd(pos)
          /\ UNCHANGED <<flags, va>>
    /\ pc' = "precision"
    /\ UNCHANGED <<job, format, precision, idx, memory, full>>

Precision ==
    /\ pc = "precision"
    /\ \/ /\ Ch(pos) # "."
          /\ precision' = 0
          /\ UNCHANGED <<flags, va, pos>>
       \/ /\ Ch(pos) = "."
          /\ flags' = flags \cup {"precision"}
          /\ \/ /\ Ch(pos + 1) = "*"
                /\ precision' = Most(Head(va), 0)
                /\ va' = Tail(va)
                /\ pos' = pos + 2
             \/ /\ Ch(pos + 1) # "*"
                /\ precision' = RunValue(pos + 1)
                /\ pos' = RunEnd(pos + 1)
                /\ UNCHANGED va
    /\ pc' = "length"
    /\ UNCHANGED <<job, format, width, idx, memory, full>>

Lengths ==
    {<<>>, <<"l">>, <<"l", "l">>, <<"h">>, <<"h", "h">>, <<"t">>, <<"j">>, <<"z">>}

\* sizeof(long) is that of ptrdiff_t and intmax_t, not that of size_t.
LengthFlags(len) ==
    CASE len = <<>> -> {}
      [] len = <<"h">> -> {"short"}
      [] len = <<"h", "h">> -> {"short", "char"}
      [] len \in {<<"l">>, <<"t">>, <<"j">>} -> {"long"}
      [] len = <<"l", "l">> -> {"long", "long_long"}
      [] len = <<"z">> -> {"long_long"}

\* The length field the format has at p.
Matches(len, p) == \A i \in 1 .. Len(len) : Ch(p + i - 1) = len[i]

\* Defect: a second letter is not looked for.
LengthAtSingle(p) ==
    CHOOSE len \in Lengths :
        /\ Matches(len, p) /\ Len(len) < 2
        /\ \A other \in Lengths :
              Matches(other, p) /\ Len(other) < 2 => Len(other) <= Len(len)

\* The longest there is.
LengthAt(p) ==
    CHOOSE len \in Lengths :
        /\ Matches(len, p)
        /\ \A other \in Lengths : Matches(other, p) => Len(other) <= Len(len)

Length ==
    /\ pc = "length"
    /\ pos' = pos + Len(LengthAt(pos))
    /\ flags' = flags \cup LengthFlags(LengthAt(pos))
    /\ pc' = "specifier"
    /\ UNCHANGED <<job, format, va, width, precision, idx, memory, full>>

TakesArgument == IntegerSpecs \cup {"c", "s", "p"}

Converted(spec) ==
    CASE spec \in IntegerSpecs -> Integer(spec, Head(va))
      [] spec = "c" -> InField(<<Head(va)>>, 1)
      [] spec = "s" -> String(Head(va))
      [] spec = "p" -> Pointer(Head(va))
      [] OTHER -> <<spec>>

Specifier ==
    /\ pc = "specifier"
    /\ \E text \in {Converted(Ch(pos))} : Out(text)
    /\ va' = IF Ch(pos) \in TakesArgument THEN Tail(va) ELSE va
    /\ pos' = pos + 1
    /\ pc' = "text"
    /\ UNCHANGED <<job, format, flags, width, precision>>

\* Defect: an output that does not fit is not terminated.
TerminateBehind ==
    /\ pc = "text"
    /\ Ch(pos) = NUL
    /\ memory' = [i \in DOMAIN memory |->
                     IF i = idx /\ i < maxlen /\ ~job.null THEN NUL ELSE memory[i]]
    /\ pc' = "done"
    /\ UNCHANGED <<job, format, pos, va, flags, width, precision, idx, full>>

\* The terminator goes behind the text, or over its last character; with no
\* room at all its index is 2^32 - 1.
Terminate ==
    /\ pc = "text"
    /\ Ch(pos) = NUL
    /\ LET end == IF idx < maxlen THEN idx ELSE (maxlen - 1) % SIZE_T
       IN  memory' = [i \in DOMAIN memory |->
                         IF i = end /\ i < maxlen /\ ~job.null THEN NUL
                         ELSE memory[i]]
    /\ pc' = "done"
    /\ UNCHANGED <<job, format, pos, va, flags, width, precision, idx, full>>

\* What callers give: a directive is flags in any order, fields of a number
\* or of an int argument, a length and a conversion, and %s has a string.
\* A number in a format has one or two digits here, and a width none but its
\* own: a leading zero is a flag.
Fields == {<<>>} \cup {<<"n", k>> : k \in 0 .. 99}
                \cup {<<"*", k>> : k \in -(SIZE_T \div 2) .. SIZE_T \div 2 - 1}

IsLiteral(item) == item.spec = "literal" /\ item.arg \notin {NUL, "%"}
IsDirective(item) ==
    /\ item.spec \in TakesArgument \cup {"%"}
    /\ item.flags \in Seq(FlagChars)
    /\ item.width \in Fields \ {<<"n", 0>>}
    /\ item.prec \in Fields
    /\ item.length \in Lengths
    /\ item.spec \in IntegerSpecs \cup {"p"} => item.arg \in Int
    /\ item.spec = "s" => item.arg \in Seq(STRING)

ASSUME JobAssumption ==
    \A j \in Jobs :
        /\ j.count \in 0 .. SIZE_T - 1
        /\ Len(j.items) \in Nat
        /\ \A i \in 1 .. Len(j.items) : IsLiteral(j.items[i]) \/ IsDirective(j.items[i])

Init ==
    /\ job \in Jobs
    /\ format = Format(job)
    /\ pc = "text"
    /\ pos = 1
    /\ va = Passed(job)
    /\ flags = {}
    /\ width = 0
    /\ precision = 0
    /\ idx = 0
    /\ memory = [i \in 0 .. MemorySize - 1 |-> "old"]
    /\ full = <<>>

Next ==
    \/ Ordinary
    \/ Percent
    \/ Flag
    \/ Width
    \/ Precision
    \/ Length
    \/ Specifier
    \/ Terminate

\* The loop runs on by itself.
Spec == Init /\ [][Next]_vars /\ WF_vars(Next)

-----------------------------------------------------------------------------
(* What a directive means, by the C standard (b as in C23).                *)

\* The field of the item when the arguments are taken: a negative width
\* argument asks for left justification, a negative precision for none.
FlagsOf(item) == ToSet(item.flags)
LeftOf(item) == "-" \in FlagsOf(item) \/ (item.width # <<>> /\ item.width[2] < 0)
WidthOf(item) == IF item.width = <<>> THEN 0 ELSE Magnitude(item.width[2])
HasPrec(item) == item.prec # <<>> /\ item.prec[2] >= 0
PrecOf(item) == item.prec[2]

LengthBits(length) ==
    CASE length = <<>> -> IntBits
      [] length = <<"h">> -> ShortBits
      [] length = <<"h", "h">> -> CharBits
      [] OTHER -> LongBits

\* Digits, most significant first; zero has one.
NumeralOf(v, base, glyphs) ==
    LET n == CHOOSE n \in 1 .. v + 1 :
                 v < Power(base, n) /\ (n = 1 \/ v >= Power(base, n - 1))
    IN  [i \in 1 .. n |-> glyphs[((v \div Power(base, n - i)) % base) + 1]]

LastOf(n, s) == SubSeq(s, Most(Len(s) - n, 0) + 1, Len(s))

\* A number loses its front where it does not fit the digit buffer; the
\* spaces of its field are not in there.
MeantInteger(item) ==
    LET signed == item.spec \in {"d", "i"}
        bits == LengthBits(item.length)
        v == IF signed THEN AsSigned(item.arg, bits) ELSE AsUnsigned(item.arg, bits)
        size == Magnitude(v)
        base == Base(item.spec)
        bare == IF HasPrec(item) /\ PrecOf(item) = 0 /\ v = 0 THEN <<>>
                ELSE NumeralOf(size, base, IF item.spec = "X" THEN Upper ELSE Digit)
        prec == IF HasPrec(item) THEN PrecOf(item) ELSE 1
        digits == Repeat("0", prec - Len(bare)) \o bare
        sign == IF ~signed THEN <<>>
                ELSE IF v < 0 THEN <<"-">>
                ELSE IF "+" \in FlagsOf(item) THEN <<"+">>
                ELSE IF " " \in FlagsOf(item) THEN <<" ">> ELSE <<>>
        prefix == IF "#" \notin FlagsOf(item) THEN <<>>
                  ELSE IF base = 8 /\ (digits = <<>> \/ digits[1] # "0") THEN <<"0">>
                  ELSE IF base \in {2, 16} /\ v # 0 THEN <<"0", item.spec>>
                  ELSE <<>>
        head == sign \o prefix
        zeroed == "0" \in FlagsOf(item) /\ ~HasPrec(item) /\ ~LeftOf(item)
        zeros == IF zeroed THEN WidthOf(item) - Len(head) - Len(digits) ELSE 0
        number == LastOf(BufferSize, head \o Repeat("0", zeros) \o digits)
        spaces == IF zeroed THEN <<>> ELSE Repeat(" ", WidthOf(item) - Len(number))
    IN  IF LeftOf(item) THEN number \o spaces ELSE spaces \o number

MeantText(item, s) ==
    LET room == Repeat(" ", WidthOf(item) - Len(s))
    IN  IF LeftOf(item) THEN s \o room ELSE room \o s

Meaning(item) ==
    CASE item.spec = "literal" -> <<item.arg>>
      [] item.spec = "%" -> <<"%">>
      [] item.spec = "c" -> MeantText(item, <<item.arg>>)
      [] item.spec = "s" ->
            MeantText(item, IF HasPrec(item)
                            THEN SubSeq(item.arg, 1, Least(Len(item.arg), PrecOf(item)))
                            ELSE item.arg)
      [] OTHER -> MeantInteger(item)

\* Directives the code gives another meaning than the standard, or none:
\*  - a negative precision counts as one of zero;
\*  - left justification drops the zeros of a precision;
\*  - with # a number just as wide as its field, or for hexadecimal zeros
\*    short of it by one, loses digits, and precision and binary zeros are
\*    not counted as the standard does, nor is a number that does not fit
\*    the digit buffer.
DigitsOf(item) ==
    LET bits == LengthBits(item.length)
        v == IF item.spec \in {"d", "i"} THEN AsSigned(item.arg, bits)
             ELSE AsUnsigned(item.arg, bits)
    IN  Len(NumeralOf(Magnitude(v), Base(item.spec), Digit))

Fits(item) ==
    LET zeros == IF "0" \in FlagsOf(item) THEN WidthOf(item) ELSE 0
    IN  Most(DigitsOf(item) + 3, zeros) <= BufferSize

Standard(item) ==
    /\ item.spec # "p"
    /\ item.spec \in IntegerSpecs \cup {"s"} /\ item.prec # <<>> => HasPrec(item)
    /\ item.spec \in IntegerSpecs =>
        /\ LeftOf(item) => item.prec = <<>>
        /\ "#" \in FlagsOf(item) /\ Base(item.spec) # 10 =>
              /\ item.prec = <<>>
              /\ WidthOf(item) - DigitsOf(item) \notin {0, 1}
              /\ Base(item.spec) = 2 => "0" \notin FlagsOf(item)
              /\ Fits(item)

-----------------------------------------------------------------------------
(* What must hold of it.                                                   *)

\* Every variable of the scanner has its type.
TypeOK ==
    /\ pc \in {"text", "flags", "precision", "length", "specifier", "done"}
    /\ pos \in 1 .. Len(format) + 2
    /\ flags \subseteq FlagChars \cup
          {"precision", "long", "long_long", "short", "char"}
    /\ width \in 0 .. SIZE_T - 1
    /\ precision \in 0 .. SIZE_T - 1
    /\ idx \in 0 .. SIZE_T - 1
    /\ DOMAIN memory = 0 .. MemorySize - 1

\* Nothing is ever stored at or behind buffer[count], with count = 0 nothing
\* at all, nor through a NULL buffer.
StaysInBuffer ==
    \A i \in DOMAIN memory : i >= maxlen \/ job.null => memory[i] = "old"

\* When the call returns, its result is the length the whole output has, and
\* the buffer holds as much of it as fits with a terminator, terminated; an
\* output of 2^32 characters or more starts again at the front.
KeepsItsContract ==
    pc = "done" /\ Len(full) < SIZE_T =>
        LET end == Least(Len(full), maxlen - 1)
        IN  /\ idx = Len(full)
            /\ ~job.null /\ maxlen > 0 =>
                  \A i \in DOMAIN memory :
                      memory[i] = IF i < end THEN full[i + 1]
                                  ELSE IF i = end THEN NUL ELSE "old"

\* The scanner takes exactly the arguments its directives name and stops at
\* the terminator of the format, not behind it: flags, widths, precisions
\* and lengths of any form leave it at the next item.
TakesItsArguments ==
    pc = "done" /\ job.entry # "sprintf_" =>
        va = <<>> /\ pos = Len(format) + 1

\* What is put out is what the items mean, one after the other: the scanner
\* reads every directive as it was written, and a number is converted,
\* padded and signed as the C standard says, as far as the digit buffer has
\* room for it.
PrintsTheMeaning ==
    /\ pc = "done" /\ job.entry # "sprintf_"
    /\ \A i \in 1 .. Len(job.items) : Standard(job.items[i])
    =>
        full = FlattenSeq(Each(Meaning, job.items))

\* Every call returns.
Returns == <>(pc = "done")

-----------------------------------------------------------------------------
(* What a comment says, and the code does not do.                          *)

\* stdio.h on sprintf_: the format specifies the output.
SprintfObeysFormat ==
    pc = "done" /\ job.entry = "sprintf_" =>
        full = FlattenSeq(Each(Meaning, job.items))
=============================================================================
