------------------------------- MODULE CStdlib -------------------------------
(***************************************************************************)
(* Numbers and text, src/src/libc/src/stdlib: strtol and strtoll, atoi on  *)
(* top of them, and itoa, which ends in a call of strrev.                  *)
(* A run is one call on a memory of bytes, as in module CString.           *)
(***************************************************************************)
EXTENDS CString

CONSTANTS
    LONG_MAX,       \* of long and long long: 2^63 - 1
    INT_MAX         \* 2^31 - 1

ASSUME RangeAssumption == LONG_MAX \in Nat /\ INT_MAX \in Nat

VARIABLES
    scan            \* of strtol: [at, neg, base, acc, any, cutoff, cutlim]

libVars == <<strVars, scan>>

\* Two's complement.
LONG_MIN == -LONG_MAX - 1
Wrapped(v, max) == ((v + max + 1) % (2 * max + 2)) - max - 1

\* ctype.h.
isspace(c) == c \in {32, 9, 10}
isdigit(c) == c \in 48 .. 57
isupper(c) == c \in 65 .. 90
isalpha(c) == isupper(c) \/ c \in 97 .. 122

\* C's division rounds towards zero.
Quotient(a, b) == IF a < 0 THEN -((-a) \div b) ELSE a \div b
Remainder(a, b) == a - Quotient(a, b) * b

-----------------------------------------------------------------------------
(* strtol, strtoll, atoi.                                                  *)

Scanners == {"strtol", "strtoll", "atoi"}

\* The largest value allowed, LONG_MAX or -LONG_MIN.  strtoll keeps it as a
\* signed number, where the latter is LLONG_MIN again.
Limit(fn, neg) ==
    IF ~neg THEN LONG_MAX
    ELSE IF fn = "strtoll" THEN Wrapped(-LONG_MIN, LONG_MAX) ELSE -LONG_MIN

\* The call: strtoll is the same code for long long, atoi casts the result.
Strtol ==
    /\ pc = "call"
    /\ call.fn \in Scanners
    /\ scan' = [scan EXCEPT !.at = call.s]
    /\ pc' = "space"
    /\ UNCHANGED <<call, mem, loops, ret>>

\* Defect: the character is looked at again.
SkipSpaceStuck ==
    /\ pc = "space"
    /\ isspace(mem[scan.at])
    /\ UNCHANGED <<strVars, scan>>

SkipSpace ==
    /\ pc = "space"
    /\ isspace(mem[scan.at])
    /\ scan' = [scan EXCEPT !.at = @ + 1]
    /\ UNCHANGED strVars

Signs == {43, 45}

\* A sign, the prefix of the base, and the cutoff.
Prefix ==
    /\ pc = "space"
    /\ ~isspace(mem[scan.at])
    /\ LET c == mem[scan.at]
           p == IF c \in Signs THEN scan.at + 1 ELSE scan.at
           hex == call.base \in {0, 16} /\ mem[p] = 48 /\ mem[p + 1] \in {88, 120}
           base == IF hex THEN 16
                   ELSE IF call.base # 0 THEN call.base
                   ELSE IF mem[p] = 48 THEN 8 ELSE 10
           limit == Limit(call.fn, c = 45)
       IN  scan' = [at |-> IF hex THEN p + 2 ELSE p,
                    neg |-> c = 45, base |-> base, acc |-> 0, any |-> 0,
                    cutoff |-> Quotient(limit, base),
                    cutlim |-> Remainder(limit, base)]
    /\ pc' = "digits"
    /\ UNCHANGED <<call, mem, loops, ret>>

\* The value of a digit or letter; more than any base for the rest.
Value(c) == IF isdigit(c) THEN c - 48
            ELSE IF isupper(c) THEN c - 55 ELSE IF isalpha(c) THEN c - 87 ELSE 99
IsDigit == Value(mem[scan.at]) < scan.base

\* Defect: the digit behind the cutoff is not looked at.
TooBigLate(v) == scan.any < 0 \/ scan.acc > scan.cutoff

TooBig(v) ==
    scan.any < 0 \/ scan.acc > scan.cutoff \/ (scan.acc = scan.cutoff /\ v > scan.cutlim)

ScanDigit ==
    /\ pc = "digits"
    /\ IsDigit
    /\ LET v == Value(mem[scan.at])
       IN  scan' = [scan EXCEPT
                       !.at = @ + 1,
                       !.any = IF TooBig(v) THEN -1 ELSE 1,
                       !.acc = IF TooBig(v) THEN @ ELSE @ * scan.base + v]
    /\ UNCHANGED strVars

\* The result, and where it ends: at the string itself if there was no digit.
ScanEnd ==
    /\ pc = "digits"
    /\ ~IsDigit
    /\ LET value == IF scan.any < 0 THEN (IF scan.neg THEN LONG_MIN ELSE LONG_MAX)
                    ELSE IF scan.neg THEN -scan.acc ELSE scan.acc
       IN  ret' = IF call.fn = "atoi" THEN Wrapped(value, INT_MAX) ELSE value
    /\ scan' = [scan EXCEPT !.at = IF scan.any # 0 THEN @ ELSE call.s]
    /\ pc' = "done"
    /\ UNCHANGED <<call, mem, loops>>

-----------------------------------------------------------------------------
(* itoa(num, str, len, base): num in c, str in d, len in n.                *)

Itoa ==
    /\ pc = "call"
    /\ call.fn = "itoa"
    /\ IF call.n = 0 THEN ret' = -1 /\ pc' = "done" /\ UNCHANGED loops
       ELSE /\ loops' = <<Loop("itoa", call.d, 0, call.c)>>
            /\ pc' = "run"
            /\ UNCHANGED ret
    /\ UNCHANGED <<call, mem, scan>>

\* Defect: room for the terminator is forgotten.
ItoaFullLate(i) == i >= call.n

ItoaFull(i) == i >= call.n - 1

Glyph(digit) == IF digit < 10 THEN 48 + digit ELSE 55 + digit

\* A digit, least significant first; behind the last one the terminator and
\* strrev, or -1 with the digits left there if they are too many.
ItoaDigit ==
    /\ In("itoa")
    /\ LET i == loop.s + 1
           sum == loop.n \div call.base
           digit == [mem EXCEPT ![call.d + i - 1] = Glyph(loop.n % call.base)]
           ended == [digit EXCEPT ![call.d + i] = NUL]
       IN  \/ /\ sum # 0 /\ ~ItoaFull(i)
              /\ mem' = digit
              /\ Next_(Loop("itoa", call.d, i, sum))
              /\ UNCHANGED <<pc, ret>>
           \/ /\ sum # 0 /\ ItoaFull(i) /\ i = call.n - 1
              /\ mem' = digit
              /\ ret' = -1
              /\ pc' = "done"
              /\ UNCHANGED loops
           \/ /\ sum = 0 \/ (ItoaFull(i) /\ i # call.n - 1)
              /\ mem' = ended
              /\ loops' = <<strrev(ended, call.d)>>
              /\ UNCHANGED <<pc, ret>>
    /\ UNCHANGED <<call, scan>>

-----------------------------------------------------------------------------
(* The calls that are defined: bases have digits, and of itoa, numbers and  *)
(* buffers that it takes (see the README).                                 *)
LegalNumber(c) ==
    /\ c.fn \in Scanners => Ended(c.mem, c.s)
    /\ c.fn \in {"strtol", "strtoll"} => c.base \in {0} \cup 2 .. 36
    /\ c.fn = "atoi" => c.base = 10
    /\ c.fn = "itoa" =>
          c.base \in 2 .. 36 /\ c.c \in Nat /\ c.n # 1 /\ Within(c.mem, c.d, c.n)

ASSUME NumberCallsAssumption == \A c \in Calls : LegalNumber(c)

LibInit ==
    /\ StrInit
    /\ scan = [at |-> 0, neg |-> FALSE, base |-> 0, acc |-> 0, any |-> 0,
               cutoff |-> 0, cutlim |-> 0]

LibNext ==
    \/ StrNext /\ UNCHANGED scan
    \/ Strtol \/ SkipSpace \/ Prefix \/ ScanDigit \/ ScanEnd
    \/ Itoa \/ ItoaDigit
-----------------------------------------------------------------------------
(* What the functions are for.                                             *)

\* The text strtol is given: behind the spaces, behind the sign, and behind
\* the prefix, the digits of the base.
Spaces(t) == CHOOSE k \in 0 .. Len(t) :
                 (\A i \in 1 .. k : isspace(t[i])) /\ (k = Len(t) \/ ~isspace(t[k + 1]))
HasAt(t, k, set) == k <= Len(t) /\ t[k] \in set
SignLen(t) == IF HasAt(t, Spaces(t) + 1, {43, 45}) THEN 1 ELSE 0
Start(t) == Spaces(t) + SignLen(t)
HexPrefix(t) == HasAt(t, Start(t) + 1, {48}) /\ HasAt(t, Start(t) + 2, {88, 120})
BaseOf(t, base) ==
    IF base # 0 THEN base
    ELSE IF HexPrefix(t) THEN 16 ELSE IF HasAt(t, Start(t) + 1, {48}) THEN 8 ELSE 10
First(t, base) == Start(t) + IF HexPrefix(t) /\ base = 16 THEN 2 ELSE 0
DigitRun(t, base) ==
    CHOOSE k \in First(t, base) .. Len(t) :
        /\ \A i \in First(t, base) + 1 .. k : Value(t[i]) < base
        /\ k = Len(t) \/ Value(t[k + 1]) >= base

Values(t, first, last) == [i \in 1 .. last - first |-> Value(t[first + i])]
Sum(t, base) == Number(Values(t, First(t, base), DigitRun(t, base)), base)
Clamped(v, low, high) == IF v < low THEN low ELSE IF v > high THEN high ELSE v

Meaning(t, base) ==
    LET v == Sum(t, BaseOf(t, base))
        minus == SignLen(t) = 1 /\ t[Start(t)] = 45
    IN  Clamped(IF minus THEN -v ELSE v, LONG_MIN, LONG_MAX)

\* The prefix of a hexadecimal number with no digit behind it is the number
\* 0 by the standard, and no number here.
BarePrefix(t, base) ==
    LET b == BaseOf(t, base)
    IN  HexPrefix(t) /\ b = 16 /\ DigitRun(t, b) = First(t, b)

\* The result of strtol is the number the text stands for, or the end of the
\* range it lies beyond; it ends behind the last digit that belongs to it.
\* strtoll does so for what is not negative, and atoi for what fits an int.
NumberIsRead ==
    LET t == Text(call.mem, call.s)
        b == BaseOf(t, call.base)
        last == DigitRun(t, b)
        v == Meaning(t, 10)
    IN  /\ pc = "done" /\ call.fn \in {"strtol", "strtoll"}
             /\ (call.fn = "strtoll" => ~scan.neg) =>
                /\ ret = Meaning(t, call.base)
                /\ ~BarePrefix(t, call.base) =>
                      scan.at = call.s + IF last > First(t, b) THEN last ELSE 0
        /\ pc = "done" /\ call.fn = "atoi" => (v = Wrapped(v, INT_MAX) => ret = v)

\* The text t is the numeral of v, in capital letters.
IsNumeral(t, v, base) ==
    /\ t # <<>>
    /\ \A i \in 1 .. Len(t) : Value(t[i]) < base /\ t[i] = Glyph(Value(t[i]))
    /\ Len(t) = 1 \/ Value(t[1]) # 0
    /\ Number(Values(t, 0, Len(t)), base) = v

\* The least number of n digits.
Least(n, base) == Number([i \in 1 .. n |-> IF i = 1 THEN 1 ELSE 0], base)

\* itoa writes the number if it fits with its terminator, says so if it does
\* not, and stores nothing outside its buffer either way.
NumberIsWritten ==
    pc = "done" /\ call.fn = "itoa" =>
        LET t == Text(mem, call.d)
        IN  /\ ret = 0 => /\ IsNumeral(t, call.c, call.base)
                          /\ Len(t) < call.n
                          /\ mem = WithText(call.mem, call.d, t)
            /\ ret # 0 => ret = -1 /\ (call.n = 0 \/ call.c >= Least(call.n, call.base))
            /\ \A p \in DOMAIN mem \ (call.d .. call.d + call.n - 1) :
                  mem[p] = call.mem[p]

-----------------------------------------------------------------------------
(* What a comment says, and the code does not do.                          *)

\* strtol.c on strtoll: a range error is for numbers that are too big.
StrtollNegative ==
    pc = "done" /\ call.fn = "strtoll" => ret = Meaning(Text(call.mem, call.s), call.base)
=============================================================================
