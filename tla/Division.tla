------------------------------ MODULE Division ------------------------------
(***************************************************************************)
(* The division of 64-bit numbers, src/src/libc/src/math/math.c, bit by    *)
(* bit: the divisor is shifted up until its top bit is set, and back while *)
(* it is subtracted wherever it fits.                                      *)
(*                                                                         *)
(* A number is a register of Width bits, 0 .. Modulus - 1; a signed one is *)
(* negative when its top bit is set.  udivdi3 and umoddi3 are the quotient *)
(* and the remainder of udivmoddi4.                                        *)
(***************************************************************************)
EXTENDS Integers

CONSTANTS
    Width,          \* 64
    Bit             \* the values of the bits, and of the first beyond them

ASSUME WidthAssumption == Width \in Nat \ {0}
ASSUME BitAssumption ==
    /\ Bit \in [0 .. Width -> Nat \ {0}]
    /\ Bit[0] = 1
    /\ \A i \in 0 .. Width - 1 : Bit[i + 1] = 2 * Bit[i]

Modulus == Bit[Width]
Top == Bit[Width - 1]
Numbers == 0 .. Modulus - 1
Masks == {Bit[i] : i \in 0 .. Width - 1}

VARIABLES
    op,         \* the call: [signed, num, den]
    num, den,   \* the locals of udivmoddi4
    quot, qbit,
    result,     \* [quot, rem]
    step        \* "call", "justify", "divide", "done"; "trap": divided by 0

divVars == <<op, num, den, quot, qbit, result, step>>

Negative(n) == n >= Top
Negated(n) == (Modulus - n) % Modulus
Magnitude(n) == IF Negative(n) THEN Negated(n) ELSE n

\* What udivmoddi4 is called with: divmoddi4 gives it magnitudes.
Operand(n) == IF op.signed THEN Magnitude(n) ELSE n

Enter ==
    /\ step = "call"
    /\ num' = Operand(op.num)
    /\ den' = Operand(op.den)
    /\ quot' = 0
    /\ qbit' = 1
    /\ step' = IF op.den = 0 THEN "trap" ELSE "justify"
    /\ UNCHANGED <<op, result>>

\* Defect: the top bit alone is not seen.
JustifiedLate(n) == n > Top

\* (long long)den < 0
Justified(n) == n >= Top

\* "Left-justify denominator and count shift"
Justify ==
    /\ step = "justify"
    /\ \/ /\ ~Justified(den)
          /\ den' = (2 * den) % Modulus
          /\ qbit' = (2 * qbit) % Modulus
          /\ UNCHANGED step
       \/ Justified(den) /\ step' = "divide" /\ UNCHANGED <<den, qbit>>
    /\ UNCHANGED <<op, num, quot, result>>

\* Defect: what is equal does not fit.
FitsBelow(d, n) == d < n

Fits(d, n) == d <= n

Divide ==
    /\ step = "divide"
    /\ qbit # 0
    /\ \/ /\ Fits(den, num)
          /\ num' = num - den
          /\ quot' = (quot + qbit) % Modulus
       \/ ~Fits(den, num) /\ UNCHANGED <<num, quot>>
    /\ den' = den \div 2
    /\ qbit' = qbit \div 2
    /\ UNCHANGED <<op, result, step>>

\* Defect: the divisor's sign is forgotten.
MinusOfNum(call) == call.signed /\ Negative(call.num)

\* The signs of divmoddi4 differ.
Minus(call) == call.signed /\ ~(Negative(call.num) <=> Negative(call.den))

GiveBack ==
    /\ step = "divide"
    /\ qbit = 0
    /\ result' = IF Minus(op) THEN [quot |-> Negated(quot), rem |-> Negated(num)]
                 ELSE [quot |-> quot, rem |-> num]
    /\ step' = "done"
    /\ UNCHANGED <<op, num, den, quot, qbit>>

DivInit ==
    /\ op \in [signed : BOOLEAN, num : Numbers, den : Numbers]
    /\ num = 0 /\ den = 0 /\ quot = 0 /\ qbit = 0
    /\ result = [quot |-> 0, rem |-> 0]
    /\ step = "call"

DivNext == Enter \/ Justify \/ Divide \/ GiveBack

DivSpec == DivInit /\ [][DivNext]_divVars
-----------------------------------------------------------------------------
(* What it is for.                                                         *)

Signed(n) == IF Negative(n) THEN n - Modulus ELSE n

\* udivmoddi4 gives quotient and remainder of every two numbers, none of whose
\* bits is lost by the shifts, and divides by 0 exactly when it is told to.
DividesUnsigned ==
    /\ step = "trap" <=> (step # "call" /\ op.den = 0)
    /\ step = "done" /\ ~op.signed =>
        /\ op.num = result.quot * op.den + result.rem
        /\ result.rem \in 0 .. op.den - 1

\* divmoddi4 rounds towards zero, whatever the signs, but for the one quotient
\* that no signed number holds.  The remainder is C's where the divisor is
\* positive; for a negative one it has the wrong sign.
DividesSigned ==
    step = "done" /\ op.signed /\ ~(op.num = Top /\ op.den = Modulus - 1) =>
        LET n == Signed(op.num)
            d == Signed(op.den)
            q == Signed(result.quot)
            r == Signed(result.rem)
            rem == IF d > 0 THEN r ELSE -r
        IN  /\ n = q * d + rem
            /\ Magnitude(result.rem) < Magnitude(op.den)
            /\ rem # 0 => (rem < 0 <=> n < 0)

\* Every division is exact, unsigned or signed: the loop over the bits loses
\* none, whatever the shifts do to the divisor.
Divides == DividesUnsigned /\ DividesSigned
=============================================================================
