--------------------------- MODULE MeaningProofs ---------------------------
(***************************************************************************)
(* Proofs about the formatter: what a directive puts out is what it means. *)
(*                                                                         *)
(* The code builds a number backwards in the digit buffer and stops where  *)
(* the buffer is full; the standard writes it forwards.  Holds(b, t) joins *)
(* the two: the buffer b has the end of the text t, backwards, as much as  *)
(* there is room for.  Each step of _ntoa_format puts one more piece in    *)
(* front of t, so that at its end t is sign, prefix, zeros and digits      *)
(* (NumberMeans), and the digits are the standard's numeral because both   *)
(* divide by the powers of the base (DigitsHold, QuotientIs).              *)
(*                                                                         *)
(* The scanner then reads each directive as it was written: MeaningInv     *)
(* says that the output is what the items before this one mean, and that   *)
(* flags, width and precision are what has been read of it so far.         *)
(***************************************************************************)
EXTENDS VsnprintfProofs

-----------------------------------------------------------------------------
(* Powers, and the quotients of a number by them.                          *)

\* What holds of 0, and of k + 1 if it holds of k, holds up to L.
LEMMA UpToInduction ==
    ASSUME NEW L \in Nat, NEW S, 0 \in S, \A k \in 0 .. L - 1 : k \in S => k + 1 \in S
    PROVE  0 .. L \subseteq S
<1> SUFFICES ASSUME NEW n \in 0 .. L, n \notin S PROVE FALSE
  OBVIOUS
<1> DEFINE T == {k \in 0 .. L : k \notin S}
<1>1. T \subseteq Nat /\ T # {}
  OBVIOUS
<1> HIDE DEF T
<1>2. PICK x \in T : \A y \in T : x <= y
  BY <1>1, LeastNat
<1> USE DEF T
<1>3. x \in 0 .. L /\ x \notin S /\ x # 0
  BY <1>2
<1>4. x - 1 \in 0 .. L - 1 /\ ~(x <= x - 1) /\ (x - 1) + 1 = x
  BY <1>3
<1>5. x - 1 \in S
  BY <1>2, <1>4
<1> QED BY <1>3, <1>4, <1>5

\* f is a, and then the same step again and again.
Iterates(f, n, a, Step) ==
    f = [k \in 0 .. n |-> IF k = 0 THEN a ELSE Step[f[k - 1]]]

LEMMA IterationExists ==
    ASSUME NEW T, NEW a \in T, NEW Step \in [T -> T], NEW n \in Nat
    PROVE  \E f \in [0 .. n -> T] : Iterates(f, n, a, Step)
<1> DEFINE Next2 == [y \in (0 .. n) \X T |-> Step[y[2]]]
<1>1. \A i \in 0 .. n, x \in T : Next2[<<i, x>>] = Step[x] /\ Step[x] \in T
  OBVIOUS
<1> HIDE DEF Next2
<1>2. 0 \in Int /\ \A i \in 0 + 1 .. 0 + n, x \in T : Next2[<<i, x>>] \in T
  BY <1>1
<1>3. \E f \in [0 .. 0 + n -> T] : Solves(f, 0, n, a, Next2)
  BY <1>2, FiniteRecursion
<1>4. PICK f \in [0 .. n -> T] :
         f = [i \in 0 .. n |-> IF i = 0 THEN a ELSE Next2[<<i, f[i - 1]>>]]
  <2>1. 0 + n = n
    OBVIOUS
  <2>2. PICK f \in [0 .. 0 + n -> T] : Solves(f, 0, n, a, Next2)
    BY <1>3
  <2>3. f = [i \in 0 .. n |-> IF i = 0 THEN a ELSE Next2[<<i, f[i - 1]>>]]
    BY <2>1, <2>2 DEF Solves
  <2> QED BY <2>1, <2>2, <2>3
<1>5. ASSUME NEW i \in 0 .. n PROVE f[i] = IF i = 0 THEN a ELSE Step[f[i - 1]]
  <2>1. CASE i = 0
    BY <1>4, <2>1
  <2>2. CASE i # 0
    <3>1. i - 1 \in 0 .. n /\ f[i - 1] \in T
      BY <2>2
    <3> QED BY <1>1, <1>4, <2>2, <3>1
  <2> QED BY <2>1, <2>2
<1>6. f = [i \in 0 .. n |-> f[i]]
  OBVIOUS
<1>7. f = [i \in 0 .. n |-> IF i = 0 THEN a ELSE Step[f[i - 1]]]
  BY <1>5, <1>6
<1> QED BY <1>7 DEF Iterates

\* A recursive function is a solution of its equation.
LEMMA PowerFunction ==
    ASSUME NEW base \in Nat, NEW n \in Nat
    PROVE  \E f : /\ Power(base, n) = f[n] /\ f[0] = 1
                  /\ \A k \in 1 .. n : f[k] = base * f[k - 1]
<1> DEFINE Eq(f) == f = [k \in 0 .. n |-> IF k = 0 THEN 1 ELSE base * f[k - 1]]
           g == CHOOSE f : Eq(f)
           Step == [x \in Nat |-> base * x]
<1>1. \A x \in Nat : base * x \in Nat
  OBVIOUS
<1>2. Step \in [Nat -> Nat] /\ \A x \in Nat : Step[x] = base * x
  BY <1>1
<1> HIDE DEF Step
<1>3. PICK f \in [0 .. n -> Nat] : f = [k \in 0 .. n |-> IF k = 0 THEN 1 ELSE Step[f[k - 1]]]
  <2>1. 1 \in Nat
    OBVIOUS
  <2>2. \E f \in [0 .. n -> Nat] : Iterates(f, n, 1, Step)
    BY <1>2, <2>1, IterationExists
  <2> QED BY <2>2 DEF Iterates
<1>4. Eq(f)
  <2>1. ASSUME NEW k \in 0 .. n, k # 0 PROVE Step[f[k - 1]] = base * f[k - 1]
    <3>1. k - 1 \in 0 .. n
      BY <2>1
    <3>2. f[k - 1] \in Nat
      BY <3>1
    <3> QED BY <1>2, <3>2
  <2>2. \A k \in 0 .. n : f[k] = IF k = 0 THEN 1 ELSE base * f[k - 1]
    BY <1>3, <2>1
  <2>3. f = [k \in 0 .. n |-> f[k]]
    OBVIOUS
  <2> QED BY <2>2, <2>3
<1>5. Eq(g)
  <2> HIDE DEF Eq
  <2> QED BY <1>4
<1>6. Power(base, n) = g[n]
  BY DEF Power
<1>7. \A k \in 0 .. n : g[k] = IF k = 0 THEN 1 ELSE base * g[k - 1]
  <2> HIDE DEF g
  <2> QED BY <1>5
<1> HIDE DEF g
<1>8. g[0] = 1 /\ \A k \in 1 .. n : g[k] = base * g[k - 1]
  BY <1>7
<1> QED BY <1>6, <1>8

LEMMA PowerSteps ==
    ASSUME NEW base \in Nat, NEW n \in Nat
    PROVE  Power(base, 0) = 1 /\ Power(base, n + 1) = base * Power(base, n)
<1>1. Power(base, 0) = 1
  BY PowerFunction
<1>2. PICK f : /\ Power(base, n) = f[n] /\ f[0] = 1
               /\ \A k \in 1 .. n : f[k] = base * f[k - 1]
  BY PowerFunction
<1>3. n + 1 \in Nat /\ n + 1 \in 1 .. n + 1 /\ (n + 1) - 1 = n
  OBVIOUS
<1>4. PICK g : /\ Power(base, n + 1) = g[n + 1] /\ g[0] = 1
               /\ \A k \in 1 .. n + 1 : g[k] = base * g[k - 1]
  BY <1>3, PowerFunction
<1> DEFINE S == {k \in 0 .. n : f[k] = g[k]}
<1>5. ASSUME NEW k \in 0 .. n - 1, k \in S PROVE k + 1 \in S
  <2>1. k + 1 \in 1 .. n /\ k + 1 \in 1 .. n + 1 /\ (k + 1) - 1 = k /\ k + 1 \in 0 .. n
    OBVIOUS
  <2>2. f[k + 1] = base * f[k] /\ g[k + 1] = base * g[k] /\ f[k] = g[k]
    BY <1>2, <1>4, <1>5, <2>1
  <2> QED BY <2>1, <2>2
<1>6. 0 \in S
  BY <1>2, <1>4
<1> HIDE DEF S
<1>7. 0 .. n \subseteq S
  BY <1>5, <1>6, UpToInduction
<1>8. f[n] = g[n]
  BY <1>7 DEF S
<1> QED BY <1>1, <1>2, <1>3, <1>4, <1>8

LEMMA QuotientFunction ==
    ASSUME NEW v \in Nat, NEW base \in Nat \ {0}, NEW n \in Nat
    PROVE  \E f : /\ Quotient(v, base, n) = f[n] /\ f[0] = v
                  /\ \A k \in 1 .. n : f[k] = f[k - 1] \div base
<1> DEFINE Eq(f) == f = [k \in 0 .. n |-> IF k = 0 THEN v ELSE f[k - 1] \div base]
           g == CHOOSE f : Eq(f)
           Step == [x \in Nat |-> x \div base]
<1>1. \A x \in Nat : x \div base \in Nat
  OBVIOUS
<1>2. Step \in [Nat -> Nat] /\ \A x \in Nat : Step[x] = x \div base
  BY <1>1
<1> HIDE DEF Step
<1>3. PICK f \in [0 .. n -> Nat] : f = [k \in 0 .. n |-> IF k = 0 THEN v ELSE Step[f[k - 1]]]
  <2>1. v \in Nat
    OBVIOUS
  <2>2. \E f \in [0 .. n -> Nat] : Iterates(f, n, v, Step)
    BY <1>2, <2>1, IterationExists
  <2> QED BY <2>2 DEF Iterates
<1>4. Eq(f)
  <2>1. ASSUME NEW k \in 0 .. n, k # 0 PROVE Step[f[k - 1]] = f[k - 1] \div base
    <3>1. k - 1 \in 0 .. n
      BY <2>1
    <3>2. f[k - 1] \in Nat
      BY <3>1
    <3> QED BY <1>2, <3>2
  <2>2. \A k \in 0 .. n : f[k] = IF k = 0 THEN v ELSE f[k - 1] \div base
    BY <1>3, <2>1
  <2>3. f = [k \in 0 .. n |-> f[k]]
    OBVIOUS
  <2> QED BY <2>2, <2>3
<1>5. Eq(g)
  <2> HIDE DEF Eq
  <2> QED BY <1>4
<1>6. Quotient(v, base, n) = g[n]
  BY DEF Quotient
<1>7. \A k \in 0 .. n : g[k] = IF k = 0 THEN v ELSE g[k - 1] \div base
  <2> HIDE DEF g
  <2> QED BY <1>5
<1> HIDE DEF g
<1>8. g[0] = v /\ \A k \in 1 .. n : g[k] = g[k - 1] \div base
  BY <1>7
<1> QED BY <1>6, <1>8

LEMMA QuotientSteps ==
    ASSUME NEW v \in Nat, NEW base \in Nat \ {0}, NEW n \in Nat
    PROVE  /\ Quotient(v, base, 0) = v
           /\ Quotient(v, base, n + 1) = Quotient(v, base, n) \div base
<1>1. Quotient(v, base, 0) = v
  BY QuotientFunction
<1>2. PICK f : /\ Quotient(v, base, n) = f[n] /\ f[0] = v
               /\ \A k \in 1 .. n : f[k] = f[k - 1] \div base
  BY QuotientFunction
<1>3. n + 1 \in Nat /\ n + 1 \in 1 .. n + 1 /\ (n + 1) - 1 = n
  OBVIOUS
<1>4. PICK g : /\ Quotient(v, base, n + 1) = g[n + 1] /\ g[0] = v
               /\ \A k \in 1 .. n + 1 : g[k] = g[k - 1] \div base
  BY <1>3, QuotientFunction
<1> DEFINE S == {k \in 0 .. n : f[k] = g[k]}
<1>5. ASSUME NEW k \in 0 .. n - 1, k \in S PROVE k + 1 \in S
  <2>1. k + 1 \in 1 .. n /\ k + 1 \in 1 .. n + 1 /\ (k + 1) - 1 = k /\ k + 1 \in 0 .. n
    OBVIOUS
  <2>2. f[k + 1] = f[k] \div base /\ g[k + 1] = g[k] \div base /\ f[k] = g[k]
    BY <1>2, <1>4, <1>5, <2>1
  <2> QED BY <2>1, <2>2
<1>6. 0 \in S
  BY <1>2, <1>4
<1> HIDE DEF S
<1>7. 0 .. n \subseteq S
  BY <1>5, <1>6, UpToInduction
<1>8. f[n] = g[n]
  BY <1>7 DEF S
<1> QED BY <1>1, <1>2, <1>3, <1>4, <1>8

\* A power is more than its exponent, and one more is no less.
LEMMA PowerGrows ==
    ASSUME NEW base \in Nat, 2 <= base, NEW n \in Nat
    PROVE  \A k \in 0 .. n : Power(base, k) \in Nat /\ Power(base, k) > k
<1> DEFINE S == {k \in 0 .. n : Power(base, k) \in Nat /\ Power(base, k) > k}
<1>1. ASSUME NEW k \in 0 .. n - 1, k \in S PROVE k + 1 \in S
  <2> DEFINE p == Power(base, k)
  <2>1. p \in Nat /\ p > k /\ k \in Nat /\ k + 1 \in 0 .. n
    BY <1>1
  <2>2. Power(base, k + 1) = base * p
    BY <2>1, PowerSteps
  <2> HIDE DEF p
  <2>3. base * p \in Nat /\ base * p >= 2 * p
    BY <2>1
  <2>4. base * p > k + 1
    BY <2>1, <2>3
  <2> QED BY <2>1, <2>2, <2>3, <2>4
<1>2. 0 \in S
  BY PowerSteps
<1> HIDE DEF S
<1>3. 0 .. n \subseteq S
  BY <1>1, <1>2, UpToInduction
<1> QED BY <1>3 DEF S

LEMMA PowerIs ==
    ASSUME NEW base \in Nat, 2 <= base, NEW n \in Nat
    PROVE  /\ Power(base, n) \in Nat \ {0} /\ Power(base, n) > n
           /\ Power(base, 0) = 1 /\ Power(base, n + 1) = base * Power(base, n)
           /\ Power(base, n + 1) >= Power(base, n)
<1>1. Power(base, n) \in Nat /\ Power(base, n) > n
  BY PowerGrows
<1>2. Power(base, 0) = 1 /\ Power(base, n + 1) = base * Power(base, n)
  BY PowerSteps
<1> DEFINE p == Power(base, n)
<1> HIDE DEF p
<1>3. p \in Nat /\ p > n /\ base * p >= p
  <2>1. p \in Nat /\ p > n
    BY <1>1 DEF p
  <2> QED BY <2>1
<1> QED BY <1>1, <1>2, <1>3 DEF p

\* Dividing twice is dividing by the product.
LEMMA DivisionUnique ==
    ASSUME NEW d \in Nat \ {0}, NEW q \in Int, NEW e \in 0 .. d - 1
    PROVE  (d * q + e) \div d = q
<1> DEFINE x == (d * q + e) \div d
           y == (d * q + e) % d
<1>1. x \in Int /\ y \in 0 .. d - 1 /\ d * x + y = d * q + e
  OBVIOUS
<1> HIDE DEF x, y
<1>2. d * (x - q) = e - y
  BY <1>1
<1>3. CASE x - q >= 1
  <2>1. d * (x - q) >= d
    BY <1>1, <1>3
  <2> QED BY <1>1, <1>2, <2>1
<1>4. CASE x - q <= -1
  <2>1. d * (q - x) >= d
    BY <1>1, <1>4
  <2>2. d * (q - x) = y - e
    BY <1>1
  <2> QED BY <1>1, <2>1, <2>2
<1>5. x = q
  BY <1>1, <1>3, <1>4
<1> QED BY <1>5 DEF x

LEMMA DividedTwice ==
    ASSUME NEW v \in Nat, NEW p \in Nat \ {0}, NEW b \in Nat \ {0}
    PROVE  (v \div p) \div b = v \div (b * p)
<1> DEFINE q == v \div p
           r == v % p
           t == q \div b
           s == q % b
<1>1. q \in Nat /\ r \in 0 .. p - 1 /\ v = p * q + r
  OBVIOUS
<1> HIDE DEF q, r
<1>2. t \in Nat /\ s \in 0 .. b - 1 /\ q = b * t + s
  BY <1>1
<1> HIDE DEF t, s
<1>3. p * q = p * (b * t) + p * s
  BY <1>1, <1>2
<1>4. p * (b * t) = (b * p) * t
  BY <1>2
<1>5. p * s \in Nat /\ p * s <= p * (b - 1) /\ p * (b - 1) = b * p - p /\ b * p \in Nat \ {0}
  BY <1>2
<1> DEFINE d == b * p
           e == p * s + r
<1>6. d \in Nat \ {0} /\ e \in 0 .. d - 1
  <2> DEFINE m == p * s
  <2>1. m \in Nat /\ m <= d - p /\ d \in Nat \ {0}
    BY <1>5
  <2> HIDE DEF m, d
  <2>2. m + r \in 0 .. d - 1
    BY <1>1, <2>1
  <2> QED BY <2>1, <2>2 DEF m
<1>7. v = d * t + e
  <2> DEFINE x == p * q
             y == p * (b * t)
             z == p * s
  <2>1. x = y + z /\ v = x + r /\ y = d * t /\ e = z + r
    BY <1>1, <1>3, <1>4
  <2>2. x \in Int /\ y \in Int /\ z \in Int
    BY <1>1, <1>2
  <2> HIDE DEF x, y, z, d, e
  <2> QED BY <1>1, <2>1, <2>2
<1> HIDE DEF d, e
<1>8. v \div d = t
  BY <1>2, <1>6, <1>7, DivisionUnique
<1> QED BY <1>8 DEF t, q, d

\* The k-th quotient is that by the k-th power.
LEMMA QuotientIs ==
    ASSUME NEW v \in Nat, NEW base \in Nat, 2 <= base, NEW n \in Nat
    PROVE  /\ Quotient(v, base, n) = v \div Power(base, n) /\ Quotient(v, base, n) \in Nat
           /\ Quotient(v, base, n) = 0 <=> v < Power(base, n)
<1> DEFINE S == {k \in 0 .. n : Quotient(v, base, k) = v \div Power(base, k)}
<1>1. ASSUME NEW k \in 0 .. n - 1, k \in S PROVE k + 1 \in S
  <2>1. k \in Nat /\ k + 1 \in 0 .. n /\ base \in Nat \ {0}
    OBVIOUS
  <2>2. Quotient(v, base, k + 1) = (v \div Power(base, k)) \div base
    BY <1>1, <2>1, QuotientSteps
  <2>3. Power(base, k + 1) = base * Power(base, k) /\ Power(base, k) \in Nat \ {0}
    BY <2>1, PowerIs
  <2>4. Quotient(v, base, k + 1) = v \div Power(base, k + 1)
    BY <2>1, <2>2, <2>3, DividedTwice
  <2> QED BY <2>1, <2>4
<1>2. 0 \in S
  <2>1. Quotient(v, base, 0) = v /\ Power(base, 0) = 1 /\ v \div 1 = v
    BY QuotientSteps, PowerIs
  <2> QED BY <2>1
<1> HIDE DEF S
<1>3. 0 .. n \subseteq S
  BY <1>1, <1>2, UpToInduction
<1>4. Quotient(v, base, n) = v \div Power(base, n)
  BY <1>3 DEF S
<1>5. Power(base, n) \in Nat \ {0}
  BY PowerIs
<1> DEFINE p == Power(base, n)
<1> HIDE DEF p
<1>6. v \div p \in Nat /\ (v \div p = 0 <=> v < p)
  <2>1. p \in Nat \ {0}
    BY <1>5 DEF p
  <2>2. v \div p \in Nat /\ v % p \in 0 .. p - 1 /\ v = p * (v \div p) + (v % p)
    BY <2>1
  <2>3. v < p => v = p * 0 + v
    BY <2>1
  <2>4. ASSUME v < p PROVE v \div p = 0
    <3>1. v \in 0 .. p - 1
      BY <2>1, <2>4
    <3>2. (p * 0 + v) \div p = 0
      BY <2>1, <3>1, DivisionUnique
    <3> QED BY <2>3, <2>4, <3>2
  <2>5. v \div p = 0 => v < p
    BY <2>1, <2>2
  <2> QED BY <2>2, <2>4, <2>5
<1> QED BY <1>4, <1>6 DEF p

-----------------------------------------------------------------------------
(* Texts.                                                                  *)

LEMMA SameTexts ==
    ASSUME NEW s, NEW t, IsText(s), IsText(t), Len(s) = Len(t),
           \A i \in 1 .. Len(s) : s[i] = t[i]
    PROVE  s = t
  BY DEF IsText

LEMMA Associative ==
    ASSUME NEW s, NEW t, NEW u, IsText(s), IsText(t), IsText(u)
    PROVE  (s \o t) \o u = s \o (t \o u)
<1> DEFINE S == {s[i] : i \in 1 .. Len(s)} \cup {t[i] : i \in 1 .. Len(t)}
                \cup {u[i] : i \in 1 .. Len(u)}
<1>1. s \in Seq(S) /\ t \in Seq(S) /\ u \in Seq(S)
  BY DEF IsText
<1> HIDE DEF S
<1> QED BY <1>1

LEMMA EmptyJoined ==
    ASSUME NEW s, IsText(s)
    PROVE  <<>> \o s = s /\ s \o <<>> = s
<1> DEFINE S == {s[i] : i \in 1 .. Len(s)}
<1>1. s \in Seq(S)
  BY DEF IsText
<1> HIDE DEF S
<1> QED BY <1>1

LEMMA RepeatIs ==
    ASSUME NEW ch, NEW n \in Int
    PROVE  /\ IsText(Repeat(ch, n)) /\ Len(Repeat(ch, n)) = Most(n, 0) /\ Most(n, 0) \in Nat
           /\ \A i \in 1 .. Most(n, 0) : Repeat(ch, n)[i] = ch
           /\ n <= 0 => Repeat(ch, n) = <<>>
<1> DEFINE r == Repeat(ch, n)
<1>1. Most(n, 0) \in Nat /\ (n <= 0 => Most(n, 0) = 0)
  BY DEF Most
<1>2. DOMAIN r = 1 .. Most(n, 0) /\ r = [i \in 1 .. Most(n, 0) |-> r[i]]
      /\ \A i \in 1 .. Most(n, 0) : r[i] = ch
  BY DEF Repeat
<1> HIDE DEF r
<1>3. IsText(r) /\ Len(r) = Most(n, 0)
  BY <1>1, <1>2, FunctionIsText
<1>4. n <= 0 => r = <<>>
  BY <1>1, <1>3, EmptyText, SameTexts
<1> QED BY <1>1, <1>2, <1>3, <1>4 DEF r

LEMMA RepeatSplit ==
    ASSUME NEW ch, NEW m \in Nat, NEW n \in Nat
    PROVE  Repeat(ch, m + n) = Repeat(ch, m) \o Repeat(ch, n)
<1> DEFINE s == Repeat(ch, m)
           t == Repeat(ch, n)
           u == Repeat(ch, m + n)
<1>1. Most(m, 0) = m /\ Most(n, 0) = n /\ Most(m + n, 0) = m + n /\ m + n \in Int
  BY DEF Most
<1>2. /\ IsText(s) /\ Len(s) = m /\ \A i \in 1 .. m : s[i] = ch
      /\ IsText(t) /\ Len(t) = n /\ \A i \in 1 .. n : t[i] = ch
      /\ IsText(u) /\ Len(u) = m + n /\ \A i \in 1 .. m + n : u[i] = ch
  BY <1>1, RepeatIs
<1> HIDE DEF s, t, u
<1>3. /\ IsText(s \o t) /\ Len(s \o t) = m + n
      /\ \A k \in 1 .. m : (s \o t)[k] = s[k]
      /\ \A k \in 1 .. n : (s \o t)[m + k] = t[k]
  BY <1>2, Concatenation
<1> DEFINE x == s \o t
<1> HIDE DEF x
<1>4. ASSUME NEW i \in 1 .. m + n PROVE x[i] = ch
  <2> USE DEF x
  <2>1. CASE i <= m
    BY <1>2, <1>3, <2>1
  <2> HIDE DEF x
  <2>2. CASE i > m
    <3> DEFINE k == i - m
    <3>1. k \in 1 .. n /\ m + k = i
      BY <2>2
    <3> HIDE DEF k
    <3>2. x[m + k] = t[k] /\ t[k] = ch
      BY <1>2, <1>3, <3>1 DEF x
    <3> QED BY <3>1, <3>2
  <2> QED BY <2>1, <2>2
<1>5. u = s \o t
  BY <1>2, <1>3, <1>4, SameTexts DEF x
<1> QED BY <1>5 DEF s, t, u

LEMMA PairIs == ASSUME NEW c, NEW d PROVE <<c>> \o <<d>> = <<c, d>>
<1> DEFINE s == <<c>> \o <<d>>
           t == <<c, d>>
<1>1. IsText(<<c>>) /\ IsText(<<d>>) /\ Len(<<c>>) = 1 /\ Len(<<d>>) = 1
  BY SingleText
<1>2. /\ IsText(s) /\ Len(s) = 2
      /\ \A k \in 1 .. 1 : s[k] = <<c>>[k]
      /\ \A k \in 1 .. 1 : s[1 + k] = <<d>>[k]
  BY <1>1, Concatenation
<1>3. s[1] = c /\ s[2] = d
  BY <1>2
<1>4. t \in Seq({c, d}) /\ Len(t) = 2 /\ t[1] = c /\ t[2] = d
  OBVIOUS
<1> HIDE DEF s, t
<1>5. IsText(t)
  BY <1>4, SeqIsText
<1>6. \A i \in 1 .. 2 : s[i] = t[i]
  BY <1>3, <1>4
<1>7. s = t
  BY <1>2, <1>4, <1>5, <1>6, SameTexts
<1> QED BY <1>7 DEF s, t

\* What is behind the first n characters.
LEMMA BehindIs ==
    ASSUME NEW s, IsText(s), NEW n \in Nat, n <= Len(s)
    PROVE  /\ IsText(SubSeq(s, n + 1, Len(s))) /\ Len(SubSeq(s, n + 1, Len(s))) = Len(s) - n
           /\ \A i \in 1 .. Len(s) - n : SubSeq(s, n + 1, Len(s))[i] = s[n + i]
<1> DEFINE S == {s[i] : i \in 1 .. Len(s)}
           t == SubSeq(s, n + 1, Len(s))
<1>1. s \in Seq(S) /\ Len(s) \in Nat
  BY DEF IsText
<1> HIDE DEF S
<1>2. t \in Seq(S) /\ Len(t) = Len(s) - n /\ \A i \in 1 .. Len(t) : t[i] = s[n + i]
  BY <1>1
<1> HIDE DEF t
<1> QED BY <1>2, SeqIsText DEF t

LEMMA PrefixIs ==
    ASSUME NEW s, IsText(s), NEW n \in Nat, n <= Len(s)
    PROVE  /\ IsText(SubSeq(s, 1, n)) /\ Len(SubSeq(s, 1, n)) = n
           /\ \A i \in 1 .. n : SubSeq(s, 1, n)[i] = s[i]
<1> DEFINE S == {s[i] : i \in 1 .. Len(s)}
<1>1. s \in Seq(S)
  BY DEF IsText
<1> HIDE DEF S
<1>2. \A i \in 1 .. n : SubSeq(s, 1, n)[i] = s[i]
  BY <1>1
<1> QED BY <1>2, Prefix

LEMMA ReverseIs ==
    ASSUME NEW s, IsText(s)
    PROVE  /\ IsText(Reverse(s)) /\ Len(Reverse(s)) = Len(s)
           /\ \A i \in 1 .. Len(s) : Reverse(s)[i] = s[(Len(s) - i) + 1]
<1>1. \A i \in 1 .. Len(s) : Reverse(s)[i] = s[(Len(s) - i) + 1]
  BY DEF Reverse
<1> QED BY <1>1, Reversing

-----------------------------------------------------------------------------
(* The digit buffer: what it holds is the end of a text, backwards.        *)

Holds(b, t) ==
    /\ IsText(b) /\ IsText(t)
    /\ Len(b) = Least(Len(t), BufferSize)
    /\ \A i \in 1 .. Len(b) : b[i] = t[Len(t) + 1 - i]

LEMMA AddHolds ==
    ASSUME NEW b, NEW t, Holds(b, t), NEW ch
    PROVE  Holds(Add(b, ch), <<ch>> \o t)
<1> DEFINE c == <<ch>>
           u == c \o t
           m == Len(b)
           n == Len(t)
<1>1. IsText(c) /\ Len(c) = 1 /\ c[1] = ch
  BY SingleText
<1> HIDE DEF c
<1>2. /\ IsText(b) /\ IsText(t) /\ m \in Nat /\ n \in Nat /\ m = Least(n, BufferSize)
      /\ \A i \in 1 .. m : b[i] = t[n + 1 - i]
  BY DEF Holds, IsText
<1>3. /\ IsText(u) /\ Len(u) = 1 + n /\ u[1] = ch
      /\ \A k \in 1 .. n : u[1 + k] = t[k]
  <2>1. IsText(c) /\ IsText(t)
    BY <1>1, <1>2
  <2>2. /\ IsText(u) /\ Len(u) = Len(c) + Len(t)
        /\ \A k \in 1 .. Len(c) : u[k] = c[k]
        /\ \A k \in 1 .. Len(t) : u[Len(c) + k] = t[k]
    BY <2>1, Concatenation
  <2> HIDE DEF u
  <2> QED BY <1>1, <2>2
<1> HIDE DEF u
<1>4. BufferSize \in Nat
  BY SizeAssumption
<1>5. ASSUME NEW i \in 1 .. m PROVE b[i] = u[(1 + n) + 1 - i]
  <2>1. n + 1 - i \in 1 .. n /\ 1 + (n + 1 - i) = (1 + n) + 1 - i
    BY <1>2, <1>4 DEF Least
  <2> QED BY <1>2, <1>3, <2>1
<1>6. CASE m < BufferSize
  <2> DEFINE a == Append(b, ch)
             S == {b[i] : i \in 1 .. m} \cup {ch}
  <2>1. b \in Seq(S) /\ ch \in S
    BY <1>2 DEF IsText
  <2> HIDE DEF S
  <2>2. /\ a \in Seq(S) /\ Len(a) = m + 1 /\ a[m + 1] = ch
        /\ \A i \in 1 .. m : a[i] = b[i]
    BY <2>1
  <2>3. Add(b, ch) = a /\ IsText(a)
    BY <1>6, <1>2, Appending DEF Add
  <2> HIDE DEF a, m, n
  <2>4. m = n /\ m + 1 = Least(1 + n, BufferSize)
    BY <1>2, <1>4, <1>6 DEF Least
  <2>5. ASSUME NEW i \in 1 .. m + 1 PROVE a[i] = u[(1 + n) + 1 - i]
    <3>1. CASE i = m + 1
      <4>1. (1 + n) + 1 - i = 1
        BY <1>2, <2>4, <3>1
      <4> QED BY <1>3, <2>2, <3>1, <4>1
    <3>2. CASE i # m + 1
      <4>1. i \in 1 .. m
        BY <1>2, <3>2
      <4> QED BY <1>5, <2>2, <4>1
    <3> QED BY <3>1, <3>2
  <2>6. Holds(a, u)
    BY <1>3, <2>2, <2>3, <2>4, <2>5 DEF Holds
  <2> QED BY <2>3, <2>6 DEF u, c
<1>7. CASE ~(m < BufferSize)
  <2>1. Add(b, ch) = b
    BY <1>7 DEF Add
  <2> HIDE DEF m, n
  <2>2. m = Least(1 + n, BufferSize)
    BY <1>2, <1>4, <1>7 DEF Least
  <2>3. Holds(b, u)
    BY <1>2, <1>3, <1>5, <2>2 DEF Holds, m
  <2> QED BY <2>1, <2>3 DEF u, c
<1> QED BY <1>6, <1>7

LEMMA ZerosHold ==
    ASSUME NEW b, NEW t, Holds(b, t), NEW x \in Int
    PROVE  Holds(ZerosTo(b, x), Repeat("0", x - Len(t)) \o t)
<1> DEFINE m == Len(b)
           n == Len(t)
           y == Least(x, BufferSize) - m
           z == Repeat("0", x - n)
           r == Repeat("0", y)
           u == z \o t
           a == b \o r
<1>0. BufferSize \in Nat
  BY SizeAssumption
<1>1. /\ IsText(b) /\ IsText(t) /\ m \in Nat /\ n \in Nat /\ m = Least(n, BufferSize)
      /\ \A i \in 1 .. m : b[i] = t[n + 1 - i]
  BY DEF Holds, IsText
<1>2. y \in Int /\ x - n \in Int
  BY <1>0, <1>1 DEF Least
<1> HIDE DEF y
<1> DEFINE Z == Most(x - n, 0)
           R == Most(y, 0)
<1>3. /\ IsText(z) /\ Len(z) = Z /\ Z \in Nat /\ \A i \in 1 .. Z : z[i] = "0"
      /\ IsText(r) /\ Len(r) = R /\ R \in Nat /\ \A i \in 1 .. R : r[i] = "0"
  BY <1>2, RepeatIs
<1> HIDE DEF z, r
<1>4. /\ IsText(u) /\ Len(u) = Z + n
      /\ \A k \in 1 .. Z : u[k] = z[k]
      /\ \A k \in 1 .. n : u[Z + k] = t[k]
  <2>1. /\ IsText(u) /\ Len(u) = Len(z) + Len(t)
        /\ \A k \in 1 .. Len(z) : u[k] = z[k]
        /\ \A k \in 1 .. Len(t) : u[Len(z) + k] = t[k]
    <3>1. IsText(z) /\ IsText(t)
      BY <1>1, <1>3
    <3> QED BY <3>1, Concatenation
  <2> HIDE DEF u, Z
  <2> QED BY <1>3, <2>1
<1>5. /\ IsText(a) /\ Len(a) = m + R
      /\ \A k \in 1 .. m : a[k] = b[k]
      /\ \A k \in 1 .. R : a[m + k] = r[k]
  <2>1. /\ IsText(a) /\ Len(a) = Len(b) + Len(r)
        /\ \A k \in 1 .. Len(b) : a[k] = b[k]
        /\ \A k \in 1 .. Len(r) : a[Len(b) + k] = r[k]
    <3>1. IsText(b) /\ IsText(r)
      BY <1>1, <1>3
    <3> QED BY <3>1, Concatenation
  <2> HIDE DEF a, R
  <2> QED BY <1>3, <2>1
<1>6. ZerosTo(b, x) = a
  BY DEF ZerosTo, a, r, y
<1> HIDE DEF u, a
<1>7. m + R = Least(Z + n, BufferSize) /\ (R > 0 => m = n) /\ m <= n /\ R <= Z
  <2>1. y = Least(x, BufferSize) - m /\ BufferSize \in Nat \ {0} /\ x \in Int
    BY SizeAssumption DEF y
  <2>2. Z = Most(x - n, 0) /\ R = Most(y, 0)
    OBVIOUS
  <2> HIDE DEF m, n, Z, R
  <2>3. CASE n >= BufferSize
    BY <1>1, <2>1, <2>2, <2>3 DEF Least, Most
  <2>4. CASE n < BufferSize
    BY <1>1, <2>1, <2>2, <2>4 DEF Least, Most
  <2> QED BY <1>1, <2>1, <2>3, <2>4
<1> HIDE DEF m, n, Z, R
<1>8. ASSUME NEW i \in 1 .. m + R PROVE a[i] = u[(Z + n) + 1 - i]
  <2>1. CASE i <= m
    <3>1. i \in 1 .. m /\ n + 1 - i \in 1 .. n /\ Z + (n + 1 - i) = (Z + n) + 1 - i
      BY <1>1, <1>3, <1>7, <2>1
    <3> QED BY <1>1, <1>4, <1>5, <3>1
  <2>2. CASE i > m
    <3>1. i - m \in 1 .. R /\ m + (i - m) = i /\ m = n
          /\ (Z + n) + 1 - i \in 1 .. Z
      BY <1>1, <1>3, <1>7, <2>2
    <3> QED BY <1>3, <1>4, <1>5, <3>1
  <2> QED BY <1>1, <2>1, <2>2
<1>9. Holds(a, u)
  BY <1>4, <1>5, <1>7, <1>8 DEF Holds
<1> QED BY <1>6, <1>9 DEF u, z, n

LEMMA CutHolds ==
    ASSUME NEW b, NEW s, NEW t, IsText(s), IsText(t), Holds(b, s \o t),
           Len(s) + Len(t) <= BufferSize
    PROVE  Holds(SubSeq(b, 1, Len(b) - Len(s)), t)
<1> DEFINE m == Len(s)
           n == Len(t)
           u == s \o t
           a == SubSeq(b, 1, n)
<1>0. BufferSize \in Nat
  BY SizeAssumption
<1>1. /\ IsText(u) /\ Len(u) = m + n /\ m \in Nat /\ n \in Nat
      /\ \A k \in 1 .. n : u[m + k] = t[k]
  BY Concatenation
<1>2. /\ IsText(b) /\ Len(b) = Least(m + n, BufferSize)
      /\ \A i \in 1 .. Len(b) : b[i] = u[(m + n) + 1 - i]
  BY <1>1 DEF Holds
<1>3. Len(b) = m + n /\ Len(b) - m = n
  BY <1>0, <1>1, <1>2 DEF Least
<1>4. IsText(a) /\ Len(a) = n /\ \A i \in 1 .. n : a[i] = b[i]
  BY <1>1, <1>2, <1>3, PrefixIs
<1> HIDE DEF a, u, m, n
<1>5. ASSUME NEW i \in 1 .. n PROVE a[i] = t[n + 1 - i]
  <2>1. i \in 1 .. Len(b) /\ n + 1 - i \in 1 .. n /\ m + (n + 1 - i) = (m + n) + 1 - i
    BY <1>1, <1>3
  <2> QED BY <1>1, <1>2, <1>4, <2>1
<1>6. n = Least(n, BufferSize)
  BY <1>0, <1>1 DEF Least, m, n
<1>7. Holds(a, t)
  BY <1>4, <1>5, <1>6 DEF Holds, n
<1> QED BY <1>3, <1>7 DEF a, m

LEMMA ReverseHolds ==
    ASSUME NEW b, NEW t, Holds(b, t)
    PROVE  /\ Reverse(b) = LastOf(BufferSize, t) /\ IsText(Reverse(b))
           /\ Len(Reverse(b)) = Len(b) /\ Len(b) \in Nat
<1> DEFINE m == Len(b)
           n == Len(t)
           c == Most(n - BufferSize, 0)
           r == Reverse(b)
           l == SubSeq(t, c + 1, n)
<1>0. BufferSize \in Nat
  BY SizeAssumption
<1>1. /\ IsText(b) /\ IsText(t) /\ m \in Nat /\ n \in Nat /\ m = Least(n, BufferSize)
      /\ \A i \in 1 .. m : b[i] = t[n + 1 - i]
  BY DEF Holds, IsText
<1>2. c \in Nat /\ c <= n /\ n - c = m
  <2>1. c = Most(n - BufferSize, 0)
    OBVIOUS
  <2> HIDE DEF m, n, c
  <2> QED BY <1>0, <1>1, <2>1 DEF Least, Most
<1>3. IsText(r) /\ Len(r) = m /\ \A i \in 1 .. m : r[i] = b[(m - i) + 1]
  BY <1>1, ReverseIs
<1>4. IsText(l) /\ Len(l) = n - c /\ \A i \in 1 .. n - c : l[i] = t[c + i]
  <2> HIDE DEF c
  <2> QED BY <1>1, <1>2, BehindIs
<1>5. LastOf(BufferSize, t) = l
  BY DEF LastOf
<1> HIDE DEF r, l, c, m, n
<1>6. ASSUME NEW i \in 1 .. m PROVE r[i] = l[i]
  <2>1. (m - i) + 1 \in 1 .. m /\ n + 1 - ((m - i) + 1) = c + i
    BY <1>1, <1>2
  <2> QED BY <1>1, <1>2, <1>3, <1>4, <2>1
<1>7. r = l
  BY <1>2, <1>3, <1>4, <1>6, SameTexts
<1> QED BY <1>1, <1>3, <1>5, <1>7 DEF r, m

-----------------------------------------------------------------------------
(* The numeral of a number, and its digits in the buffer.                  *)

LEMMA PowerMonotone ==
    ASSUME NEW base \in Nat, 2 <= base, NEW n \in Nat, NEW k \in 0 .. n
    PROVE  Power(base, k) <= Power(base, n)
<1> DEFINE S == {j \in 0 .. n : j < k \/ Power(base, k) <= Power(base, j)}
<1>1. ASSUME NEW j \in 0 .. n - 1, j \in S PROVE j + 1 \in S
  <2>1. j \in Nat /\ j + 1 \in Nat /\ k \in Nat /\ j + 1 \in 0 .. n
    OBVIOUS
  <2> DEFINE p == Power(base, k)
             q == Power(base, j)
             r == Power(base, j + 1)
  <2>2. p \in Nat /\ q \in Nat /\ r \in Nat /\ q <= r
    BY <2>1, PowerIs
  <2>3. j < k \/ p <= q
    BY <1>1
  <2>4. j + 1 = k => p = r
    OBVIOUS
  <2> HIDE DEF p, q, r
  <2>5. j + 1 < k \/ p <= r
    BY <2>1, <2>2, <2>3, <2>4
  <2> QED BY <2>1, <2>5 DEF p, r
<1>2. 0 \in S
  <2>1. Power(base, 0) \in Nat
    BY PowerIs
  <2>2. k = 0 => Power(base, k) <= Power(base, 0)
    BY <2>1
  <2> QED BY <2>2
<1> HIDE DEF S
<1>3. n \in S
  BY <1>1, <1>2, UpToInduction
<1> QED BY <1>3 DEF S

\* How many digits a number has.
Size(v, base) ==
    CHOOSE n \in 1 .. v + 1 : v < Power(base, n) /\ (n = 1 \/ v >= Power(base, n - 1))

LEMMA SizeIs ==
    ASSUME NEW v \in Nat, NEW base \in Nat, 2 <= base
    PROVE  /\ Size(v, base) \in Nat \ {0} /\ v < Power(base, Size(v, base))
           /\ Size(v, base) = 1 \/ v >= Power(base, Size(v, base) - 1)
           /\ \A k \in 1 .. Size(v, base) - 1 : v >= Power(base, k)
           /\ v = 0 => Size(v, base) = 1
<1> DEFINE Above(n) == v < Power(base, n)
           T == {n \in 1 .. v + 1 : Above(n)}
           Q(n) == Above(n) /\ (n = 1 \/ v >= Power(base, n - 1))
           m == Size(v, base)
<1>1. v + 1 \in T /\ T \subseteq Nat
  <2>1. v + 1 \in Nat /\ v + 1 \in 1 .. v + 1 /\ v \in Nat
    OBVIOUS
  <2>2. Power(base, v + 1) \in Nat /\ Power(base, v + 1) > v + 1
    BY <2>1, PowerIs
  <2>3. Above(v + 1)
    BY <2>2
  <2> HIDE DEF Above
  <2> QED BY <2>1, <2>3
<1>2. PICK n \in T : \A y \in T : n <= y
  <2> HIDE DEF T
  <2> QED BY <1>1, LeastNat
<1>3. ASSUME n # 1 PROVE v >= Power(base, n - 1)
  <2>1. n - 1 \in 1 .. v + 1 /\ ~(n <= n - 1) /\ n - 1 \in Nat
    BY <1>3
  <2>2. n - 1 \notin T
    <3> HIDE DEF T
    <3> QED BY <1>2, <2>1
  <2>3. ~Above(n - 1)
    <3> HIDE DEF Above
    <3> QED BY <2>1, <2>2
  <2>4. Power(base, n - 1) \in Nat
    BY <2>1, PowerIs
  <2> QED BY <2>3, <2>4
<1>4. n \in 1 .. v + 1 /\ Q(n)
  <2>1. n \in 1 .. v + 1 /\ Above(n)
    <3> HIDE DEF Above
    <3> QED OBVIOUS
  <2> HIDE DEF Above
  <2> QED BY <1>3, <2>1
<1>5. m \in 1 .. v + 1 /\ Q(m)
  <2> HIDE DEF Q
  <2>1. m = CHOOSE i \in 1 .. v + 1 : Q(i)
    BY DEF Size, Q
  <2> QED BY <1>4, <2>1
<1> HIDE DEF m
<1>6. ASSUME NEW k \in 1 .. m - 1 PROVE v >= Power(base, k)
  <2>1. m - 1 \in Nat /\ k \in 0 .. m - 1 /\ m # 1 /\ k \in Nat
    BY <1>5
  <2>2. Power(base, k) <= Power(base, m - 1)
    BY <2>1, PowerMonotone
  <2>3. Power(base, k) \in Nat /\ Power(base, m - 1) \in Nat
    BY <2>1, PowerIs
  <2>4. v >= Power(base, m - 1)
    BY <1>5, <2>1
  <2> QED BY <2>2, <2>3, <2>4
<1>7. v = 0 => m = 1
  BY <1>5
<1>8. m \in Nat \ {0}
  BY <1>5
<1> QED BY <1>5, <1>6, <1>7, <1>8 DEF m

\* The buffer has room for all digits, or for BufferSize of them.
LEMMA DigitCountIsSize ==
    ASSUME NEW v \in Nat, NEW base \in Nat, 2 <= base
    PROVE  DigitCount(v, base) = Least(Size(v, base), BufferSize)
<1> DEFINE d == DigitCount(v, base)
           n == Size(v, base)
           B == BufferSize
<1>1. /\ d \in 1 .. B /\ (Quotient(v, base, d) = 0 \/ d = B)
      /\ \A k \in 1 .. d - 1 : Quotient(v, base, k) # 0
  BY DigitCountIs
<1>2. /\ n \in Nat \ {0} /\ v < Power(base, n)
      /\ \A k \in 1 .. n - 1 : v >= Power(base, k)
  BY SizeIs
<1>3. B \in Nat \ {0}
  BY SizeAssumption
<1> HIDE DEF d, n, B
<1>4. ASSUME NEW k \in Nat PROVE Quotient(v, base, k) = 0 <=> v < Power(base, k)
  BY QuotientIs
<1>5. ~(d > n)
  <2> SUFFICES ASSUME d > n PROVE FALSE
    OBVIOUS
  <2>1. n \in 1 .. d - 1 /\ n \in Nat
    BY <1>1, <1>2
  <2> QED BY <1>1, <1>2, <1>4, <2>1
<1>6. ASSUME d < n PROVE d = B
  <2>1. d \in 1 .. n - 1 /\ d \in Nat
    BY <1>1, <1>2, <1>6
  <2>2. v >= Power(base, d) /\ Power(base, d) \in Nat
    BY <1>2, <2>1, PowerIs
  <2>3. ~(v < Power(base, d))
    BY <2>2
  <2> QED BY <1>1, <1>4, <2>1, <2>3
<1>7. d = Least(n, B)
  BY <1>1, <1>2, <1>3, <1>5, <1>6 DEF Least
<1> QED BY <1>7 DEF d, n, B

LEMMA NumeralOfIs ==
    ASSUME NEW v \in Nat, NEW base \in Nat, 2 <= base, NEW glyphs
    PROVE  /\ IsText(NumeralOf(v, base, glyphs))
           /\ Len(NumeralOf(v, base, glyphs)) = Size(v, base)
           /\ \A i \in 1 .. Size(v, base) :
                 NumeralOf(v, base, glyphs)[i] =
                     glyphs[((v \div Power(base, Size(v, base) - i)) % base) + 1]
<1> DEFINE n == Size(v, base)
           t == [i \in 1 .. n |-> glyphs[((v \div Power(base, n - i)) % base) + 1]]
<1>1. NumeralOf(v, base, glyphs) = t
  BY DEF NumeralOf, Size
<1>2. n \in Nat
  BY SizeIs
<1>3. /\ DOMAIN t = 1 .. n /\ t = [i \in 1 .. n |-> t[i]]
      /\ \A i \in 1 .. n : t[i] = glyphs[((v \div Power(base, n - i)) % base) + 1]
  OBVIOUS
<1> HIDE DEF t, n
<1>4. IsText(t) /\ Len(t) = n
  BY <1>2, <1>3, FunctionIsText
<1> QED BY <1>1, <1>3, <1>4 DEF n

\* The digits collected are those of the numeral, the last one first.
LEMMA DigitsHold ==
    ASSUME NEW v \in Nat, NEW base \in Nat, 2 <= base, NEW fl,
           ~("precision" \in fl /\ v = 0)
    PROVE  Holds(Digits(v, base, fl),
                 NumeralOf(v, base, Glyphs(fl)))
<1> DEFINE g == Glyphs(fl)
           b == Digits(v, base, fl)
           t == NumeralOf(v, base, g)
           n == Size(v, base)
           d == DigitCount(v, base)
<1>1. /\ IsText(b) /\ Len(b) = d
      /\ \A i \in 1 .. d : b[i] = g[(Quotient(v, base, i - 1) % base) + 1]
  BY DigitsAre
<1> HIDE DEF g, b
<1>2. /\ IsText(t) /\ Len(t) = n
      /\ \A i \in 1 .. n : t[i] = g[((v \div Power(base, n - i)) % base) + 1]
  BY NumeralOfIs
<1>3. d = Least(n, BufferSize) /\ n \in Nat \ {0} /\ BufferSize \in Nat
  BY DigitCountIsSize, SizeIs, SizeAssumption
<1> HIDE DEF t, d, n
<1>4. d \in Nat /\ d <= n
  BY <1>3 DEF Least
<1>5. ASSUME NEW i \in 1 .. d PROVE b[i] = t[n + 1 - i]
  <2>1. n + 1 - i \in 1 .. n /\ n - (n + 1 - i) = i - 1 /\ i - 1 \in Nat
    BY <1>3, <1>4
  <2>2. Quotient(v, base, i - 1) = v \div Power(base, i - 1)
    BY <2>1, QuotientIs
  <2>3. t[n + 1 - i] = g[((v \div Power(base, n - (n + 1 - i))) % base) + 1]
    BY <1>2, <2>1
  <2>4. t[n + 1 - i] = g[((v \div Power(base, i - 1)) % base) + 1]
    BY <2>1, <2>3
  <2> QED BY <1>1, <2>2, <2>4
<1>6. Holds(b, t)
  BY <1>1, <1>2, <1>3, <1>5 DEF Holds
<1> QED BY <1>6 DEF b, t, g

LEMMA ZeroNumeral ==
    ASSUME NEW base \in Nat, 2 <= base, NEW glyphs, glyphs[1] = "0"
    PROVE  NumeralOf(0, base, glyphs) = <<"0">>
<1> DEFINE t == NumeralOf(0, base, glyphs)
<1>1. Size(0, base) = 1
  BY SizeIs
<1>2. /\ IsText(t) /\ Len(t) = 1
      /\ t[1] = glyphs[((0 \div Power(base, 1 - 1)) % base) + 1]
  <2>1. 0 \in Nat /\ 1 \in 1 .. 1
    OBVIOUS
  <2>2. /\ IsText(t) /\ Len(t) = Size(0, base)
        /\ \A i \in 1 .. Size(0, base) :
              t[i] = glyphs[((0 \div Power(base, Size(0, base) - i)) % base) + 1]
    BY <2>1, NumeralOfIs, Zenon
  <2> QED BY <1>1, <2>1, <2>2, Zenon
<1>3. 1 - 1 = 0 /\ Power(base, 0) = 1 /\ ((0 \div 1) % base) + 1 = 1
  <2>1. 0 \div 1 = 0 /\ 0 % base = 0
    OBVIOUS
  <2> QED BY <2>1, PowerIs
<1> HIDE DEF t
<1>4. t[1] = "0"
  BY <1>2, <1>3
<1>5. IsText(<<"0">>) /\ Len(<<"0">>) = 1 /\ <<"0">>[1] = "0"
  BY SingleText
<1>6. t = <<"0">>
  BY <1>2, <1>4, <1>5, SameTexts
<1> QED BY <1>6 DEF t

\* A numeral does not begin with a zero, but that of zero.
LEMMA LeadingDigit ==
    ASSUME NEW v \in Nat \ {0}, NEW base \in 2 .. 16
    PROVE  NumeralOf(v, base, Digit)[1] # "0"
<1> DEFINE n == Size(v, base)
           t == NumeralOf(v, base, Digit)
           p == Power(base, n - 1)
           q == v \div p
<1>0. base \in Nat /\ 2 <= base
  OBVIOUS
<1>1. /\ n \in Nat \ {0} /\ v < Power(base, n) /\ (n = 1 \/ v >= p)
  BY <1>0, SizeIs
<1>2. 1 \in 1 .. n /\ n - 1 \in Nat /\ (n - 1) + 1 = n
  BY <1>1
<1>3. t[1] = Digit[(q % base) + 1]
  BY <1>0, <1>2, NumeralOfIs
<1>4. p \in Nat \ {0} /\ Power(base, n) = base * p /\ (n = 1 => p = 1)
  BY <1>0, <1>2, PowerIs
<1> HIDE DEF p
<1>5. q \in Nat /\ v % p \in 0 .. p - 1 /\ v = p * q + (v % p)
  BY <1>4
<1> DEFINE r == v % p
<1> HIDE DEF q, r, n
<1>6. v < base * p /\ v >= p /\ v = p * q + r /\ r \in 0 .. p - 1
  <2>1. r = v % p
    BY DEF r
  <2> QED BY <1>1, <1>4, <1>5, <2>1
<1>7. q # 0
  <2> SUFFICES ASSUME q = 0 PROVE FALSE
    OBVIOUS
  <2>1. p * q = 0
    BY <1>4
  <2> QED BY <1>4, <1>6, <2>1
<1>8. q < base
  <2> SUFFICES ASSUME q >= base PROVE FALSE
    BY <1>0, <1>5
  <2>1. q - base \in Nat
    BY <1>0, <1>5
  <2>2. p * (q - base) \in Nat
    BY <1>4, <2>1
  <2>3. p * (q - base) = p * q - base * p
    BY <1>0, <1>4, <1>5
  <2>4. p * q >= base * p
    <3> DEFINE x == p * q
               y == base * p
               z == p * (q - base)
    <3>1. x \in Int /\ y \in Int /\ z = x - y /\ z \in Nat
      BY <1>0, <1>4, <1>5, <2>2, <2>3
    <3> HIDE DEF x, y, z
    <3>2. x >= y
      BY <3>1
    <3> QED BY <3>2 DEF x, y
  <2> QED BY <1>0, <1>4, <1>5, <1>6, <2>4
<1>9. q \in 1 .. 15 /\ q % base = q
  BY <1>0, <1>5, <1>7, <1>8
<1>10. \A d \in 1 .. 15 : Digit[d + 1] # "0"
  BY DEF Digit
<1> QED BY <1>3, <1>9, <1>10 DEF t, q

-----------------------------------------------------------------------------
(* A number in its field.                                                  *)

\* The digits a number is to have, with the zeros of a precision.
Bare(v, base, prec, fl) ==
    IF "precision" \in fl /\ prec = 0 /\ v = 0 THEN <<>>
    ELSE NumeralOf(v, base, Glyphs(fl))
DigitsFor(v, base, prec, fl) ==
    Repeat("0", (IF "precision" \in fl THEN prec ELSE 1) - Len(Bare(v, base, prec, fl)))
    \o Bare(v, base, prec, fl)

\* What is in front of them.
ZerosFor(v, base, prec, w, fl) ==
    IF "0" \in fl /\ "-" \notin fl THEN w - Len(DigitsFor(v, base, prec, fl)) ELSE 0
PrefixFor(base, fl) ==
    IF "#" \notin fl THEN <<>>
    ELSE IF base = 8 THEN <<"0">>
    ELSE IF base = 2 THEN <<"0", "b">>
    ELSE IF "upper" \in fl THEN <<"0", "X">> ELSE <<"0", "x">>
SignFor(negative, fl) ==
    IF negative THEN <<"-">>
    ELSE IF "+" \in fl THEN <<"+">>
    ELSE IF " " \in fl THEN <<" ">> ELSE <<>>

\* A precision excludes justification to the left, and zeros for the width.
FlagsFit(prec, fl) ==
    /\ "-" \in fl => "precision" \notin fl
    /\ "0" \in fl => "precision" \notin fl
    /\ "precision" \notin fl => prec = 0

\* What is asked of a number with a prefix.
HashFits(v, base, w, fl) ==
    "#" \in fl =>
        /\ v # 0 /\ base \in {2, 8, 16} /\ "precision" \notin fl
        /\ w \in Nat /\ w - Size(v, base) \notin {0, 1}
        /\ base = 2 => "0" \notin fl
        /\ Most(Size(v, base) + 3, IF "0" \in fl THEN w ELSE 0) <= BufferSize

LEMMA NoRepeat == ASSUME NEW ch, NEW n \in Int, n <= 0, NEW t, IsText(t)
                  PROVE  Repeat(ch, n) = <<>> /\ Repeat(ch, n) \o t = t
  BY RepeatIs, EmptyJoined

LEMMA OneZero == Repeat("0", 1) = <<"0">>
<1>1. Most(1, 0) = 1
  BY DEF Most
<1>2. IsText(Repeat("0", 1)) /\ Len(Repeat("0", 1)) = 1 /\ Repeat("0", 1)[1] = "0"
  BY <1>1, RepeatIs
<1>3. IsText(<<"0">>) /\ Len(<<"0">>) = 1 /\ <<"0">>[1] = "0"
  BY SingleText
<1> QED BY <1>2, <1>3, SameTexts

LEMMA DigitsForIs ==
    ASSUME NEW v \in Nat, NEW base \in Nat, 2 <= base, NEW prec \in Nat, NEW fl
    PROVE  /\ IsText(Bare(v, base, prec, fl)) /\ IsText(DigitsFor(v, base, prec, fl))
           /\ "precision" \notin fl =>
                /\ DigitsFor(v, base, prec, fl) = NumeralOf(v, base, Glyphs(fl))
                /\ Len(DigitsFor(v, base, prec, fl)) = Size(v, base)
<1> DEFINE t == NumeralOf(v, base, Glyphs(fl))
           bare == Bare(v, base, prec, fl)
           x == (IF "precision" \in fl THEN prec ELSE 1) - Len(bare)
<1>1. IsText(t) /\ Len(t) = Size(v, base) /\ Size(v, base) \in Nat \ {0}
  BY NumeralOfIs, SizeIs
<1> HIDE DEF t
<1>2. IsText(bare) /\ ("precision" \notin fl => bare = t)
  BY <1>1, EmptyText DEF Bare, t
<1>3. DigitsFor(v, base, prec, fl) = Repeat("0", x) \o bare
  BY DEF DigitsFor
<1> HIDE DEF bare
<1>4. Len(bare) \in Nat /\ x \in Int
  BY <1>2 DEF IsText
<1>5. "precision" \notin fl => x <= 0
  BY <1>1, <1>2
<1> HIDE DEF x
<1>6. IsText(Repeat("0", x) \o bare)
  BY <1>2, <1>4, Repeating, Concatenation
<1>7. "precision" \notin fl => Repeat("0", x) \o bare = t
  BY <1>2, <1>4, <1>5, NoRepeat
<1> QED BY <1>1, <1>2, <1>3, <1>6, <1>7 DEF bare, t

\* The zeros in front, of the precision or of the width.
LEMMA PaddedHolds ==
    ASSUME NEW v \in Nat, NEW base \in Nat, 2 <= base, NEW prec \in Nat, NEW w \in Int,
           NEW fl, FlagsFit(prec, fl)
    PROVE  Holds(Padded(Digits(v, base, fl), prec, w, fl),
                 Repeat("0", ZerosFor(v, base, prec, w, fl)) \o DigitsFor(v, base, prec, fl))
<1> DEFINE b == Digits(v, base, fl)
           t == NumeralOf(v, base, Glyphs(fl))
           d == DigitsFor(v, base, prec, fl)
           z == ZerosFor(v, base, prec, w, fl)
           p == Padded(b, prec, w, fl)
           n == Len(t)
<1>1. IsText(t) /\ n \in Nat \ {0} /\ IsText(d)
  BY NumeralOfIs, SizeIs, DigitsForIs
<1>2. ~("precision" \in fl /\ v = 0) => Holds(b, t)
  <2> HIDE DEF b, t
  <2> QED BY DigitsHold DEF b, t
<1> SUFFICES Holds(p, Repeat("0", z) \o d)
  OBVIOUS
<1>3. CASE "precision" \in fl
  <2>1. "-" \notin fl /\ "0" \notin fl /\ z = 0 /\ p = ZerosTo(b, prec)
    BY <1>3 DEF FlagsFit, ZerosFor, Padded
  <2>2. Repeat("0", z) \o d = d
    <3> HIDE DEF d, z
    <3> QED BY <1>1, <2>1, NoRepeat
  <2>3. CASE v = 0 /\ prec = 0
    <3>1. b = <<>> /\ Bare(v, base, prec, fl) = <<>>
      BY <1>3, <2>3 DEF Digits, Bare
    <3>2. Holds(<<>>, <<>>)
      BY EmptyText, SizeAssumption DEF Holds, Least
    <3>3. Holds(ZerosTo(<<>>, prec), Repeat("0", prec - Len(<<>>)) \o <<>>)
      <4>1. prec \in Int
        OBVIOUS
      <4> QED BY <3>2, <4>1, ZerosHold, Zenon
    <3>4. d = Repeat("0", prec - Len(<<>>)) \o <<>>
      BY <1>3, <3>1 DEF DigitsFor
    <3>5. Holds(p, d)
      <4> HIDE DEF p, b, d, z
      <4> QED BY <2>1, <3>1, <3>3, <3>4
    <3> HIDE DEF p, d, z
    <3> QED BY <2>2, <3>5
  <2>4. CASE v = 0 /\ prec # 0
    <3>1. b = <<>>
      BY <1>3, <2>4 DEF Digits
    <3>2. Holds(<<>>, <<>>)
      BY EmptyText, SizeAssumption DEF Holds, Least
    <3>3. Holds(ZerosTo(<<>>, prec), Repeat("0", prec - Len(<<>>)) \o <<>>)
      <4>1. prec \in Int
        OBVIOUS
      <4> QED BY <3>2, <4>1, ZerosHold, Zenon
    <3>4. Bare(v, base, prec, fl) = <<"0">>
      <4>1. Glyphs(fl)[1] = "0"
        BY DEF Glyphs, Digit, Upper
      <4>2. NumeralOf(0, base, Glyphs(fl)) = <<"0">>
        BY <4>1, ZeroNumeral
      <4> QED BY <2>4, <4>2 DEF Bare
    <3>5. d = Repeat("0", prec - 1) \o <<"0">>
      <4>1. Len(<<"0">>) = 1
        BY SingleText
      <4> QED BY <1>3, <3>4, <4>1 DEF DigitsFor
    <3>6. Repeat("0", prec - Len(<<>>)) \o <<>> = Repeat("0", prec - 1) \o <<"0">>
      <4>1. prec - 1 \in Nat /\ (prec - 1) + 1 = prec /\ prec - Len(<<>>) = prec
        BY <2>4, EmptyText
      <4>2. Repeat("0", prec) = Repeat("0", prec - 1) \o Repeat("0", 1)
        <5> DEFINE m == prec - 1
        <5>1. m \in Nat /\ 1 \in Nat /\ m + 1 = prec
          BY <4>1
        <5> HIDE DEF m
        <5>2. Repeat("0", m + 1) = Repeat("0", m) \o Repeat("0", 1)
          BY <5>1, RepeatSplit
        <5> QED BY <5>1, <5>2 DEF m
      <4>3. Repeat("0", prec) \o <<>> = Repeat("0", prec)
        BY Repeating, EmptyJoined
      <4> QED BY <4>1, <4>2, <4>3, OneZero
    <3>7. Holds(p, d)
      <4> HIDE DEF p, b, d, z
      <4> QED BY <2>1, <3>1, <3>3, <3>5, <3>6
    <3> HIDE DEF p, d, z
    <3> QED BY <2>2, <3>7
  <2>5. CASE v # 0
    <3>1. Bare(v, base, prec, fl) = t
      BY <2>5 DEF Bare
    <3>2. d = Repeat("0", prec - Len(t)) \o t
      BY <1>3, <3>1 DEF DigitsFor
    <3> HIDE DEF b, t, d, p, z
    <3>3. Holds(ZerosTo(b, prec), Repeat("0", prec - Len(t)) \o t)
      BY <1>2, <2>5, ZerosHold
    <3> QED BY <2>1, <2>2, <3>2, <3>3
  <2> QED BY <2>3, <2>4, <2>5
<1>4. CASE "precision" \notin fl
  <2>1. d = t /\ prec = 0 /\ Holds(b, t)
    BY <1>2, <1>4, DigitsForIs DEF FlagsFit
  <2> HIDE DEF b, t, d
  <2>2. Holds(ZerosTo(b, 0), t)
    <3>1. Holds(ZerosTo(b, 0), Repeat("0", 0 - Len(t)) \o t)
      <4>1. 0 \in Int
        OBVIOUS
      <4> QED BY <2>1, <4>1, ZerosHold, Zenon
    <3>2. 0 - Len(t) \in Int /\ 0 - Len(t) <= 0
      BY <1>1
    <3>3. Repeat("0", 0 - Len(t)) \o t = t
      BY <1>1, <3>2, NoRepeat
    <3> QED BY <3>1, <3>3
  <2>3. CASE "-" \in fl
    <3>1. z = 0 /\ p = b
      BY <2>3 DEF ZerosFor, Padded
    <3> HIDE DEF p, z
    <3>2. Repeat("0", z) \o d = t
      BY <1>1, <2>1, <3>1, NoRepeat
    <3> QED BY <2>1, <3>1, <3>2
  <2>4. CASE "-" \notin fl /\ "0" \in fl
    <3>1. z = w - Len(d) /\ p = ZerosTo(ZerosTo(b, 0), w)
      BY <2>1, <2>4 DEF ZerosFor, Padded, d
    <3>2. Holds(ZerosTo(ZerosTo(b, 0), w), Repeat("0", w - Len(t)) \o t)
      BY <2>2, ZerosHold
    <3> HIDE DEF p, z
    <3> QED BY <2>1, <3>1, <3>2
  <2>5. CASE "-" \notin fl /\ "0" \notin fl
    <3>1. z = 0 /\ p = ZerosTo(b, 0)
      BY <2>1, <2>5 DEF ZerosFor, Padded
    <3>2. Repeat("0", z) \o d = t
      BY <1>1, <2>1, <3>1, NoRepeat
    <3> HIDE DEF p, z
    <3> QED BY <2>2, <3>1, <3>2
  <2> QED BY <2>3, <2>4, <2>5
<1> QED BY <1>3, <1>4

LEMMA PrefixForIs ==
    ASSUME NEW base, NEW fl
    PROVE  IsText(PrefixFor(base, fl)) /\ Len(PrefixFor(base, fl)) \in Nat
<1>1. \A c : IsText(<<"0", c>>)
  <2> SUFFICES ASSUME NEW c PROVE IsText(<<"0", c>>)
    OBVIOUS
  <2>1. <<"0", c>> \in Seq({"0", c})
    OBVIOUS
  <2> QED BY <2>1, SeqIsText
<1>2. IsText(PrefixFor(base, fl))
  BY <1>1, SingleText, EmptyText DEF PrefixFor
<1> QED BY <1>2 DEF IsText

\* With # the prefix takes the place of zeros that were padded for it.
LEMMA HashedHolds ==
    ASSUME NEW v \in Nat, NEW base \in Nat, 2 <= base, NEW prec \in Nat, NEW w \in Int,
           NEW fl, FlagsFit(prec, fl), HashFits(v, base, w, fl)
    PROVE  Holds(Hashed(Padded(Digits(v, base, fl), prec, w, fl), base, prec, w, fl),
                 PrefixFor(base, fl)
                 \o (Repeat("0", ZerosFor(v, base, prec, w, fl) - Len(PrefixFor(base, fl)))
                     \o DigitsFor(v, base, prec, fl)))
<1> DEFINE b == Padded(Digits(v, base, fl), prec, w, fl)
           d == DigitsFor(v, base, prec, fl)
           z == ZerosFor(v, base, prec, w, fl)
           x == PrefixFor(base, fl)
           h == Hashed(b, base, prec, w, fl)
           c == Len(x)
           r == Repeat("0", z - c) \o d
<1> SUFFICES Holds(h, x \o r)
  OBVIOUS
<1>1. Holds(b, Repeat("0", z) \o d) /\ IsText(d) /\ IsText(x) /\ c \in Nat
  BY PaddedHolds, DigitsForIs, PrefixForIs
<1>2. z \in Int
  BY <1>1 DEF ZerosFor, IsText
<1>3. IsText(r)
  <2> HIDE DEF z, d, c
  <2>1. z - c \in Int
    BY <1>1, <1>2
  <2> QED BY <1>1, <2>1, Repeating, Concatenation
<1>4. CASE "#" \notin fl
  <2>1. h = b /\ x = <<>> /\ c = 0
    BY <1>4, EmptyText DEF Hashed, PrefixFor
  <2> HIDE DEF z, d, x, h, b
  <2>2. r = Repeat("0", z) \o d
    <3>1. z - c = z
      BY <1>2, <2>1
    <3> QED BY <3>1
  <2> HIDE DEF r
  <2> QED BY <1>1, <1>3, <2>1, <2>2, EmptyJoined
<1>5. CASE "#" \in fl
  <2> DEFINE n == Size(v, base)
             N == Len(b)
             filled == "precision" \notin fl /\ N > 0 /\ (N = prec \/ N = w)
             cut == IF ~filled THEN 0 ELSE IF N > 1 /\ base = 16 THEN 2 ELSE 1
             room == SubSeq(b, 1, N - cut)
             ch == IF base = 16 THEN (IF "upper" \in fl THEN "X" ELSE "x") ELSE "b"
             letter == IF base = 16 \/ base = 2 THEN Add(room, ch) ELSE room
             zeroed == "0" \in fl /\ "-" \notin fl
  <2>1. /\ base \in {2, 8, 16} /\ "precision" \notin fl /\ prec = 0
        /\ w \in Nat /\ w - n \notin {0, 1} /\ (base = 2 => "0" \notin fl)
        /\ Most(n + 3, IF "0" \in fl THEN w ELSE 0) <= BufferSize
        /\ n \in Nat \ {0} /\ BufferSize \in Nat /\ Len(d) = n
    BY <1>5, DigitsForIs, SizeIs, SizeAssumption DEF HashFits, FlagsFit
  <2>2. h = Add(letter, "0")
    <3>1. base = 16 \/ base = 2 \/ base = 8
      BY <2>1
    <3>2. CASE base = 16
      BY <1>5, <3>2 DEF Hashed
    <3>3. CASE base = 2
      BY <1>5, <3>3 DEF Hashed
    <3>4. CASE base = 8
      BY <1>5, <3>4 DEF Hashed
    <3> QED BY <3>1, <3>2, <3>3, <3>4
  <2>3. z = IF zeroed THEN w - n ELSE 0
    BY <2>1 DEF ZerosFor
  <2>4. base # 8 => x = <<"0", ch>> /\ c = 2
    <3>1. base # 8 => x = <<"0", ch>>
      BY <1>5, <2>1 DEF PrefixFor
    <3> HIDE DEF ch, x
    <3> QED BY <3>1
  <2>5. base = 8 => x = <<"0">> /\ c = 1
    BY <1>5, SingleText DEF PrefixFor
  <2> HIDE DEF n, z, d, b, x, ch, h
  <2>6. N = Most(z, 0) + n /\ z \in Int
    <3> DEFINE u == Repeat("0", z) \o d
    <3>1. Len(u) = Most(z, 0) + n /\ Most(z, 0) \in Nat
      <4>1. IsText(Repeat("0", z)) /\ Len(Repeat("0", z)) = Most(z, 0) /\ Most(z, 0) \in Nat
        BY <1>2, RepeatIs
      <4>2. Len(u) = Len(Repeat("0", z)) + Len(d)
        BY <1>1, <4>1, Concatenation
      <4> QED BY <2>1, <4>1, <4>2
    <3>2. N = Least(Len(u), BufferSize)
      BY <1>1 DEF Holds
    <3> HIDE DEF u
    <3>3. Most(z, 0) + n <= BufferSize
      <4>1. CASE zeroed
        <5>1. Most(n + 3, w) <= BufferSize /\ z = w - n
          BY <2>1, <2>3, <4>1
        <5> QED BY <2>1, <5>1 DEF Most
      <4>2. CASE ~zeroed
        <5>1. z = 0 /\ n + 3 <= BufferSize
          <6>1. \A y \in Nat : Most(n + 3, y) >= n + 3 /\ Most(n + 3, y) \in Int
            BY <2>1 DEF Most
          <6>2. (IF "0" \in fl THEN w ELSE 0) \in Nat
            BY <2>1
          <6> DEFINE y == IF "0" \in fl THEN w ELSE 0
          <6>3. y \in Nat /\ Most(n + 3, y) <= BufferSize
            BY <2>1, <6>2
          <6> HIDE DEF y
          <6>4. n + 3 <= BufferSize
            BY <2>1, <6>1, <6>3
          <6>5. z = 0
            BY <2>3, <4>2
          <6> QED BY <6>4, <6>5
        <5> QED BY <2>1, <5>1 DEF Most
      <4> QED BY <4>1, <4>2
    <3> QED BY <1>2, <2>1, <3>1, <3>2, <3>3 DEF Least
  <2>7. Holds(room, r)
    <3>1. CASE filled
      <4>1. N = w /\ N > 0
        BY <2>1, <3>1
      <4>2. zeroed /\ z = w - n /\ z >= 2 /\ N > 1
        <5>1. CASE ~zeroed
          <6>1. N = n
            BY <2>1, <2>3, <2>6, <5>1 DEF Most
          <6> QED BY <2>1, <4>1, <6>1
        <5>2. CASE zeroed
          BY <2>1, <2>3, <2>6, <4>1, <5>2 DEF Most
        <5> QED BY <5>1, <5>2
      <4>3. base # 2
        BY <2>1, <4>2
      <4>4. cut = c /\ c \in {1, 2}
        <5>1. CASE base = 16
          BY <2>4, <3>1, <4>2, <5>1
        <5>2. CASE base = 8
          BY <2>5, <3>1, <5>2
        <5> QED BY <2>1, <4>3, <5>1, <5>2
      <4> DEFINE k == z - c
                 s == Repeat("0", c)
                 t == Repeat("0", k)
      <4>5. k \in Nat /\ c \in Nat /\ c + k = z
        <5> HIDE DEF c, cut, N
        <5> QED BY <2>6, <4>2, <4>4
      <4>6. /\ IsText(s) /\ Len(s) = c /\ IsText(t) /\ Len(t) = k
            /\ Repeat("0", z) = s \o t
        <5> HIDE DEF k
        <5>1. Most(c, 0) = c /\ Most(k, 0) = k /\ c \in Int /\ k \in Int
          BY <4>5 DEF Most
        <5>2. IsText(s) /\ Len(s) = c /\ IsText(t) /\ Len(t) = k
          BY <5>1, RepeatIs
        <5>3. Repeat("0", c + k) = s \o t
          BY <4>5, RepeatSplit
        <5> QED BY <4>5, <5>2, <5>3
      <4>7. r = t \o d
        OBVIOUS
      <4> HIDE DEF k, s, t, r, c, cut, N
      <4>8. Holds(b, s \o r)
        <5>1. (s \o t) \o d = s \o r
          BY <1>1, <4>6, <4>7, Associative
        <5>2. Holds(b, (s \o t) \o d)
          BY <1>1, <4>6
        <5> QED BY <5>1, <5>2
      <4>9. Len(s) + Len(r) <= BufferSize
        <5>1. Len(r) = k + n
          BY <1>1, <2>1, <4>6, <4>7, Concatenation
        <5>2. N = Least(Len(s \o r), BufferSize) /\ Len(s \o r) = Len(s) + Len(r)
          BY <1>3, <4>6, <4>8, Concatenation DEF Holds, N
        <5>3. N = z + n
          BY <2>6, <4>2 DEF Most
        <5>4. N \in Nat /\ N <= BufferSize
          BY <2>1, <2>6, <4>6, <5>1, <5>2, <5>3, <4>2 DEF Least
        <5> QED BY <2>1, <4>5, <4>6, <5>1, <5>3, <5>4
      <4>10. Holds(SubSeq(b, 1, N - c), r)
        BY <1>3, <4>6, <4>8, <4>9, CutHolds DEF N
      <4> QED BY <4>4, <4>10
    <3>2. CASE ~filled
      <4>1. cut = 0 /\ N - cut = N
        BY <2>1, <2>6, <3>2 DEF Most
      <4>2. N # w
        BY <2>1, <2>6, <3>2 DEF Most
      <4>3. z <= 0
        <5>1. CASE zeroed
          BY <2>1, <2>3, <2>6, <4>2, <5>1 DEF Most
        <5>2. CASE ~zeroed
          BY <2>3, <5>2
        <5> QED BY <5>1, <5>2
      <4>4. z - c \in Int /\ z - c <= 0
        BY <1>1, <2>6, <4>3
      <4>5. r = d /\ Repeat("0", z) \o d = d
        <5>1. \A y \in Int : y <= 0 => Repeat("0", y) \o d = d
          BY <1>1, NoRepeat
        <5> HIDE DEF c
        <5>2. Repeat("0", z) \o d = d
          BY <2>6, <4>3, <5>1
        <5>3. Repeat("0", z - c) \o d = d
          BY <4>4, <5>1
        <5> QED BY <5>2, <5>3
      <4> HIDE DEF r, cut, N
      <4>6. Holds(b, <<>> \o d)
        BY <1>1, <4>5, EmptyJoined
      <4>7. Len(<<>>) + Len(d) <= BufferSize
        <5>1. N = Least(Len(d), BufferSize) /\ N = n
          <6>1. Most(z, 0) = 0
            BY <2>6, <4>3 DEF Most
          <6> QED BY <1>1, <2>1, <2>6, <4>5, <6>1 DEF Holds, N
        <5> QED BY <2>1, <5>1, EmptyText DEF Least
      <4>8. Holds(SubSeq(b, 1, N - Len(<<>>)), d)
        BY <1>1, <4>6, <4>7, EmptyText, CutHolds DEF N
      <4>9. N - Len(<<>>) = N - cut
        BY <4>1, EmptyText
      <4> QED BY <4>5, <4>8, <4>9
    <3> QED BY <3>1, <3>2
  <2> HIDE DEF room, r
  <2>8. CASE base = 8
    <3>1. letter = room /\ x = <<"0">>
      BY <2>5, <2>8
    <3> HIDE DEF letter
    <3> QED BY <2>2, <2>7, <3>1, AddHolds
  <2>9. CASE base # 8
    <3>1. letter = Add(room, ch) /\ x = <<"0", ch>>
      BY <2>1, <2>4, <2>9
    <3> HIDE DEF letter
    <3>2. Holds(letter, <<ch>> \o r)
      BY <2>7, <3>1, AddHolds
    <3>3. Holds(h, <<"0">> \o (<<ch>> \o r))
      BY <2>2, <3>2, AddHolds
    <3>4. <<"0">> \o (<<ch>> \o r) = x \o r
      <4>1. IsText(<<"0">>) /\ IsText(<<ch>>)
        BY SingleText
      <4>2. (<<"0">> \o <<ch>>) \o r = <<"0">> \o (<<ch>> \o r)
        BY <1>3, <4>1, Associative
      <4> QED BY <3>1, <4>2, PairIs
    <3> QED BY <3>3, <3>4
  <2> QED BY <2>8, <2>9
<1> QED BY <1>4, <1>5

LEMMA SignedHolds ==
    ASSUME NEW b, NEW t, Holds(b, t), NEW negative, NEW fl
    PROVE  /\ Holds(Signed(b, negative, fl), SignFor(negative, fl) \o t)
           /\ IsText(SignFor(negative, fl))
           /\ Len(SignFor(negative, fl)) =
                 IF negative \/ fl \cap {"+", " "} # {} THEN 1 ELSE 0
<1>1. IsText(t) /\ <<>> \o t = t
  BY EmptyJoined DEF Holds
<1>2. Holds(Signed(b, negative, fl), SignFor(negative, fl) \o t)
  BY <1>1, AddHolds DEF Signed, SignFor
<1>3. IsText(SignFor(negative, fl))
  BY SingleText, EmptyText DEF SignFor
<1>4. Len(SignFor(negative, fl)) = IF negative \/ fl \cap {"+", " "} # {} THEN 1 ELSE 0
  <2>1. fl \cap {"+", " "} # {} <=> "+" \in fl \/ " " \in fl
    OBVIOUS
  <2>2. Len(<<"-">>) = 1 /\ Len(<<"+">>) = 1 /\ Len(<<" ">>) = 1 /\ Len(<<>>) = 0
    BY SingleText, EmptyText
  <2>3. CASE negative
    BY <2>2, <2>3 DEF SignFor
  <2>4. CASE ~negative /\ "+" \in fl
    <3>1. SignFor(negative, fl) = <<"+">>
      BY <2>4 DEF SignFor
    <3> QED BY <2>1, <2>2, <2>4, <3>1
  <2>5. CASE ~negative /\ "+" \notin fl /\ " " \in fl
    <3>1. SignFor(negative, fl) = <<" ">>
      BY <2>5 DEF SignFor
    <3> QED BY <2>1, <2>2, <2>5, <3>1
  <2>6. CASE ~negative /\ "+" \notin fl /\ " " \notin fl
    <3>1. SignFor(negative, fl) = <<>>
      BY <2>6 DEF SignFor
    <3> QED BY <2>1, <2>2, <2>6, <3>1
  <2> QED BY <2>3, <2>4, <2>5, <2>6
<1> QED BY <1>2, <1>3, <1>4

\* A number in its field: what MeantInteger says of it, in these terms.
MeantNumber(v, negative, base, prec, w, fl0) ==
    LET fl == IF v = 0 THEN fl0 \ {"#"} ELSE fl0
        head == SignFor(negative, fl) \o PrefixFor(base, fl)
        digits == DigitsFor(v, base, prec, fl)
        zeroed == "0" \in fl /\ "-" \notin fl
        zeros == IF zeroed THEN w - Len(head) - Len(digits) ELSE 0
        number == LastOf(BufferSize, head \o Repeat("0", zeros) \o digits)
        spaces == IF zeroed THEN <<>> ELSE Repeat(" ", w - Len(number))
    IN  IF "-" \in fl THEN number \o spaces ELSE spaces \o number

\* A number with a prefix has no sign, and its zeros fit.
PrefixFits(v, negative, base, w, fl0) ==
    v # 0 => /\ HashFits(v, base, w, fl0)
             /\ "#" \in fl0 => ~negative /\ fl0 \cap {"+", " "} = {}

LEMMA NumberMeans ==
    ASSUME NEW v \in Nat, NEW negative, NEW base \in Nat, 2 <= base,
           NEW prec \in Nat, NEW w \in Nat, NEW fl0, FlagsFit(prec, fl0),
           PrefixFits(v, negative, base, w, fl0)
    PROVE  Number(v, negative, base, prec, w, fl0) =
               MeantNumber(v, negative, base, prec, w, fl0)
<1> DEFINE fl == IF v = 0 THEN fl0 \ {"#"} ELSE fl0
           ww == ZeroWidth(negative, w, fl)
           b == Padded(Digits(v, base, fl), prec, ww, fl)
           g == Hashed(b, base, prec, ww, fl)
           h == Signed(g, negative, fl)
           s == SignFor(negative, fl)
           x == PrefixFor(base, fl)
           c == Len(x)
           d == DigitsFor(v, base, prec, fl)
           z == ZerosFor(v, base, prec, ww, fl)
           head == s \o x
           zeroed == "0" \in fl /\ "-" \notin fl
           zeros == IF zeroed THEN w - Len(head) - Len(d) ELSE 0
           number == LastOf(BufferSize, head \o Repeat("0", zeros) \o d)
           spaces == IF zeroed THEN <<>> ELSE Repeat(" ", w - Len(number))
           signed == negative \/ fl \cap {"+", " "} # {}
<1>1. Number(v, negative, base, prec, w, fl0) = Justified(h, ww, fl)
  BY DEF Number
<1>2. MeantNumber(v, negative, base, prec, w, fl0) =
         IF "-" \in fl THEN number \o spaces ELSE spaces \o number
  BY DEF MeantNumber
<1>3. \A e : e # "#" => (e \in fl <=> e \in fl0)
  OBVIOUS
<1>4. "#" \in fl => v # 0 /\ fl = fl0
  OBVIOUS
<1> HIDE DEF fl
<1>4a. signed \in BOOLEAN /\ zeroed \in BOOLEAN
  OBVIOUS
<1>5. FlagsFit(prec, fl)
  BY <1>3 DEF FlagsFit
<1>6. ww = IF w > 0 /\ zeroed /\ signed THEN w - 1 ELSE w
  BY DEF ZeroWidth
<1>7. ww \in Int
  <2>1. w - 1 \in Int /\ w \in Int
    OBVIOUS
  <2>2. ww = w \/ ww = w - 1
    BY <1>6
  <2> HIDE DEF ww
  <2> QED BY <2>1, <2>2
<1>8. HashFits(v, base, ww, fl)
  <2> SUFFICES ASSUME "#" \in fl PROVE HashFits(v, base, ww, fl)
    BY DEF HashFits
  <2>1. ~signed /\ HashFits(v, base, w, fl)
    BY <1>4 DEF PrefixFits
  <2>2. ww = w
    BY <1>6, <2>1
  <2> HIDE DEF ww
  <2> QED BY <2>1, <2>2
<1> HIDE DEF ww
<1>9. Holds(g, x \o (Repeat("0", z - c) \o d))
  BY <1>5, <1>7, <1>8, HashedHolds
<1>10. /\ IsText(x) /\ c \in Nat /\ IsText(d) /\ Len(d) \in Nat
  <2>1. IsText(x) /\ IsText(d) /\ c \in Nat
    BY PrefixForIs, DigitsForIs
  <2> HIDE DEF d, x
  <2> QED BY <2>1 DEF IsText
<1> HIDE DEF g
<1>11. /\ Holds(h, s \o (x \o (Repeat("0", z - c) \o d)))
       /\ IsText(s) /\ Len(s) = IF signed THEN 1 ELSE 0
  BY <1>9, SignedHolds
<1>12. z = IF zeroed THEN ww - Len(d) ELSE 0
  BY DEF ZerosFor
<1> HIDE DEF s, x, d, z, h
<1>13. /\ IsText(head) /\ Len(head) = Len(s) + c /\ Len(s) \in Nat
       /\ Len(s) = IF signed THEN 1 ELSE 0
  <2>1. Len(s) = IF signed THEN 1 ELSE 0
    BY <1>11
  <2>2. Len(s) \in Nat
    <3>1. Len(s) = 0 \/ Len(s) = 1
      BY <2>1
    <3> QED BY <3>1
  <2>3. IsText(head) /\ Len(head) = Len(s) + c
    BY <1>10, <1>11, Concatenation
  <2> QED BY <2>1, <2>2, <2>3
<1> HIDE DEF zeroed, signed, head, c
<1> DEFINE r == Repeat("0", z - c)
<1>14. z - c \in Int /\ zeros \in Int
  <2>1. CASE zeroed
    BY <1>7, <1>10, <1>12, <1>13, <2>1
  <2>2. CASE ~zeroed
    BY <1>10, <1>12, <2>2
  <2> QED BY <2>1, <2>2
<1>15. r = Repeat("0", zeros) /\ IsText(r)
  <2>1. z - c = zeros \/ (z - c <= 0 /\ zeros <= 0)
    <3>1. CASE zeroed /\ w > 0
      <4>1. z - c = zeros
        <5>0. z = ww - Len(d) /\ zeros = w - Len(head) - Len(d)
          BY <1>12, <3>1
        <5>1. CASE signed
          <6>1. ww = w - 1 /\ Len(s) = 1
            BY <1>6, <1>13, <3>1, <5>1
          <6>2. c \in Nat /\ Len(d) \in Nat /\ Len(head) = 1 + c
            BY <1>10, <1>13, <6>1
          <6>3. z = (w - 1) - Len(d) /\ zeros = w - (1 + c) - Len(d)
            BY <5>0, <6>1, <6>2
          <6> QED BY <6>2, <6>3
        <5>2. CASE ~signed
          <6>1. ww = w /\ Len(s) = 0
            BY <1>6, <1>13, <5>2
          <6>2. c \in Nat /\ Len(d) \in Nat /\ Len(head) = c
            BY <1>10, <1>13, <6>1
          <6>3. z = w - Len(d) /\ zeros = w - c - Len(d)
            BY <5>0, <6>1, <6>2
          <6> QED BY <6>2, <6>3
        <5> QED BY <5>1, <5>2
      <4> QED BY <4>1
    <3>2. CASE zeroed /\ ~(w > 0)
      <4>1. ww = w /\ w = 0 /\ z = ww - Len(d) /\ zeros = w - Len(head) - Len(d)
        BY <1>6, <1>12, <3>2
      <4> QED BY <1>10, <1>13, <4>1
    <3>3. CASE ~zeroed
      <4>1. z = 0 /\ zeros = 0
        BY <1>12, <3>3
      <4> QED BY <1>10, <4>1
    <3> QED BY <3>1, <3>2, <3>3
  <2>2. \A y \in Int : y <= 0 => Repeat("0", y) = <<>>
    BY RepeatIs
  <2> HIDE DEF zeros
  <2>3. CASE z - c = zeros
    BY <1>14, <2>3, Repeating
  <2>4. CASE z - c <= 0 /\ zeros <= 0
    BY <1>14, <2>2, <2>4, Repeating
  <2> QED BY <2>1, <2>3, <2>4
<1> HIDE DEF r, zeros
<1>16. head \o r \o d = s \o (x \o (r \o d))
  <2>0. IsText(s) /\ IsText(x) /\ IsText(r) /\ IsText(d)
    BY <1>10, <1>11, <1>15
  <2>1. (s \o x) \o r = s \o (x \o r)
    BY <2>0, Associative
  <2>1a. IsText(x \o r)
    BY <2>0, Concatenation
  <2>2. (s \o (x \o r)) \o d = s \o ((x \o r) \o d)
    <3> DEFINE y == x \o r
    <3>1. IsText(y)
      BY <2>1a
    <3> HIDE DEF y
    <3>2. (s \o y) \o d = s \o (y \o d)
      BY <2>0, <3>1, Associative
    <3> QED BY <3>2 DEF y
  <2>3. (x \o r) \o d = x \o (r \o d)
    BY <2>0, Associative
  <2>4. head = s \o x
    BY DEF head
  <2> QED BY <2>1, <2>2, <2>3, <2>4
<1>17. Holds(h, head \o r \o d)
  <2>1. Holds(h, s \o (x \o (r \o d)))
    BY <1>11 DEF r
  <2> QED BY <1>16, <2>1
<1>18. /\ Reverse(h) = number /\ IsText(Reverse(h)) /\ Len(number) = Len(h)
  <2>1. number = LastOf(BufferSize, head \o r \o d)
    BY <1>15
  <2> HIDE DEF number
  <2> QED BY <1>17, <2>1, ReverseHolds
<1> HIDE DEF number
<1>19. ASSUME "-" \in fl
       PROVE  Justified(h, ww, fl) = IF "-" \in fl THEN number \o spaces ELSE spaces \o number
  <2>1. ww = w /\ ~zeroed
    BY <1>6, <1>19 DEF zeroed
  <2>2. Justified(h, ww, fl) = Reverse(h) \o Repeat(" ", ww - Len(h))
    BY <1>19 DEF Justified
  <2> QED BY <1>18, <1>19, <2>1, <2>2
<1>20. ASSUME zeroed
       PROVE  Justified(h, ww, fl) = IF "-" \in fl THEN number \o spaces ELSE spaces \o number
  <2>1. Justified(h, ww, fl) = Reverse(h)
    BY <1>20 DEF Justified, zeroed
  <2>2. spaces = <<>> /\ <<>> \o number = number
    BY <1>18, <1>20, EmptyJoined
  <2> QED BY <1>18, <1>20, <2>1, <2>2 DEF zeroed
<1>21. ASSUME "-" \notin fl /\ "0" \notin fl
       PROVE  Justified(h, ww, fl) = IF "-" \in fl THEN number \o spaces ELSE spaces \o number
  <2>1. ww = w /\ ~zeroed
    BY <1>6, <1>21 DEF zeroed
  <2>2. Justified(h, ww, fl) = Repeat(" ", ww - Len(h)) \o Reverse(h)
    BY <1>21 DEF Justified
  <2> QED BY <1>18, <1>21, <2>1, <2>2
<1> HIDE DEF spaces
<1>22. CASE "-" \in fl
  BY <1>1, <1>2, <1>19, <1>22
<1>23. CASE "-" \notin fl
  BY <1>1, <1>2, <1>20, <1>21, <1>23 DEF zeroed
<1> QED BY <1>22, <1>23

-----------------------------------------------------------------------------
(* A directive as it is read, and what it means.                           *)

LeftFlag(item) ==
    IF item.width # <<>> /\ item.width[2] < 0 THEN {"-"} ELSE {}
PrecFlag(item) == IF item.prec # <<>> THEN {"precision"} ELSE {}
ReadFlags(item) ==
    FlagsOf(item) \cup LeftFlag(item) \cup PrecFlag(item) \cup LengthFlags(item.length)
PrecRead(item) == IF item.prec = <<>> THEN 0 ELSE Most(item.prec[2], 0)

FlagsIn(item) == IntegerFlags(item.spec, ReadFlags(item))
ValueIn(item) ==
    IF item.spec \in {"d", "i"} THEN AsSigned(item.arg, LengthBits(item.length))
    ELSE AsUnsigned(item.arg, LengthBits(item.length))
SizeFlags == {"long", "long_long", "short", "char"}

LEMMA LengthFlagsFit ==
    ASSUME NEW length \in Lengths
    PROVE  /\ LengthFlags(length) \subseteq SizeFlags
           /\ Bits(LengthFlags(length)) = LengthBits(length)
<1> DEFINE fl == LengthFlags(length)
<1>1. CASE length = <<>>
  <2>1. fl = {} /\ LengthBits(length) = IntBits
    BY <1>1 DEF LengthFlags, LengthBits
  <2> QED BY <2>1 DEF Bits
<1>2. CASE length = <<"h">>
  <2>1. fl = {"short"} /\ LengthBits(length) = ShortBits
    BY <1>2 DEF LengthFlags, LengthBits
  <2> QED BY <2>1 DEF Bits, SizeFlags
<1>3. CASE length = <<"h", "h">>
  <2>1. fl = {"short", "char"} /\ LengthBits(length) = CharBits
    BY <1>3 DEF LengthFlags, LengthBits
  <2> QED BY <2>1 DEF Bits, SizeFlags
<1>4. CASE length \in {<<"l">>, <<"t">>, <<"j">>}
  <2>1. fl = {"long"} /\ LengthBits(length) = LongBits
    BY <1>4 DEF LengthFlags, LengthBits
  <2> QED BY <2>1 DEF Bits, SizeFlags
<1>5. CASE length = <<"l", "l">>
  <2>1. fl = {"long", "long_long"} /\ LengthBits(length) = LongBits
    BY <1>5 DEF LengthFlags, LengthBits
  <2> QED BY <2>1 DEF Bits, SizeFlags
<1>6. CASE length = <<"z">>
  <2>1. fl = {"long_long"} /\ LengthBits(length) = LongBits
    BY <1>6 DEF LengthFlags, LengthBits
  <2> QED BY <2>1 DEF Bits, SizeFlags
<1> QED BY <1>1, <1>2, <1>3, <1>4, <1>5, <1>6 DEF Lengths

LEMMA BitsAre ==
    ASSUME NEW length \in Lengths
    PROVE  LengthBits(length) \in Nat \ {0}
<1>1. LengthBits(length) \in {CharBits, ShortBits, IntBits, LongBits}
  BY DEF LengthBits
<1> QED BY <1>1, SizeAssumption

LEMMA ValueIs ==
    ASSUME NEW item, IsDirective(item), item.spec \in IntegerSpecs
    PROVE  /\ ValueIn(item) \in Int /\ Magnitude(ValueIn(item)) \in Nat
           /\ Magnitude(ValueIn(item)) = 0 <=> ValueIn(item) = 0
           /\ item.spec \notin {"d", "i"} => ~(ValueIn(item) < 0)
<1> DEFINE bits == LengthBits(item.length)
           u == item.arg % Power(2, bits)
<1>1. bits \in Nat \ {0} /\ item.arg \in Int
  BY BitsAre DEF IsDirective
<1> HIDE DEF bits
<1>2. Power(2, bits) \in Nat \ {0} /\ Power(2, bits - 1) \in Nat
  <2>1. bits \in Nat /\ bits - 1 \in Nat /\ 2 \in Nat /\ 2 <= 2
    BY <1>1
  <2> QED BY <2>1, PowerIs
<1>3. u \in Nat
  <2> DEFINE p == Power(2, bits)
  <2>1. p \in Nat \ {0}
    BY <1>2
  <2> HIDE DEF p
  <2>2. item.arg % p \in Nat
    BY <1>1, <2>1
  <2> QED BY <2>2 DEF p
<1> HIDE DEF u
<1>4. AsUnsigned(item.arg, bits) = u
  BY DEF AsUnsigned, u
<1>5. AsSigned(item.arg, bits) = IF u < Power(2, bits - 1) THEN u ELSE u - Power(2, bits)
  BY DEF AsSigned, u
<1>6. AsSigned(item.arg, bits) \in Int
  BY <1>2, <1>3, <1>5
<1>7. ValueIn(item) \in Int /\ (item.spec \notin {"d", "i"} => ValueIn(item) = u)
  BY <1>3, <1>4, <1>6 DEF ValueIn, bits
<1> DEFINE x == ValueIn(item)
<1>8. x \in Int /\ (item.spec \notin {"d", "i"} => x = u)
  BY <1>7
<1> HIDE DEF x
<1>9. Magnitude(x) \in Nat /\ (Magnitude(x) = 0 <=> x = 0)
  BY <1>8 DEF Magnitude
<1> QED BY <1>3, <1>8, <1>9 DEF x

\* What the scanner's flags say.
LEMMA FlagsRead ==
    ASSUME NEW item, IsDirective(item)
    PROVE  /\ "-" \in ReadFlags(item) <=> LeftOf(item)
           /\ "precision" \in ReadFlags(item) <=> item.prec # <<>>
           /\ \A ch \in FlagChars \ {"-"} : ch \in ReadFlags(item) <=> ch \in FlagsOf(item)
           /\ "upper" \notin ReadFlags(item)
           /\ \A f \in SizeFlags : f \in ReadFlags(item) <=> f \in LengthFlags(item.length)
<1>1. FlagsOf(item) \subseteq FlagChars
  BY DEF IsDirective, FlagsOf, ToSet
<1>2. LengthFlags(item.length) \subseteq SizeFlags
  BY LengthFlagsFit DEF IsDirective
<1>3. /\ FlagChars \cap SizeFlags = {} /\ "precision" \notin FlagChars \cup SizeFlags
      /\ "upper" \notin FlagChars \cup SizeFlags \cup {"-", "precision"}
      /\ "-" \in FlagChars /\ "-" # "precision"
  BY DEF FlagChars, SizeFlags
<1>4. \A f : f \in ReadFlags(item) <=>
         \/ f \in FlagsOf(item)
         \/ f = "-" /\ item.width # <<>> /\ item.width[2] < 0
         \/ f = "precision" /\ item.prec # <<>>
         \/ f \in LengthFlags(item.length)
  BY DEF ReadFlags, LeftFlag, PrecFlag
<1>5. "-" \in ReadFlags(item) <=> LeftOf(item)
  BY <1>1, <1>2, <1>3, <1>4 DEF LeftOf
<1> QED BY <1>1, <1>2, <1>3, <1>4, <1>5

LEMMA IntegerFlagsRead ==
    ASSUME NEW item, IsDirective(item), item.spec \in IntegerSpecs
    PROVE  /\ "-" \in FlagsIn(item) <=> LeftOf(item)
           /\ "precision" \in FlagsIn(item) <=> item.prec # <<>>
           /\ "0" \in FlagsIn(item) <=> "0" \in FlagsOf(item) /\ item.prec = <<>>
           /\ \A ch \in {"+", " "} :
                 ch \in FlagsIn(item) <=> ch \in FlagsOf(item) /\ item.spec \in {"d", "i"}
           /\ "#" \in FlagsIn(item) <=> "#" \in FlagsOf(item) /\ Base(item.spec) # 10
           /\ "upper" \in FlagsIn(item) <=> item.spec = "X"
           /\ Bits(FlagsIn(item)) = LengthBits(item.length)
<1> DEFINE R == ReadFlags(item)
           N == FlagsIn(item)
<1>1. /\ "-" \in R <=> LeftOf(item)
      /\ "precision" \in R <=> item.prec # <<>>
      /\ \A ch \in FlagChars \ {"-"} : ch \in R <=> ch \in FlagsOf(item)
      /\ "upper" \notin R
      /\ \A f \in SizeFlags : f \in R <=> f \in LengthFlags(item.length)
  BY FlagsRead
<1>2. \A f : f \in N <=>
         /\ f \in R \/ (item.spec = "X" /\ f = "upper")
         /\ ~(Base(item.spec) = 10 /\ f = "#")
         /\ ~(item.spec \notin {"i", "d"} /\ f \in {"+", " "})
         /\ ~("precision" \in R /\ f = "0")
  <2> HIDE DEF R
  <2> QED BY DEF FlagsIn, IntegerFlags, R
<1> HIDE DEF R, N
<1>3. "-" \in N <=> LeftOf(item)
  <2>1. "-" \in N <=> "-" \in R
    BY DEF N, R, FlagsIn, IntegerFlags
  <2> QED BY <1>1, <2>1
<1>4. "precision" \in N <=> item.prec # <<>>
  <2>1. "precision" \in N <=> "precision" \in R
    BY DEF N, R, FlagsIn, IntegerFlags
  <2> QED BY <1>1, <2>1
<1>5. "0" \in N <=> "0" \in FlagsOf(item) /\ item.prec = <<>>
  <2>1. "0" \in N <=> "0" \in R /\ "precision" \notin R
    BY DEF N, R, FlagsIn, IntegerFlags
  <2>2. "0" \in R <=> "0" \in FlagsOf(item)
    BY <1>1 DEF FlagChars
  <2>3. "precision" \in R <=> item.prec # <<>>
    BY <1>1
  <2> QED BY <2>1, <2>2, <2>3
<1>6. \A ch \in {"+", " "} : ch \in N <=> ch \in FlagsOf(item) /\ item.spec \in {"d", "i"}
  <2>1. "+" \in N <=> "+" \in FlagsOf(item) /\ item.spec \in {"d", "i"}
    BY <1>1, <1>2 DEF FlagChars
  <2>2. " " \in N <=> " " \in FlagsOf(item) /\ item.spec \in {"d", "i"}
    BY <1>1, <1>2 DEF FlagChars
  <2> QED BY <2>1, <2>2
<1>7. "#" \in N <=> "#" \in FlagsOf(item) /\ Base(item.spec) # 10
  <2>1. "#" \in N <=> "#" \in R /\ Base(item.spec) # 10
    BY DEF N, R, FlagsIn, IntegerFlags
  <2>2. "#" \in R <=> "#" \in FlagsOf(item)
    BY <1>1 DEF FlagChars
  <2> QED BY <2>1, <2>2
<1>8. "upper" \in N <=> item.spec = "X"
  BY <1>1, <1>2
<1>9. \A f \in SizeFlags : f \in N <=> f \in LengthFlags(item.length)
  <2>1. \A f \in SizeFlags : f \notin {"upper", "#", "+", " ", "0"}
    BY DEF SizeFlags
  <2> QED BY <1>1, <1>2, <2>1
<1>10. Bits(N) = Bits(LengthFlags(item.length))
  <2>1. /\ "long" \in N <=> "long" \in LengthFlags(item.length)
        /\ "long_long" \in N <=> "long_long" \in LengthFlags(item.length)
        /\ "short" \in N <=> "short" \in LengthFlags(item.length)
        /\ "char" \in N <=> "char" \in LengthFlags(item.length)
    BY <1>9 DEF SizeFlags
  <2>2. N \cap {"long", "long_long"} = LengthFlags(item.length) \cap {"long", "long_long"}
    BY <2>1
  <2> QED BY <2>1, <2>2 DEF Bits
<1>11. Bits(N) = LengthBits(item.length)
  BY <1>10, LengthFlagsFit DEF IsDirective
<1> QED BY <1>3, <1>4, <1>5, <1>6, <1>7, <1>8, <1>11 DEF N

LEMMA BaseIs ==
    ASSUME NEW spec \in IntegerSpecs
    PROVE  /\ Base(spec) \in {2, 8, 10, 16}
           /\ Base(spec) = 2 => spec = "b"
           /\ Base(spec) = 8 => spec = "o"
           /\ Base(spec) = 16 => spec \in {"x", "X"}
           /\ spec = "X" => Base(spec) = 16
           /\ spec \in {"d", "i"} => Base(spec) = 10
<1>1. CASE spec \in {"x", "X"}
  <2>1. Base(spec) = 16
    BY <1>1 DEF Base
  <2> QED BY <1>1, <2>1
<1>2. CASE spec = "o"
  <2>1. Base(spec) = 8
    BY <1>2 DEF Base
  <2> QED BY <1>2, <2>1
<1>3. CASE spec = "b"
  <2>1. Base(spec) = 2
    BY <1>3 DEF Base
  <2> QED BY <1>3, <2>1
<1>4. CASE spec \in {"d", "i", "u"}
  <2>1. Base(spec) = 10
    BY <1>4 DEF Base
  <2> QED BY <1>4, <2>1
<1> QED BY <1>1, <1>2, <1>3, <1>4 DEF IntegerSpecs

LEMMA FieldsRead ==
    ASSUME NEW item, IsDirective(item)
    PROVE  /\ WidthOf(item) \in Nat /\ PrecRead(item) \in Nat
           /\ item.prec = <<>> => PrecRead(item) = 0 /\ ~HasPrec(item)
           /\ HasPrec(item) => item.prec # <<>> /\ PrecOf(item) = PrecRead(item)
<1>1. \A f \in Fields : f # <<>> => f[2] \in Int
  <2> SUFFICES ASSUME NEW f \in Fields, f # <<>> PROVE f[2] \in Int
    OBVIOUS
  <2>1. CASE \E k \in 0 .. 99 : f = <<"n", k>>
    BY <2>1
  <2>2. CASE \E k \in -(SIZE_T \div 2) .. SIZE_T \div 2 - 1 : f = <<"*", k>>
    <3>1. PICK k \in -(SIZE_T \div 2) .. SIZE_T \div 2 - 1 : f = <<"*", k>>
      BY <2>2
    <3>2. k \in Int /\ f[2] = k
      BY <3>1
    <3> QED BY <3>2
  <2> QED BY <2>1, <2>2 DEF Fields
<1>2. item.width # <<>> => item.width[2] \in Int
  BY <1>1 DEF IsDirective
<1>3. item.prec # <<>> => item.prec[2] \in Int
  BY <1>1 DEF IsDirective
<1>4. WidthOf(item) \in Nat
  BY <1>2 DEF WidthOf, Magnitude
<1>5. PrecRead(item) \in Nat
  BY <1>3 DEF PrecRead, Most
<1>6. item.prec = <<>> => PrecRead(item) = 0 /\ ~HasPrec(item)
  BY DEF PrecRead, HasPrec
<1>7. HasPrec(item) => item.prec # <<>> /\ PrecOf(item) = PrecRead(item)
  BY <1>3 DEF HasPrec, PrecOf, PrecRead, Most
<1> QED BY <1>4, <1>5, <1>6, <1>7

\* The number of a directive is the code's when it is read so.
LEMMA IntegerMeans ==
    ASSUME NEW item, IsDirective(item), item.spec \in IntegerSpecs, Standard(item)
    PROVE  Number(Magnitude(ValueIn(item)), ValueIn(item) < 0, Base(item.spec),
                  PrecRead(item), WidthOf(item), FlagsIn(item)) = MeantInteger(item)
<1> DEFINE v == ValueIn(item)
           u == Magnitude(v)
           base == Base(item.spec)
           pr == PrecRead(item)
           w == WidthOf(item)
           fl0 == FlagsIn(item)
           fl == IF u = 0 THEN fl0 \ {"#"} ELSE fl0
           glyphs == IF item.spec = "X" THEN Upper ELSE Digit
           bare == IF HasPrec(item) /\ PrecOf(item) = 0 /\ v = 0 THEN <<>>
                   ELSE NumeralOf(u, base, glyphs)
           prec == IF HasPrec(item) THEN PrecOf(item) ELSE 1
           digits == Repeat("0", prec - Len(bare)) \o bare
           sign == IF item.spec \notin {"d", "i"} THEN <<>>
                   ELSE IF v < 0 THEN <<"-">>
                   ELSE IF "+" \in FlagsOf(item) THEN <<"+">>
                   ELSE IF " " \in FlagsOf(item) THEN <<" ">> ELSE <<>>
           prefix == IF "#" \notin FlagsOf(item) THEN <<>>
                     ELSE IF base = 8 /\ (digits = <<>> \/ digits[1] # "0") THEN <<"0">>
                     ELSE IF base \in {2, 16} /\ v # 0 THEN <<"0", item.spec>>
                     ELSE <<>>
           head == sign \o prefix
           zeroed == "0" \in FlagsOf(item) /\ ~HasPrec(item) /\ ~LeftOf(item)
           zeros == IF zeroed THEN w - Len(head) - Len(digits) ELSE 0
           number == LastOf(BufferSize, head \o Repeat("0", zeros) \o digits)
           spaces == IF zeroed THEN <<>> ELSE Repeat(" ", w - Len(number))
<1>1. MeantInteger(item) = IF LeftOf(item) THEN number \o spaces ELSE spaces \o number
  BY DEF MeantInteger, ValueIn
<1>2. /\ v \in Int /\ u \in Nat /\ (u = 0 <=> v = 0)
      /\ item.spec \notin {"d", "i"} => ~(v < 0)
  BY ValueIs
<1>3. /\ base \in {2, 8, 10, 16} /\ base \in Nat /\ 2 <= base
      /\ (base = 2 => item.spec = "b") /\ (base = 8 => item.spec = "o")
      /\ (base = 16 => item.spec \in {"x", "X"}) /\ (item.spec = "X" => base = 16)
      /\ (item.spec \in {"d", "i"} => base = 10)
  BY BaseIs
<1>4. w \in Nat /\ pr \in Nat /\ (item.prec = <<>> => pr = 0)
  BY FieldsRead
<1>5. HasPrec(item) <=> item.prec # <<>>
  BY FieldsRead DEF Standard
<1>6. HasPrec(item) => PrecOf(item) = pr
  BY FieldsRead
<1>7. /\ "-" \in fl0 <=> LeftOf(item)
      /\ "precision" \in fl0 <=> HasPrec(item)
      /\ "0" \in fl0 <=> "0" \in FlagsOf(item) /\ ~HasPrec(item)
      /\ "+" \in fl0 <=> "+" \in FlagsOf(item) /\ item.spec \in {"d", "i"}
      /\ " " \in fl0 <=> " " \in FlagsOf(item) /\ item.spec \in {"d", "i"}
      /\ "#" \in fl0 <=> "#" \in FlagsOf(item) /\ base # 10
      /\ "upper" \in fl0 <=> item.spec = "X"
  BY <1>5, IntegerFlagsRead
<1>8. /\ LeftOf(item) => ~HasPrec(item)
      /\ "#" \in fl0 => /\ ~HasPrec(item)
                        /\ w - DigitsOf(item) \notin {0, 1}
                        /\ base = 2 => "0" \notin fl0
                        /\ Most(DigitsOf(item) + 3, IF "0" \in fl0 THEN w ELSE 0) <= BufferSize
  <2>1. LeftOf(item) => ~HasPrec(item)
    BY <1>5 DEF Standard
  <2>2. ASSUME "#" \in fl0
        PROVE  /\ ~HasPrec(item) /\ w - DigitsOf(item) \notin {0, 1}
               /\ (base = 2 => "0" \notin FlagsOf(item)) /\ Fits(item)
    BY <1>5, <1>7, <2>2 DEF Standard
  <2>3. ASSUME "#" \in fl0
        PROVE  Most(DigitsOf(item) + 3, IF "0" \in fl0 THEN w ELSE 0) <= BufferSize
    <3>1. "0" \in fl0 <=> "0" \in FlagsOf(item)
      BY <1>7, <2>2, <2>3
    <3> QED BY <2>2, <2>3, <3>1 DEF Fits
  <2> QED BY <1>7, <2>1, <2>2, <2>3
<1>9. DigitsOf(item) = Size(u, base)
  <2>1. DigitsOf(item) = Len(NumeralOf(u, base, Digit))
    BY DEF DigitsOf, ValueIn
  <2> HIDE DEF u, base
  <2> QED BY <1>2, <1>3, <2>1, NumeralOfIs
<1> HIDE DEF fl0, v, u, base, pr, w
<1>10. FlagsFit(pr, fl0)
  BY <1>4, <1>5, <1>7, <1>8 DEF FlagsFit
<1>11. PrefixFits(u, v < 0, base, w, fl0)
  <2>1. u # 0 => HashFits(u, base, w, fl0)
    <3> SUFFICES ASSUME u # 0, "#" \in fl0
                 PROVE  /\ u # 0 /\ base \in {2, 8, 16} /\ "precision" \notin fl0
                        /\ w \in Nat /\ w - Size(u, base) \notin {0, 1}
                        /\ base = 2 => "0" \notin fl0
                        /\ Most(Size(u, base) + 3, IF "0" \in fl0 THEN w ELSE 0)
                               <= BufferSize
      BY DEF HashFits
    <3>1. base \in {2, 8, 16}
      BY <1>3, <1>7
    <3>2. "precision" \notin fl0
      BY <1>7, <1>8
    <3> QED BY <1>4, <1>8, <1>9, <3>1, <3>2
  <2>2. "#" \in fl0 => ~(v < 0) /\ fl0 \cap {"+", " "} = {}
    <3> SUFFICES ASSUME "#" \in fl0 PROVE ~(v < 0) /\ fl0 \cap {"+", " "} = {}
      OBVIOUS
    <3>1. item.spec \notin {"d", "i"}
      BY <1>3, <1>7
    <3>2. "+" \notin fl0 /\ " " \notin fl0
      BY <1>7, <3>1
    <3> QED BY <1>2, <3>1, <3>2
  <2> QED BY <2>1, <2>2 DEF PrefixFits
<1>12. Number(u, v < 0, base, pr, w, fl0) = MeantNumber(u, v < 0, base, pr, w, fl0)
  BY <1>2, <1>3, <1>4, <1>10, <1>11, NumberMeans
<1>13. /\ \A f : f # "#" => (f \in fl <=> f \in fl0)
       /\ "#" \in fl <=> "#" \in fl0 /\ u # 0
  OBVIOUS
<1> HIDE DEF fl
<1>14. sign = SignFor(v < 0, fl)
  <2>1. /\ "+" \in fl <=> "+" \in FlagsOf(item) /\ item.spec \in {"d", "i"}
        /\ " " \in fl <=> " " \in FlagsOf(item) /\ item.spec \in {"d", "i"}
    BY <1>7, <1>13
  <2>2. CASE item.spec \in {"d", "i"}
    BY <2>1, <2>2 DEF SignFor
  <2>3. CASE item.spec \notin {"d", "i"}
    BY <1>2, <2>1, <2>3 DEF SignFor
  <2> QED BY <2>2, <2>3
<1>15. digits = DigitsFor(u, base, pr, fl)
  <2>1. /\ "precision" \in fl <=> HasPrec(item)
        /\ "upper" \in fl <=> item.spec = "X"
    BY <1>7, <1>13
  <2>2. Glyphs(fl) = glyphs
    BY <2>1 DEF Glyphs
  <2>3. bare = Bare(u, base, pr, fl)
    BY <1>2, <1>6, <2>1, <2>2 DEF Bare
  <2>4. prec = IF "precision" \in fl THEN pr ELSE 1
    BY <1>6, <2>1
  <2> HIDE DEF bare, prec
  <2> QED BY <2>3, <2>4 DEF DigitsFor
<1> HIDE DEF digits
<1>16. prefix = PrefixFor(base, fl)
  <2>1. "#" \in fl <=> "#" \in FlagsOf(item) /\ base # 10 /\ v # 0
    BY <1>2, <1>7, <1>13
  <2>2. CASE "#" \notin FlagsOf(item) \/ base = 10
    BY <2>1, <2>2 DEF PrefixFor
  <2>3. CASE "#" \in FlagsOf(item) /\ base # 10
    <3>1. "#" \in fl0 /\ ~HasPrec(item) /\ "precision" \notin fl
      BY <1>7, <1>8, <1>13, <2>3
    <3>2. digits = NumeralOf(u, base, Glyphs(fl))
      BY <1>2, <1>3, <1>4, <1>15, <3>1, DigitsForIs
    <3>3. CASE v = 0
      <4>1. Glyphs(fl)[1] = "0"
        BY DEF Glyphs, Digit, Upper
      <4>2. u = 0 /\ NumeralOf(0, base, Glyphs(fl)) = <<"0">>
        BY <1>2, <1>3, <3>3, <4>1, ZeroNumeral
      <4>3. digits = <<"0">>
        BY <3>2, <4>2
      <4>4. digits # <<>> /\ digits[1] = "0"
        BY <4>3
      <4>5. prefix = <<>>
        BY <3>3, <4>4
      <4>6. PrefixFor(base, fl) = <<>>
        BY <2>1, <3>3 DEF PrefixFor
      <4> QED BY <4>5, <4>6
    <3>4. CASE v # 0 /\ base = 8
      <4>1. item.spec = "o" /\ item.spec # "X"
        BY <1>3, <3>4
      <4>2. Glyphs(fl) = Digit
        BY <1>7, <1>13, <4>1 DEF Glyphs
      <4>3. u \in Nat \ {0} /\ base \in 2 .. 16
        BY <1>2, <3>4
      <4>4. digits[1] # "0"
        BY <3>2, <4>2, <4>3, LeadingDigit
      <4>5. prefix = <<"0">>
        BY <2>3, <3>4, <4>4
      <4>6. PrefixFor(base, fl) = <<"0">>
        BY <2>1, <2>3, <3>4 DEF PrefixFor
      <4> QED BY <4>5, <4>6
    <3>5. CASE v # 0 /\ base = 2
      <4>1. prefix = <<"0", item.spec>> /\ item.spec = "b"
        BY <1>3, <2>3, <3>5
      <4>2. PrefixFor(base, fl) = <<"0", "b">>
        BY <2>1, <2>3, <3>5 DEF PrefixFor
      <4> QED BY <4>1, <4>2
    <3>6. CASE v # 0 /\ base = 16
      <4>1. prefix = <<"0", item.spec>> /\ item.spec \in {"x", "X"}
        BY <1>3, <2>3, <3>6
      <4>2. PrefixFor(base, fl) = IF "upper" \in fl THEN <<"0", "X">> ELSE <<"0", "x">>
        BY <2>1, <2>3, <3>6 DEF PrefixFor
      <4>3. "upper" \in fl <=> item.spec = "X"
        BY <1>7, <1>13
      <4> QED BY <4>1, <4>2, <4>3
    <3> QED BY <1>3, <2>3, <3>3, <3>4, <3>5, <3>6
  <2> QED BY <2>2, <2>3
<1>17. /\ zeroed <=> "0" \in fl /\ "-" \notin fl
       /\ LeftOf(item) <=> "-" \in fl
  BY <1>7, <1>13
<1> HIDE DEF sign, prefix, zeroed
<1> DEFINE shead == SignFor(v < 0, fl) \o PrefixFor(base, fl)
           sdigits == DigitsFor(u, base, pr, fl)
           szeroed == "0" \in fl /\ "-" \notin fl
           szeros == IF szeroed THEN w - Len(shead) - Len(sdigits) ELSE 0
           snumber == LastOf(BufferSize, shead \o Repeat("0", szeros) \o sdigits)
           sspaces == IF szeroed THEN <<>> ELSE Repeat(" ", w - Len(snumber))
<1>18. MeantNumber(u, v < 0, base, pr, w, fl0) =
          IF "-" \in fl THEN snumber \o sspaces ELSE sspaces \o snumber
  BY DEF MeantNumber, fl
<1>19. head = shead /\ digits = sdigits /\ (zeroed <=> szeroed)
  BY <1>14, <1>15, <1>16, <1>17
<1> HIDE DEF head, shead, sdigits, szeroed
<1>20. zeros = szeros
  BY <1>19
<1> HIDE DEF zeros, szeros
<1>21. number = snumber
  BY <1>19, <1>20
<1> HIDE DEF number, snumber
<1>22. spaces = sspaces
  BY <1>19, <1>21
<1> HIDE DEF spaces, sspaces
<1>23. MeantInteger(item) = MeantNumber(u, v < 0, base, pr, w, fl0)
  BY <1>1, <1>17, <1>18, <1>21, <1>22
<1> QED BY <1>12, <1>23 DEF fl0, v, u, base, pr, w

\* What the conversion of a directive puts out when it is read so.
LEMMA ConversionMeans ==
    ASSUME NEW item, IsDirective(item), Standard(item),
           flags = ReadFlags(item), width = WidthOf(item), precision = PrecRead(item),
           item.spec # "%" => Head(va) = item.arg
    PROVE  Converted(item.spec) = Meaning(item)
<1>1. "-" \in flags <=> LeftOf(item)
  BY FlagsRead
<1>2. CASE item.spec \in IntegerSpecs
  <2>1. item.spec \notin {"c", "s", "p", "%", "literal"}
    BY <1>2 DEF IntegerSpecs
  <2>2. Meaning(item) = MeantInteger(item)
    BY <2>1 DEF Meaning
  <2>3. Converted(item.spec) = Integer(item.spec, Head(va)) /\ Head(va) = item.arg
    BY <1>2, <2>1 DEF Converted
  <2>4. Bits(FlagsIn(item)) = LengthBits(item.length)
    BY <1>2, IntegerFlagsRead
  <2>5. Integer(item.spec, item.arg) =
           Number(Magnitude(ValueIn(item)), ValueIn(item) < 0, Base(item.spec),
                  PrecRead(item), WidthOf(item), FlagsIn(item))
    <3>1. IntegerFlags(item.spec, flags) = FlagsIn(item)
      BY DEF FlagsIn
    <3>2. item.spec \in {"i", "d"} <=> item.spec \in {"d", "i"}
      OBVIOUS
    <3>3. ValueIn(item) = IF item.spec \in {"i", "d"}
                          THEN AsSigned(item.arg, Bits(FlagsIn(item)))
                          ELSE AsUnsigned(item.arg, Bits(FlagsIn(item)))
      BY <2>4, <3>2 DEF ValueIn
    <3> QED BY <3>1, <3>3 DEF Integer
  <2> QED BY <1>2, <2>2, <2>3, <2>5, IntegerMeans
<1>3. CASE item.spec = "c"
  <2>1. Meaning(item) = MeantText(item, <<item.arg>>)
    BY <1>3 DEF Meaning
  <2>2. Converted(item.spec) = InField(<<Head(va)>>, 1) /\ Head(va) = item.arg
    BY <1>3 DEF Converted, IntegerSpecs
  <2>3. Len(<<item.arg>>) = 1
    BY SingleText
  <2>4. InField(<<item.arg>>, 1) = MeantText(item, <<item.arg>>)
    BY <1>1, <2>3 DEF InField, MeantText
  <2> QED BY <2>1, <2>2, <2>4
<1>4. CASE item.spec = "s"
  <2> DEFINE s == IF HasPrec(item)
                  THEN SubSeq(item.arg, 1, Least(Len(item.arg), PrecOf(item)))
                  ELSE item.arg
  <2>1. Meaning(item) = MeantText(item, s)
    BY <1>4 DEF Meaning
  <2>2. Converted(item.spec) = String(Head(va)) /\ Head(va) = item.arg
    BY <1>4 DEF Converted, IntegerSpecs
  <2>3. "precision" \in flags <=> HasPrec(item)
    <3>1. HasPrec(item) <=> item.prec # <<>>
      BY <1>4, FieldsRead DEF Standard
    <3> QED BY <3>1, FlagsRead
  <2>4. HasPrec(item) => PrecOf(item) = precision
    BY FieldsRead
  <2>5. String(item.arg) = InField(s, Len(s))
    BY <2>3, <2>4 DEF String
  <2> HIDE DEF s
  <2>6. InField(s, Len(s)) = MeantText(item, s)
    BY <1>1 DEF InField, MeantText
  <2> QED BY <2>1, <2>2, <2>5, <2>6
<1>5. CASE item.spec = "%"
  BY <1>5 DEF Converted, Meaning, IntegerSpecs
<1> QED BY <1>2, <1>3, <1>4, <1>5 DEF IsDirective, TakesArgument, Standard

LEMMA MeaningText ==
    ASSUME NEW item, IsLiteral(item) \/ IsDirective(item), Standard(item)
    PROVE  IsText(Meaning(item))
<1>1. ASSUME NEW s, IsText(s), IsDirective(item) PROVE IsText(MeantText(item, s))
  <2>1. WidthOf(item) - Len(s) \in Int
    BY <1>1, FieldsRead DEF IsText
  <2>2. IsText(Repeat(" ", WidthOf(item) - Len(s)))
    BY <2>1, Repeating
  <2> QED BY <1>1, <2>2, Concatenation DEF MeantText
<1>2. CASE IsLiteral(item)
  <2>1. Meaning(item) = <<item.arg>>
    BY <1>2 DEF IsLiteral, Meaning
  <2> QED BY <2>1, SingleText
<1>3. CASE IsDirective(item) /\ item.spec \in IntegerSpecs
  <2>1. item.spec \notin {"c", "s", "p", "%", "literal"}
    BY <1>3 DEF IntegerSpecs
  <2>2. Meaning(item) = MeantInteger(item)
    BY <2>1 DEF Meaning
  <2>3. PrecRead(item) \in Int /\ WidthOf(item) \in Int
    BY <1>3, FieldsRead
  <2> QED BY <1>3, <2>2, <2>3, IntegerMeans, NumberText
<1>4. CASE IsDirective(item) /\ item.spec = "c"
  <2>1. Meaning(item) = MeantText(item, <<item.arg>>)
    BY <1>4 DEF Meaning
  <2> QED BY <1>1, <1>4, <2>1, SingleText
<1>5. CASE IsDirective(item) /\ item.spec = "s"
  <2> DEFINE n == Least(Len(item.arg), PrecOf(item))
             s == IF HasPrec(item) THEN SubSeq(item.arg, 1, n) ELSE item.arg
  <2>1. Meaning(item) = MeantText(item, s)
    BY <1>5 DEF Meaning
  <2>2. IsText(item.arg)
    BY <1>5, SeqIsText DEF IsDirective
  <2>3. HasPrec(item) => IsText(SubSeq(item.arg, 1, n))
    <3>1. HasPrec(item) => n \in Nat /\ n <= Len(item.arg)
      BY <1>5, <2>2, FieldsRead DEF Least, IsText
    <3> HIDE DEF n
    <3> QED BY <2>2, <3>1, Prefix
  <2>4. IsText(s)
    BY <2>2, <2>3
  <2> HIDE DEF s
  <2> QED BY <1>1, <1>5, <2>1, <2>4
<1>6. CASE item.spec = "%"
  <2>1. Meaning(item) = <<"%">>
    BY <1>6 DEF Meaning
  <2> QED BY <2>1, SingleText
<1> QED BY <1>2, <1>3, <1>4, <1>5, <1>6 DEF IsDirective, TakesArgument, Standard

-----------------------------------------------------------------------------
(* What the scanner reads of a directive.                                  *)

LEMMA DigitOf ==
    ASSUME NEW d \in 0 .. 9
    PROVE  Digit[d + 1] \in Decimals /\ ValueOf(Digit[d + 1]) = d
<1>1. d + 1 \in 1 .. 10
  OBVIOUS
<1>2. Digit[d + 1] \in Decimals
  BY <1>1 DEF Decimals
<1>3. \A x, y \in 1 .. 10 : Digit[x] = Digit[y] => x = y
  <2> SUFFICES ASSUME NEW x \in 1 .. 10, NEW y \in 1 .. 10, Digit[x] = Digit[y]
               PROVE  x = y
    OBVIOUS
  <2>1. x \in {1, 2, 3, 4, 5, 6, 7, 8, 9, 10} /\ y \in {1, 2, 3, 4, 5, 6, 7, 8, 9, 10}
    OBVIOUS
  <2> QED BY <2>1 DEF Digit
<1>4. \A n \in 0 .. 9 : Digit[n + 1] = Digit[d + 1] => n = d
  <2>1. \A n \in 0 .. 9 : n + 1 \in 1 .. 10
    OBVIOUS
  <2>2. \A n \in 0 .. 9 : Digit[n + 1] = Digit[d + 1] => n + 1 = d + 1
    BY <1>1, <1>3, <2>1
  <2> QED BY <2>2
<1> DEFINE n == CHOOSE n \in 0 .. 9 : Digit[n + 1] = Digit[d + 1]
<1>5. n \in 0 .. 9 /\ Digit[n + 1] = Digit[d + 1]
  OBVIOUS
<1>6. ValueOf(Digit[d + 1]) = n
  BY DEF ValueOf
<1> HIDE DEF n
<1> QED BY <1>2, <1>4, <1>5, <1>6

LEMMA EmptyRun ==
    ASSUME Len(format) \in Nat, NEW p \in 1 .. Len(format) + 1, RunsTo(p, p)
    PROVE  RunValue(p) = 0
<1>1. RunEnd(p) = p
  BY RunUnique
<1> QED BY <1>1, RunValueSteps

LEMMA NumeralRun ==
    ASSUME Len(format) \in Nat, NEW p \in 1 .. Len(format) + 1, NEW k \in 0 .. 99,
           RunsTo(p, p + Len(Numeral(k))),
           \A i \in 1 .. Len(Numeral(k)) : Ch(p + i - 1) = Numeral(k)[i]
    PROVE  RunValue(p) = k
<1> DEFINE n == Len(Numeral(k))
           hi == k \div 10
           lo == k % 10
<1>1. RunEnd(p) = p + n
  BY RunUnique
<1>2. PICK g : /\ RunValue(p) = g[p + n] /\ g[p] = 0
               /\ \A i \in p + 1 .. p + n :
                     g[i] = (10 * g[i - 1] + ValueOf(Ch(i - 1))) % SIZE_T
  <2> HIDE DEF n
  <2> QED BY <1>1, RunValueSteps
<1>3. \A x \in 0 .. 99 : x % SIZE_T = x
  <2> SUFFICES ASSUME NEW x \in 0 .. 99 PROVE x % SIZE_T = x
    OBVIOUS
  <2>1. x \in 0 .. SIZE_T - 1
    BY SizeAssumption
  <2> QED BY <2>1, InRange
<1>4. CASE k < 10
  <2>1. Numeral(k) = <<Digit[k + 1]>> /\ k \in 0 .. 9
    BY <1>4 DEF Numeral
  <2>2. n = 1 /\ Numeral(k)[1] = Digit[k + 1]
    BY <2>1
  <2>3. Ch(p) = Digit[k + 1]
    <3>1. 1 \in 1 .. n /\ p + 1 - 1 = p
      BY <2>2
    <3>2. Ch(p + 1 - 1) = Numeral(k)[1]
      BY <3>1
    <3> QED BY <2>2, <3>1, <3>2
  <2>4. ValueOf(Ch(p)) = k
    BY <2>1, <2>3, DigitOf
  <2>5. p + 1 \in p + 1 .. p + n /\ (p + 1) - 1 = p
    BY <2>2
  <2>6. g[p + 1] = (10 * 0 + k) % SIZE_T
    BY <1>2, <2>4, <2>5
  <2>7. g[p + 1] = k
    <3>1. 10 * 0 + k = k
      OBVIOUS
    <3> QED BY <1>3, <2>6, <3>1
  <2> QED BY <1>2, <2>2, <2>7
<1>5. CASE ~(k < 10)
  <2>1. hi \in 0 .. 9 /\ lo \in 0 .. 9 /\ 10 * hi + lo = k
    BY <1>5
  <2>2. Numeral(k) = <<Digit[hi + 1], Digit[lo + 1]>>
    BY <1>5 DEF Numeral
  <2> DEFINE x == Digit[hi + 1]
             y == Digit[lo + 1]
  <2>3. ValueOf(x) = hi /\ ValueOf(y) = lo
    BY <2>1, DigitOf
  <2> HIDE DEF x, y
  <2>4. n = 2 /\ Numeral(k)[1] = x /\ Numeral(k)[2] = y
    <3>1. Numeral(k) = <<x, y>>
      BY <2>2 DEF x, y
    <3> QED BY <3>1
  <2>5. Ch(p) = x /\ Ch(p + 1) = y
    <3>1. 1 \in 1 .. n /\ 2 \in 1 .. n /\ p + 1 - 1 = p /\ p + 2 - 1 = p + 1
      BY <2>4
    <3>2. Ch(p + 1 - 1) = Numeral(k)[1] /\ Ch(p + 2 - 1) = Numeral(k)[2]
      BY <3>1
    <3> QED BY <2>4, <3>1, <3>2
  <2>6. /\ p + 1 \in p + 1 .. p + n /\ p + 2 \in p + 1 .. p + n
        /\ (p + 1) - 1 = p /\ (p + 2) - 1 = p + 1
    BY <2>4
  <2> HIDE DEF hi, lo, n
  <2>7. g[p + 1] = (10 * 0 + hi) % SIZE_T
    BY <1>2, <2>3, <2>5, <2>6
  <2>8. g[p + 1] = hi
    <3>1. 10 * 0 + hi = hi /\ hi \in 0 .. 99
      BY <2>1
    <3> QED BY <1>3, <2>7, <3>1
  <2>9. g[p + 2] = (10 * hi + lo) % SIZE_T
    BY <1>2, <2>3, <2>5, <2>6, <2>8
  <2>10. g[p + 2] = k
    BY <1>3, <2>1, <2>9
  <2> QED BY <1>2, <2>4, <2>10
<1> QED BY <1>4, <1>5

\* A field without an argument is read as the number it is.
LEMMA FieldRun ==
    ASSUME Len(format) \in Nat, NEW p \in 1 .. Len(format) + 1, NEW f \in Fields,
           Len(FieldArgs(f)) = 0, RunsTo(p, p + Len(FieldText(f))),
           \A i \in 1 .. Len(FieldText(f)) : Ch(p + i - 1) = FieldText(f)[i]
    PROVE  /\ RunValue(p) = IF f = <<>> THEN 0 ELSE f[2]
           /\ f # <<>> => f[2] \in Nat
<1>1. CASE f = <<>>
  <2>1. Len(FieldText(f)) = 0
    BY <1>1, EmptyText DEF FieldText
  <2>2. p + Len(FieldText(f)) = p
    BY <2>1
  <2> QED BY <1>1, <2>2, EmptyRun
<1>2. ASSUME NEW k \in 0 .. 99, f = <<"n", k>>
      PROVE  RunValue(p) = f[2] /\ f # <<>> /\ f[2] \in Nat
  <2>1. f # <<>> /\ f[1] # "*" /\ f[2] = k
    BY <1>2
  <2>2. FieldText(f) = Numeral(k)
    BY <2>1 DEF FieldText
  <2>3. /\ RunsTo(p, p + Len(Numeral(k)))
        /\ \A i \in 1 .. Len(Numeral(k)) : Ch(p + i - 1) = Numeral(k)[i]
    BY <2>2
  <2>4. RunValue(p) = k
    BY <2>3, NumeralRun
  <2> QED BY <2>1, <2>4
<1>3. ASSUME NEW k, f = <<"*", k>> PROVE FALSE
  <2>1. f # <<>> /\ f[1] = "*"
    BY <1>3
  <2>2. FieldArgs(f) = <<f[2]>>
    BY <2>1 DEF FieldArgs
  <2> QED BY <2>2, SingleText
<1> QED BY <1>1, <1>2, <1>3 DEF Fields

LEMMA StarField ==
    ASSUME NEW f \in Fields, Len(FieldArgs(f)) # 0
    PROVE  /\ f # <<>> /\ f[2] \in Int /\ FieldArgs(f)[1] = f[2]
           /\ Len(FieldArgs(f)) = 1 /\ Len(FieldText(f)) = 1 /\ FieldText(f)[1] = "*"
<1>1. /\ Len(FieldText(f)) = 1 /\ FieldText(f)[1] = "*" /\ Len(FieldArgs(f)) = 1
      /\ \E k \in -(SIZE_T \div 2) .. SIZE_T \div 2 - 1 :
            f = <<"*", k>> /\ FieldArgs(f)[1] = k
  BY FieldIs
<1>2. PICK k \in -(SIZE_T \div 2) .. SIZE_T \div 2 - 1 : f = <<"*", k>> /\ FieldArgs(f)[1] = k
  BY <1>1
<1>3. k \in Int /\ f # <<>> /\ f[2] = k
  BY <1>2
<1> QED BY <1>1, <1>2, <1>3

LEMMA WidthRead ==
    ASSUME NEW item, NEW b, NEW a, Facing(item, b, a), Width, Len(format) \in Nat,
           Within(job, item, b, a, pc, pos, va), flags = FlagsOf(item)
    PROVE  width' = WidthOf(item) /\ flags' = FlagsOf(item) \cup LeftFlag(item)
<1> DEFINE f == item.width
           W == Len(FieldText(f))
           q == ToWidth(item)
           e == ToPrec(item)
<1>1. /\ pos = b + q + 1 /\ q \in Nat /\ e = q + W /\ W \in Nat
      /\ b + e + 1 <= Len(format) /\ b \in Nat /\ va = Rest(job, a)
  BY WidthStarts
<1>2. f \in Fields
  BY DEF Facing, IsDirective
<1>3. \A i \in 1 .. W : Ch(b + q + i) = FieldText(f)[i]
  BY CharsAhead
<1>4. Ch(b + e + 1) \in Letters \cup Specs \cup {"."}
  BY CharsAhead
<1>5. Within(job, item, b, a, "precision", pos', va')
  BY WidthWithin
<1>6. pos' = b + e + 1
  BY <1>5 DEF Within
<1>7. CASE Len(FieldArgs(f)) # 0
  <2>1. /\ f # <<>> /\ f[2] \in Int /\ FieldArgs(f)[1] = f[2]
        /\ Len(FieldArgs(f)) = 1 /\ W = 1 /\ FieldText(f)[1] = "*"
    BY <1>2, <1>7, StarField
  <2>2. Ch(pos) = "*"
    <3>1. 1 \in 1 .. W
      BY <2>1
    <3> QED BY <1>1, <1>3, <2>1, <3>1
  <2>3. Head(va) = f[2]
    BY <1>1, <2>1, ArgsAhead
  <2>4. /\ width' = Magnitude(f[2])
        /\ flags' = IF f[2] < 0 THEN flags \cup {"-"} ELSE flags
    BY <2>2, <2>3 DEF Width
  <2> QED BY <2>1, <2>4 DEF WidthOf, LeftFlag
<1>8. CASE Len(FieldArgs(f)) = 0
  <2>1. \A i \in 1 .. W : FieldText(f)[i] \in Decimals
    <3>1. W = 0 \/ \A i \in 1 .. W : FieldText(f)[i] \in Decimals
      BY <1>2, <1>8, FieldIs
    <3> QED BY <3>1
  <2> HIDE DEF q, e, W
  <2>2. Ch(pos) # "*"
    <3>1. CASE W = 0
      <4>1. pos = b + e + 1
        BY <1>1, <3>1
      <4> QED BY <1>4, <4>1, LettersAndSpecs
    <3>2. CASE W # 0
      <4>1. 1 \in 1 .. W
        BY <1>1, <3>2
      <4> QED BY <1>1, <1>3, <2>1, <4>1, DecimalsAre
    <3> QED BY <3>1, <3>2
  <2>3. width' = RunValue(pos) /\ pos' = RunEnd(pos) /\ flags' = flags
    BY <2>2 DEF Width
  <2>4. pos \in 1 .. Len(format) + 1 /\ pos + W = b + e + 1
    BY <1>1
  <2>5. RunsTo(pos, pos + W)
    BY <1>6, <2>3, <2>4, RunEnds
  <2>6. \A i \in 1 .. W : Ch(pos + i - 1) = FieldText(f)[i]
    <3> SUFFICES ASSUME NEW i \in 1 .. W PROVE Ch(pos + i - 1) = FieldText(f)[i]
      OBVIOUS
    <3>1. pos + i - 1 = b + q + i
      BY <1>1
    <3> QED BY <1>3, <3>1
  <2>7. /\ width' = IF f = <<>> THEN 0 ELSE f[2]
        /\ f # <<>> => f[2] \in Nat
    BY <1>2, <1>8, <2>3, <2>4, <2>5, <2>6, FieldRun DEF W
  <2>8. WidthOf(item) = IF f = <<>> THEN 0 ELSE f[2]
    BY <2>7 DEF WidthOf, Magnitude
  <2>9. LeftFlag(item) = {}
    BY <2>7 DEF LeftFlag
  <2> QED BY <2>3, <2>7, <2>8, <2>9
<1> QED BY <1>7, <1>8

LEMMA PrecisionRead ==
    ASSUME NEW item, NEW b, NEW a, Facing(item, b, a), Precision, Len(format) \in Nat,
           Within(job, item, b, a, pc, pos, va)
    PROVE  precision' = PrecRead(item) /\ flags' = flags \cup PrecFlag(item)
<1> DEFINE f == item.prec
           P == Len(FieldText(f))
           e == ToPrec(item)
           g == ToLength(item)
<1>1. pc = "precision" /\ pos = b + e + 1 /\ va = Rest(job, a + ToPrecArg(item))
  BY DEF Precision, Within
<1>2. b \in Nat /\ f \in Fields
  BY DEF Facing, IsDirective
<1>3. CASE f = <<>>
  <2>1. Ch(pos) \in Letters \cup Specs
    BY <1>1, <1>3, CharsAhead
  <2>2. Ch(pos) # "."
    BY <2>1, LettersAndSpecs
  <2>3. precision' = 0 /\ flags' = flags
    BY <2>2 DEF Precision
  <2> QED BY <1>3, <2>3 DEF PrecRead, PrecFlag
<1>4. CASE f # <<>>
  <2>1. /\ Ch(pos) = "." /\ g = e + 1 + P /\ P \in Nat
        /\ \A i \in 1 .. P : Ch(b + e + 1 + i) = FieldText(f)[i]
        /\ Ch(b + g + 1) \in Letters \cup Specs
    BY <1>1, <1>4, CharsAhead
  <2>2. flags' = flags \cup {"precision"} /\ PrecFlag(item) = {"precision"}
    BY <1>4, <2>1 DEF Precision, PrecFlag
  <2>3. PrecRead(item) = Most(f[2], 0)
    BY <1>4 DEF PrecRead
  <2>4. CASE Len(FieldArgs(f)) # 0
    <3>1. FieldArgs(f)[1] = f[2] /\ Len(FieldArgs(f)) = 1 /\ P = 1 /\ FieldText(f)[1] = "*"
      BY <1>2, <2>4, StarField
    <3>2. Ch(pos + 1) = "*"
      <4>1. 1 \in 1 .. P
        BY <3>1
      <4> QED BY <1>1, <2>1, <3>1, <4>1
    <3>3. Head(va) = f[2]
      BY <1>1, <3>1, ArgsAhead
    <3> QED BY <2>1, <2>2, <2>3, <3>2, <3>3 DEF Precision
  <2>5. CASE Len(FieldArgs(f)) = 0
    <3>1. \A i \in 1 .. P : FieldText(f)[i] \in Decimals
      BY <1>2, <1>4, <2>5, FieldIs
    <3>2. Within(job, item, b, a, "length", pos', va')
      BY PrecisionWithin
    <3>3. pos' = b + g + 1
      BY <3>2 DEF Within
    <3>4. e \in Nat /\ b + g + 1 <= Len(format)
      <4> DEFINE s == ToSpec(item)
                 F == Len(item.flags)
                 W == Len(FieldText(item.width))
                 L == Len(item.length)
      <4>1. /\ ToWidth(item) = 1 + F /\ F \in Nat /\ e = ToWidth(item) + W /\ W \in Nat
            /\ g \in Nat /\ s = g + L /\ L \in Nat /\ b + s + 1 <= Len(format)
        BY CharsAhead
      <4> HIDE DEF s, F, W, L, e, g
      <4> QED BY <1>2, <4>1
    <3> HIDE DEF e, g, P
    <3>5. Ch(pos + 1) # "*"
      <4>1. CASE P = 0
        <5>1. pos + 1 = b + g + 1
          BY <1>1, <1>2, <2>1, <3>4, <4>1
        <5> QED BY <2>1, <5>1, LettersAndSpecs
      <4>2. CASE P # 0
        <5>1. 1 \in 1 .. P
          BY <2>1, <4>2
        <5> QED BY <1>1, <2>1, <3>1, <5>1, DecimalsAre
      <4> QED BY <4>1, <4>2
    <3>6. precision' = RunValue(pos + 1) /\ pos' = RunEnd(pos + 1)
      BY <2>1, <3>5 DEF Precision
    <3>7. pos + 1 \in 1 .. Len(format) + 1 /\ (pos + 1) + P = b + g + 1
      BY <1>1, <1>2, <2>1, <3>4
    <3>8. RunsTo(pos + 1, (pos + 1) + P)
      BY <3>3, <3>6, <3>7, RunEnds
    <3>9. \A i \in 1 .. P : Ch((pos + 1) + i - 1) = FieldText(f)[i]
      <4> SUFFICES ASSUME NEW i \in 1 .. P PROVE Ch((pos + 1) + i - 1) = FieldText(f)[i]
        OBVIOUS
      <4>1. (pos + 1) + i - 1 = b + e + 1 + i
        BY <1>1, <1>2, <3>4
      <4> QED BY <2>1, <4>1
    <3>10. precision' = f[2] /\ f[2] \in Nat
      BY <1>2, <1>4, <2>5, <3>6, <3>7, <3>8, <3>9, FieldRun DEF P
    <3>11. PrecRead(item) = f[2]
      BY <2>3, <3>10 DEF Most
    <3> QED BY <2>2, <3>10, <3>11
  <2> QED BY <2>4, <2>5
<1> QED BY <1>3, <1>4

\* What has been read of a directive that begins behind b characters, at
\* position p in state c.
ReadSoFar(item, b, c, p, fl, w, r) ==
    /\ c = "flags" => fl = {item.flags[i] : i \in 1 .. p - b - 2}
    /\ c = "precision" => fl = FlagsOf(item) \cup LeftFlag(item)
    /\ c = "length" => fl = FlagsOf(item) \cup LeftFlag(item) \cup PrecFlag(item)
    /\ c = "specifier" => fl = ReadFlags(item)
    /\ c \in {"precision", "length", "specifier"} => w = WidthOf(item)
    /\ c \in {"length", "specifier"} => r = PrecRead(item)

LEMMA ReadsOn ==
    ASSUME NEW item, NEW b, NEW a, Facing(item, b, a), Len(format) \in Nat,
           Within(job, item, b, a, pc, pos, va),
           ReadSoFar(item, b, pc, pos, flags, width, precision),
           Flag \/ Width \/ Precision \/ Length
    PROVE  ReadSoFar(item, b, pc', pos', flags', width', precision')
<1>1. b \in Nat /\ IsText(item.flags) /\ Len(item.flags) \in Nat
  BY CharsAhead, SeqIsText DEF Facing, IsDirective
<1>2. CASE Flag
  <2>1. /\ pc = "flags" /\ pc' = "flags" /\ pos' = pos + 1
        /\ flags' = flags \cup {Ch(pos)} /\ flags = {item.flags[i] : i \in 1 .. pos - b - 2}
    BY <1>2 DEF Flag, ReadSoFar
  <2>2. Within(job, item, b, a, "flags", pos', va')
    BY <1>2, FlagWithin
  <2>3. PICK m \in 0 .. Len(item.flags) : pos = b + 1 + m + 1
    BY <2>1 DEF Within
  <2>4. PICK n \in 0 .. Len(item.flags) : pos' = b + 1 + n + 1
    BY <2>2 DEF Within
  <2>5. n = m + 1
    BY <1>1, <2>1, <2>3, <2>4
  <2>6. n \in 1 .. Len(item.flags) /\ pos = b + 1 + n
    BY <1>1, <2>3, <2>4, <2>5
  <2>7. Ch(pos) = item.flags[n]
    BY <2>6, CharsAhead
  <2>8. pos - b - 2 = n - 1 /\ pos' - b - 2 = n
    BY <1>1, <2>4, <2>6
  <2>9. {item.flags[i] : i \in 1 .. n - 1} \cup {item.flags[n]} = {item.flags[i] : i \in 1 .. n}
    <3>1. \A i : i \in 1 .. n <=> i \in 1 .. n - 1 \/ i = n
      BY <1>1, <2>6
    <3> QED BY <3>1
  <2>10. flags' = {item.flags[i] : i \in 1 .. pos' - b - 2}
    BY <2>1, <2>7, <2>8, <2>9
  <2> QED BY <2>1, <2>10 DEF ReadSoFar
<1>3. CASE Width
  <2>1. /\ pc = "flags" /\ pc' = "precision"
        /\ flags = {item.flags[i] : i \in 1 .. pos - b - 2}
    BY <1>3 DEF Width, ReadSoFar
  <2>2. pos = b + 1 + Len(item.flags) + 1
    BY <1>3, WidthStarts
  <2>3. pos - b - 2 = Len(item.flags)
    <3> DEFINE F == Len(item.flags)
    <3>1. F \in Nat /\ b \in Nat /\ pos = b + 1 + F + 1
      BY <1>1, <2>2
    <3> HIDE DEF F
    <3>2. pos - b - 2 = F
      BY <3>1
    <3> QED BY <3>2 DEF F
  <2>4. FlagsOf(item) = {item.flags[i] : i \in 1 .. Len(item.flags)}
    <3>1. DOMAIN item.flags = 1 .. Len(item.flags)
      BY <1>1 DEF IsText
    <3> QED BY <3>1 DEF FlagsOf, ToSet
  <2>5. flags = FlagsOf(item)
    BY <2>1, <2>3, <2>4
  <2>6. width' = WidthOf(item) /\ flags' = FlagsOf(item) \cup LeftFlag(item)
    BY <1>3, <2>5, WidthRead
  <2> QED BY <2>1, <2>6 DEF ReadSoFar
<1>4. CASE Precision
  <2>1. /\ pc = "precision" /\ pc' = "length" /\ width' = width
        /\ flags = FlagsOf(item) \cup LeftFlag(item) /\ width = WidthOf(item)
    BY <1>4 DEF Precision, ReadSoFar
  <2>2. precision' = PrecRead(item) /\ flags' = flags \cup PrecFlag(item)
    BY <1>4, PrecisionRead
  <2> QED BY <2>1, <2>2 DEF ReadSoFar
<1>5. CASE Length
  <2>1. /\ pc = "length" /\ pc' = "specifier" /\ width' = width /\ precision' = precision
        /\ flags' = flags \cup LengthFlags(LengthAt(pos))
        /\ flags = FlagsOf(item) \cup LeftFlag(item) \cup PrecFlag(item)
        /\ width = WidthOf(item) /\ precision = PrecRead(item)
    BY <1>5 DEF Length, ReadSoFar
  <2>2. pos = b + ToLength(item) + 1
    BY <2>1 DEF Within
  <2>3. LengthAt(pos) = item.length
    BY <2>2, LengthFound
  <2>4. flags' = ReadFlags(item)
    BY <2>1, <2>3 DEF ReadFlags
  <2> QED BY <2>1, <2>4 DEF ReadSoFar
<1> QED BY <1>2, <1>3, <1>4, <1>5

-----------------------------------------------------------------------------
(* The output is what the items mean, one after the other.                 *)

Meanings(j) == Each(Meaning, j.items)
AllStandard(j) == \A i \in 1 .. Len(j.items) : Standard(j.items[i])
MeantAt(j) == CHOOSE off : Placed(off, Meanings(j))

\* What the first k items mean.
Output(j, k) == SubSeq(FlattenSeq(Meanings(j)), 1, MeantAt(j)[k])

LEMMA MeaningsPlaced ==
    ASSUME NEW j \in Jobs, AllStandard(j)
    PROVE  /\ Len(j.items) \in Nat /\ Len(Meanings(j)) = Len(j.items)
           /\ \A i \in 1 .. Len(j.items) : Meanings(j)[i] = Meaning(j.items[i])
           /\ \A i \in 1 .. Len(j.items) : IsText(Meaning(j.items[i]))
           /\ Placed(MeantAt(j), Meanings(j))
<1> DEFINE n == Len(j.items)
           M == Meanings(j)
<1>1. n \in Nat /\ \A i \in 1 .. n : IsLiteral(j.items[i]) \/ IsDirective(j.items[i])
  BY JobAssumption
<1>2. M = [i \in 1 .. n |-> Meaning(j.items[i])]
  BY DEF Meanings, Each
<1>3. \A i \in 1 .. n : IsText(Meaning(j.items[i]))
  BY <1>1, MeaningText DEF AllStandard
<1> HIDE DEF n, M
<1>4. \A i \in 1 .. n : M[i] = Meaning(j.items[i])
  BY <1>2
<1>5. DOMAIN M = 1 .. n /\ M = [i \in 1 .. n |-> M[i]]
  BY <1>2
<1>6. IsText(M) /\ Len(M) = n
  BY <1>1, <1>5, FunctionIsText
<1>7. \A i \in 1 .. Len(M) : IsText(M[i])
  BY <1>3, <1>4, <1>6
<1>8. \E off : Placed(off, M)
  BY <1>6, <1>7, Flattening
<1>9. Placed(MeantAt(j), M)
  BY <1>8 DEF MeantAt, M
<1> QED BY <1>1, <1>3, <1>4, <1>6, <1>9 DEF n, M

LEMMA OutputGrows ==
    ASSUME NEW j \in Jobs, AllStandard(j)
    PROVE  /\ Output(j, 0) = <<>>
           /\ \A k \in 0 .. Len(j.items) - 1 :
                 Output(j, k) \o Meaning(j.items[k + 1]) = Output(j, k + 1)
           /\ Output(j, Len(j.items)) = FlattenSeq(Meanings(j))
<1> DEFINE n == Len(j.items)
           M == Meanings(j)
           off == MeantAt(j)
           flat == FlattenSeq(M)
<1>1. /\ n \in Nat /\ Len(M) = n /\ Placed(off, M)
      /\ \A i \in 1 .. n : M[i] = Meaning(j.items[i]) /\ IsText(Meaning(j.items[i]))
  BY MeaningsPlaced
<1> HIDE DEF M, off, n
<1>2. /\ off \in [0 .. n -> Nat] /\ off[0] = 0
      /\ \A i \in 1 .. n : off[i] = off[i - 1] + Len(M[i])
      /\ IsText(flat) /\ Len(flat) = off[n]
      /\ \A i \in 0 .. n : off[i] <= Len(flat)
      /\ \A i \in 1 .. n : \A k \in 1 .. Len(M[i]) : flat[off[i - 1] + k] = M[i][k]
  BY <1>1 DEF Placed
<1> HIDE DEF flat
<1>3. ASSUME NEW k \in 0 .. n
      PROVE  /\ IsText(SubSeq(flat, 1, off[k])) /\ Len(SubSeq(flat, 1, off[k])) = off[k]
             /\ \A i \in 1 .. off[k] : SubSeq(flat, 1, off[k])[i] = flat[i]
  <2>1. off[k] \in Nat /\ off[k] <= Len(flat)
    BY <1>2
  <2> QED BY <1>2, <2>1, PrefixIs
<1>4. 0 \in 0 .. n /\ n \in 0 .. n
  BY <1>1
<1>5. SubSeq(flat, 1, off[0]) = <<>>
  <2> DEFINE s == SubSeq(flat, 1, off[0])
  <2>1. IsText(s) /\ Len(s) = 0
    BY <1>2, <1>3, <1>4
  <2> HIDE DEF s
  <2>2. IsText(<<>>) /\ Len(<<>>) = 0
    BY EmptyText
  <2>3. \A i \in 1 .. Len(s) : s[i] = <<>>[i]
    BY <2>1
  <2>4. s = <<>>
    BY <2>1, <2>2, <2>3, SameTexts
  <2> QED BY <2>4 DEF s
<1>6. SubSeq(flat, 1, off[n]) = flat
  <2>1. /\ IsText(SubSeq(flat, 1, off[n])) /\ Len(SubSeq(flat, 1, off[n])) = Len(flat)
        /\ \A i \in 1 .. Len(flat) : SubSeq(flat, 1, off[n])[i] = flat[i]
    BY <1>2, <1>3, <1>4
  <2> QED BY <1>2, <2>1, SameTexts
<1>7. ASSUME NEW k \in 0 .. n - 1
      PROVE  SubSeq(flat, 1, off[k]) \o M[k + 1] = SubSeq(flat, 1, off[k + 1])
  <2> DEFINE s == SubSeq(flat, 1, off[k])
             t == M[k + 1]
             u == SubSeq(flat, 1, off[k + 1])
             x == off[k]
             y == Len(t)
  <2>1. k \in 0 .. n /\ k + 1 \in 0 .. n /\ k + 1 \in 1 .. n /\ (k + 1) - 1 = k
    BY <1>1
  <2>2. IsText(s) /\ Len(s) = x /\ \A i \in 1 .. x : s[i] = flat[i]
    BY <1>3, <2>1
  <2>3. /\ IsText(u) /\ Len(u) = off[k + 1]
        /\ \A i \in 1 .. off[k + 1] : u[i] = flat[i]
    BY <1>3, <2>1
  <2>4. IsText(t)
    BY <1>1, <2>1
  <2>5. off[k + 1] = x + y /\ \A r \in 1 .. y : flat[x + r] = t[r]
    BY <1>2, <2>1
  <2>6. x \in Nat /\ y \in Nat
    BY <1>2, <2>1, <2>4 DEF IsText
  <2> HIDE DEF s, t, u, x, y
  <2>7. /\ IsText(s \o t) /\ Len(s \o t) = Len(s) + Len(t)
        /\ \A i \in 1 .. Len(s) : (s \o t)[i] = s[i]
        /\ \A i \in 1 .. Len(t) : (s \o t)[Len(s) + i] = t[i]
    BY <2>2, <2>4, Concatenation
  <2>8. Len(s) = x /\ Len(t) = y /\ Len(s \o t) = x + y /\ Len(u) = x + y
    BY <2>2, <2>3, <2>5, <2>7 DEF y
  <2>9. ASSUME NEW i \in 1 .. x + y PROVE (s \o t)[i] = u[i]
    <3>1. u[i] = flat[i]
      BY <2>3, <2>5
    <3>2. CASE i <= x
      <4>1. i \in 1 .. x
        BY <2>6, <3>2
      <4> QED BY <2>2, <2>7, <2>8, <3>1, <4>1
    <3>3. CASE ~(i <= x)
      <4>1. i - x \in 1 .. y /\ x + (i - x) = i
        BY <2>6, <3>3
      <4>2. (s \o t)[x + (i - x)] = t[i - x]
        BY <2>7, <2>8, <4>1
      <4>3. flat[x + (i - x)] = t[i - x]
        BY <2>5, <4>1
      <4> QED BY <3>1, <4>1, <4>2, <4>3
    <3> QED BY <3>2, <3>3
  <2>10. s \o t = u
    BY <2>3, <2>7, <2>8, <2>9, SameTexts
  <2> QED BY <2>10 DEF s, t, u
<1>8. \A k \in 0 .. n - 1 : k + 1 \in 1 .. n
  BY <1>1
<1>9. \A k \in 0 .. n - 1 :
         SubSeq(flat, 1, off[k]) \o Meaning(j.items[k + 1]) = SubSeq(flat, 1, off[k + 1])
  BY <1>1, <1>7, <1>8
<1> QED BY <1>5, <1>6, <1>9 DEF Output, flat, M, off, n

\* k items have been put out, and what the next says has been read so far.
PutOut(k) ==
    /\ Taken(job, k, pc, pos, va)
    /\ full = Output(job, k)
    /\ ReadSoFar(job.items[k + 1], TextAt(job)[k], pc, pos, flags, width, precision)

MeaningInv ==
    /\ ItemInv
    /\ job.entry # "sprintf_" /\ AllStandard(job) =>
          \E k \in 0 .. Len(job.items) : PutOut(k)

LEMMA MeaningInit == Init => MeaningInv
<1> SUFFICES ASSUME Init PROVE MeaningInv
  OBVIOUS
<1>1. ItemInv
  BY ItemInit
<1>2. ASSUME job.entry # "sprintf_", AllStandard(job)
      PROVE  \E k \in 0 .. Len(job.items) : PutOut(k)
  <2>1. job \in Jobs /\ format = Written(job)
    BY <1>2 DEF Init, Format
  <2>2. TextAt(job)[0] = 0 /\ ValueAt(job)[0] = 0 /\ IsText(Passed(job))
    BY <2>1, ItemsEnd
  <2>3. pc = "text" /\ pos = 1 /\ va = Passed(job) /\ full = <<>>
    BY DEF Init
  <2>4. va = Rest(job, 0)
    BY <2>2, <2>3, RestEnds
  <2>5. Taken(job, 0, pc, pos, va)
    BY <2>2, <2>3, <2>4 DEF Taken
  <2>6. full = Output(job, 0)
    BY <1>2, <2>1, <2>3, OutputGrows
  <2>7. ReadSoFar(job.items[0 + 1], TextAt(job)[0], pc, pos, flags, width, precision)
    BY <2>3 DEF ReadSoFar
  <2>8. 0 \in 0 .. Len(job.items)
    BY <2>1, ItemsPlaced
  <2> QED BY <2>5, <2>6, <2>7, <2>8 DEF PutOut
<1> QED BY <1>1, <1>2 DEF MeaningInv

LEMMA PutsOut ==
    ASSUME job \in Jobs, format = Written(job), AllStandard(job), [Next]_vars,
           NEW k \in 0 .. Len(job.items), PutOut(k)
    PROVE  \E i \in 0 .. Len(job.items) : PutOut(i)'
<1> DEFINE item == job.items[k + 1]
           b == TextAt(job)[k]
           a == ValueAt(job)[k]
           n == Len(job.items)
<1>1. /\ job' = job /\ Taken(job, k, pc, pos, va) /\ full = Output(job, k)
      /\ ReadSoFar(item, b, pc, pos, flags, width, precision)
  BY DEF Next, Ordinary, Percent, Flag, Width, Precision, Length, Specifier,
         Terminate, vars, PutOut
<1>2. Len(format) \in Nat
  BY ItemsEnd DEF IsText
<1>3. ASSUME NEW s, Out(s), s = Meaning(item), pc' = "text", k \in 0 .. n - 1,
             Taken(job, k + 1, pc', pos', va')
      PROVE  \E i \in 0 .. n : PutOut(i)'
  <2>1. k + 1 \in 0 .. n
    BY <1>3, ItemsPlaced
  <2>2. full' = Output(job, k + 1)
    BY <1>1, <1>3, OutputGrows DEF Out
  <2>3. ReadSoFar(job.items[(k + 1) + 1], TextAt(job)[k + 1], pc', pos',
                  flags', width', precision')
    BY <1>3 DEF ReadSoFar
  <2>4. PutOut(k + 1)'
    BY <1>1, <1>3, <2>2, <2>3 DEF PutOut
  <2> QED BY <2>1, <2>4
<1>4. ASSUME full' = full, Taken(job, k, pc', pos', va'),
             ReadSoFar(item, b, pc', pos', flags', width', precision')
      PROVE  \E i \in 0 .. n : PutOut(i)'
  BY <1>1, <1>4 DEF PutOut
<1>5. CASE Ordinary
  <2>1. k \in 0 .. n - 1 /\ Taken(job, k + 1, pc', pos', va')
    BY <1>1, <1>5, ItemMoves
  <2>2. pc = "text" /\ Ch(pos) # "%" /\ Out(<<Ch(pos)>>) /\ pc' = "text"
    BY <1>5 DEF Ordinary
  <2>3. pos = b + 1
    BY <1>1, <2>2, BetweenItems
  <2>4. IsLiteral(item)
    BY <2>1, <2>2, <2>3, ItemStart
  <2>5. Len(TextOf(item)) = 1 /\ TextOf(item)[1] = item.arg
    BY <2>4, LiteralText
  <2>6. Ch(b + 1) = TextOf(item)[1]
    <3>1. 1 \in 1 .. Len(TextOf(item))
      BY <2>5
    <3> QED BY <2>1, <3>1, ItemChars
  <2>7. <<Ch(pos)>> = Meaning(item)
    BY <2>3, <2>4, <2>5, <2>6 DEF Meaning, IsLiteral
  <2> QED BY <1>3, <2>1, <2>2, <2>7
<1>6. CASE Percent
  <2>1. /\ pc = "text" /\ pos' = pos + 1 /\ flags' = {} /\ pc' = "flags" /\ full' = full
    BY <1>6 DEF Percent
  <2>2. Taken(job, k, pc', pos', va')
    BY <1>1, <1>6, ItemMoves
  <2>3. pos = b + 1 /\ b \in Nat
    <3>1. k \in 0 .. n - 1
      BY <1>1, <1>6, ItemMoves
    <3> QED BY <1>1, <2>1, <3>1, BetweenItems, ItemChars
  <2>4. pos' - b - 2 = 0
    BY <2>1, <2>3
  <2>5. {item.flags[i] : i \in 1 .. pos' - b - 2} = {}
    BY <2>4
  <2>6. ReadSoFar(item, b, pc', pos', flags', width', precision')
    BY <2>1, <2>5 DEF ReadSoFar
  <2> QED BY <1>4, <2>1, <2>2, <2>6
<1>7. CASE Flag \/ Width \/ Precision \/ Length
  <2>1. pc \notin {"text", "done"} /\ full' = full
    BY <1>7 DEF Flag, Width, Precision, Length
  <2>2. Facing(item, b, a) /\ Within(job, item, b, a, pc, pos, va)
    BY <1>1, <2>1, InItem
  <2>3. ReadSoFar(item, b, pc', pos', flags', width', precision')
    BY <1>1, <1>2, <1>7, <2>2, ReadsOn
  <2>4. Taken(job, k, pc', pos', va')
    BY <1>1, <1>7, ItemMoves
  <2> QED BY <1>4, <2>1, <2>3, <2>4
<1>8. CASE Specifier
  <2>1. pc = "specifier" /\ pc' = "text" /\ Out(Converted(Ch(pos)))
    BY <1>8 DEF Specifier
  <2>2. k \in 0 .. n - 1 /\ Taken(job, k + 1, pc', pos', va')
    BY <1>1, <1>8, ItemMoves
  <2>3. IsDirective(item) /\ Facing(item, b, a) /\ Within(job, item, b, a, pc, pos, va)
    BY <1>1, <2>1, InItem
  <2>4. pos = b + ToSpec(item) + 1 /\ va = Rest(job, a + ToValue(item))
    BY <2>1, <2>3 DEF Within
  <2>5. Ch(pos) = item.spec /\ (item.spec # "%" => Head(va) = item.arg)
    BY <2>3, <2>4, CharsAhead, ArgsAhead
  <2>6. flags = ReadFlags(item) /\ width = WidthOf(item) /\ precision = PrecRead(item)
    BY <1>1, <2>1 DEF ReadSoFar
  <2>7. Standard(item)
    <3>1. k + 1 \in 1 .. n
      BY <2>2, ItemsPlaced
    <3> QED BY <3>1 DEF AllStandard
  <2>8. Converted(Ch(pos)) = Meaning(item)
    BY <2>3, <2>5, <2>6, <2>7, ConversionMeans
  <2> QED BY <1>3, <2>1, <2>2, <2>8
<1>9. CASE Terminate
  <2>1. pc' = "done" /\ full' = full
    BY <1>9 DEF Terminate
  <2>2. Taken(job, k, pc', pos', va')
    BY <1>1, <1>9, ItemMoves
  <2>3. ReadSoFar(item, b, pc', pos', flags', width', precision')
    BY <2>1 DEF ReadSoFar
  <2> QED BY <1>4, <2>1, <2>2, <2>3
<1>10. CASE UNCHANGED vars
  <2>1. UNCHANGED <<job, pc, pos, va, flags, width, precision, full>>
    BY <1>10 DEF vars
  <2> QED BY <1>1, <1>4, <2>1
<1> QED BY <1>5, <1>6, <1>7, <1>8, <1>9, <1>10 DEF Next

LEMMA MeaningNext == MeaningInv /\ [Next]_vars => MeaningInv'
<1> SUFFICES ASSUME MeaningInv, [Next]_vars PROVE MeaningInv'
  OBVIOUS
<1>1. ItemInv'
  BY ItemNext DEF MeaningInv
<1>2. job' = job
  BY DEF Next, Ordinary, Percent, Flag, Width, Precision, Length, Specifier,
         Terminate, vars
<1>3. ASSUME job.entry # "sprintf_", AllStandard(job)
      PROVE  \E k \in 0 .. Len(job.items) : PutOut(k)'
  <2>1. PICK k \in 0 .. Len(job.items) : PutOut(k)
    BY <1>3 DEF MeaningInv
  <2>2. job \in Jobs /\ format = Written(job)
    BY <1>3 DEF MeaningInv, ItemInv, Format
  <2> QED BY <1>3, <2>1, <2>2, PutsOut
<1> QED BY <1>1, <1>2, <1>3 DEF MeaningInv, AllStandard

\* What a call puts out is what its items mean to the C standard, one after
\* the other: for every list of literals and directives that the code and the
\* standard read alike, flags in any order, fields in numbers or arguments, and
\* numbers of any size, converted, padded, prefixed and signed, as far as the
\* digit buffer has room.
THEOREM ConversionsMean == Spec => []PrintsTheMeaning
<1>1. MeaningInv => PrintsTheMeaning
  <2> SUFFICES ASSUME MeaningInv, pc = "done", job.entry # "sprintf_", AllStandard(job)
               PROVE  full = FlattenSeq(Each(Meaning, job.items))
    BY DEF PrintsTheMeaning, AllStandard
  <2>1. PICK k \in 0 .. Len(job.items) : PutOut(k)
    BY DEF MeaningInv
  <2>2. k = Len(job.items)
    BY <2>1 DEF PutOut, Taken, Within
  <2>3. job \in Jobs
    BY DEF MeaningInv, ItemInv
  <2>4. full = FlattenSeq(Meanings(job))
    BY <2>1, <2>2, <2>3, OutputGrows DEF PutOut
  <2> QED BY <2>4 DEF Meanings
<1> QED BY <1>1, MeaningInit, MeaningNext, PTL DEF Spec
=============================================================================
