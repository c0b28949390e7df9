---------------------------- MODULE NumberProofs ----------------------------
(***************************************************************************)
(* Proofs about numbers in the library: what digits make of a base, the    *)
(* order of areas and texts, reading and writing a number, and division.   *)
(*                                                                         *)
(* A number is the value of its digits by Horner's rule (module CString's  *)
(* NumberUpTo), a function on 0 .. Len(v) whose steps are the facts        *)
(* everything here rests on (NumberSteps); what holds for every length is  *)
(* shown by UpToInduction, for the sets of lengths it is needed for.       *)
(*                                                                         *)
(* strtol has read k digits when its number is that of the first k, or it  *)
(* has met the bound (Taking); itoa has written i of them when they are    *)
(* the remainders of the quotients it went through (Dividing); and the     *)
(* bits of the quotient that udivmoddi4 has found, times the divisor, and  *)
(* the rest make up the number (LoopInvariant).                            *)
(***************************************************************************)
EXTENDS LibcProofs

-----------------------------------------------------------------------------
(* The number that digits make.                                            *)

\* What holds of 0, and of k + 1 if it holds of k, holds up to L.
LEMMA UpToInduction ==
    ASSUME NEW L \in Nat, NEW S, 0 \in S, \A k \in 0 .. L - 1 : k \in S => k + 1 \in S
    PROVE  0 .. L \subseteq S
<1> SUFFICES ASSUME NEW n \in 0 .. L, n \notin S PROVE FALSE
  OBVIOUS
<1> DEFINE T == {k \in 0 .. L : k \notin S}
<1>1. T \subseteq Nat /\ T # {}
  OBVIOUS
<1> HIDE DEF T
<1>2. PICK x \in T : \A y \in T : x <= y
  BY <1>1, LeastNat
<1> USE DEF T
<1>3. x \in 0 .. L /\ x \notin S /\ x # 0
  BY <1>2
<1>4. x - 1 \in 0 .. L - 1 /\ ~(x <= x - 1) /\ (x - 1) + 1 = x
  BY <1>3
<1>5. x - 1 \in S
  BY <1>2, <1>4
<1> QED BY <1>3, <1>4, <1>5

\* One digit more.
Horner(f, v, base, k) == IF k = 0 THEN 0 ELSE f[k - 1] * base + v[k]

LEMMA HornerExists ==
    ASSUME NEW v, NEW base, NEW L \in Nat
    PROVE  \E f : f = [k \in 0 .. L |-> Horner(f, v, base, k)]
<1> DEFINE Good(n) == \E f : f = [k \in 0 .. n |-> Horner(f, v, base, k)]
           S == {n \in Nat : Good(n)}
<1>1. Good(0)
  <2> DEFINE f == [k \in 0 .. 0 |-> 0]
  <2>1. \A k \in 0 .. 0 : k = 0
    OBVIOUS
  <2>2. f = [k \in 0 .. 0 |-> Horner(f, v, base, k)]
    BY <2>1 DEF Horner
  <2> QED BY <2>2
<1>2. ASSUME NEW n \in Nat, Good(n) PROVE Good(n + 1)
  <2>1. PICK f : f = [k \in 0 .. n |-> Horner(f, v, base, k)]
    BY <1>2
  <2> DEFINE g == [k \in 0 .. n + 1 |-> IF k = n + 1 THEN f[n] * base + v[n + 1] ELSE f[k]]
  <2>2. ASSUME NEW k \in 0 .. n + 1 PROVE g[k] = Horner(g, v, base, k)
    <3>1. CASE k = n + 1
      <4>1. g[k] = f[n] * base + v[n + 1] /\ g[n] = f[n] /\ k # 0 /\ k - 1 = n
        BY <3>1
      <4> QED BY <4>1, <3>1 DEF Horner
    <3>2. CASE k # n + 1
      <4>1. k \in 0 .. n /\ g[k] = f[k] /\ f[k] = Horner(f, v, base, k)
        BY <3>2, <2>1
      <4>2. k # 0 => k - 1 \in 0 .. n + 1 /\ k - 1 # n + 1
        BY <4>1
      <4>3. k # 0 => g[k - 1] = f[k - 1]
        BY <4>2
      <4> HIDE DEF g
      <4> QED BY <4>1, <4>3 DEF Horner
    <3> QED BY <3>1, <3>2
  <2>3. g = [k \in 0 .. n + 1 |-> g[k]]
    OBVIOUS
  <2> HIDE DEF g
  <2>4. g = [k \in 0 .. n + 1 |-> Horner(g, v, base, k)]
    BY <2>2, <2>3
  <2> QED BY <2>4
<1>3. 0 \in S /\ \A k \in 0 .. L - 1 : k \in S => k + 1 \in S
  <2> HIDE DEF Good
  <2> QED BY <1>1, <1>2
<1> HIDE DEF S
<1>4. L \in S
  BY <1>3, UpToInduction
<1> QED BY <1>4 DEF S

LEMMA NumberUpToIs ==
    ASSUME NEW v, NEW base, Len(v) \in Nat
    PROVE  NumberUpTo(v, base)
             = [k \in 0 .. Len(v) |-> Horner(NumberUpTo(v, base), v, base, k)]
<1> DEFINE L == Len(v)
<1>1. NumberUpTo(v, base)
        = CHOOSE f : f = [k \in 0 .. L |-> IF k = 0 THEN 0 ELSE f[k - 1] * base + v[k]]
  BY DEF NumberUpTo
<1>2. \E f : f = [k \in 0 .. L |-> IF k = 0 THEN 0 ELSE f[k - 1] * base + v[k]]
  BY HornerExists DEF Horner
<1> HIDE DEF L
<1> QED BY <1>1, <1>2 DEF Horner, L

LEMMA NumberSteps ==
    ASSUME NEW v \in Seq(Nat), NEW base \in Nat
    PROVE  /\ NumberUpTo(v, base) \in [0 .. Len(v) -> Nat]
           /\ NumberUpTo(v, base)[0] = 0
           /\ \A k \in 0 .. Len(v) - 1 :
                 NumberUpTo(v, base)[k + 1] = NumberUpTo(v, base)[k] * base + v[k + 1]
<1> DEFINE f == NumberUpTo(v, base)
           L == Len(v)
           S == {k \in 0 .. L : f[k] \in Nat}
<1>1. L \in Nat
  OBVIOUS
<1>2. f = [k \in 0 .. L |-> Horner(f, v, base, k)]
  BY <1>1, NumberUpToIs
<1>3. \A i \in 1 .. L : v[i] \in Nat
  OBVIOUS
<1> HIDE DEF f, L
<1>4. f[0] = 0
  BY <1>1, <1>2 DEF Horner
<1>5. ASSUME NEW k \in 0 .. L - 1 PROVE f[k + 1] = f[k] * base + v[k + 1]
  <2>1. k + 1 \in 0 .. L /\ k + 1 # 0 /\ (k + 1) - 1 = k
    BY <1>1
  <2> QED BY <1>2, <2>1 DEF Horner
<1>6. ASSUME NEW k \in 0 .. L - 1, f[k] \in Nat PROVE f[k + 1] \in Nat
  <2>1. v[k + 1] \in Nat
    BY <1>1, <1>3
  <2>2. f[k] * base \in Nat
    BY <1>6
  <2> QED BY <1>5, <2>1, <2>2
<1>7. 0 \in S /\ \A k \in 0 .. L - 1 : k \in S => k + 1 \in S
  BY <1>1, <1>4, <1>6
<1> HIDE DEF S
<1>8. 0 .. L \subseteq S
  BY <1>1, <1>7, UpToInduction
<1>9. \A k \in 0 .. L : f[k] \in Nat
  BY <1>8 DEF S
<1>10. f \in [0 .. L -> Nat]
  <2>1. f = [k \in 0 .. L |-> f[k]]
    BY <1>2
  <2> QED BY <2>1, <1>9
<1> QED BY <1>4, <1>5, <1>10 DEF f, L

\* There is one such function.
LEMMA NumberUnique ==
    ASSUME NEW v \in Seq(Nat), NEW base \in Nat, NEW g, g[0] = 0,
           \A k \in 0 .. Len(v) - 1 : g[k + 1] = g[k] * base + v[k + 1]
    PROVE  \A k \in 0 .. Len(v) : NumberUpTo(v, base)[k] = g[k]
<1> DEFINE f == NumberUpTo(v, base)
           L == Len(v)
           S == {k \in 0 .. L : f[k] = g[k]}
<1>1. L \in Nat
  OBVIOUS
<1>2. f[0] = 0 /\ \A k \in 0 .. L - 1 : f[k + 1] = f[k] * base + v[k + 1]
  BY NumberSteps
<1> HIDE DEF f
<1>3. 0 \in S /\ \A k \in 0 .. L - 1 : k \in S => k + 1 \in S
  BY <1>1, <1>2
<1> HIDE DEF S, L
<1>4. 0 .. L \subseteq S
  BY <1>1, <1>3, UpToInduction
<1> QED BY <1>4 DEF S, f, L

LEMMA NumberIsNat ==
    ASSUME NEW v \in Seq(Nat), NEW base \in Nat
    PROVE  Number(v, base) \in Nat
<1>1. Len(v) \in 0 .. Len(v)
  OBVIOUS
<1> QED BY <1>1, NumberSteps DEF Number

-----------------------------------------------------------------------------
(* The first digit in which two numbers differ orders them.                *)

Digits(v, n, base) == v \in Seq(Nat) /\ Len(v) = n /\ \A i \in 1 .. n : v[i] < base

LEMMA SameDigits ==
    ASSUME NEW base \in Nat, NEW n \in Nat, NEW v, NEW w,
           Digits(v, n, base), Digits(w, n, base),
           NEW k \in 0 .. n, \A i \in 1 .. k : v[i] = w[i]
    PROVE  NumberUpTo(v, base)[k] = NumberUpTo(w, base)[k]
<1> DEFINE f == NumberUpTo(v, base)
           g == NumberUpTo(w, base)
           S == {i \in 0 .. k : f[i] = g[i]}
<1>1. /\ f[0] = 0 /\ \A i \in 0 .. n - 1 : f[i + 1] = f[i] * base + v[i + 1]
      /\ g[0] = 0 /\ \A i \in 0 .. n - 1 : g[i + 1] = g[i] * base + w[i + 1]
  BY NumberSteps DEF Digits
<1> HIDE DEF f, g
<1>2. ASSUME NEW i \in 0 .. k - 1, f[i] = g[i] PROVE f[i + 1] = g[i + 1]
  <2>1. i \in 0 .. n - 1 /\ i + 1 \in 1 .. k
    OBVIOUS
  <2>2. v[i + 1] = w[i + 1]
    BY <2>1
  <2> QED BY <1>1, <1>2, <2>1, <2>2
<1>3. 0 \in S /\ \A i \in 0 .. k - 1 : i \in S => i + 1 \in S
  BY <1>1, <1>2
<1> HIDE DEF S
<1>4. k \in S
  BY <1>3, UpToInduction
<1> QED BY <1>4 DEF S, f, g

LEMMA StaysBelow ==
    ASSUME NEW b \in Nat, NEW x \in Nat, NEW y \in Nat, x < y, NEW i \in Nat, i < b, NEW j \in Nat
    PROVE  x * b + i < y * b + j
<1>1. (x + 1) * b <= y * b
  BY SMT
<1>2. (x + 1) * b = x * b + b /\ x * b \in Nat /\ y * b \in Nat
  BY SMT
<1> QED BY <1>1, <1>2

LEMMA FirstDifference ==
    ASSUME NEW base \in Nat, NEW n \in Nat, NEW v, NEW w,
           Digits(v, n, base), Digits(w, n, base),
           NEW k \in 0 .. n - 1, \A i \in 1 .. k : v[i] = w[i], v[k + 1] < w[k + 1]
    PROVE  Number(v, base) < Number(w, base)
<1> DEFINE f == NumberUpTo(v, base)
           g == NumberUpTo(w, base)
           S == {i \in 0 .. n : i > k => f[i] < g[i]}
<1>1. /\ f \in [0 .. n -> Nat] /\ \A i \in 0 .. n - 1 : f[i + 1] = f[i] * base + v[i + 1]
      /\ g \in [0 .. n -> Nat] /\ \A i \in 0 .. n - 1 : g[i + 1] = g[i] * base + w[i + 1]
  BY NumberSteps DEF Digits
<1>2. \A i \in 1 .. n : v[i] \in Nat /\ w[i] \in Nat /\ v[i] < base
  BY DEF Digits
<1>3. f[k] = g[k]
  BY SameDigits
<1> HIDE DEF f, g
<1>4. ASSUME NEW i \in 0 .. n - 1, i > k => f[i] < g[i], i + 1 > k PROVE f[i + 1] < g[i + 1]
  <2>1. i + 1 \in 1 .. n /\ f[i] \in Nat /\ g[i] \in Nat
    BY <1>1
  <2>2. /\ f[i + 1] = f[i] * base + v[i + 1] /\ g[i + 1] = g[i] * base + w[i + 1]
        /\ v[i + 1] \in Nat /\ w[i + 1] \in Nat /\ v[i + 1] < base
    BY <1>1, <1>2, <2>1
  <2>3. CASE i > k
    BY <1>4, <2>1, <2>2, <2>3, StaysBelow
  <2>4. CASE ~(i > k)
    <3>1. i = k
      BY <1>4, <2>4
    <3>2. f[i] * base \in Nat
      BY <2>1
    <3> QED BY <1>3, <2>2, <3>1, <3>2
  <2> QED BY <2>3, <2>4
<1>5. 0 \in S /\ \A i \in 0 .. n - 1 : i \in S => i + 1 \in S
  BY <1>4
<1> HIDE DEF S
<1>6. n \in S
  BY <1>5, UpToInduction
<1>7. f[n] < g[n]
  BY <1>6 DEF S
<1> QED BY <1>7 DEF Number, Digits, f, g

\* The same digits up to k, and others behind it if there are any.
LEMMA OrderedByFirst ==
    ASSUME NEW base \in Nat, NEW n \in Nat, NEW v, NEW w,
           Digits(v, n, base), Digits(w, n, base),
           NEW k \in 0 .. n, \A i \in 1 .. k : v[i] = w[i]
    PROVE  /\ k = n => Number(v, base) = Number(w, base)
           /\ k < n /\ v[k + 1] < w[k + 1] => Number(v, base) < Number(w, base)
           /\ k < n /\ v[k + 1] > w[k + 1] => Number(v, base) > Number(w, base)
           /\ Number(v, base) \in Nat /\ Number(w, base) \in Nat
<1>1. CASE k = n
  BY <1>1, SameDigits, NumberIsNat DEF Number, Digits
<1>2. CASE k < n
  <2>1. k \in 0 .. n - 1
    BY <1>2
  <2>2. v[k + 1] < w[k + 1] => Number(v, base) < Number(w, base)
    BY <2>1, FirstDifference
  <2>3. \A i \in 1 .. k : w[i] = v[i]
    OBVIOUS
  <2>4. w[k + 1] < v[k + 1] => Number(w, base) < Number(v, base)
    BY <2>1, <2>3, FirstDifference
  <2>5. v[k + 1] \in Nat /\ w[k + 1] \in Nat
    BY <2>1 DEF Digits
  <2>6. Number(v, base) \in Nat /\ Number(w, base) \in Nat
    BY NumberIsNat DEF Digits
  <2> QED BY <2>2, <2>4, <2>5, <2>6, <1>2
<1> QED BY <1>1, <1>2

-----------------------------------------------------------------------------
(* The comparisons.                                                        *)

\* The first n bytes at a, zeros behind the end.
Bytes(m, a, n, end) == [k \in 1 .. n |-> IF k <= end THEN m[a + k - 1] ELSE 0]

LEMMA BytesAre ==
    ASSUME NEW m, IsMemory(m), NEW a \in Nat, NEW n \in Nat, NEW end \in Nat, Within(m, a, end)
    PROVE  Digits(Bytes(m, a, n, end), n, 256)
<1> DEFINE v == [k \in 1 .. n |-> IF k <= end THEN m[a + k - 1] ELSE 0]
<1>1. \A p \in DOMAIN m : m[p] \in 0 .. 255
  BY DEF IsMemory
<1>2. ASSUME NEW k \in 1 .. n PROVE v[k] \in 0 .. 255
  <2>1. CASE k <= end
    <3>1. a + k - 1 \in DOMAIN m
      BY <2>1 DEF Within
    <3> QED BY <1>1, <2>1, <3>1
  <2>2. CASE ~(k <= end)
    BY <2>2
  <2> QED BY <2>1, <2>2
<1>3. v \in Seq(Nat) /\ Len(v) = n
  <2>1. v \in [1 .. n -> Nat]
    BY <1>2
  <2> HIDE DEF v
  <2> QED BY <2>1
<1>4. Digits(v, n, 256)
  BY <1>2, <1>3 DEF Digits
<1> QED BY <1>4 DEF Bytes

LEMMA AreaWeighs ==
    ASSUME NEW m, IsMemory(m), NEW a \in Nat, NEW n \in Nat, Within(m, a, n)
    PROVE  /\ Digits(Bytes(m, a, n, n), n, 256)
           /\ Weight(m, a, n, FALSE) = Number(Bytes(m, a, n, n), 256)
<1>1. Weight(m, a, n, FALSE) = Number(Bytes(m, a, n, n), 256)
  BY DEF Weight, Bytes
<1> QED BY <1>1, BytesAre

LEMMA TextWeighs ==
    ASSUME NEW m, IsMemory(m), NEW a \in Nat, NEW n \in Nat, Ended(m, a)
    PROVE  /\ Digits(Bytes(m, a, n, strlen(m, a)), n, 256)
           /\ Weight(m, a, n, TRUE) = Number(Bytes(m, a, n, strlen(m, a)), 256)
<1>1. Weight(m, a, n, TRUE) = Number(Bytes(m, a, n, strlen(m, a)), 256)
  BY DEF Weight, Bytes
<1>2. strlen(m, a) \in Nat /\ Within(m, a, strlen(m, a))
  BY LengthIs DEF Within
<1> QED BY <1>1, <1>2, BytesAre

\* Where two areas first differ or, for texts, end.
Stops(m, a, b, strings, j) == m[a + j] # m[b + j] \/ (strings /\ m[a + j] = NUL)

LEMMA StopIs ==
    ASSUME NEW m, NEW a, NEW b, NEW n \in Nat, NEW strings
    PROVE  /\ Stop(m, a, b, n, strings) \in 0 .. n
           /\ \A j \in 0 .. Stop(m, a, b, n, strings) - 1 : ~Stops(m, a, b, strings, j)
           /\ Stop(m, a, b, n, strings) < n
                 => Stops(m, a, b, strings, Stop(m, a, b, n, strings))
<1> DEFINE stops == {j \in 0 .. n - 1 : Stops(m, a, b, strings, j)}
           k == Stop(m, a, b, n, strings)
<1>1. k = IF stops = {} THEN n ELSE Min(stops)
  BY DEF Stop, Stops
<1> HIDE DEF k
<1>2. CASE stops = {}
  <2>1. k = n
    BY <1>1, <1>2
  <2>2. \A j \in 0 .. n - 1 : ~Stops(m, a, b, strings, j)
    BY <1>2
  <2> QED BY <2>1, <2>2 DEF k
<1>3. CASE stops # {}
  <2>1. stops \subseteq Nat
    OBVIOUS
  <2> HIDE DEF stops
  <2>2. PICK x \in stops : \A y \in stops : x <= y
    BY <1>3, <2>1, LeastNat
  <2>3. Min(stops) = x
    <3>1. \A z \in stops : (\A y \in stops : z <= y) => z = x
      BY <2>1, <2>2
    <3> QED BY <2>2, <3>1 DEF Min
  <2> USE DEF stops
  <2>4. x \in 0 .. n - 1 /\ Stops(m, a, b, strings, x)
    BY <2>2
  <2>5. ASSUME NEW j \in 0 .. x - 1 PROVE ~Stops(m, a, b, strings, j)
    <3>1. j \in 0 .. n - 1 /\ ~(x <= j)
      BY <2>4
    <3> QED BY <2>2, <3>1
  <2> HIDE DEF stops
  <2>6. k = x
    BY <1>1, <1>3, <2>3
  <2> QED BY <2>4, <2>5, <2>6 DEF k
<1> QED BY <1>2, <1>3

\* The result r has the sign of a difference.
SignOf(r, x, y) == Agrees(r, x - y)

LEMMA SignIs ==
    ASSUME NEW r \in Int, NEW x \in Nat, NEW y \in Nat,
           (r = 0 /\ x = y) \/ (r < 0 /\ x < y) \/ (r > 0 /\ x > y)
    PROVE  SignOf(r, x, y)
BY DEF SignOf, Agrees

LEMMA MemcmpOrders ==
    ASSUME NEW m, IsMemory(m), NEW a \in Nat, NEW b \in Nat, NEW n \in Nat,
           Within(m, a, n), Within(m, b, n)
    PROVE  SignOf(memcmp(m, a, b, n), Weight(m, a, n, FALSE), Weight(m, b, n, FALSE))
<1> DEFINE v == Bytes(m, a, n, n)
           w == Bytes(m, b, n, n)
           k == Stop(m, a, b, n, FALSE)
           x == Weight(m, a, n, FALSE)
           y == Weight(m, b, n, FALSE)
<1>1. k \in 0 .. n /\ (\A j \in 0 .. k - 1 : m[a + j] = m[b + j])
      /\ (k < n => m[a + k] # m[b + k])
  <2> HIDE DEF k
  <2>1. /\ k \in 0 .. n /\ (\A j \in 0 .. k - 1 : ~Stops(m, a, b, FALSE, j))
        /\ (k < n => Stops(m, a, b, FALSE, k))
    BY StopIs DEF k
  <2> QED BY <2>1 DEF Stops
<1>2. Digits(v, n, 256) /\ x = Number(v, 256) /\ Digits(w, n, 256) /\ y = Number(w, 256)
  <2>1. Digits(v, n, 256) /\ Weight(m, a, n, FALSE) = Number(v, 256)
    BY AreaWeighs
  <2>2. Digits(w, n, 256) /\ Weight(m, b, n, FALSE) = Number(w, 256)
    BY AreaWeighs
  <2> QED BY <2>1, <2>2
<1>3. \A i \in 1 .. n : v[i] = m[a + i - 1] /\ w[i] = m[b + i - 1]
  BY DEF Bytes
<1>4. memcmp(m, a, b, n) = IF k = n THEN 0 ELSE IF m[a + k] < m[b + k] THEN -1 ELSE 1
  BY DEF memcmp
<1> HIDE DEF v, w, k, x, y
<1>5. ASSUME NEW i \in 1 .. k PROVE v[i] = w[i]
  <2>1. i - 1 \in 0 .. k - 1 /\ a + (i - 1) = a + i - 1 /\ b + (i - 1) = b + i - 1 /\ i \in 1 .. n
    BY <1>1
  <2> QED BY <1>1, <1>3, <2>1
<1>6. k < n => v[k + 1] = m[a + k] /\ w[k + 1] = m[b + k] /\ v[k + 1] \in Nat /\ w[k + 1] \in Nat
  <2> SUFFICES ASSUME k < n PROVE v[k + 1] = m[a + k] /\ w[k + 1] = m[b + k]
                                  /\ v[k + 1] \in Nat /\ w[k + 1] \in Nat
    OBVIOUS
  <2>1. k + 1 \in 1 .. n /\ a + (k + 1) - 1 = a + k /\ b + (k + 1) - 1 = b + k
    BY <1>1
  <2>2. v[k + 1] \in Nat /\ w[k + 1] \in Nat
    BY <1>2, <2>1 DEF Digits
  <2> QED BY <1>3, <2>1, <2>2
<1>7. /\ k = n => Number(v, 256) = Number(w, 256)
      /\ k < n /\ v[k + 1] < w[k + 1] => Number(v, 256) < Number(w, 256)
      /\ k < n /\ v[k + 1] > w[k + 1] => Number(v, 256) > Number(w, 256)
      /\ Number(v, 256) \in Nat /\ Number(w, 256) \in Nat
  <2>1. 256 \in Nat
    OBVIOUS
  <2> QED BY <1>1, <1>2, <1>5, <2>1, OrderedByFirst
<1> DEFINE r == memcmp(m, a, b, n)
<1> SUFFICES SignOf(r, x, y)
  BY DEF x, y
<1>8. r = IF k = n THEN 0 ELSE IF m[a + k] < m[b + k] THEN -1 ELSE 1
  BY <1>4
<1> HIDE DEF r
<1>9. CASE k = n
  <2>1. r = 0 /\ r \in Int
    BY <1>8, <1>9
  <2> QED BY <1>2, <1>7, <1>9, <2>1, SignIs
<1>10. CASE k < n /\ m[a + k] < m[b + k]
  <2>1. r = -1 /\ r \in Int /\ r < 0
    BY <1>1, <1>8, <1>10
  <2>2. Number(v, 256) < Number(w, 256)
    BY <1>6, <1>7, <1>10
  <2> QED BY <1>2, <1>7, <2>1, <2>2, SignIs
<1>11. CASE k < n /\ m[a + k] > m[b + k]
  <2>1. r = 1 /\ r \in Int /\ r > 0
    BY <1>1, <1>8, <1>6, <1>11
  <2>2. Number(v, 256) > Number(w, 256)
    BY <1>6, <1>7, <1>11
  <2> QED BY <1>2, <1>7, <2>1, <2>2, SignIs
<1>12. k = n \/ (k < n /\ m[a + k] < m[b + k]) \/ (k < n /\ m[a + k] > m[b + k])
  BY <1>1, <1>6
<1> QED BY <1>9, <1>10, <1>11, <1>12

\* Two texts that are the same up to k, where they differ or both end: the bytes
\* there order them, as far as n, which is not before k.
LEMMA TextsOrdered ==
    ASSUME NEW m, IsMemory(m), NEW a \in Nat, NEW b \in Nat, NEW n \in Nat,
           Ended(m, a), Ended(m, b), NEW k \in 0 .. n,
           \A j \in 0 .. k - 1 : m[a + j] = m[b + j] /\ m[a + j] # NUL,
           k < n => m[a + k] # m[b + k] \/ m[a + k] = NUL
    PROVE  SignOf(IF k = n THEN 0 ELSE m[a + k] - m[b + k],
                  Weight(m, a, n, TRUE), Weight(m, b, n, TRUE))
<1> DEFINE la == strlen(m, a)
           lb == strlen(m, b)
           v == Bytes(m, a, n, la)
           w == Bytes(m, b, n, lb)
           x == Weight(m, a, n, TRUE)
           y == Weight(m, b, n, TRUE)
<1>1. Digits(v, n, 256) /\ x = Number(v, 256) /\ Digits(w, n, 256) /\ y = Number(w, 256)
  BY TextWeighs
<1>2. /\ la \in Nat /\ m[a + la] = NUL /\ \A j \in 0 .. la - 1 : m[a + j] # NUL
      /\ lb \in Nat /\ m[b + lb] = NUL /\ \A j \in 0 .. lb - 1 : m[b + j] # NUL
  BY LengthIs
<1>3. \A i \in 1 .. n : /\ v[i] = IF i <= la THEN m[a + i - 1] ELSE 0
                       /\ w[i] = IF i <= lb THEN m[b + i - 1] ELSE 0
  BY DEF Bytes
<1> HIDE DEF v, w, la, lb, x, y
<1>4. k <= la /\ k <= lb
  <2>1. ~(la < k)
    <3> SUFFICES ASSUME la < k PROVE FALSE
      OBVIOUS
    <3>1. la \in 0 .. k - 1
      BY <1>2
    <3> QED BY <1>2, <3>1
  <2>2. ~(lb < k)
    <3> SUFFICES ASSUME lb < k PROVE FALSE
      OBVIOUS
    <3>1. lb \in 0 .. k - 1
      BY <1>2
    <3> QED BY <1>2, <3>1
  <2> QED BY <1>2, <2>1, <2>2
<1>5. ASSUME NEW i \in 1 .. k PROVE v[i] = w[i]
  <2>1. i - 1 \in 0 .. k - 1 /\ a + (i - 1) = a + i - 1 /\ b + (i - 1) = b + i - 1 /\ i \in 1 .. n
        /\ i <= la /\ i <= lb
    BY <1>2, <1>4
  <2> QED BY <1>3, <2>1
<1>6. ASSUME k < n PROVE v[k + 1] = m[a + k] /\ w[k + 1] = m[b + k]
                         /\ v[k + 1] \in Nat /\ w[k + 1] \in Nat
  <2>1. k + 1 \in 1 .. n /\ a + (k + 1) - 1 = a + k /\ b + (k + 1) - 1 = b + k
    BY <1>6
  <2>2. v[k + 1] \in Nat /\ w[k + 1] \in Nat
    BY <1>1, <2>1 DEF Digits
  <2>3. v[k + 1] = m[a + k]
    <3>1. CASE k = la
      <4>1. ~(k + 1 <= la)
        BY <3>1
      <4> QED BY <1>2, <1>3, <2>1, <3>1, <4>1 DEF NUL
    <3>2. CASE k # la
      <4>1. k + 1 <= la
        BY <3>2, <1>4, <1>2
      <4> QED BY <1>3, <2>1, <4>1
    <3> QED BY <3>1, <3>2
  <2>4. w[k + 1] = m[b + k]
    <3>1. CASE k = lb
      <4>1. ~(k + 1 <= lb)
        BY <3>1
      <4> QED BY <1>2, <1>3, <2>1, <3>1, <4>1 DEF NUL
    <3>2. CASE k # lb
      <4>1. k + 1 <= lb
        BY <3>2, <1>4, <1>2
      <4> QED BY <1>3, <2>1, <4>1
    <3> QED BY <3>1, <3>2
  <2> QED BY <2>2, <2>3, <2>4
<1> DEFINE r == IF k = n THEN 0 ELSE m[a + k] - m[b + k]
<1> SUFFICES SignOf(r, x, y)
  BY DEF x, y
<1>7. (k = n => r = 0) /\ (k # n => r = m[a + k] - m[b + k])
  OBVIOUS
<1> HIDE DEF r
<1>8. /\ k = n => Number(v, 256) = Number(w, 256)
      /\ k < n /\ v[k + 1] < w[k + 1] => Number(v, 256) < Number(w, 256)
      /\ k < n /\ v[k + 1] > w[k + 1] => Number(v, 256) > Number(w, 256)
      /\ Number(v, 256) \in Nat /\ Number(w, 256) \in Nat
  <2>1. 256 \in Nat
    OBVIOUS
  <2> QED BY <1>1, <1>5, <2>1, OrderedByFirst
<1>9. CASE k = n
  <2>1. r = 0 /\ r \in Int
    BY <1>7, <1>9
  <2> QED BY <1>1, <1>8, <1>9, <2>1, SignIs
<1>10. CASE k < n /\ m[a + k] < m[b + k]
  <2>1. r \in Int /\ r < 0 /\ Number(v, 256) < Number(w, 256)
    BY <1>6, <1>7, <1>8, <1>10
  <2> QED BY <1>1, <1>8, <2>1, SignIs
<1>11. CASE k < n /\ m[a + k] > m[b + k]
  <2>1. r \in Int /\ r > 0 /\ Number(v, 256) > Number(w, 256)
    BY <1>6, <1>7, <1>8, <1>11
  <2> QED BY <1>1, <1>8, <2>1, SignIs
<1>12. CASE k < n /\ m[a + k] = m[b + k]
  <2>1. m[a + k] = NUL /\ m[b + k] = NUL
    BY <1>12
  <2>2. la = k /\ lb = k
    <3>1. ~(k < la)
      <4> SUFFICES ASSUME k < la PROVE FALSE
        OBVIOUS
      <4>1. k \in 0 .. la - 1
        BY <1>2
      <4> QED BY <1>2, <2>1, <4>1
    <3>2. ~(k < lb)
      <4> SUFFICES ASSUME k < lb PROVE FALSE
        OBVIOUS
      <4>1. k \in 0 .. lb - 1
        BY <1>2
      <4> QED BY <1>2, <2>1, <4>1
    <3> QED BY <1>2, <1>4, <3>1, <3>2
  <2>3. \A i \in 1 .. n : v[i] = w[i]
    <3> SUFFICES ASSUME NEW i \in 1 .. n PROVE v[i] = w[i]
      OBVIOUS
    <3>1. CASE i <= k
      BY <1>5, <3>1
    <3>2. CASE ~(i <= k)
      BY <1>3, <2>2, <3>2
    <3> QED BY <3>1, <3>2
  <2>4. Number(v, 256) = Number(w, 256)
    <3>1. 256 \in Nat /\ n \in 0 .. n
      OBVIOUS
    <3> QED BY <1>1, <2>3, <3>1, OrderedByFirst
  <2>5. r = 0 /\ r \in Int
    BY <1>7, <1>12, <2>1 DEF NUL
  <2> QED BY <1>1, <1>8, <2>4, <2>5, SignIs
<1>13. k = n \/ (k < n /\ m[a + k] < m[b + k]) \/ (k < n /\ m[a + k] > m[b + k])
       \/ (k < n /\ m[a + k] = m[b + k])
  BY <1>6
<1> QED BY <1>9, <1>10, <1>11, <1>12, <1>13

LEMMA StrncmpOrders ==
    ASSUME NEW m, IsMemory(m), NEW a \in Nat, NEW b \in Nat, NEW n \in Nat,
           Ended(m, a), Ended(m, b)
    PROVE  SignOf(strncmp(m, a, b, n), Weight(m, a, n, TRUE), Weight(m, b, n, TRUE))
<1> DEFINE k == Stop(m, a, b, n, TRUE)
<1>1. /\ k \in 0 .. n
      /\ \A j \in 0 .. k - 1 : m[a + j] = m[b + j] /\ m[a + j] # NUL
      /\ k < n => m[a + k] # m[b + k] \/ m[a + k] = NUL
  <2> HIDE DEF k
  <2>1. /\ k \in 0 .. n /\ (\A j \in 0 .. k - 1 : ~Stops(m, a, b, TRUE, j))
        /\ (k < n => Stops(m, a, b, TRUE, k))
    BY StopIs DEF k
  <2> QED BY <2>1 DEF Stops
<1>2. strncmp(m, a, b, n) = IF k = n THEN 0 ELSE m[a + k] - m[b + k]
  BY DEF strncmp
<1> HIDE DEF k
<1> QED BY <1>1, <1>2, TextsOrdered

\* strcmp subtracts signed characters, which are the bytes if they have 7 bits.
LEMMA StrcmpOrders ==
    ASSUME NEW m, IsMemory(m), NEW a \in Nat, NEW b \in Nat, Ended(m, a), Ended(m, b),
           \A p \in DOMAIN m : m[p] < 128
    PROVE  LET n == Max({strlen(m, a), strlen(m, b)}) + 1
           IN  SignOf(strcmp(m, a, b), Weight(m, a, n, TRUE), Weight(m, b, n, TRUE))
<1> DEFINE la == strlen(m, a)
           lb == strlen(m, b)
           s == Smaller(la, lb)
           n == Max({la, lb}) + 1
           k == Stop(m, a, b, s + 1, TRUE)
<1>1. /\ la \in Nat /\ m[a + la] = NUL /\ Within(m, a, la + 1)
      /\ lb \in Nat /\ m[b + lb] = NUL /\ Within(m, b, lb + 1)
  BY LengthIs
<1>2. strcmp(m, a, b) = AsChar(m[a + k]) - AsChar(m[b + k])
  BY DEF strcmp
<1> HIDE DEF la, lb
<1>3. n \in Nat /\ s \in Nat /\ s + 1 <= n /\ s <= la /\ s <= lb /\ (s = la \/ s = lb)
  <2>1. Max({la, lb}) = IF la >= lb THEN la ELSE lb
    BY <1>1 DEF Max
  <2> QED BY <1>1, <2>1 DEF Smaller
<1>4. /\ k \in 0 .. s + 1
      /\ \A j \in 0 .. k - 1 : m[a + j] = m[b + j] /\ m[a + j] # NUL
      /\ k < s + 1 => m[a + k] # m[b + k] \/ m[a + k] = NUL
  <2> HIDE DEF k, s
  <2>1. /\ k \in 0 .. s + 1 /\ (\A j \in 0 .. k - 1 : ~Stops(m, a, b, TRUE, j))
        /\ (k < s + 1 => Stops(m, a, b, TRUE, k))
    <3>1. s + 1 \in Nat
      BY <1>3
    <3> QED BY <3>1, StopIs DEF k
  <2> QED BY <2>1 DEF Stops
<1> HIDE DEF k, s, n
<1>5. k <= s
  <2> SUFFICES ASSUME k = s + 1 PROVE FALSE
    BY <1>3, <1>4
  <2>1. s \in 0 .. k - 1
    BY <1>3
  <2>2. m[a + s] # NUL /\ m[b + s] # NUL
    BY <1>4, <2>1
  <2> QED BY <1>1, <1>3, <2>2
<1>6. k \in 0 .. n /\ k < n /\ k # n
  BY <1>3, <1>4, <1>5
<1>7. a + k \in DOMAIN m /\ b + k \in DOMAIN m
  BY <1>1, <1>3, <1>4, <1>5 DEF Within
<1>8. AsChar(m[a + k]) = m[a + k] /\ AsChar(m[b + k]) = m[b + k]
  BY <1>7 DEF AsChar
<1>9. SignOf(m[a + k] - m[b + k], Weight(m, a, n, TRUE), Weight(m, b, n, TRUE))
  <2>1. k < n => m[a + k] # m[b + k] \/ m[a + k] = NUL
    BY <1>3, <1>4, <1>5
  <2> QED BY <1>3, <1>4, <1>6, <2>1, TextsOrdered
<1> QED BY <1>2, <1>8, <1>9 DEF la, lb, n

\* A comparison answers at once.
Answer ==
    CASE call.fn = "strcmp" -> strcmp(call.mem, call.s, call.d)
      [] call.fn = "strncmp" -> strncmp(call.mem, call.s, call.d, call.n)
      [] call.fn = "memcmp" -> memcmp(call.mem, call.s, call.d, call.n)

Comparisons == {"strcmp", "strncmp", "memcmp"}

CompareInv ==
    \/ pc = "idle"
    \/ /\ call \in Calls
       /\ call.fn \in Comparisons =>
             /\ mem = call.mem
             /\ pc = "call" \/ (pc = "done" /\ ret = Answer)

LEMMA CompareNext == CompareInv /\ [LibcNext]_libcVars => CompareInv'
<1> SUFFICES ASSUME CompareInv, [LibcNext]_libcVars PROVE CompareInv'
  OBVIOUS
<1>1. CASE UNCHANGED libVars
  BY <1>1 DEF libVars, strVars, CompareInv, Answer
<1>2. CASE LibNext
  <2>1. call' = call /\ pc # "idle" /\ call \in Calls
    BY <1>2, CallKept DEF CompareInv
  <2>2. CASE call.fn \notin Comparisons
    BY <2>1, <2>2 DEF CompareInv
  <2>3. CASE call.fn \in Comparisons /\ pc = "call" /\ mem = call.mem
    <3>1. call.fn \in StrFns
      BY <2>3 DEF StrFns, Comparisons
    <3>2. Looks
      BY <1>2, <2>3, <3>1, CallRuns DEF Comparisons
    <3>3. pc' = "done" /\ mem' = mem /\ ret' = Answer
      BY <2>3, <3>2 DEF Looks, Answers, Answer, Comparisons
    <3>4. Answer' = Answer
      BY <2>1 DEF Answer
    <3> QED BY <2>1, <2>3, <3>3, <3>4 DEF CompareInv
  <2>4. CASE pc = "done"
    BY <1>2, <2>4, NothingBehind
  <2> QED BY <2>1, <2>2, <2>3, <2>4 DEF CompareInv
<1> QED BY <1>1, <1>2 DEF LibcNext, libcVars

LEMMA CompareMeans == CompareInv /\ LengthIsMeant => ResultIsMeant
<1> SUFFICES ASSUME CompareInv, LengthIsMeant, pc = "done"
             PROVE  /\ call.fn = "strcmp" /\ Ascii =>
                          Orders(Max({strlen(mem, call.s), strlen(mem, call.d)}) + 1, TRUE)
                    /\ call.fn = "strncmp" => Orders(call.n, TRUE)
                    /\ call.fn = "memcmp" => Orders(call.n, FALSE)
  BY DEF ResultIsMeant
<1>1. call \in Calls /\ (call.fn \in Comparisons => mem = call.mem /\ ret = Answer)
  BY DEF CompareInv
<1>2. IsMemory(call.mem) /\ call.d \in Nat /\ call.s \in Nat /\ call.n \in Nat
  BY <1>1, LegalCall DEF Legal
<1>3. ASSUME call.fn = "strcmp", Ascii
      PROVE  Orders(Max({strlen(mem, call.s), strlen(mem, call.d)}) + 1, TRUE)
  <2>1. mem = call.mem /\ ret = strcmp(call.mem, call.s, call.d)
    BY <1>1, <1>3 DEF Comparisons, Answer
  <2>2. Ended(call.mem, call.s) /\ Ended(call.mem, call.d)
    BY <1>1, <1>3, LegalCall DEF Legal
  <2> DEFINE n == Max({strlen(call.mem, call.s), strlen(call.mem, call.d)}) + 1
  <2>3. SignOf(strcmp(call.mem, call.s, call.d),
               Weight(call.mem, call.s, n, TRUE), Weight(call.mem, call.d, n, TRUE))
    BY <1>2, <1>3, <2>2, StrcmpOrders DEF Ascii
  <2> QED BY <2>1, <2>3 DEF Orders, SignOf
<1>4. ASSUME call.fn = "strncmp" PROVE Orders(call.n, TRUE)
  <2>1. ret = strncmp(call.mem, call.s, call.d, call.n)
    BY <1>1, <1>4 DEF Comparisons, Answer
  <2>2. Ended(call.mem, call.s) /\ Ended(call.mem, call.d)
    BY <1>1, <1>4, LegalCall DEF Legal
  <2>3. SignOf(strncmp(call.mem, call.s, call.d, call.n),
               Weight(call.mem, call.s, call.n, TRUE), Weight(call.mem, call.d, call.n, TRUE))
    BY <1>2, <2>2, StrncmpOrders
  <2> QED BY <2>1, <2>3 DEF Orders, SignOf
<1>5. ASSUME call.fn = "memcmp" PROVE Orders(call.n, FALSE)
  <2>1. ret = memcmp(call.mem, call.s, call.d, call.n)
    BY <1>1, <1>5 DEF Comparisons, Answer
  <2>2. Within(call.mem, call.s, call.n) /\ Within(call.mem, call.d, call.n)
    BY <1>1, <1>5, LegalCall DEF Legal
  <2>3. SignOf(memcmp(call.mem, call.s, call.d, call.n),
               Weight(call.mem, call.s, call.n, FALSE), Weight(call.mem, call.d, call.n, FALSE))
    BY <1>2, <2>2, MemcmpOrders
  <2> QED BY <2>1, <2>3 DEF Orders, SignOf
<1> QED BY <1>3, <1>4, <1>5

\* strcmp (of characters of 7 bits), strncmp and memcmp order texts and areas of
\* any length as the numbers are ordered that their bytes make, and strnlen
\* counts as it is meant to.
THEOREM ComparisonsOrder == LibcSpec => []ResultIsMeant
<1>1. LibcInit => CompareInv
  BY DEF LibcInit, LibInit, StrInit, LibIdle, CompareInv
<1> QED BY <1>1, CompareNext, CompareMeans, LimitedLength, PTL DEF LibcSpec

-----------------------------------------------------------------------------
(* The parts of a text that is read as a number.                           *)

\* From f on there is a first place behind which something stops, or the end.
RunsTo(f, L, Out, k) == (\A i \in f + 1 .. k : i \notin Out) /\ (k = L \/ k + 1 \in Out)
RunEnd(f, L, Out) == CHOOSE k \in f .. L : RunsTo(f, L, Out, k)

LEMMA RunEnds ==
    ASSUME NEW L \in Nat, NEW f \in 0 .. L, NEW Out
    PROVE  RunEnd(f, L, Out) \in f .. L /\ RunsTo(f, L, Out, RunEnd(f, L, Out))
<1> DEFINE T == {k \in f .. L : k = L \/ k + 1 \in Out}
<1>1. T \subseteq Nat /\ L \in T
  OBVIOUS
<1> HIDE DEF T
<1>2. PICK x \in T : \A y \in T : x <= y
  <2>1. T # {}
    BY <1>1
  <2> QED BY <1>1, <2>1, LeastNat
<1> USE DEF T
<1>3. x \in f .. L /\ (x = L \/ x + 1 \in Out)
  BY <1>2
<1>4. ASSUME NEW i \in f + 1 .. x PROVE i \notin Out
  <2>1. i - 1 \in f .. L /\ ~(x <= i - 1) /\ (i - 1) + 1 = i
    BY <1>3
  <2> QED BY <1>2, <2>1
<1>5. RunsTo(f, L, Out, x)
  BY <1>3, <1>4 DEF RunsTo
<1> QED BY <1>3, <1>5 DEF RunEnd

LEMMA SpacesAre ==
    ASSUME NEW t \in Seq(Nat)
    PROVE  /\ Spaces(t) \in 0 .. Len(t)
           /\ \A i \in 1 .. Spaces(t) : isspace(t[i])
           /\ Spaces(t) = Len(t) \/ ~isspace(t[Spaces(t) + 1])
<1> DEFINE Fits_(n) == (\A i \in 1 .. n : isspace(t[i])) /\ (n = Len(t) \/ ~isspace(t[n + 1]))
           Out == {i \in 1 .. Len(t) : ~isspace(t[i])}
           L == Len(t)
           f == 0
<1>1. L \in Nat /\ f \in 0 .. L
  OBVIOUS
<1> DEFINE k == RunEnd(f, L, Out)
<1>2. k \in f .. L /\ (\A i \in f + 1 .. k : i \notin Out) /\ (k = L \/ k + 1 \in Out)
  <2> HIDE DEF Out, L, f
  <2> QED BY <1>1, RunEnds DEF RunsTo
<1> HIDE DEF k
<1>3. Fits_(k)
  BY <1>1, <1>2
<1>4. Spaces(t) = CHOOSE n \in 0 .. Len(t) : Fits_(n)
  BY DEF Spaces
<1> HIDE DEF Fits_
<1>5. Spaces(t) \in 0 .. Len(t) /\ Fits_(Spaces(t))
  BY <1>2, <1>3, <1>4
<1> QED BY <1>5 DEF Fits_

\* The number begins in the text, behind its sign and its prefix.
LEMMA NumberBegins ==
    ASSUME NEW t \in Seq(Nat), NEW base \in Int
    PROVE  /\ Start(t) \in Spaces(t) .. Spaces(t) + 1 /\ Start(t) \in 0 .. Len(t)
           /\ First(t, base) \in 0 .. Len(t)
           /\ First(t, base) = IF HexPrefix(t) /\ base = 16 THEN Start(t) + 2 ELSE Start(t)
           /\ SignLen(t) \in {0, 1} /\ Start(t) = Spaces(t) + SignLen(t)
<1>1. Len(t) \in Nat /\ Spaces(t) \in 0 .. Len(t)
  BY SpacesAre
<1>2. SignLen(t) \in {0, 1} /\ (SignLen(t) = 1 => Spaces(t) + 1 <= Len(t))
  BY DEF SignLen, HasAt
<1>3. Start(t) = Spaces(t) + SignLen(t)
  BY DEF Start
<1>4. HexPrefix(t) => Start(t) + 2 <= Len(t)
  BY DEF HexPrefix, HasAt
<1>5. First(t, base) = IF HexPrefix(t) /\ base = 16 THEN Start(t) + 2 ELSE Start(t) + 0
  BY DEF First
<1> QED BY <1>1, <1>2, <1>3, <1>4, <1>5

LEMMA ValueIs == ASSUME NEW c \in Nat PROVE Value(c) \in Nat
<1>1. CASE isdigit(c)
  BY <1>1 DEF Value, isdigit
<1>2. CASE ~isdigit(c) /\ isupper(c)
  BY <1>2 DEF Value, isupper
<1>3. CASE ~isdigit(c) /\ ~isupper(c)
  BY <1>3 DEF Value, isalpha
<1> QED BY <1>1, <1>2, <1>3

LEMMA DigitRunIs ==
    ASSUME NEW t \in Seq(Nat), NEW base \in Nat
    PROVE  /\ DigitRun(t, base) \in First(t, base) .. Len(t)
           /\ \A i \in First(t, base) + 1 .. DigitRun(t, base) : Value(t[i]) < base
           /\ DigitRun(t, base) = Len(t) \/ Value(t[DigitRun(t, base) + 1]) >= base
<1> DEFINE f == First(t, base)
           L == Len(t)
           Fits_(n) == (\A i \in f + 1 .. n : Value(t[i]) < base)
                       /\ (n = Len(t) \/ Value(t[n + 1]) >= base)
           Out == {i \in 1 .. Len(t) : Value(t[i]) >= base}
<1>1. L \in Nat /\ f \in 0 .. L
  BY NumberBegins
<1>2. \A i \in 1 .. Len(t) : t[i] \in Nat /\ Value(t[i]) \in Nat
  <2> SUFFICES ASSUME NEW i \in 1 .. Len(t) PROVE t[i] \in Nat /\ Value(t[i]) \in Nat
    OBVIOUS
  <2>1. t[i] \in Nat
    OBVIOUS
  <2> QED BY <2>1, ValueIs
<1> HIDE DEF f
<1> DEFINE k == RunEnd(f, L, Out)
<1>3. k \in f .. L /\ (\A i \in f + 1 .. k : i \notin Out) /\ (k = L \/ k + 1 \in Out)
  <2> HIDE DEF Out, L
  <2> QED BY <1>1, RunEnds DEF RunsTo
<1> HIDE DEF k
<1>4. Fits_(k)
  <2>1. ASSUME NEW i \in f + 1 .. k PROVE Value(t[i]) < base
    <3>1. i \in 1 .. Len(t) /\ i \notin Out
      BY <1>1, <1>3
    <3> QED BY <1>2, <3>1
  <2> QED BY <1>3, <2>1
<1>5. DigitRun(t, base) = CHOOSE n \in f .. Len(t) : Fits_(n)
  BY DEF DigitRun, f
<1> HIDE DEF Fits_
<1>6. DigitRun(t, base) \in f .. Len(t) /\ Fits_(DigitRun(t, base))
  BY <1>3, <1>4, <1>5 DEF L
<1> QED BY <1>6 DEF Fits_, f

\* What the code finds behind k characters of a text in memory.
LEMMA CharBehind ==
    ASSUME NEW m, IsMemory(m), NEW a \in Nat, Ended(m, a), NEW k \in 0 .. Len(Text(m, a))
    PROVE  LET t == Text(m, a)
           IN  /\ t \in Seq(Nat)
               /\ m[a + k] \in 0 .. 255
               /\ k = Len(t) => m[a + k] = NUL
               /\ k < Len(t) => m[a + k] = t[k + 1]
<1> DEFINE t == Text(m, a)
<1>1. /\ t \in Seq(0 .. 255) /\ Len(t) = strlen(m, a) /\ strlen(m, a) \in Nat
      /\ \A i \in 1 .. strlen(m, a) : t[i] = m[a + i - 1]
      /\ Within(m, a, strlen(m, a) + 1) /\ m[a + strlen(m, a)] = NUL
  BY TextIs DEF TextAt
<1>2. t \in Seq(Nat)
  <2> HIDE DEF t
  <2>1. t \in Seq(0 .. 255) /\ Len(t) \in Nat
    BY <1>1
  <2>2. \A i \in 1 .. Len(t) : t[i] \in Nat
    <3> SUFFICES ASSUME NEW i \in 1 .. Len(t) PROVE t[i] \in Nat
      OBVIOUS
    <3>1. t[i] \in 0 .. 255 /\ 0 .. 255 \subseteq Nat
      BY <2>1, ElementOfSeq
    <3> HIDE DEF t
    <3> QED BY <3>1, Zenon
  <2>3. t = [i \in 1 .. Len(t) |-> t[i]]
    BY <2>1
  <2>4. t \in [1 .. Len(t) -> Nat]
    BY <2>2, <2>3
  <2> QED BY <2>1, <2>4
<1> HIDE DEF t
<1>3. a + k \in DOMAIN m
  BY <1>1 DEF Within, t
<1>4. m[a + k] \in 0 .. 255
  BY <1>3 DEF IsMemory
<1>5. k < Len(t) => m[a + k] = t[k + 1]
  <2> SUFFICES ASSUME k < Len(t) PROVE m[a + k] = t[k + 1]
    OBVIOUS
  <2>1. k + 1 \in 1 .. strlen(m, a) /\ a + (k + 1) - 1 = a + k
    BY <1>1 DEF t
  <2> QED BY <1>1, <2>1
<1> QED BY <1>1, <1>2, <1>4, <1>5 DEF t
LEMMA HasAtIs ==
    ASSUME NEW m, IsMemory(m), NEW a \in Nat, Ended(m, a), NEW k \in 0 .. Len(Text(m, a)),
           NEW set, NUL \notin set
    PROVE  m[a + k] \in set <=> HasAt(Text(m, a), k + 1, set)
<1> DEFINE t == Text(m, a)
<1>1. /\ t \in Seq(Nat) /\ (k = Len(t) => m[a + k] = NUL)
      /\ (k < Len(t) => m[a + k] = t[k + 1])
  BY CharBehind
<1> HIDE DEF t
<1>2. Len(t) \in Nat /\ k \in 0 .. Len(t)
  BY <1>1 DEF t
<1>3. m[a + k] \in set <=> HasAt(t, k + 1, set)
  <2>1. CASE k = Len(t)
    <3>1. ~(k + 1 <= Len(t)) /\ m[a + k] = NUL
      BY <1>1, <1>2, <2>1
    <3> QED BY <3>1 DEF HasAt
  <2>2. CASE k < Len(t)
    <3>1. k + 1 <= Len(t) /\ m[a + k] = t[k + 1]
      BY <1>1, <1>2, <2>2
    <3> QED BY <3>1 DEF HasAt
  <2> QED BY <1>2, <2>1, <2>2
<1> QED BY <1>3 DEF t

\* The code's test that one more digit leaves the bound.
LEMMA CutoffIs ==
    ASSUME NEW B \in Nat, NEW b \in Nat, b > 0, NEW acc \in Nat, NEW v \in Nat, v < b
    PROVE  (acc > B \div b \/ (acc = B \div b /\ v > B % b)) <=> acc * b + v > B
<1> DEFINE q == B \div b
           r == B % b
<1>1. q \in Nat /\ r \in Nat /\ r < b /\ B = b * q + r
  BY SMT
<1> HIDE DEF q, r
<1>2. q * b = b * q /\ q * b \in Nat /\ acc * b \in Nat
  BY <1>1, SMT
<1>3. CASE acc = q
  BY <1>1, <1>2, <1>3
<1>4. CASE acc > q
  <2>1. q * b + r < acc * b + v
    BY <1>1, <1>4, StaysBelow
  <2> QED BY <1>1, <1>2, <1>4, <2>1
<1>5. CASE acc < q
  <2>1. acc * b + v < q * b + r
    BY <1>1, <1>5, StaysBelow
  <2> QED BY <1>1, <1>2, <1>5, <2>1
<1>6. acc = q \/ acc > q \/ acc < q
  BY <1>1
<1> QED BY <1>3, <1>4, <1>5, <1>6 DEF q, r

-----------------------------------------------------------------------------
(* Reading a number.                                                       *)

TextRead == Text(call.mem, call.s)
BaseRead == BaseOf(TextRead, call.base)
Ahead == First(TextRead, BaseRead)
Behind == DigitRun(TextRead, BaseRead)
IsMinus == SignLen(TextRead) = 1 /\ TextRead[Start(TextRead)] = 45

\* The number that the first k digits make, and the bound it is held against,
\* which is meant to be one unless it is strtoll's for negative numbers.
UpTo(k) == NumberUpTo(Values(TextRead, Ahead, Behind), BaseRead)[k]
Bound == IF IsMinus THEN LONG_MAX + 1 ELSE LONG_MAX
Plain == call.fn = "strtoll" => ~IsMinus

\* Behind k digits, their number, or that it was beyond the bound.
Taking ==
    /\ scan.base = BaseRead
    /\ scan.cutoff = Bound \div BaseRead /\ scan.cutlim = Bound % BaseRead
    /\ \E k \in 0 .. Behind - Ahead :
          /\ scan.at = call.s + Ahead + k
          /\ \/ scan.any = 0 /\ k = 0 /\ scan.acc = 0
             \/ scan.any = 1 /\ k > 0 /\ scan.acc = UpTo(k) /\ UpTo(k) <= Bound
             \/ scan.any = -1 /\ k > 0 /\ UpTo(k) > Bound

Taken ==
    /\ ret = IF call.fn = "atoi" THEN Wrapped(Meaning(TextRead, call.base), INT_MAX)
             ELSE Meaning(TextRead, call.base)
    /\ scan.at = call.s + IF Behind > Ahead THEN Behind ELSE 0

IsScan == scan = [at |-> scan.at, neg |-> scan.neg, base |-> scan.base, acc |-> scan.acc,
                  any |-> scan.any, cutoff |-> scan.cutoff, cutlim |-> scan.cutlim]

Reading ==
    /\ mem = call.mem
    /\ IsScan
    /\ \/ pc = "call"
       \/ pc = "space" /\ \E k \in 0 .. Spaces(TextRead) : scan.at = call.s + k
       \/ pc = "digits" /\ scan.neg = IsMinus /\ (Plain => Taking)
       \/ pc = "done" /\ scan.neg = IsMinus /\ (Plain => Taken)

ReadInv == pc = "idle" \/ (call \in Calls /\ (call.fn \in Scanners => Reading))

LEMMA ReadIs ==
    ASSUME call \in Calls, call.fn \in Scanners
    PROVE  /\ IsMemory(call.mem) /\ call.s \in Nat /\ Ended(call.mem, call.s)
           /\ TextRead \in Seq(Nat) /\ Len(TextRead) \in Nat
           /\ BaseRead \in 2 .. 36
           /\ Ahead \in 0 .. Len(TextRead) /\ Behind \in Ahead .. Len(TextRead)
           /\ Bound \in Nat
<1>1. IsMemory(call.mem) /\ call.s \in Nat
  BY LegalCall DEF Legal
<1>2. Ended(call.mem, call.s) /\ call.base \in {0} \cup 2 .. 36
  <2>1. LegalNumber(call)
    BY NumberCallsAssumption
  <2> QED BY <2>1 DEF LegalNumber, Scanners
<1>3. TextRead \in Seq(Nat)
  <2>1. 0 \in 0 .. Len(Text(call.mem, call.s))
    BY <1>1, <1>2, TextIs
  <2> QED BY <1>1, <1>2, <2>1, CharBehind DEF TextRead
<1>4. BaseRead \in 2 .. 36
  BY <1>2 DEF BaseRead, BaseOf
<1>5. Ahead \in 0 .. Len(TextRead)
  BY <1>3, <1>4, NumberBegins DEF Ahead
<1>6. Behind \in Ahead .. Len(TextRead)
  BY <1>3, <1>4, DigitRunIs DEF Ahead, Behind
<1>7. Bound \in Nat
  BY RangeAssumption DEF Bound
<1> QED BY <1>1, <1>2, <1>3, <1>4, <1>5, <1>6, <1>7

\* One digit more, or none.
LEMMA UpToIs ==
    ASSUME call \in Calls, call.fn \in Scanners
    PROVE  /\ UpTo(0) = 0
           /\ \A k \in 0 .. Behind - Ahead : UpTo(k) \in Nat
           /\ \A k \in 0 .. Behind - Ahead - 1 :
                 /\ Value(TextRead[Ahead + k + 1]) \in Nat
                 /\ Value(TextRead[Ahead + k + 1]) < BaseRead
                 /\ UpTo(k + 1) = UpTo(k) * BaseRead + Value(TextRead[Ahead + k + 1])
           /\ UpTo(Behind - Ahead) = Sum(TextRead, BaseRead)
<1> DEFINE t == TextRead
           b == BaseRead
           f == Ahead
           l == Behind
           v == Values(t, f, l)
<1>1. /\ t \in Seq(Nat) /\ Len(t) \in Nat /\ b \in Nat /\ f \in 0 .. Len(t)
      /\ l \in f .. Len(t) /\ l - f \in Nat
  <2>1. t \in Seq(Nat) /\ Len(t) \in Nat /\ b \in 2 .. 36 /\ f \in 0 .. Len(t) /\ l \in f .. Len(t)
    BY ReadIs
  <2> HIDE DEF t, b, f, l
  <2>2. b \in Nat
    BY <2>1
  <2>3. l - f \in Nat
    BY <2>1
  <2> QED BY <2>1, <2>2, <2>3
<1>2. \A i \in f + 1 .. l : Value(t[i]) < b
  BY <1>1, DigitRunIs DEF Ahead, Behind
<1>3. Sum(t, b) = NumberUpTo(v, b)[Len(v)]
  BY DEF Sum, Number, Ahead, Behind
<1>4. \A k : UpTo(k) = NumberUpTo(v, b)[k]
  BY DEF UpTo
<1>5. v = [i \in 1 .. l - f |-> Value(t[f + i])]
  BY DEF Values
<1> HIDE DEF t, b, f, l, v
<1>6. \A i \in 1 .. l - f : Value(t[f + i]) \in Nat /\ Value(t[f + i]) < b
  <2> SUFFICES ASSUME NEW i \in 1 .. l - f PROVE Value(t[f + i]) \in Nat /\ Value(t[f + i]) < b
    OBVIOUS
  <2>1. f + i \in f + 1 .. l /\ f + i \in 1 .. Len(t)
    BY <1>1
  <2>2. t[f + i] \in Nat
    BY <1>1, <2>1
  <2> QED BY <1>2, <2>1, <2>2, ValueIs
<1>7. v \in Seq(Nat) /\ Len(v) = l - f
  <2> DEFINE n == l - f
  <2>1. v \in [1 .. n -> Nat] /\ n \in Nat
    BY <1>1, <1>5, <1>6
  <2> HIDE DEF n
  <2>2. v \in Seq(Nat) /\ Len(v) = n
    BY <2>1
  <2> QED BY <2>2 DEF n
<1>8. /\ NumberUpTo(v, b) \in [0 .. l - f -> Nat] /\ NumberUpTo(v, b)[0] = 0
      /\ \A k \in 0 .. l - f - 1 : NumberUpTo(v, b)[k + 1] = NumberUpTo(v, b)[k] * b + v[k + 1]
  BY <1>1, <1>7, NumberSteps
<1>9. ASSUME NEW k \in 0 .. l - f - 1
      PROVE  /\ Value(t[f + k + 1]) \in Nat /\ Value(t[f + k + 1]) < b
             /\ UpTo(k + 1) = UpTo(k) * b + Value(t[f + k + 1])
  <2>1. k + 1 \in 1 .. l - f /\ f + (k + 1) = f + k + 1
    BY <1>1
  <2>2. v[k + 1] = Value(t[f + k + 1])
    BY <1>5, <2>1
  <2>3. Value(t[f + k + 1]) \in Nat /\ Value(t[f + k + 1]) < b
    BY <1>6, <2>1
  <2> QED BY <1>4, <1>8, <2>2, <2>3
<1>10. \A k \in 0 .. l - f : UpTo(k) \in Nat
  BY <1>4, <1>8
<1> QED BY <1>3, <1>4, <1>7, <1>8, <1>9, <1>10 DEF t, b, f, l, v

\* What a step of strtol is.
LEMMA ScanRuns ==
    ASSUME LibNext, call.fn \in Scanners, pc # "run"
    PROVE  /\ call' = call /\ mem' = mem
           /\ \/ pc = "call" /\ Strtol
              \/ pc = "space" /\ (SkipSpace \/ Prefix)
              \/ pc = "digits" /\ (ScanDigit \/ ScanEnd)
<1>1. call.fn \notin StrFns \cup {"itoa"}
  BY DEF Scanners, StrFns
<1>2. ~StrNext /\ ~Itoa /\ ~ItoaDigit
  BY <1>1 DEF StrNext, memcpy, memmove, memset, strcpy, strncpy, strcat, append, backspace,
     Strrev, Looks, Begins, Answers, Return, CopyUp, CopyDown, Fill, CopyString, CopyCat,
     Swap, In, StrFns, Itoa, ItoaDigit
<1>3. Strtol \/ SkipSpace \/ Prefix \/ ScanDigit \/ ScanEnd
  BY <1>2 DEF LibNext
<1> QED BY <1>3 DEF Strtol, SkipSpace, Prefix, ScanDigit, ScanEnd, strVars

LEMMA SameRead ==
    ASSUME call' = call
    PROVE  /\ TextRead' = TextRead /\ BaseRead' = BaseRead /\ Ahead' = Ahead /\ Behind' = Behind
           /\ (IsMinus' <=> IsMinus) /\ Bound' = Bound /\ (Plain' <=> Plain)
           /\ \A k : UpTo(k)' = UpTo(k)
BY DEF TextRead, BaseRead, Ahead, Behind, IsMinus, Bound, Plain, UpTo

LEMMA NoDigit == Value(NUL) = 99
BY DEF Value, isdigit, isupper, isalpha, NUL

\* The digit loop ends behind the digits of the text.
LEMMA DigitHere ==
    ASSUME call \in Calls, call.fn \in Scanners, NEW k \in 0 .. Behind - Ahead
    PROVE  /\ Value(call.mem[call.s + Ahead + k]) < BaseRead <=> k < Behind - Ahead
           /\ k < Behind - Ahead => call.mem[call.s + Ahead + k] = TextRead[Ahead + k + 1]
<1> DEFINE t == TextRead
           b == BaseRead
           f == Ahead
           l == Behind
           a == call.s
           m == call.mem
           j == f + k
<1>1. /\ IsMemory(m) /\ a \in Nat /\ Ended(m, a) /\ t \in Seq(Nat) /\ Len(t) \in Nat
      /\ b \in 2 .. 36 /\ f \in 0 .. Len(t) /\ l \in f .. Len(t)
  BY ReadIs
<1>2. t = Text(m, a)
  BY DEF TextRead
<1>3. k \in 0 .. l - f
  OBVIOUS
<1>4. l = Len(t) \/ Value(t[l + 1]) >= b
  <2>1. b \in Nat
    <3> HIDE DEF b
    <3> QED BY <1>1
  <2> QED BY <1>1, <2>1, DigitRunIs DEF Behind
<1>5. \A i \in 0 .. l - f - 1 : Value(t[f + i + 1]) < b
  BY UpToIs
<1> HIDE DEF t, b, f, l, a, m
<1>6. j \in 0 .. Len(t) /\ (k < l - f <=> j < l) /\ a + f + k = a + j /\ j <= l /\ j + 1 = f + k + 1
  BY <1>1, <1>3
<1>7. /\ j = Len(t) => m[a + j] = NUL
      /\ j < Len(t) => m[a + j] = t[j + 1]
  BY <1>1, <1>2, <1>6, CharBehind
<1>8. CASE j = Len(t)
  <2>1. Value(m[a + j]) = 99
    BY <1>7, <1>8, NoDigit
  <2>2. ~(99 < b)
    BY <1>1
  <2>3. ~(k < l - f)
    BY <1>1, <1>3, <1>6, <1>8
  <2> QED BY <1>6, <2>1, <2>2, <2>3 DEF t, b, f, l, a, m
<1>9. CASE j < Len(t) /\ j = l
  <2>1. Value(m[a + j]) >= b
    BY <1>1, <1>4, <1>7, <1>9
  <2>2. Value(m[a + j]) \in Nat
    <3>1. m[a + j] = t[j + 1] /\ j + 1 \in 1 .. Len(t)
      BY <1>6, <1>7, <1>9
    <3>2. t[j + 1] \in Nat
      BY <1>1, <3>1
    <3> QED BY <3>1, <3>2, ValueIs
  <2>3. ~(Value(m[a + j]) < b)
    BY <1>1, <2>1, <2>2
  <2> QED BY <1>6, <1>9, <2>3 DEF t, b, f, l, a, m
<1>10. CASE j < l
  <2>1. k \in 0 .. l - f - 1
    BY <1>1, <1>3, <1>6, <1>10
  <2>2. Value(t[f + k + 1]) < b
    BY <1>5, <2>1
  <2>3. m[a + j] = t[j + 1]
    BY <1>1, <1>7, <1>10
  <2> QED BY <1>6, <1>10, <2>2, <2>3 DEF t, b, f, l, a, m
<1>11. j = Len(t) \/ (j < Len(t) /\ j = l) \/ j < l
  BY <1>1, <1>6
<1> QED BY <1>8, <1>9, <1>10, <1>11

LEMMA ReadStarts ==
    ASSUME call \in Calls, call.fn \in Scanners, call' = call, mem' = mem, Reading, Strtol
    PROVE  Reading'
<1>1. 0 \in 0 .. Spaces(TextRead) /\ call.s + 0 = call.s
  BY ReadIs, SpacesAre
<1>2. scan' = [scan EXCEPT !.at = call.s] /\ pc' = "space"
  BY DEF Strtol
<1>3. IsScan' /\ scan'.at = call.s
  BY <1>2 DEF Reading, IsScan
<1> QED BY <1>1, <1>2, <1>3, SameRead DEF Reading

LEMMA ReadSkips ==
    ASSUME call \in Calls, call.fn \in Scanners, call' = call, mem' = mem, Reading, SkipSpace
    PROVE  Reading'
<1>1. pc = "space" /\ isspace(mem[scan.at]) /\ scan' = [scan EXCEPT !.at = @ + 1] /\ pc' = pc
      /\ mem = call.mem
  BY DEF SkipSpace, strVars, Reading
<1>2. PICK k \in 0 .. Spaces(TextRead) : scan.at = call.s + k
  BY <1>1 DEF Reading
<1>3. IsMemory(call.mem) /\ call.s \in Nat /\ Ended(call.mem, call.s) /\ TextRead \in Seq(Nat)
      /\ Len(TextRead) \in Nat
  BY ReadIs
<1>4. Spaces(TextRead) \in 0 .. Len(TextRead)
      /\ (Spaces(TextRead) = Len(TextRead) \/ ~isspace(TextRead[Spaces(TextRead) + 1]))
  BY <1>3, SpacesAre
<1>5. k \in 0 .. Len(Text(call.mem, call.s))
  BY <1>3, <1>4 DEF TextRead
<1>6. /\ k = Len(TextRead) => mem[scan.at] = NUL
      /\ k < Len(TextRead) => mem[scan.at] = TextRead[k + 1]
  BY <1>1, <1>2, <1>3, <1>5, CharBehind DEF TextRead
<1>7. k # Spaces(TextRead)
  BY <1>1, <1>3, <1>4, <1>6 DEF isspace, NUL
<1>8. k + 1 \in 0 .. Spaces(TextRead) /\ scan.at + 1 = call.s + (k + 1)
  BY <1>2, <1>3, <1>4, <1>7
<1>9. IsScan' /\ scan'.at = scan.at + 1
  BY <1>1 DEF Reading, IsScan
<1> QED BY <1>1, <1>8, <1>9, SameRead DEF Reading

\* The sign and the prefix, as the code sees them, are the text's.
LEMMA PrefixHere ==
    ASSUME call \in Calls, call.fn \in Scanners, NEW k \in 0 .. Spaces(TextRead),
           ~isspace(call.mem[call.s + k])
    PROVE  LET m == call.mem
               a == call.s
               c == m[a + k]
               p == IF c \in Signs THEN a + k + 1 ELSE a + k
           IN  /\ c = 45 <=> IsMinus
               /\ p = a + Start(TextRead)
               /\ m[p] = 48 <=> HasAt(TextRead, Start(TextRead) + 1, {48})
               /\ m[p] = 48 /\ m[p + 1] \in {88, 120} <=> HexPrefix(TextRead)
<1> DEFINE t == TextRead
           a == call.s
           m == call.mem
           c == m[a + k]
           p == IF c \in Signs THEN a + k + 1 ELSE a + k
<1>1. /\ IsMemory(m) /\ a \in Nat /\ Ended(m, a) /\ t \in Seq(Nat) /\ Len(t) \in Nat
  BY ReadIs
<1>2. t = Text(m, a)
  BY DEF TextRead
<1>3. /\ Spaces(t) \in 0 .. Len(t)
      /\ \A i \in 1 .. Spaces(t) : isspace(t[i])
  BY <1>1, SpacesAre
<1>4. /\ Start(t) \in 0 .. Len(t) /\ Start(t) = Spaces(t) + SignLen(t) /\ SignLen(t) \in {0, 1}
  BY <1>1, NumberBegins
<1>5. k \in 0 .. Spaces(t) /\ ~isspace(m[a + k])
  OBVIOUS
<1>6. IsMinus <=> SignLen(t) = 1 /\ t[Start(t)] = 45
  BY DEF IsMinus
<1> HIDE DEF t, a, m
<1>7. k = Spaces(t) /\ k \in 0 .. Len(t)
  <2>1. ~(k < Spaces(t))
    <3> SUFFICES ASSUME k < Spaces(t) PROVE FALSE
      OBVIOUS
    <3>1. k + 1 \in 1 .. Spaces(t) /\ k \in 0 .. Len(t) /\ k < Len(t)
      BY <1>1, <1>3, <1>5
    <3>2. m[a + k] = t[k + 1]
      BY <1>1, <1>2, <3>1, CharBehind
    <3> QED BY <1>3, <1>5, <3>1, <3>2
  <2> QED BY <1>1, <1>3, <1>5, <2>1
<1>8. c \in Signs <=> HasAt(t, k + 1, Signs)
  <2>1. NUL \notin Signs
    BY DEF NUL, Signs
  <2> QED BY <1>1, <1>2, <1>7, <2>1, HasAtIs
<1>9. SignLen(t) = IF HasAt(t, k + 1, Signs) THEN 1 ELSE 0
  BY <1>7 DEF SignLen, Signs
<1>10. p = a + Start(t)
  BY <1>1, <1>4, <1>7, <1>8, <1>9
<1>11. c = 45 <=> IsMinus
  <2>1. CASE c \in Signs
    <3>1. k + 1 <= Len(t) /\ Start(t) = k + 1 /\ SignLen(t) = 1
      BY <1>4, <1>7, <1>8, <1>9, <2>1 DEF HasAt
    <3>2. c = t[k + 1]
      <4>1. k < Len(t)
        BY <1>1, <1>7, <3>1
      <4> QED BY <1>1, <1>2, <1>7, <4>1, CharBehind
    <3> QED BY <1>6, <3>1, <3>2
  <2>2. CASE c \notin Signs
    <3>1. SignLen(t) = 0 /\ c # 45
      BY <1>8, <1>9, <2>2 DEF Signs
    <3> QED BY <1>6, <3>1
  <2> QED BY <2>1, <2>2
<1> HIDE DEF c, p
<1> DEFINE j == Start(t)
<1>12. m[p] = 48 <=> HasAt(t, j + 1, {48})
  <2>1. NUL \notin {48} /\ j \in 0 .. Len(Text(m, a))
    BY <1>2, <1>4 DEF NUL
  <2>2. m[a + j] \in {48} <=> HasAt(t, j + 1, {48})
    BY <1>1, <1>2, <2>1, HasAtIs
  <2> QED BY <1>10, <2>2
<1>13. HexPrefix(t) <=> HasAt(t, j + 1, {48}) /\ HasAt(t, j + 2, {88, 120})
  BY DEF HexPrefix
<1>14. HasAt(t, j + 1, {48}) => (m[p + 1] \in {88, 120} <=> HasAt(t, j + 2, {88, 120}))
  <2> SUFFICES ASSUME HasAt(t, j + 1, {48})
               PROVE  m[p + 1] \in {88, 120} <=> HasAt(t, j + 2, {88, 120})
    OBVIOUS
  <2>1. j + 1 <= Len(t)
    BY DEF HasAt
  <2> DEFINE i == j + 1
             X == {88, 120}
  <2>2. NUL \notin X /\ i \in 0 .. Len(Text(m, a))
    BY <1>1, <1>2, <1>4, <2>1 DEF NUL
  <2>3. a + i = p + 1 /\ i + 1 = j + 2
    BY <1>1, <1>4, <1>10
  <2> HIDE DEF i, X, j
  <2>4. m[a + i] \in X <=> HasAt(t, i + 1, X)
    BY <1>1, <1>2, <2>2, HasAtIs
  <2> QED BY <2>3, <2>4 DEF X
<1> QED BY <1>10, <1>11, <1>12, <1>13, <1>14 DEF t, a, m, c, p

LEMMA ReadPrefixes ==
    ASSUME call \in Calls, call.fn \in Scanners, call' = call, mem' = mem, Reading, Prefix
    PROVE  Reading'
<1>1. pc = "space" /\ ~isspace(mem[scan.at]) /\ pc' = "digits" /\ mem = call.mem
  BY DEF Prefix, Reading
<1>2. PICK k \in 0 .. Spaces(TextRead) : scan.at = call.s + k
  BY <1>1 DEF Reading
<1> DEFINE m == call.mem
           t == TextRead
           c == m[call.s + k]
           p == IF c \in Signs THEN call.s + k + 1 ELSE call.s + k
           hex == call.base \in {0, 16} /\ m[p] = 48 /\ m[p + 1] \in {88, 120}
           base == IF hex THEN 16
                   ELSE IF call.base # 0 THEN call.base
                   ELSE IF m[p] = 48 THEN 8 ELSE 10
           limit == Limit(call.fn, c = 45)
           at == IF hex THEN p + 2 ELSE p
<1>3. scan' = [at |-> at, neg |-> c = 45, base |-> base, acc |-> 0, any |-> 0,
               cutoff |-> Quotient(limit, base), cutlim |-> Remainder(limit, base)]
  BY <1>1, <1>2 DEF Prefix
<1>4. /\ c = 45 <=> IsMinus
      /\ p = call.s + Start(t)
      /\ m[p] = 48 <=> HasAt(t, Start(t) + 1, {48})
      /\ m[p] = 48 /\ m[p + 1] \in {88, 120} <=> HexPrefix(t)
  BY <1>1, <1>2, PrefixHere
<1>5. base = BaseRead /\ (hex <=> HexPrefix(t) /\ BaseRead = 16)
  <2>1. hex <=> call.base \in {0, 16} /\ HexPrefix(t)
    BY <1>4
  <2>2. base = IF hex THEN 16 ELSE IF call.base # 0 THEN call.base
               ELSE IF HasAt(t, Start(t) + 1, {48}) THEN 8 ELSE 10
    BY <1>4
  <2>3. BaseRead = IF call.base # 0 THEN call.base
                   ELSE IF HexPrefix(t) THEN 16 ELSE IF HasAt(t, Start(t) + 1, {48}) THEN 8 ELSE 10
    BY DEF BaseRead, BaseOf
  <2> HIDE DEF hex, base, t
  <2> QED BY <2>1, <2>2, <2>3
<1>6. at = call.s + Ahead
  <2>1. /\ call.s \in Nat /\ Start(t) \in Nat
        /\ Ahead = IF HexPrefix(t) /\ BaseRead = 16 THEN Start(t) + 2 ELSE Start(t)
    <3>1. t \in Seq(Nat) /\ call.s \in Nat /\ BaseRead \in 2 .. 36
      BY ReadIs
    <3> HIDE DEF t
    <3>2. BaseRead \in Int /\ Ahead = First(t, BaseRead) /\ Len(t) \in Nat
      BY <3>1 DEF Ahead, t
    <3> QED BY <3>1, <3>2, NumberBegins
  <2> HIDE DEF hex, p
  <2> QED BY <1>4, <1>5, <2>1
<1>7. Plain => limit = Bound
  <2>1. LONG_MAX \in Nat
    BY RangeAssumption
  <2> QED BY <1>4, <2>1 DEF Plain, Limit, Bound, LONG_MIN
<1> HIDE DEF c, p, hex, base, limit, at, t, m
<1>8. /\ IsScan' /\ scan'.at = at /\ scan'.base = base /\ scan'.acc = 0 /\ scan'.any = 0
      /\ scan'.cutoff = Quotient(limit, base) /\ scan'.cutlim = Remainder(limit, base)
      /\ scan'.neg = IsMinus
  <2> DEFINE minus == c = 45
             quotient == Quotient(limit, base)
             remainder == Remainder(limit, base)
  <2>1. scan' = [at |-> at, neg |-> minus, base |-> base, acc |-> 0, any |-> 0,
                 cutoff |-> quotient, cutlim |-> remainder]
    BY <1>3
  <2>2. minus = IsMinus
    BY <1>4 DEF IsMinus
  <2> HIDE DEF minus, quotient, remainder
  <2>3. /\ scan'.at = at /\ scan'.base = base /\ scan'.acc = 0 /\ scan'.any = 0
        /\ scan'.cutoff = quotient /\ scan'.cutlim = remainder /\ scan'.neg = minus
    BY <2>1
  <2>4. IsScan'
    BY <2>1, <2>3 DEF IsScan
  <2> QED BY <2>2, <2>3, <2>4 DEF quotient, remainder
<1>9. BaseRead \in 2 .. 36 /\ Bound \in Nat /\ 0 \in 0 .. Behind - Ahead /\ call.s + Ahead \in Nat
  BY ReadIs
<1>10. Plain => /\ Quotient(limit, base) = Bound \div BaseRead
                /\ Remainder(limit, base) = Bound % BaseRead
  <2> SUFFICES ASSUME NEW B \in Nat, NEW b \in 2 .. 36
               PROVE  Quotient(B, b) = B \div b /\ Remainder(B, b) = B % b
    BY <1>5, <1>7, <1>9
  <2>1. Quotient(B, b) = B \div b
    BY DEF Quotient
  <2>2. B \div b \in Nat /\ B = b * (B \div b) + (B % b) /\ B % b \in Nat
    BY SMT
  <2>3. b * (B \div b) = (B \div b) * b /\ b * (B \div b) \in Nat
    BY <2>2, SMT
  <2>4. B - (B \div b) * b = B % b
    BY <2>2, <2>3
  <2> QED BY <2>1, <2>4 DEF Remainder
<1>11. Plain' => Taking'
  <2> SUFFICES ASSUME Plain PROVE Taking'
    BY SameRead
  <2>1. scan'.at = call.s + Ahead + 0
    BY <1>6, <1>8, <1>9
  <2> QED BY <1>5, <1>8, <1>9, <1>10, <2>1, SameRead DEF Taking
<1>12. scan'.neg = IsMinus'
  BY <1>8 DEF IsMinus, TextRead
<1> QED BY <1>1, <1>8, <1>11, <1>12 DEF Reading

LEMMA ReadDigits ==
    ASSUME call \in Calls, call.fn \in Scanners, call' = call, mem' = mem, Reading, ScanDigit
    PROVE  Reading'
<1> DEFINE v == Value(mem[scan.at])
           big == TooBig(v)
           more == scan.acc * scan.base + v
<1>1. /\ pc = "digits" /\ pc' = pc /\ mem = call.mem /\ IsScan /\ v < scan.base
      /\ scan.neg = IsMinus /\ (Plain => Taking)
      /\ scan' = [scan EXCEPT !.at = @ + 1, !.any = IF big THEN -1 ELSE 1,
                              !.acc = IF big THEN @ ELSE @ * scan.base + v]
  BY DEF ScanDigit, IsDigit, strVars, Reading
<1>2. /\ IsScan' /\ scan'.at = scan.at + 1 /\ scan'.any = (IF big THEN -1 ELSE 1)
      /\ scan'.acc = (IF big THEN scan.acc ELSE more)
      /\ scan'.base = scan.base /\ scan'.cutoff = scan.cutoff /\ scan'.cutlim = scan.cutlim
      /\ scan'.neg = scan.neg
  <2> HIDE DEF v, big
  <2> QED BY <1>1 DEF IsScan
<1>3. scan'.neg = IsMinus'
  BY <1>1, <1>2 DEF IsMinus, TextRead
<1>4. big <=> scan.any < 0 \/ scan.acc > scan.cutoff \/ (scan.acc = scan.cutoff /\ v > scan.cutlim)
  BY DEF TooBig
<1> HIDE DEF v, big
<1>5. ASSUME Plain PROVE Taking'
  <2> DEFINE N == Behind - Ahead
             b == BaseRead
  <2>1. PICK k \in 0 .. N :
           /\ scan.at = call.s + Ahead + k
           /\ \/ scan.any = 0 /\ k = 0 /\ scan.acc = 0
              \/ scan.any = 1 /\ k > 0 /\ scan.acc = UpTo(k) /\ UpTo(k) <= Bound
              \/ scan.any = -1 /\ k > 0 /\ UpTo(k) > Bound
    BY <1>1, <1>5 DEF Taking
  <2>2. scan.base = b /\ scan.cutoff = Bound \div b /\ scan.cutlim = Bound % b
    BY <1>1, <1>5 DEF Taking
  <2>3. /\ b \in 2 .. 36 /\ Bound \in Nat /\ Ahead \in Nat /\ call.s \in Nat /\ N \in Nat
    BY ReadIs
  <2>4. k < N /\ mem[scan.at] = TextRead[Ahead + k + 1]
    BY <1>1, <2>1, <2>2, DigitHere DEF v
  <2>5. k \in 0 .. N - 1 /\ k + 1 \in 0 .. N
    BY <2>3, <2>4
  <2>6. /\ v \in Nat /\ v < b /\ UpTo(k + 1) = UpTo(k) * b + v /\ UpTo(k) \in Nat
        /\ UpTo(k + 1) \in Nat /\ UpTo(0) = 0
    <3> HIDE DEF N, b
    <3>1. /\ Value(TextRead[Ahead + k + 1]) \in Nat
          /\ Value(TextRead[Ahead + k + 1]) < b
          /\ UpTo(k + 1) = UpTo(k) * b + Value(TextRead[Ahead + k + 1])
      BY <2>5, UpToIs DEF N, b
    <3>2. UpTo(k) \in Nat /\ UpTo(k + 1) \in Nat /\ UpTo(0) = 0
      BY <2>1, <2>5, UpToIs DEF N
    <3> QED BY <2>4, <3>1, <3>2 DEF v
  <2> HIDE DEF N, b
  <2>7. b \in Nat /\ b > 0
    BY <2>3
  <2>8. (UpTo(k) > Bound \div b \/ (UpTo(k) = Bound \div b /\ v > Bound % b))
           <=> UpTo(k + 1) > Bound
    BY <2>3, <2>6, <2>7, CutoffIs
  <2>9. \/ scan'.any = 1 /\ scan'.acc = UpTo(k + 1) /\ UpTo(k + 1) <= Bound
        \/ scan'.any = -1 /\ UpTo(k + 1) > Bound
    <3>1. CASE scan.any = -1
      <4>1. big /\ UpTo(k) > Bound
        BY <1>4, <2>1, <3>1
      <4>2. UpTo(k) * b \in Nat /\ UpTo(k) * b >= UpTo(k)
        BY <2>6, <2>7, SMT
      <4>3. UpTo(k + 1) > Bound
        BY <2>3, <2>6, <4>1, <4>2
      <4> QED BY <1>2, <4>1, <4>3
    <3>2. CASE scan.any # -1
      <4>1. scan.acc = UpTo(k) /\ ~(scan.any < 0)
        BY <2>1, <2>6, <3>2
      <4>2. big <=> UpTo(k + 1) > Bound
        BY <1>4, <2>2, <2>8, <4>1
      <4>3. more = UpTo(k + 1)
        BY <2>2, <2>6, <4>1
      <4> HIDE DEF more
      <4> QED BY <1>2, <2>3, <2>6, <4>2, <4>3
    <3> QED BY <3>1, <3>2
  <2>10. scan'.at = call.s + Ahead + (k + 1) /\ k + 1 > 0
    BY <1>2, <2>1, <2>3
  <2>11. /\ scan'.base = BaseRead /\ scan'.cutoff = Bound \div BaseRead
         /\ scan'.cutlim = Bound % BaseRead
    BY <1>2, <2>2 DEF b
  <2> QED BY <2>5, <2>9, <2>10, <2>11, SameRead DEF Taking, N
<1> QED BY <1>1, <1>2, <1>3, <1>5, SameRead DEF Reading

\* The code's value is the text's, held in the range.
LEMMA ReadEnds ==
    ASSUME call \in Calls, call.fn \in Scanners, call' = call, mem' = mem, Reading, ScanEnd
    PROVE  Reading'
<1> DEFINE value == IF scan.any < 0 THEN (IF scan.neg THEN LONG_MIN ELSE LONG_MAX)
                    ELSE IF scan.neg THEN -scan.acc ELSE scan.acc
           at == IF scan.any # 0 THEN scan.at ELSE call.s
           b == BaseRead
           N == Behind - Ahead
<1>1. /\ pc = "digits" /\ pc' = "done" /\ mem = call.mem /\ IsScan
      /\ ~(Value(mem[scan.at]) < scan.base)
      /\ scan.neg = IsMinus /\ (Plain => Taking)
      /\ scan' = [scan EXCEPT !.at = at]
      /\ ret' = IF call.fn = "atoi" THEN Wrapped(value, INT_MAX) ELSE value
  BY DEF ScanEnd, IsDigit, Reading
<1> HIDE DEF value, at
<1>2. IsScan' /\ scan'.at = at /\ scan'.neg = scan.neg
  BY <1>1 DEF IsScan
<1>3. scan'.neg = IsMinus'
  BY <1>1, <1>2 DEF IsMinus, TextRead
<1>4. ASSUME Plain PROVE Taken'
  <2>1. PICK k \in 0 .. N :
           /\ scan.at = call.s + Ahead + k
           /\ \/ scan.any = 0 /\ k = 0 /\ scan.acc = 0
              \/ scan.any = 1 /\ k > 0 /\ scan.acc = UpTo(k) /\ UpTo(k) <= Bound
              \/ scan.any = -1 /\ k > 0 /\ UpTo(k) > Bound
    BY <1>1, <1>4 DEF Taking
  <2>2. scan.base = b
    BY <1>1, <1>4 DEF Taking
  <2>3. /\ Ahead \in Nat /\ call.s \in Nat /\ N \in Nat /\ Behind = Ahead + N
    BY ReadIs
  <2>4. ~(k < N)
    BY <1>1, <2>1, <2>2, DigitHere
  <2>5. k = N
    BY <2>1, <2>3, <2>4
  <2>6. UpTo(N) \in Nat /\ UpTo(0) = 0 /\ UpTo(N) = Sum(TextRead, b)
    <3> HIDE DEF N
    <3>1. N \in 0 .. N
      BY <2>3
    <3> QED BY <3>1, UpToIs DEF N
  <2>7. Meaning(TextRead, call.base)
           = Clamped(IF IsMinus THEN -UpTo(N) ELSE UpTo(N), LONG_MIN, LONG_MAX)
    BY <2>6 DEF Meaning, IsMinus, BaseRead
  <2> HIDE DEF N, b
  <2>8. value = Meaning(TextRead, call.base)
    <3> DEFINE x == UpTo(N)
    <3>1. LONG_MAX \in Nat /\ x \in Nat /\ LONG_MIN = -LONG_MAX - 1
          /\ Bound = IF IsMinus THEN LONG_MAX + 1 ELSE LONG_MAX
      BY RangeAssumption, <2>6 DEF LONG_MIN, Bound
    <3>2. \/ scan.any >= 0 /\ ~(scan.any < 0) /\ scan.acc = x /\ x <= Bound
          \/ scan.any < 0 /\ x > Bound
      BY <2>1, <2>5, <2>6, <3>1
    <3>3. value = IF scan.any < 0 THEN (IF IsMinus THEN LONG_MIN ELSE LONG_MAX)
                  ELSE IF IsMinus THEN -scan.acc ELSE scan.acc
      BY <1>1 DEF value
    <3> DEFINE low == LONG_MIN
               y == IF IsMinus THEN -x ELSE x
    <3>4. y \in Int /\ y = IF IsMinus THEN -x ELSE x
      BY <3>1
    <3>5. Clamped(y, LONG_MIN, LONG_MAX)
             = IF y < LONG_MIN THEN LONG_MIN ELSE IF y > LONG_MAX THEN LONG_MAX ELSE y
      BY DEF Clamped
    <3>6. Meaning(TextRead, call.base) = Clamped(y, LONG_MIN, LONG_MAX)
      BY <2>7
    <3> HIDE DEF x, y
    <3>7. CASE IsMinus
      BY <3>1, <3>2, <3>3, <3>4, <3>5, <3>6, <3>7
    <3>8. CASE ~IsMinus
      BY <3>1, <3>2, <3>3, <3>4, <3>5, <3>6, <3>8
    <3> QED BY <3>7, <3>8
  <2>9. at = call.s + IF Behind > Ahead THEN Behind ELSE 0
    <3>1. CASE N = 0
      <4>1. scan.any = 0 /\ ~(Behind > Ahead)
        BY <2>1, <2>3, <2>5, <3>1
      <4> QED BY <2>3, <4>1 DEF at
    <3>2. CASE N > 0
      <4>1. scan.any # 0 /\ Behind > Ahead /\ scan.at = call.s + Behind
        BY <2>1, <2>3, <2>5, <3>2
      <4> QED BY <4>1 DEF at
    <3> QED BY <2>3, <3>1, <3>2
  <2>10. ret' = IF call.fn = "atoi" THEN Wrapped(Meaning(TextRead, call.base), INT_MAX)
                ELSE Meaning(TextRead, call.base)
    BY <1>1, <2>8
  <2> QED BY <1>2, <2>9, <2>10, SameRead DEF Taken
<1> QED BY <1>1, <1>2, <1>3, <1>4, SameRead DEF Reading

LEMMA ReadNext == ReadInv /\ [LibcNext]_libcVars => ReadInv'
<1> SUFFICES ASSUME ReadInv, [LibcNext]_libcVars PROVE ReadInv'
  OBVIOUS
<1>1. CASE UNCHANGED libVars
  <2>1. call' = call /\ mem' = mem /\ pc' = pc /\ ret' = ret /\ scan' = scan
    BY <1>1 DEF libVars, strVars
  <2>2. Reading => Reading'
    BY <2>1 DEF Reading, IsScan, Taking, Taken, TextRead, BaseRead, Ahead, Behind, IsMinus,
       Bound, Plain, UpTo
  <2> QED BY <2>1, <2>2 DEF ReadInv
<1>2. CASE LibNext
  <2>1. call' = call /\ pc # "idle" /\ call \in Calls
    BY <1>2, CallKept DEF ReadInv
  <2>2. CASE call.fn \notin Scanners
    BY <2>1, <2>2 DEF ReadInv
  <2>3. CASE call.fn \in Scanners
    <3>1. Reading /\ pc # "run"
      BY <2>1, <2>3 DEF ReadInv, Reading
    <3>2. mem' = mem /\ (Strtol \/ SkipSpace \/ Prefix \/ ScanDigit \/ ScanEnd)
      BY <1>2, <2>3, <3>1, ScanRuns
    <3>3. Reading'
      BY <2>1, <2>3, <3>1, <3>2, ReadStarts, ReadSkips, ReadPrefixes, ReadDigits, ReadEnds
    <3> QED BY <2>1, <3>3 DEF ReadInv
  <2> QED BY <2>2, <2>3
<1> QED BY <1>1, <1>2 DEF LibcNext, libcVars

LEMMA ReadMeans == ReadInv => NumberIsRead
<1> SUFFICES ASSUME ReadInv, pc = "done", call.fn \in Scanners PROVE NumberIsRead
  BY DEF NumberIsRead, Scanners
<1>1. call \in Calls /\ scan.neg = IsMinus /\ (Plain => Taken)
  BY DEF ReadInv, Reading
<1>2. ASSUME call.fn \in {"strtol", "strtoll"}, call.fn = "strtoll" => ~scan.neg
      PROVE  /\ ret = Meaning(TextRead, call.base)
             /\ scan.at = call.s + IF Behind > Ahead THEN Behind ELSE 0
  BY <1>1, <1>2 DEF Plain, Taken
<1>3. ASSUME call.fn = "atoi" PROVE ret = Wrapped(Meaning(TextRead, 10), INT_MAX)
  <2>1. call.base = 10
    BY <1>1, <1>3, NumberCallsAssumption DEF LegalNumber
  <2> QED BY <1>1, <1>3, <2>1 DEF Plain, Taken
<1> QED BY <1>2, <1>3 DEF NumberIsRead, TextRead, BaseRead, Ahead, Behind

\* strtol gives the number a text of any length stands for, in any base, held in
\* the range of a long of any width, and where its digits end: the cutoff finds
\* the digit that leaves the range before it is multiplied in. strtoll does so for what
\* is not negative, and atoi for what fits an int.
THEOREM NumbersRead == LibcSpec => []NumberIsRead
<1>1. LibcInit => ReadInv
  <2>1. ASSUME LibInit PROVE ReadInv
    BY <2>1 DEF LibInit, StrInit, ReadInv, Reading, IsScan
  <2>2. ASSUME LibIdle PROVE ReadInv
    BY <2>2 DEF LibIdle, ReadInv
  <2> QED BY <2>1, <2>2 DEF LibcInit
<1> QED BY <1>1, ReadNext, ReadMeans, PTL DEF LibcSpec

-----------------------------------------------------------------------------
(* Writing a number.                                                       *)

\* The quotients the number goes through, and the digits that are left of them.
Quotients(c, h, i) ==
    /\ h \in [0 .. i -> Nat] /\ h[0] = c.c
    /\ \A j \in 0 .. i - 1 : h[j + 1] = h[j] \div c.base
DigitsIn(c, m, h, i) == \A j \in 0 .. i - 1 : m[c.d + j] = Glyph(h[j] % c.base)

\* At most k bytes of the memory the call found have changed.
Outside(c, m, k) ==
    /\ IsMemory(m) /\ DOMAIN m = DOMAIN c.mem
    /\ \A p \in DOMAIN m : p \notin c.d .. c.d + k - 1 => m[p] = c.mem[p]

\* Behind i digits, which are not all.
Dividing(h, i) ==
    /\ Quotients(call, h, i) /\ DigitsIn(call, mem, h, i) /\ Outside(call, mem, i)
    /\ loops = <<Loop("itoa", call.d, i, h[i])>>
    /\ i > 0 => h[i] > 0

\* All N digits and the terminator, the least significant digit first.
Divided(c, m, h, N) ==
    /\ Quotients(c, h, N) /\ h[N] = 0 /\ (N > 1 => h[N - 1] > 0)
    /\ DigitsIn(c, m, h, N) /\ m[c.d + N] = NUL /\ Outside(c, m, N + 1)

Reversed(m, N) ==
    /\ loops = <<>>
    /\ \E k \in 0 .. N : 2 * k \in {N - 1, N} /\ mem = Swapped(m, call.d, N, k)

Writing ==
    \/ pc = "call" /\ ret = 0 /\ mem = call.mem
    \/ pc = "run" /\ ret = 0 /\ \E i \in 0 .. call.n - 2 : \E h : Dividing(h, i)
    \/ pc = "run" /\ ret = 0 /\ \E N \in 1 .. call.n - 1 : \E m, h :
          Divided(call, m, h, N) /\ Swapping(m, call.d, N)
    \/ pc \in {"run", "done"} /\ ret = 0 /\ \E N \in 1 .. call.n - 1 : \E m, h :
          Divided(call, m, h, N) /\ Reversed(m, N)
    \/ pc = "done" /\ ret = -1 /\ Outside(call, mem, call.n)
          /\ (call.n = 0 \/ call.c >= Least(call.n, call.base))

WriteInv == pc = "idle" \/ (call \in Calls /\ (call.fn = "itoa" => Writing))

LEMMA WriteIs ==
    ASSUME call \in Calls, call.fn = "itoa"
    PROVE  /\ IsMemory(call.mem) /\ call.d \in Nat /\ call.n \in Nat /\ call.n # 1
           /\ call.c \in Nat /\ call.base \in Nat /\ 2 <= call.base /\ call.base <= 36
           /\ Within(call.mem, call.d, call.n)
<1>1. IsMemory(call.mem) /\ call.d \in Nat /\ call.n \in Nat
  BY LegalCall DEF Legal
<1>2. LegalNumber(call)
  BY NumberCallsAssumption
<1>3. call.base \in 2 .. 36 /\ call.c \in Nat /\ call.n # 1 /\ Within(call.mem, call.d, call.n)
  BY <1>2 DEF LegalNumber
<1>4. \A b \in 2 .. 36 : b \in Nat /\ 2 <= b /\ b <= 36
  OBVIOUS
<1> QED BY <1>1, <1>3, <1>4

LEMMA DivisionIs ==
    ASSUME NEW x \in Nat, NEW b \in Nat, 2 <= b
    PROVE  /\ x \div b \in Nat /\ x % b \in Nat /\ x % b < b
           /\ x = (x \div b) * b + (x % b)
           /\ x \div b = 0 => x % b = x
<1>1. x \div b \in Nat /\ x % b \in Nat /\ x % b < b /\ x = b * (x \div b) + (x % b)
  BY SMT
<1>2. b * (x \div b) = (x \div b) * b
  BY <1>1, SMT
<1>3. x \div b = 0 => x = x % b
  BY <1>1, SMT
<1> QED BY <1>1, <1>2, <1>3

LEMMA GlyphIs ==
    ASSUME NEW x \in Nat, x < 36
    PROVE  /\ Glyph(x) \in 0 .. 255 /\ Glyph(x) # NUL
           /\ Value(Glyph(x)) = x
<1>1. CASE x < 10
  BY <1>1 DEF Glyph, Value, isdigit, NUL
<1>2. CASE ~(x < 10)
  <2>1. Glyph(x) = 55 + x /\ ~isdigit(Glyph(x)) /\ isupper(Glyph(x)) /\ Glyph(x) \in 0 .. 255
    BY <1>2 DEF Glyph, isdigit, isupper
  <2> QED BY <2>1 DEF Value, NUL
<1> QED BY <1>1, <1>2

\* One quotient more.
LEMMA QuotientsMore ==
    ASSUME call \in Calls, call.fn = "itoa", NEW i \in Nat, NEW h, Quotients(call, h, i),
           NEW x, x = h[i] \div call.base
    PROVE  LET g == [j \in 0 .. i + 1 |-> IF j = i + 1 THEN x ELSE h[j]]
           IN  /\ Quotients(call, g, i + 1) /\ g[i + 1] = x
               /\ \A j \in 0 .. i : g[j] = h[j]
<1> DEFINE g == [j \in 0 .. i + 1 |-> IF j = i + 1 THEN x ELSE h[j]]
           b == call.base
<1>1. b \in Nat /\ 2 <= b
  BY WriteIs
<1>2. /\ h \in [0 .. i -> Nat] /\ h[0] = call.c
      /\ \A j \in 0 .. i - 1 : h[j + 1] = h[j] \div b
  BY DEF Quotients
<1> HIDE DEF b
<1>3. h[i] \in Nat /\ x = h[i] \div b
  BY <1>2 DEF b
<1>4. x \in Nat
  BY <1>1, <1>3, DivisionIs
<1>5. g[i + 1] = x /\ \A j \in 0 .. i : g[j] = h[j]
  OBVIOUS
<1>6. g \in [0 .. i + 1 -> Nat]
  <2>1. \A j \in 0 .. i + 1 : (IF j = i + 1 THEN x ELSE h[j]) \in Nat
    BY <1>2, <1>4
  <2> QED BY <2>1
<1> HIDE DEF g
<1>7. ASSUME NEW j \in 0 .. i PROVE g[j + 1] = g[j] \div b
  <2>1. g[j] = h[j]
    BY <1>5
  <2>2. CASE j = i
    BY <1>3, <1>5, <2>1, <2>2
  <2>3. CASE j < i
    <3>1. j \in 0 .. i - 1 /\ j + 1 \in 0 .. i
      BY <2>3
    <3> QED BY <1>2, <1>5, <2>1, <3>1
  <2> QED BY <2>2, <2>3
<1>8. Quotients(call, g, i + 1)
  <2>1. 0 \in 0 .. i /\ (i + 1) - 1 = i
    OBVIOUS
  <2>2. g[0] = call.c
    BY <1>2, <1>5, <2>1
  <2> QED BY <1>6, <1>7, <2>1, <2>2 DEF Quotients, b
<1> QED BY <1>5, <1>8 DEF g

\* A number that leaves something behind n - 1 divisions has n digits.
LEMMA TooManyDigits ==
    ASSUME call \in Calls, call.fn = "itoa", NEW n \in Nat, n > 0, NEW h, Quotients(call, h, n - 1),
           h[n - 1] > 0
    PROVE  call.c >= Least(n, call.base)
<1> DEFINE b == call.base
           v == [i \in 1 .. n |-> IF i = 1 THEN 1 ELSE 0]
           f == NumberUpTo(v, b)
           S == {k \in 0 .. n - 1 : f[k + 1] <= h[n - 1 - k]}
<1>1. b \in Nat /\ 2 <= b
  BY WriteIs
<1>2. /\ h \in [0 .. n - 1 -> Nat] /\ h[0] = call.c
      /\ \A j \in 0 .. n - 2 : h[j + 1] = h[j] \div b
  BY DEF Quotients
<1>3. v \in Seq(Nat) /\ Len(v) = n /\ v[1] = 1 /\ \A i \in 2 .. n : v[i] = 0
  OBVIOUS
<1>4. Least(n, b) = f[Len(v)]
  BY DEF Least, Number
<1> HIDE DEF b, v
<1>5. /\ f \in [0 .. n -> Nat] /\ f[0] = 0
      /\ \A k \in 0 .. n - 1 : f[k + 1] = f[k] * b + v[k + 1]
  BY <1>1, <1>3, NumberSteps
<1> HIDE DEF f
<1>6. 0 \in S
  <2>1. f[0 + 1] = 0 * b + 1 /\ 0 * b = 0
    BY <1>1, <1>3, <1>5
  <2>2. f[0 + 1] = 1 /\ h[n - 1 - 0] \in Nat /\ h[n - 1 - 0] > 0
    BY <1>2, <2>1
  <2>3. f[0 + 1] <= h[n - 1 - 0] /\ 0 \in 0 .. n - 1
    BY <2>2
  <2> QED BY <2>3
<1>7. ASSUME NEW k \in 0 .. (n - 1) - 1, k \in S PROVE k + 1 \in S
  <2> DEFINE x == f[k + 1]
             y == h[n - 1 - k]
             z == h[n - 2 - k]
  <2>1. /\ k + 1 \in 0 .. n - 1 /\ k + 2 \in 2 .. n /\ (k + 1) + 1 = k + 2
        /\ n - 2 - k \in 0 .. n - 2 /\ (n - 2 - k) + 1 = n - 1 - k /\ n - 1 - (k + 1) = n - 2 - k
        /\ k + 1 \in 0 .. n
    OBVIOUS
  <2>2. f[(k + 1) + 1] = x * b + v[k + 2] /\ v[k + 2] = 0 /\ x \in Nat
    BY <1>3, <1>5, <2>1
  <2>3. y = z \div b /\ y \in Nat /\ z \in Nat
    BY <1>2, <2>1
  <2>4. x <= y
    BY <1>7
  <2> HIDE DEF x, y, z
  <2>5. z = y * b + (z % b) /\ z % b \in Nat
    BY <1>1, <2>3, DivisionIs
  <2>6. x * b <= y * b /\ x * b \in Nat /\ y * b \in Nat
    BY <1>1, <2>2, <2>3, <2>4, SMT
  <2>7. f[(k + 1) + 1] <= z
    BY <2>2, <2>3, <2>5, <2>6
  <2>8. f[(k + 1) + 1] <= h[n - 1 - (k + 1)]
    BY <2>1, <2>7 DEF z
  <2> QED BY <2>1, <2>8
<1> HIDE DEF S
<1>8. n - 1 \in S
  <2>1. n - 1 \in Nat /\ n - 1 \in 0 .. n - 1
    OBVIOUS
  <2> QED BY <1>6, <1>7, <2>1, UpToInduction
<1>9. f[n] <= h[0]
  BY <1>8 DEF S
<1> QED BY <1>2, <1>3, <1>4, <1>5, <1>9 DEF b

LEMMA LengthFound ==
    ASSUME NEW m, IsMemory(m), NEW a \in Nat, NEW N \in Nat, a + N \in DOMAIN m, m[a + N] = NUL,
           \A j \in 0 .. N - 1 : m[a + j] # NUL
    PROVE  Ended(m, a) /\ strlen(m, a) = N
<1> DEFINE L == strlen(m, a)
<1>1. Ended(m, a)
  <2>1. a <= a + N
    OBVIOUS
  <2> QED BY <2>1 DEF Ended
<1>2. L \in Nat /\ m[a + L] = NUL /\ \A j \in 0 .. L - 1 : m[a + j] # NUL
  BY <1>1, LengthIs
<1> HIDE DEF L
<1>3. ~(L < N)
  <2> SUFFICES ASSUME L < N PROVE FALSE
    OBVIOUS
  <2>1. L \in 0 .. N - 1
    BY <1>2
  <2> QED BY <1>2, <2>1
<1>4. ~(N < L)
  <2> SUFFICES ASSUME N < L PROVE FALSE
    OBVIOUS
  <2>1. N \in 0 .. L - 1
    BY <1>2
  <2> QED BY <1>2, <2>1
<1> QED BY <1>1, <1>2, <1>3, <1>4 DEF L

\* One byte more of the buffer.
LEMMA OutsidePut ==
    ASSUME call \in Calls, call.fn = "itoa", NEW m, NEW k \in Nat, k < call.n, Outside(call, m, k),
           NEW v \in 0 .. 255
    PROVE  /\ call.d + k \in DOMAIN m
           /\ Put(m, call.d + k, v)[call.d + k] = v
           /\ \A p \in DOMAIN m : p # call.d + k => Put(m, call.d + k, v)[p] = m[p]
           /\ Outside(call, Put(m, call.d + k, v), k + 1)
<1> DEFINE d == call.d
           w == Put(m, d + k, v)
<1>1. d \in Nat /\ call.n \in Nat /\ Within(call.mem, d, call.n)
  BY WriteIs
<1>2. /\ IsMemory(m) /\ DOMAIN m = DOMAIN call.mem
      /\ \A p \in DOMAIN m : p \notin d .. d + k - 1 => m[p] = call.mem[p]
  BY DEF Outside
<1> HIDE DEF d
<1>3. d + k \in DOMAIN m
  BY <1>1, <1>2 DEF Within
<1>4. /\ DOMAIN m = 0 .. Cardinality(DOMAIN m) - 1 /\ \A p \in DOMAIN m : m[p] \in 0 .. 255
      /\ m = [p \in DOMAIN m |-> m[p]] /\ Cardinality(DOMAIN m) \in Nat
  BY <1>2, MemoryIs DEF IsMemory
<1>5. w = [p \in DOMAIN m |-> IF p = d + k THEN v ELSE m[p]]
  BY <1>3, <1>4 DEF Put
<1>6. DOMAIN w = DOMAIN m /\ w[d + k] = v /\ \A p \in DOMAIN m : p # d + k => w[p] = m[p]
  BY <1>3, <1>5
<1>7. IsMemory(w)
  <2>1. \A p \in DOMAIN m : (IF p = d + k THEN v ELSE m[p]) \in 0 .. 255
    BY <1>4
  <2>2. w \in [DOMAIN m -> 0 .. 255]
    BY <1>5, <2>1
  <2> HIDE DEF w
  <2> QED BY <1>4, <1>6, <2>2 DEF IsMemory
<1> HIDE DEF w
<1>8. ASSUME NEW p \in DOMAIN w, p \notin d .. d + (k + 1) - 1 PROVE w[p] = call.mem[p]
  <2>1. p \in DOMAIN m /\ p \in Nat
    BY <1>4, <1>6
  <2>2. p # d + k /\ p \notin d .. d + k - 1
    BY <1>1, <1>8, <2>1
  <2> QED BY <1>2, <1>6, <2>1, <2>2
<1>9. Outside(call, w, k + 1)
  BY <1>2, <1>6, <1>7, <1>8 DEF Outside, d
<1> QED BY <1>3, <1>6, <1>9 DEF w, d

\* The digit of one iteration.
LEMMA DigitPut ==
    ASSUME call \in Calls, call.fn = "itoa", NEW i \in 0 .. call.n - 2, NEW h, Dividing(h, i),
           NEW g, \A j \in 0 .. i : g[j] = h[j]
    PROVE  LET m == Put(mem, call.d + i, Glyph(h[i] % call.base))
           IN  /\ DigitsIn(call, m, g, i + 1) /\ Outside(call, m, i + 1)
               /\ \A j \in 0 .. i : m[call.d + j] # NUL
<1> DEFINE d == call.d
           b == call.base
           v == Glyph(h[i] % b)
           m == Put(mem, d + i, v)
<1>1. d \in Nat /\ call.n \in Nat /\ b \in Nat /\ 2 <= b /\ b <= 36
      /\ Within(call.mem, d, call.n)
  BY WriteIs
<1>2. h \in [0 .. i -> Nat] /\ DigitsIn(call, mem, h, i) /\ Outside(call, mem, i)
  BY DEF Dividing, Quotients
<1> HIDE DEF d, b
<1>3. \A j \in 0 .. i : /\ Glyph(h[j] % b) \in 0 .. 255 /\ Glyph(h[j] % b) # NUL
                       /\ g[j] = h[j]
  <2> SUFFICES ASSUME NEW j \in 0 .. i
               PROVE  Glyph(h[j] % b) \in 0 .. 255 /\ Glyph(h[j] % b) # NUL
    OBVIOUS
  <2>1. h[j] \in Nat
    BY <1>2
  <2>2. h[j] % b \in Nat /\ h[j] % b < b
    BY <1>1, <2>1, DivisionIs
  <2>3. h[j] % b < 36
    BY <1>1, <2>2
  <2> QED BY <2>2, <2>3, GlyphIs
<1>4. i \in Nat /\ i < call.n /\ v \in 0 .. 255
  BY <1>1, <1>3
<1>5. /\ d + i \in DOMAIN mem /\ m[d + i] = v /\ Outside(call, m, i + 1)
      /\ \A p \in DOMAIN mem : p # d + i => m[p] = mem[p]
  <2> HIDE DEF v, m
  <2>1. /\ call.d + i \in DOMAIN mem
        /\ Put(mem, call.d + i, v)[call.d + i] = v
        /\ \A p \in DOMAIN mem : p # call.d + i => Put(mem, call.d + i, v)[p] = mem[p]
        /\ Outside(call, Put(mem, call.d + i, v), i + 1)
    BY <1>2, <1>4, OutsidePut
  <2> QED BY <2>1 DEF m, d
<1>6. DOMAIN mem = DOMAIN call.mem
  BY <1>2 DEF Outside
<1>7. ASSUME NEW j \in 0 .. i PROVE m[d + j] = Glyph(h[j] % b)
  <2>1. CASE j = i
    BY <1>5, <2>1
  <2>2. CASE j # i
    <3>1. j \in 0 .. i - 1 /\ d + j # d + i /\ d + j \in d .. d + call.n - 1
      BY <1>1, <1>4, <2>2
    <3>2. d + j \in DOMAIN mem /\ mem[d + j] = Glyph(h[j] % b)
      BY <1>1, <1>2, <1>6, <3>1 DEF Within, DigitsIn, d, b
    <3> QED BY <1>5, <3>1, <3>2
  <2> QED BY <2>1, <2>2
<1> HIDE DEF m, v
<1>8. DigitsIn(call, m, g, i + 1)
  <2>1. (i + 1) - 1 = i
    BY <1>4
  <2> QED BY <1>3, <1>7, <2>1 DEF DigitsIn, d, b
<1>9. \A j \in 0 .. i : m[d + j] # NUL
  BY <1>3, <1>7
<1> QED BY <1>5, <1>8, <1>9 DEF m, v, d, b

\* What a step of itoa is.
LEMMA WriteRuns ==
    ASSUME LibNext, call.fn = "itoa", pc \in {"call", "run", "done"}
    PROVE  \/ pc = "call" /\ Itoa
           \/ pc = "run" /\ loops = <<>> /\ Return
           \/ pc = "run" /\ loops # <<>> /\ (loop.kind \in Kinds \/ ItoaDigit)
<1>1. call.fn \notin StrFns \cup Scanners
  BY DEF Scanners, StrFns
<1>2. ~Strtol /\ ~memcpy /\ ~memset /\ ~memmove /\ ~strcpy /\ ~strncpy /\ ~strcat /\ ~append
      /\ ~backspace /\ ~Strrev /\ ~Looks
  BY <1>1 DEF Strtol, memcpy, memmove, memset, strcpy, strncpy, strcat, append, backspace,
     Strrev, Looks, Begins, Answers, StrFns
<1>3. CASE Itoa
  BY <1>3 DEF Itoa
<1>4. CASE Return
  BY <1>4 DEF Return
<1>5. CASE ItoaDigit
  BY <1>5 DEF ItoaDigit, In
<1>6. CASE CopyUp \/ CopyDown \/ Fill \/ CopyString \/ CopyCat \/ Swap
  BY <1>6 DEF CopyUp, CopyDown, Fill, CopyString, CopyCat, Swap, In, Kinds
<1>7. CASE SkipSpace \/ Prefix \/ ScanDigit \/ ScanEnd
  <2>1. pc \in {"space", "digits"}
    BY <1>7 DEF SkipSpace, Prefix, ScanDigit, ScanEnd
  <2> QED BY <2>1, <1>7
<1> QED BY <1>2, <1>3, <1>4, <1>5, <1>6, <1>7 DEF LibNext, StrNext

LEMMA WriteStarts ==
    ASSUME call \in Calls, call.fn = "itoa", call' = call, pc = "call", ret = 0,
           mem = call.mem, Itoa
    PROVE  Writing'
<1>1. /\ IsMemory(call.mem) /\ call.d \in Nat /\ call.n \in Nat /\ call.n # 1 /\ call.c \in Nat
  BY WriteIs
<1>2. mem' = call.mem
  BY DEF Itoa
<1>3. Outside(call, call.mem, call.n) /\ Outside(call, call.mem, 0)
  BY <1>1 DEF Outside
<1>4. CASE call.n = 0
  <2>1. pc' = "done" /\ ret' = -1
    BY <1>4 DEF Itoa
  <2> QED BY <1>2, <1>3, <1>4, <2>1 DEF Writing
<1>5. CASE call.n # 0
  <2>1. pc' = "run" /\ ret' = 0 /\ loops' = <<Loop("itoa", call.d, 0, call.c)>>
    BY <1>5 DEF Itoa
  <2>2. PICK h : h[0] = call.c /\ Quotients(call, h, 0) /\ DigitsIn(call, mem', h, 0)
    <3> DEFINE h == [j \in 0 .. 0 |-> call.c]
    <3>1. h[0] = call.c /\ Quotients(call, h, 0) /\ DigitsIn(call, mem', h, 0)
      BY <1>1 DEF Quotients, DigitsIn
    <3> QED BY <3>1
  <2>3. Dividing(h, 0)'
    BY <1>2, <1>3, <2>1, <2>2 DEF Dividing
  <2>4. 0 \in 0 .. call'.n - 2
    BY <1>1, <1>5
  <2> QED BY <2>1, <2>3, <2>4 DEF Writing
<1> QED BY <1>4, <1>5

LEMMA WriteDigits ==
    ASSUME call \in Calls, call.fn = "itoa", call' = call, pc = "run", ret = 0,
           NEW i \in 0 .. call.n - 2, NEW h, Dividing(h, i), ItoaDigit
    PROVE  Writing'
<1> DEFINE d == call.d
           n == call.n
           b == call.base
           x == h[i]
           sum == x \div b
           dig == Put(mem, d + i, Glyph(x % b))
           ended == Put(dig, d + (i + 1), NUL)
           g == [j \in 0 .. i + 1 |-> IF j = i + 1 THEN sum ELSE h[j]]
<1>1. d \in Nat /\ n \in Nat /\ b \in Nat /\ 2 <= b /\ b <= 36 /\ n # 1 /\ call.c \in Nat
  BY WriteIs
<1>2. /\ Quotients(call, h, i) /\ DigitsIn(call, mem, h, i) /\ Outside(call, mem, i)
      /\ loops = <<Loop("itoa", d, i, x)>> /\ (i > 0 => x > 0)
  BY DEF Dividing
<1>3. i \in Nat /\ i + 1 \in Nat /\ i + 1 <= n - 1 /\ n >= 2
  BY <1>1
<1>4. /\ Quotients(call, g, i + 1) /\ g[i + 1] = sum
      /\ \A j \in 0 .. i : g[j] = h[j]
  BY <1>2, <1>3, QuotientsMore
<1> HIDE DEF g
<1>5. /\ DigitsIn(call, dig, g, i + 1) /\ Outside(call, dig, i + 1)
      /\ \A j \in 0 .. i : dig[d + j] # NUL
  BY <1>4, DigitPut
<1>6. x \in Nat /\ sum \in Nat
  <2>1. x \in Nat
    BY <1>2, <1>3 DEF Quotients
  <2> HIDE DEF x
  <2> QED BY <1>1, <2>1, DivisionIs
<1>7. \/ /\ sum # 0 /\ ~ItoaFull(i + 1)
         /\ mem' = dig
         /\ loops' = <<Loop("itoa", d, i + 1, sum)>>
         /\ pc' = pc /\ ret' = ret
      \/ /\ sum # 0 /\ ItoaFull(i + 1) /\ i + 1 = n - 1
         /\ mem' = dig /\ ret' = -1 /\ pc' = "done"
      \/ /\ sum = 0 \/ (ItoaFull(i + 1) /\ i + 1 # n - 1)
         /\ mem' = ended
         /\ loops' = <<strrev(ended, d)>>
         /\ pc' = pc /\ ret' = ret
  <2> DEFINE y == Loop("itoa", d, i, x)
  <2>1. y.kind = "itoa" /\ y.d = d /\ y.s = i /\ y.n = x
    BY LoopIs
  <2>2. loops = <<y>>
    BY <1>2
  <2> HIDE DEF y, x
  <2>3. loop = y /\ \A z : Next_(z) <=> loops' = <<z>>
    BY <2>2, OneLoop
  <2>4. d + (i + 1) - 1 = d + i
    BY <1>1, <1>3
  <2> QED BY <2>1, <2>3, <2>4 DEF ItoaDigit, Put
<1> HIDE DEF x, sum, dig, ended
<1>8. ItoaFull(i + 1) <=> i + 1 >= n - 1
  BY DEF ItoaFull
<1>9. CASE sum # 0 /\ ~ItoaFull(i + 1)
  <2>1. /\ mem' = dig /\ loops' = <<Loop("itoa", d, i + 1, sum)>> /\ pc' = "run" /\ ret' = 0
    BY <1>7, <1>8, <1>9
  <2>2. sum > 0 /\ i + 1 \in 0 .. n - 2
    BY <1>1, <1>3, <1>6, <1>8, <1>9
  <2>3. PICK h1 : h1 = g
    OBVIOUS
  <2>4. /\ Quotients(call, h1, i + 1) /\ h1[i + 1] = sum
        /\ DigitsIn(call, mem', h1, i + 1) /\ Outside(call, mem', i + 1)
    BY <1>4, <1>5, <2>1, <2>3
  <2>5. loops' = <<Loop("itoa", call.d, i + 1, h1[i + 1])>>
    BY <2>1, <2>4 DEF d
  <2>6. Dividing(h1, i + 1)'
    BY <2>2, <2>4, <2>5 DEF Dividing
  <2> QED BY <2>1, <2>2, <2>6 DEF Writing, n
<1>10. CASE sum # 0 /\ ItoaFull(i + 1)
  <2>1. i + 1 = n - 1
    BY <1>1, <1>3, <1>8, <1>10
  <2>2. mem' = dig /\ ret' = -1 /\ pc' = "done"
    BY <1>7, <1>10, <2>1
  <2>3. call.c >= Least(n, b)
    <3>1. g[n - 1] > 0 /\ Quotients(call, g, n - 1) /\ n > 0
      BY <1>1, <1>3, <1>4, <1>6, <1>10, <2>1
    <3> QED BY <1>1, <3>1, TooManyDigits DEF n, b
  <2>4. Outside(call, dig, n)
    BY <1>1, <1>3, <1>5, <2>1 DEF Outside, n
  <2> QED BY <2>2, <2>3, <2>4 DEF Writing, n, b
<1>11. CASE sum = 0
  <2> DEFINE N == i + 1
  <2>1. mem' = ended /\ loops' = <<strrev(ended, d)>> /\ pc' = "run" /\ ret' = 0
    BY <1>7, <1>11
  <2>2. N \in 1 .. n - 1 /\ N \in Nat /\ N < call.n /\ 0 .. N - 1 = 0 .. i
    BY <1>1, <1>3
  <2>3. /\ d + N \in DOMAIN dig /\ ended[d + N] = NUL
        /\ \A p \in DOMAIN dig : p # d + N => ended[p] = dig[p]
        /\ Outside(call, ended, N + 1)
    <3>1. NUL \in 0 .. 255
      BY DEF NUL
    <3> HIDE DEF N
    <3>2. /\ call.d + N \in DOMAIN dig
          /\ Put(dig, call.d + N, NUL)[call.d + N] = NUL
          /\ \A p \in DOMAIN dig : p # call.d + N => Put(dig, call.d + N, NUL)[p] = dig[p]
          /\ Outside(call, Put(dig, call.d + N, NUL), N + 1)
      BY <1>5, <2>2, <3>1, OutsidePut DEF N
    <3> QED BY <3>2 DEF ended, d, N
  <2>4. ASSUME NEW j \in 0 .. N - 1 PROVE ended[d + j] = dig[d + j]
    <3>1. d + j # d + N /\ d + j \in d .. d + n - 1
      BY <1>1, <2>2
    <3>2. DOMAIN dig = DOMAIN call.mem /\ Within(call.mem, d, n)
      BY <1>5, WriteIs DEF Outside, d, n
    <3> QED BY <2>3, <3>1, <3>2 DEF Within
  <2>5. DigitsIn(call, ended, g, N) /\ \A j \in 0 .. N - 1 : ended[d + j] # NUL
    BY <1>5, <2>2, <2>4 DEF DigitsIn, d
  <2>6. N > 1 => g[N - 1] > 0
    <3>1. i \in 0 .. i /\ N - 1 = i
      BY <1>3
    <3> QED BY <1>2, <1>3, <1>4, <3>1 DEF x
  <2>7. Divided(call, ended, g, N)
    BY <1>4, <1>11, <2>3, <2>5, <2>6 DEF Divided, d
  <2>8. strlen(ended, d) = N
    <3>1. IsMemory(ended) /\ DOMAIN ended = DOMAIN dig
      BY <1>5, <2>3 DEF Outside
    <3> HIDE DEF N
    <3> QED BY <1>1, <2>2, <2>3, <2>5, <3>1, LengthFound
  <2>9. Swapped(ended, d, N, 0) = ended
    <3>1. IsMemory(ended)
      BY <2>3 DEF Outside
    <3> HIDE DEF N
    <3> QED BY <1>1, <2>2, <3>1, NothingYet
  <2>10. loops' = <<Loop("swap", d + 0, d + N - 1 - 0, N - 0)>>
    <3>1. d + 0 = d /\ d + N - 1 - 0 = d + N - 1 /\ N - 0 = N
      BY <1>1, <2>2
    <3> QED BY <2>1, <2>8, <3>1 DEF strrev
  <2> HIDE DEF N
  <2>11. PICK M, m, h1 : M = N /\ m = ended /\ h1 = g
    OBVIOUS
  <2>12. M \in 1 .. n - 1 /\ Divided(call, m, h1, M)
    BY <2>2, <2>7, <2>11
  <2>13. /\ 0 \in 0 .. M /\ 2 * 0 <= M
         /\ loops' = <<Loop("swap", call.d + 0, call.d + M - 1 - 0, M - 0)>>
         /\ mem' = Swapped(m, call.d, M, 0)
    BY <2>1, <2>2, <2>9, <2>10, <2>11 DEF d
  <2>14. Swapping(m, call.d, M)'
    BY <2>13 DEF Swapping
  <2> QED BY <2>1, <2>12, <2>14 DEF Writing, n
<1> QED BY <1>9, <1>10, <1>11

LEMMA DividedIs ==
    ASSUME call \in Calls, call.fn = "itoa", NEW N \in 1 .. call.n - 1, NEW m, NEW h,
           Divided(call, m, h, N)
    PROVE  /\ N \in Nat /\ IsMemory(m) /\ DOMAIN m = DOMAIN call.mem
           /\ Within(m, call.d, N + 1)
           /\ h \in [0 .. N -> Nat] /\ h[0] = call.c /\ h[N] = 0
           /\ \A j \in 0 .. N - 1 :
                 /\ h[j] % call.base \in Nat /\ h[j] % call.base < call.base
                 /\ h[j] = h[j + 1] * call.base + (h[j] % call.base)
                 /\ m[call.d + j] = Glyph(h[j] % call.base)
           /\ N > 1 => h[N - 1] % call.base > 0
<1> DEFINE b == call.base
           d == call.d
<1>1. b \in Nat /\ 2 <= b /\ call.n \in Nat /\ d \in Nat /\ Within(call.mem, d, call.n)
  BY WriteIs
<1>2. N \in Nat /\ N + 1 <= call.n
  BY <1>1
<1>3. /\ h \in [0 .. N -> Nat] /\ h[0] = call.c /\ h[N] = 0 /\ (N > 1 => h[N - 1] > 0)
      /\ \A j \in 0 .. N - 1 : h[j + 1] = h[j] \div b
      /\ \A j \in 0 .. N - 1 : m[d + j] = Glyph(h[j] % b)
      /\ IsMemory(m) /\ DOMAIN m = DOMAIN call.mem
  BY DEF Divided, Quotients, DigitsIn, Outside
<1> HIDE DEF b, d
<1>4. Within(m, d, N + 1)
  <2>1. d .. d + (N + 1) - 1 \subseteq d .. d + call.n - 1
    BY <1>1, <1>2
  <2> QED BY <1>1, <1>3, <2>1 DEF Within
<1>5. ASSUME NEW j \in 0 .. N - 1
      PROVE  /\ h[j] \in Nat /\ h[j] % b \in Nat /\ h[j] % b < b
             /\ h[j] = h[j + 1] * b + (h[j] % b)
             /\ h[j + 1] = 0 => h[j] % b = h[j]
  <2>1. h[j] \in Nat /\ h[j + 1] = h[j] \div b
    BY <1>2, <1>3
  <2> QED BY <1>1, <2>1, DivisionIs
<1>6. N > 1 => h[N - 1] % b > 0
  <2>1. N - 1 \in 0 .. N - 1 /\ (N - 1) + 1 = N
    BY <1>2
  <2> QED BY <1>3, <1>5, <2>1
<1> QED BY <1>2, <1>3, <1>4, <1>5, <1>6 DEF b, d

LEMMA WriteSwaps ==
    ASSUME call \in Calls, call.fn = "itoa", pc = "run", ret = 0, LibNext,
           NEW N \in 1 .. call.n - 1, NEW m, NEW h, Divided(call, m, h, N),
           Swapping(m, call.d, N)
    PROVE  call' = call /\ Writing'
<1>1. call.d \in Nat /\ call.n \in Nat
  BY WriteIs
<1>2. N \in Nat /\ Within(m, call.d, N)
  <2>1. N \in Nat /\ Within(m, call.d, N + 1)
    BY DividedIs
  <2> QED BY <1>1, <2>1 DEF Within
<1>3. /\ loops # <<>> /\ loop.kind = "swap"
  <2>1. PICK k : loops = <<Loop("swap", call.d + k, call.d + N - 1 - k, N - k)>>
    BY DEF Swapping
  <2> QED BY <2>1, OneLoop, LoopIs
<1>4. call' = call /\ pc' = "run" /\ ret' = 0
  <2>1. Swap
    BY <1>3, LoopRuns DEF Kinds
  <2> QED BY <2>1 DEF Swap
<1>5. \/ \E k \in 0 .. N :
            /\ 2 * k <= N
            /\ loops' = <<Loop("swap", call.d + k, call.d + N - 1 - k, N - k)>>
            /\ mem' = Swapped(m, call.d, N, k)
      \/ /\ loops' = <<>>
         /\ \E k \in 0 .. N : 2 * k \in {N - 1, N} /\ mem' = Swapped(m, call.d, N, k)
  BY <1>1, <1>2, SwapRuns
<1>6. Swapping(m, call.d, N)' \/ Reversed(m, N)'
  BY <1>4, <1>5 DEF Swapping, Reversed
<1> QED BY <1>4, <1>6 DEF Writing

LEMMA FunctionIsSeq ==
    ASSUME NEW n \in Nat, NEW v \in [1 .. n -> Nat]
    PROVE  v \in Seq(Nat) /\ Len(v) = n
OBVIOUS

\* The digits, with the most significant one first, are the numeral.
LEMMA NumeralIs ==
    ASSUME call \in Calls, call.fn = "itoa", NEW N \in 1 .. call.n - 1, NEW m, NEW h,
           Divided(call, m, h, N), NEW t \in Seq(Nat), Len(t) = N,
           \A i \in 1 .. N : t[i] = Glyph(h[N - i] % call.base)
    PROVE  IsNumeral(t, call.c, call.base)
<1> DEFINE b == call.base
           v == Values(t, 0, Len(t))
           g == [k \in 0 .. N |-> h[N - k]]
<1>1. /\ N \in Nat /\ h \in [0 .. N -> Nat] /\ h[0] = call.c /\ h[N] = 0
      /\ \A j \in 0 .. N - 1 : /\ h[j] % b \in Nat /\ h[j] % b < b
                               /\ h[j] = h[j + 1] * b + (h[j] % b)
      /\ N > 1 => h[N - 1] % b > 0
  BY DividedIs
<1>2. b \in Nat /\ 2 <= b /\ b <= 36 /\ N >= 1
  BY WriteIs
<1>3. Len(t) = N /\ \A i \in 1 .. N : t[i] = Glyph(h[N - i] % b)
  OBVIOUS
<1> HIDE DEF b
<1>4. \A i \in 1 .. N : /\ N - i \in 0 .. N - 1 /\ (N - i) + 1 = N - (i - 1)
                       /\ Value(t[i]) = h[N - i] % b /\ Value(t[i]) \in Nat /\ Value(t[i]) < b
                       /\ t[i] = Glyph(Value(t[i]))
  <2> SUFFICES ASSUME NEW i \in 1 .. N
               PROVE  /\ N - i \in 0 .. N - 1 /\ (N - i) + 1 = N - (i - 1)
                      /\ Value(t[i]) = h[N - i] % b /\ Value(t[i]) \in Nat /\ Value(t[i]) < b
                      /\ t[i] = Glyph(Value(t[i]))
    OBVIOUS
  <2>1. N - i \in 0 .. N - 1 /\ (N - i) + 1 = N - (i - 1)
    BY <1>1
  <2> DEFINE x == h[N - i] % b
  <2>2. x \in Nat /\ x < b /\ t[i] = Glyph(x)
    BY <1>1, <1>3, <2>1
  <2> HIDE DEF x
  <2>3. x < 36
    BY <1>2, <2>2
  <2>4. Value(t[i]) = x
    BY <2>2, <2>3, GlyphIs
  <2> QED BY <2>1, <2>2, <2>4 DEF x
<1>5. v \in Seq(Nat) /\ Len(v) = N /\ \A i \in 1 .. N : v[i] = h[N - i] % b
  <2>1. v = [i \in 1 .. N |-> Value(t[0 + i])]
    <3>1. N - 0 = N
      BY <1>1
    <3> QED BY <1>3, <3>1 DEF Values
  <2>2. \A i \in 1 .. N : 0 + i = i
    OBVIOUS
  <2> HIDE DEF v
  <2>3. v \in [1 .. N -> Nat] /\ \A i \in 1 .. N : v[i] = h[N - i] % b
    BY <1>4, <2>1, <2>2
  <2>4. v \in Seq(Nat) /\ Len(v) = N
    BY <1>1, <2>3, FunctionIsSeq
  <2> QED BY <2>3, <2>4
<1> HIDE DEF v
<1>6. \A k \in 0 .. N : g[k] = h[N - k]
  OBVIOUS
<1> HIDE DEF g
<1>7. g[0] = 0 /\ g[N] = call.c
  <2>1. N - 0 = N /\ N - N = 0 /\ 0 \in 0 .. N /\ N \in 0 .. N
    BY <1>1
  <2> QED BY <1>1, <1>6, <2>1
<1>8. ASSUME NEW k \in 0 .. N - 1 PROVE g[k + 1] = g[k] * b + v[k + 1]
  <2>1. /\ k + 1 \in 0 .. N /\ k \in 0 .. N /\ k + 1 \in 1 .. N
        /\ N - (k + 1) \in 0 .. N - 1 /\ (N - (k + 1)) + 1 = N - k
    BY <1>1
  <2> DEFINE j == N - (k + 1)
  <2>2. h[j] = h[j + 1] * b + (h[j] % b) /\ v[k + 1] = h[j] % b /\ g[k + 1] = h[j]
    BY <1>1, <1>5, <1>6, <2>1
  <2>3. g[k] = h[j + 1]
    BY <1>6, <2>1
  <2> HIDE DEF j
  <2> QED BY <2>2, <2>3
<1>9. Number(v, b) = call.c
  <2>0. \A k \in 0 .. Len(v) - 1 : g[k + 1] = g[k] * b + v[k + 1]
    BY <1>5, <1>8
  <2>1. \A k \in 0 .. Len(v) : NumberUpTo(v, b)[k] = g[k]
    <3>1. v \in Seq(Nat) /\ b \in Nat /\ g[0] = 0
      BY <1>2, <1>5, <1>7
    <3> QED BY <2>0, <3>1, NumberUnique
  <2>2. N \in 0 .. N
    BY <1>1
  <2> QED BY <1>5, <1>7, <2>1, <2>2 DEF Number
<1>10. Len(t) = 1 \/ Value(t[1]) # 0
  <2>1. 1 \in 1 .. N
    BY <1>1, <1>2
  <2>2. Value(t[1]) = h[N - 1] % b
    BY <1>4, <2>1
  <2> QED BY <1>1, <1>2, <1>3, <2>2
<1>11. t # <<>>
  BY <1>2, <1>3
<1> QED BY <1>3, <1>4, <1>9, <1>10, <1>11 DEF IsNumeral, v, b

\* The memory in which the digits have been reversed.
LEMMA ReversedIs ==
    ASSUME call \in Calls, call.fn = "itoa", NEW N \in 1 .. call.n - 1, NEW m, NEW h,
           Divided(call, m, h, N), NEW k \in 0 .. N, 2 * k \in {N - 1, N},
           NEW w, w = Swapped(m, call.d, N, k)
    PROVE  /\ IsMemory(w) /\ DOMAIN w = DOMAIN call.mem
           /\ \A j \in 0 .. N - 1 : w[call.d + j] = m[call.d + (N - 1 - j)]
           /\ w[call.d + N] = NUL
           /\ \A p \in DOMAIN w : p \notin call.d .. call.d + N => w[p] = call.mem[p]
<1> DEFINE d == call.d
           at(p) == IF p \in d .. d + k - 1 \/ p \in d + N - k .. d + N - 1
                    THEN m[2 * d + N - 1 - p] ELSE m[p]
<1>1. /\ N \in Nat /\ IsMemory(m) /\ DOMAIN m = DOMAIN call.mem /\ Within(m, d, N + 1)
  BY DividedIs
<1>2. d \in Nat /\ k \in Nat /\ k <= N /\ 2 * k \in {N - 1, N}
  BY <1>1, WriteIs
<1>3. m[d + N] = NUL /\ \A p \in DOMAIN m : p \notin d .. d + (N + 1) - 1 => m[p] = call.mem[p]
  BY DEF Divided, Outside
<1>4. w = [p \in DOMAIN m |-> at(p)]
  BY DEF Swapped
<1> HIDE DEF d
<1>5. /\ DOMAIN m = 0 .. Cardinality(DOMAIN m) - 1 /\ \A p \in DOMAIN m : m[p] \in 0 .. 255
      /\ Cardinality(DOMAIN m) \in Nat
  BY <1>1, MemoryIs DEF IsMemory
<1>6. ASSUME NEW p \in d .. d + N - 1
      PROVE  p \in DOMAIN m /\ at(p) = m[2 * d + N - 1 - p] /\ 2 * d + N - 1 - p \in DOMAIN m
  <2>1. p \in d .. d + (N + 1) - 1 /\ 2 * d + N - 1 - p \in d .. d + (N + 1) - 1
    BY <1>1, <1>2
  <2>2. p \in DOMAIN m /\ 2 * d + N - 1 - p \in DOMAIN m
    BY <1>1, <2>1 DEF Within
  <2>3. ~(p \in d .. d + k - 1 \/ p \in d + N - k .. d + N - 1) => 2 * d + N - 1 - p = p
    BY <1>1, <1>2
  <2> QED BY <2>2, <2>3
<1>7. ASSUME NEW p \in DOMAIN m, p \notin d .. d + N - 1 PROVE at(p) = m[p]
  <2>1. p \in Nat
    BY <1>5
  <2>2. p \notin d .. d + k - 1 /\ p \notin d + N - k .. d + N - 1
    BY <1>1, <1>2, <1>7, <2>1
  <2> QED BY <2>2
<1> HIDE DEF at
<1>8. DOMAIN w = DOMAIN m /\ \A p \in DOMAIN m : w[p] = at(p)
  BY <1>4
<1>9. IsMemory(w)
  <2> DEFINE bytes == 0 .. 255
  <2>0. \A p \in DOMAIN m : m[p] \in bytes
    BY <1>5
  <2> HIDE DEF bytes
  <2>1. ASSUME NEW p \in DOMAIN m PROVE at(p) \in bytes
    <3>1. CASE p \in d .. d + N - 1
      <4>1. at(p) = m[2 * d + N - 1 - p] /\ 2 * d + N - 1 - p \in DOMAIN m
        BY <1>6, <3>1
      <4> QED BY <2>0, <4>1
    <3>2. CASE p \notin d .. d + N - 1
      BY <2>0, <1>7, <3>2
    <3> QED BY <3>1, <3>2
  <2>2. w \in [DOMAIN m -> 0 .. 255]
    BY <1>4, <2>1 DEF bytes
  <2> QED BY <1>5, <1>8, <2>2 DEF IsMemory
<1>10. ASSUME NEW j \in 0 .. N - 1 PROVE w[d + j] = m[d + (N - 1 - j)]
  <2>1. d + j \in d .. d + N - 1 /\ 2 * d + N - 1 - (d + j) = d + (N - 1 - j)
    BY <1>1, <1>2
  <2> QED BY <1>6, <1>8, <2>1
<1>11. w[d + N] = NUL
  <2>1. d + N \in DOMAIN m /\ d + N \notin d .. d + N - 1
    <3>1. d + N \in d .. d + (N + 1) - 1
      BY <1>1, <1>2
    <3> QED BY <1>1, <1>2, <3>1 DEF Within
  <2> QED BY <1>3, <1>7, <1>8, <2>1
<1>12. ASSUME NEW p \in DOMAIN w, p \notin d .. d + N PROVE w[p] = call.mem[p]
  <2>1. p \in DOMAIN m /\ p \in Nat
    BY <1>5, <1>8
  <2>2. p \notin d .. d + N - 1 /\ p \notin d .. d + (N + 1) - 1
    BY <1>1, <1>2, <1>12, <2>1
  <2> QED BY <1>3, <1>7, <1>8, <2>1, <2>2
<1> QED BY <1>1, <1>8, <1>9, <1>10, <1>11, <1>12 DEF d

LEMMA WrittenIs ==
    ASSUME call \in Calls, call.fn = "itoa", NEW N \in 1 .. call.n - 1, NEW m, NEW h,
           Divided(call, m, h, N), Reversed(m, N)
    PROVE  LET t == Text(mem, call.d)
           IN  /\ IsNumeral(t, call.c, call.base)
               /\ Len(t) < call.n
               /\ mem = WithText(call.mem, call.d, t)
               /\ \A p \in DOMAIN mem \ (call.d .. call.d + call.n - 1) : mem[p] = call.mem[p]
<1> DEFINE d == call.d
           t == Text(mem, d)
<1>1. PICK k \in 0 .. N : 2 * k \in {N - 1, N} /\ mem = Swapped(m, call.d, N, k)
  BY DEF Reversed
<1>2. /\ IsMemory(mem) /\ DOMAIN mem = DOMAIN call.mem
      /\ \A j \in 0 .. N - 1 : mem[d + j] = m[d + (N - 1 - j)]
      /\ mem[d + N] = NUL
      /\ \A p \in DOMAIN mem : p \notin d .. d + N => mem[p] = call.mem[p]
  BY <1>1, ReversedIs
<1>3. /\ N \in Nat /\ DOMAIN m = DOMAIN call.mem /\ Within(m, d, N + 1)
      /\ \A j \in 0 .. N - 1 : /\ h[j] % call.base \in Nat /\ h[j] % call.base < call.base
                               /\ m[d + j] = Glyph(h[j] % call.base)
  BY DividedIs
<1>4. d \in Nat /\ call.n \in Nat /\ N + 1 <= call.n /\ call.base \in Nat /\ call.base <= 36
      /\ IsMemory(call.mem)
  BY <1>3, WriteIs
<1> HIDE DEF d
<1>5. ASSUME NEW j \in 0 .. N - 1
      PROVE  mem[d + j] = Glyph(h[N - 1 - j] % call.base) /\ mem[d + j] # NUL
  <2>1. N - 1 - j \in 0 .. N - 1
    BY <1>3
  <2> DEFINE x == h[N - 1 - j] % call.base
  <2>2. mem[d + j] = Glyph(x) /\ x \in Nat /\ x < call.base
    BY <1>2, <1>3, <2>1
  <2> HIDE DEF x
  <2>3. x < 36
    BY <1>4, <2>2
  <2>4. Glyph(x) # NUL
    BY <2>2, <2>3, GlyphIs
  <2> QED BY <2>2, <2>4 DEF x
<1>6. d + N \in DOMAIN mem
  <2>1. d + N \in d .. d + (N + 1) - 1
    BY <1>3, <1>4
  <2> QED BY <1>2, <1>3, <2>1 DEF Within
<1>7. Ended(mem, d) /\ strlen(mem, d) = N
  BY <1>2, <1>3, <1>4, <1>5, <1>6, LengthFound
<1>8. t \in Seq(Nat) /\ Len(t) = N /\ \A i \in 1 .. N : t[i] = mem[d + i - 1]
  <2>1. 0 \in 0 .. Len(Text(mem, d))
    BY <1>2, <1>3, <1>4, <1>7, TextIs
  <2>2. t \in Seq(Nat)
    BY <1>2, <1>4, <1>7, <2>1, CharBehind
  <2> QED BY <1>2, <1>4, <1>7, <2>2, TextIs
<1> HIDE DEF t
<1>9. ASSUME NEW i \in 1 .. N PROVE t[i] = Glyph(h[N - i] % call.base)
  <2>1. i - 1 \in 0 .. N - 1 /\ d + (i - 1) = d + i - 1 /\ N - 1 - (i - 1) = N - i
    BY <1>3, <1>4
  <2> QED BY <1>5, <1>8, <2>1
<1>10. IsNumeral(t, call.c, call.base)
  BY <1>8, <1>9, NumeralIs
<1>11. mem = WithText(call.mem, d, t)
  <2> DEFINE at(p) == IF p \in d .. d + Len(t) - 1 THEN t[p - d + 1]
                      ELSE IF p = d + Len(t) THEN NUL ELSE call.mem[p]
  <2>1. WithText(call.mem, d, t) = [p \in DOMAIN call.mem |-> at(p)]
    BY DEF WithText
  <2>2. mem = [p \in DOMAIN mem |-> mem[p]] /\ DOMAIN mem \subseteq Nat
    BY <1>2, MemoryIs
  <2>3. ASSUME NEW p \in DOMAIN mem PROVE mem[p] = at(p)
    <3>0. p \in Nat
      BY <2>2
    <3>1. CASE p \in d .. d + N - 1
      <4>1. p - d + 1 \in 1 .. N /\ d + (p - d + 1) - 1 = p
        BY <1>3, <1>4, <3>0, <3>1
      <4>2. t[p - d + 1] = mem[p]
        BY <1>8, <4>1
      <4> QED BY <1>8, <3>1, <4>2
    <3>2. CASE p = d + N
      <4>1. p \notin d .. d + N - 1
        BY <1>3, <1>4, <3>2
      <4> QED BY <1>2, <1>8, <3>2, <4>1
    <3>3. CASE p \notin d .. d + N - 1 /\ p # d + N
      <4>1. p \notin d .. d + N
        BY <1>3, <1>4, <3>0, <3>3
      <4> QED BY <1>2, <1>8, <3>3, <4>1
    <3> QED BY <3>1, <3>2, <3>3
  <2> HIDE DEF at
  <2> QED BY <1>2, <2>1, <2>2, <2>3
<1>12. ASSUME NEW p \in DOMAIN mem \ (d .. d + call.n - 1) PROVE mem[p] = call.mem[p]
  <2>1. p \notin d .. d + N
    <3>1. d .. d + N \subseteq d .. d + call.n - 1
      BY <1>3, <1>4
    <3> QED BY <3>1
  <2> QED BY <1>2, <2>1
<1>13. Len(t) < call.n
  BY <1>3, <1>4, <1>8
<1> QED BY <1>10, <1>11, <1>12, <1>13 DEF t, d

LEMMA WriteNext == WriteInv /\ [LibcNext]_libcVars => WriteInv'
<1> SUFFICES ASSUME WriteInv, [LibcNext]_libcVars PROVE WriteInv'
  OBVIOUS
<1>1. CASE UNCHANGED libVars
  <2>1. call' = call /\ mem' = mem /\ pc' = pc /\ ret' = ret /\ loops' = loops
    BY <1>1 DEF libVars, strVars
  <2>2. Writing => Writing'
    BY <2>1 DEF Writing, Dividing, Reversed, Swapping
  <2> QED BY <2>1, <2>2 DEF WriteInv
<1>2. CASE LibNext
  <2>1. call' = call /\ pc # "idle" /\ call \in Calls
    BY <1>2, CallKept DEF WriteInv
  <2>2. CASE call.fn # "itoa"
    BY <2>1, <2>2 DEF WriteInv
  <2>3. CASE call.fn = "itoa"
    <3>1. Writing
      BY <2>1, <2>3 DEF WriteInv
    <3>2. pc \in {"call", "run"}
      BY <1>2, <3>1, NothingBehind DEF Writing
    <3>3. \/ pc = "call" /\ Itoa
          \/ pc = "run" /\ loops = <<>> /\ Return
          \/ pc = "run" /\ loops # <<>> /\ (loop.kind \in Kinds \/ ItoaDigit)
      BY <1>2, <2>3, <3>2, WriteRuns
    <3>4. CASE pc = "call" /\ ret = 0 /\ mem = call.mem
      BY <2>1, <2>3, <3>3, <3>4, WriteStarts DEF WriteInv
    <3>5. ASSUME pc = "run", ret = 0, NEW i \in 0 .. call.n - 2, NEW h, Dividing(h, i)
          PROVE  WriteInv'
      <4>1. loops # <<>> /\ loop.kind = "itoa"
        <5>1. loops = <<Loop("itoa", call.d, i, h[i])>>
          BY <3>5 DEF Dividing
        <5> QED BY <5>1, OneLoop, LoopIs
      <4>2. ItoaDigit
        BY <3>3, <3>5, <4>1 DEF Kinds
      <4> QED BY <2>1, <2>3, <3>5, <4>2, WriteDigits DEF WriteInv
    <3>6. ASSUME pc = "run", ret = 0, NEW N \in 1 .. call.n - 1, NEW m, NEW h,
                 Divided(call, m, h, N), Swapping(m, call.d, N)
          PROVE  WriteInv'
      BY <1>2, <2>1, <2>3, <3>6, WriteSwaps DEF WriteInv
    <3>7. ASSUME pc = "run", ret = 0, NEW N \in 1 .. call.n - 1, NEW m, NEW h,
                 Divided(call, m, h, N), Reversed(m, N)
          PROVE  WriteInv'
      <4>1. Return
        BY <3>3, <3>7 DEF Reversed
      <4>2. pc' = "done" /\ ret' = 0 /\ loops' = loops /\ mem' = mem
        BY <3>7, <4>1 DEF Return
      <4>3. Reversed(m, N)'
        BY <2>1, <3>7, <4>2 DEF Reversed
      <4> QED BY <2>1, <3>7, <4>2, <4>3 DEF WriteInv, Writing
    <3> QED BY <3>1, <3>2, <3>4, <3>5, <3>6, <3>7 DEF Writing
  <2> QED BY <2>2, <2>3
<1> QED BY <1>1, <1>2 DEF LibcNext, libcVars

LEMMA WriteMeans == WriteInv => NumberIsWritten
<1> SUFFICES ASSUME WriteInv, pc = "done", call.fn = "itoa" PROVE NumberIsWritten
  BY DEF NumberIsWritten
<1>1. call \in Calls /\ Writing
  BY DEF WriteInv
<1>2. ASSUME ret = 0, NEW N \in 1 .. call.n - 1, NEW m, NEW h, Divided(call, m, h, N), Reversed(m, N)
      PROVE  NumberIsWritten
  BY <1>1, <1>2, WrittenIs DEF NumberIsWritten
<1>3. ASSUME ret = -1, Outside(call, mem, call.n), call.n = 0 \/ call.c >= Least(call.n, call.base)
      PROVE  NumberIsWritten
  <2>1. ASSUME NEW p \in DOMAIN mem \ (call.d .. call.d + call.n - 1)
        PROVE  mem[p] = call.mem[p]
    BY <1>3, <2>1 DEF Outside
  <2> QED BY <1>3, <2>1 DEF NumberIsWritten
<1> QED BY <1>1, <1>2, <1>3 DEF Writing

\* itoa writes the numeral of any number in any base from 2 to 36, most significant
\* digit first, if it fits the buffer with its terminator, and says so if the
\* number has more digits than that; it never stores outside the buffer.
THEOREM NumbersWritten == LibcSpec => []NumberIsWritten
<1>1. LibcInit => WriteInv
  <2>1. ASSUME LibInit PROVE WriteInv
    BY <2>1 DEF LibInit, StrInit, WriteInv, Writing
  <2>2. ASSUME LibIdle PROVE WriteInv
    BY <2>2 DEF LibIdle, WriteInv
  <2> QED BY <2>1, <2>2 DEF LibcInit
<1> QED BY <1>1, WriteNext, WriteMeans, PTL DEF LibcSpec

-----------------------------------------------------------------------------
(* The division of module Division: its invariant.                         *)

DivTypeOK ==
    /\ op \in [signed : BOOLEAN, num : Numbers, den : Numbers]
    /\ num \in Numbers /\ den \in Numbers /\ quot \in Numbers /\ qbit \in Numbers
    /\ result \in [quot : Numbers, rem : Numbers]
    /\ step \in {"call", "justify", "divide", "done", "trap"}

\* What is left to divide, and what has been: the dividend is the quotient so
\* far times the divisor plus the rest, and the rest fits under the divisor as
\* it is shifted, twice.
LoopInvariant ==
    LET n == Operand(op.num)
        d == Operand(op.den)
    IN  /\ step = "trap" => op.den = 0
        /\ step \in {"justify", "divide", "done"} => op.den # 0
        /\ step = "justify" => num = n /\ quot = 0 /\ qbit \in Masks /\ den = d * qbit
        /\ step \in {"divide", "done"} =>
              /\ n = quot * d + num
              /\ qbit # 0 => qbit \in Masks /\ den = d * qbit /\ num < 2 * den
              /\ qbit = 0 => num < d
        /\ step = "done" =>
              /\ qbit = 0
              /\ result = IF Minus(op) THEN [quot |-> Negated(quot), rem |-> Negated(num)]
                          ELSE [quot |-> quot, rem |-> num]

DivInv == DivTypeOK /\ LoopInvariant

-----------------------------------------------------------------------------
(* Numbers and bits.                                                       *)

LEMMA Widths ==
    /\ Modulus \in Nat /\ Top \in Nat /\ Top > 0 /\ Modulus = 2 * Top
    /\ Numbers \subseteq Nat /\ 0 \in Numbers /\ 1 \in Numbers
    /\ 1 \in Masks
<1>1. Width \in Nat /\ Width # 0 /\ Width - 1 \in 0 .. Width - 1 /\ (Width - 1) + 1 = Width
  BY WidthAssumption
<1>2. Width \in 0 .. Width /\ Width - 1 \in 0 .. Width /\ 0 \in 0 .. Width - 1
  BY <1>1
<1>3. Modulus \in Nat \ {0} /\ Top \in Nat \ {0}
  BY <1>2, BitAssumption DEF Modulus, Top
<1>4. Modulus = 2 * Top
  BY <1>1, BitAssumption DEF Modulus, Top
<1>5. 1 \in Masks
  BY <1>2, BitAssumption DEF Masks
<1> QED BY <1>3, <1>4, <1>5 DEF Numbers

\* A mask below the top one doubles to a mask, and every mask but the first
\* halves to one.
LEMMA MaskUp ==
    ASSUME NEW q \in Masks, q < Top
    PROVE  q \in Nat /\ 2 * q \in Masks
<1>1. PICK i \in 0 .. Width - 1 : q = Bit[i]
  BY DEF Masks
<1>2. Width \in Nat /\ i # Width - 1
  BY <1>1, WidthAssumption, Widths DEF Top
<1>3. i + 1 \in 0 .. Width - 1 /\ i \in 0 .. Width
  BY <1>2
<1>4. Bit[i + 1] = 2 * q /\ q \in Nat
  BY <1>1, <1>3, BitAssumption
<1> QED BY <1>3, <1>4 DEF Masks

LEMMA MaskDown ==
    ASSUME NEW q \in Masks
    PROVE  /\ q \in Nat /\ q > 0
           /\ \/ q = 1 /\ q \div 2 = 0
              \/ q # 1 /\ q \div 2 \in Masks /\ q = 2 * (q \div 2)
<1>1. PICK i \in 0 .. Width - 1 : q = Bit[i]
  BY DEF Masks
<1>2. Width \in Nat /\ i \in 0 .. Width
  BY <1>1, WidthAssumption
<1>3. q \in Nat \ {0}
  BY <1>1, <1>2, BitAssumption
<1>4. CASE i = 0
  BY <1>1, <1>3, <1>4, BitAssumption
<1>5. CASE i # 0
  <2>1. i - 1 \in 0 .. Width - 1 /\ (i - 1) + 1 = i /\ i - 1 \in 0 .. Width
    BY <1>2, <1>5
  <2>2. q = 2 * Bit[i - 1] /\ Bit[i - 1] \in Nat \ {0}
    BY <1>1, <2>1, BitAssumption
  <2>3. q \div 2 = Bit[i - 1] /\ q # 1
    BY <2>2
  <2> QED BY <1>3, <2>1, <2>2, <2>3 DEF Masks
<1> QED BY <1>4, <1>5

LEMMA Magnitudes ==
    ASSUME NEW n \in Numbers
    PROVE  /\ Negated(n) \in Numbers /\ Magnitude(n) \in Numbers
           /\ n # 0 => Negated(n) = Modulus - n
           /\ n = 0 => Negated(n) = 0
           /\ Magnitude(n) = 0 <=> n = 0
           /\ Magnitude(n) <= Top
<1>1. n \in Nat /\ n < Modulus /\ Modulus \in Nat /\ Modulus = 2 * Top /\ Top \in Nat /\ Top > 0
  BY Widths DEF Numbers
<1>2. n # 0 => Negated(n) = Modulus - n
  BY <1>1 DEF Negated
<1>3. n = 0 => Negated(n) = 0
  BY <1>1 DEF Negated
<1> QED BY <1>1, <1>2, <1>3 DEF Magnitude, Negative, Numbers

\* Remainders and products of natural numbers.
LEMMA Remainders ==
    ASSUME NEW a \in Nat, NEW b \in Nat, a < b
    PROVE  a % b = a
OBVIOUS

LEMMA Products ==
    ASSUME NEW a \in Nat, NEW b \in Nat, NEW c \in Nat
    PROVE  /\ a * b \in Nat
           /\ a * (2 * b) = 2 * (a * b)
           /\ (b + c) * a = b * a + c * a
           /\ a * b = b * a
           /\ a > 0 => b <= a * b
           /\ 1 * a = a /\ a * 1 = a /\ 0 * a = 0
           /\ a >= 2 /\ b > 0 => b < a * b
OBVIOUS

-----------------------------------------------------------------------------
(* The invariant.                                                          *)

LEMMA InvInit == DivInit => DivInv
<1> SUFFICES ASSUME DivInit PROVE DivInv
  OBVIOUS
<1>1. DivTypeOK
  BY Widths DEF DivInit, DivTypeOK
<1>2. LoopInvariant
  BY DEF DivInit, LoopInvariant
<1> QED BY <1>1, <1>2 DEF DivInv

LEMMA Operands ==
    ASSUME DivInv
    PROVE  /\ Operand(op.num) \in Numbers /\ Operand(op.den) \in Numbers
           /\ Operand(op.den) = 0 <=> op.den = 0
           /\ Operand(op.num) \in Nat /\ Operand(op.den) \in Nat
BY Magnitudes, Widths DEF DivInv, DivTypeOK, Operand

LEMMA InvEnter ==
    ASSUME DivInv, Enter PROVE DivInv'
<1>1. op' = op /\ op \in [signed : BOOLEAN, num : Numbers, den : Numbers] /\ result' = result
  BY DEF DivInv, DivTypeOK, Enter
<1>2. Operand(op.num)' = Operand(op.num) /\ Operand(op.den)' = Operand(op.den)
  BY <1>1 DEF Operand, Magnitude, Negative, Negated
<1>3. DivTypeOK'
  BY <1>1, Operands, Widths DEF DivInv, DivTypeOK, Enter
<1>4. den' = Operand(op.den) * qbit'
  BY Operands, Products DEF Enter
<1>5. LoopInvariant'
  BY <1>1, <1>2, <1>4, Widths DEF LoopInvariant, Enter
<1> QED BY <1>3, <1>5 DEF DivInv

LEMMA InvJustify ==
    ASSUME DivInv, Justify PROVE DivInv'
<1> DEFINE n == Operand(op.num)
           d == Operand(op.den)
<1>1. op' = op /\ num' = num /\ quot' = quot /\ result' = result
  BY DEF Justify
<1>2. Operand(op.num)' = n /\ Operand(op.den)' = d
  BY <1>1 DEF Operand, Magnitude, Negative, Negated
<1>3. /\ op.den # 0 /\ num = n /\ quot = 0 /\ qbit \in Masks /\ den = d * qbit
      /\ d \in Nat /\ d > 0 /\ n \in Nat /\ n < Modulus
      /\ den \in Nat /\ qbit \in Nat /\ qbit > 0
  BY Operands, MaskDown, Widths DEF DivInv, DivTypeOK, LoopInvariant, Justify, Numbers
<1>4. Modulus = 2 * Top /\ Top \in Nat
  BY Widths
<1>5. CASE ~Justified(den)
  <2>1. den < Top
    BY <1>3, <1>4, <1>5 DEF Justified
  <2>2. qbit <= den
    BY <1>3, Products
  <2>3. /\ den' = 2 * den /\ qbit' = 2 * qbit /\ step' = "justify"
        /\ den' < Modulus /\ qbit' < Modulus
    <3>1. 2 * den \in Nat /\ 2 * qbit \in Nat /\ 2 * den < Modulus /\ 2 * qbit < Modulus
      BY <1>3, <1>4, <2>1, <2>2
    <3>2. (2 * den) % Modulus = 2 * den /\ (2 * qbit) % Modulus = 2 * qbit
      BY <1>4, <3>1, Remainders
    <3>3. den' = (2 * den) % Modulus /\ qbit' = (2 * qbit) % Modulus /\ step' = step
      BY <1>5 DEF Justify
    <3>4. step = "justify"
      BY DEF Justify
    <3> QED BY <3>1, <3>2, <3>3, <3>4
  <2>4. qbit' \in Masks
    BY <1>3, <1>4, <2>1, <2>2, <2>3, MaskUp
  <2>5. den' = d * qbit'
    BY <1>3, <2>3, Products
  <2>6. den' \in Numbers /\ qbit' \in Numbers
    BY <1>3, <1>4, <2>3 DEF Numbers
  <2>8. DivTypeOK'
    BY <1>1, <2>3, <2>6 DEF DivInv, DivTypeOK
  <2>7. LoopInvariant'
    BY <1>1, <1>2, <1>3, <2>3, <2>4, <2>5 DEF LoopInvariant
  <2> QED BY <2>7, <2>8 DEF DivInv
<1>6. CASE Justified(den)
  <2>1. den' = den /\ qbit' = qbit /\ step' = "divide" /\ num < 2 * den
    BY <1>3, <1>4, <1>6 DEF Justify, Justified
  <2>2. DivTypeOK'
    BY <1>1, <2>1 DEF DivInv, DivTypeOK
  <2>3. n = quot * d + num
    BY <1>3, Products
  <2>4. LoopInvariant'
    BY <1>1, <1>2, <1>3, <2>1, <2>3 DEF LoopInvariant
  <2> QED BY <2>2, <2>4 DEF DivInv
<1> QED BY <1>5, <1>6

LEMMA InvDivide ==
    ASSUME DivInv, Divide PROVE DivInv'
<1> DEFINE n == Operand(op.num)
           d == Operand(op.den)
<1>1. op' = op /\ result' = result /\ step = "divide" /\ step' = "divide" /\ qbit # 0
      /\ den' = den \div 2 /\ qbit' = qbit \div 2
  BY DEF Divide
<1>2. Operand(op.num)' = n /\ Operand(op.den)' = d
  BY <1>1 DEF Operand, Magnitude, Negative, Negated
<1>3. /\ op.den # 0 /\ n = quot * d + num
      /\ qbit \in Masks /\ den = d * qbit /\ num < 2 * den
      /\ d \in Nat /\ d > 0 /\ n \in Nat /\ n < Modulus
      /\ num \in Nat /\ den \in Nat /\ quot \in Nat /\ qbit \in Nat /\ qbit > 0
      /\ num < Modulus /\ den < Modulus /\ qbit < Modulus /\ quot < Modulus
      /\ Modulus \in Nat
  BY <1>1, Operands, MaskDown, Widths DEF DivInv, DivTypeOK, LoopInvariant, Numbers
\* What the subtraction leaves is below the divisor.
<1>4. num' \in Nat /\ num' < den /\ num' <= num /\ quot' \in Nat /\ quot' < Modulus
      /\ n = quot' * d + num'
  <2>1. CASE Fits(den, num)
    <3>1. num' = num - den /\ quot' = (quot + qbit) % Modulus
      BY <2>1 DEF Divide
    <3>2. (quot + qbit) * d = quot * d + den
      BY <1>3, Products
    <3>3. quot + qbit <= d * (quot + qbit) /\ d * (quot + qbit) = (quot + qbit) * d
      BY <1>3, Products
    <3>4. den <= num
      BY <2>1 DEF Fits
    <3>5. quot * d \in Nat
      BY <1>3, Products
    <3>6. (quot + qbit) * d <= n
      BY <1>3, <3>2, <3>4, <3>5
    <3>7. quot + qbit < Modulus /\ quot + qbit \in Nat
      BY <1>3, <3>2, <3>3, <3>5, <3>6
    <3>8. quot' = quot + qbit
      BY <1>3, <3>1, <3>7, Remainders
    <3> QED BY <1>3, <3>1, <3>2, <3>4, <3>5, <3>7, <3>8
  <2>2. CASE ~Fits(den, num)
    BY <1>3, <2>2 DEF Divide, Fits
  <2> QED BY <2>1, <2>2
\* The divisor comes back down as the bit does.
<1>5. \/ qbit = 1 /\ qbit' = 0 /\ den = d
      \/ qbit' \in Masks /\ qbit' # 0 /\ den' = d * qbit' /\ den = 2 * den'
  <2>1. CASE qbit = 1
    BY <1>1, <1>3, <2>1, Products
  <2>2. CASE qbit # 1
    <3>1. qbit' \in Masks /\ qbit = 2 * qbit' /\ qbit' \in Nat /\ qbit' > 0
      BY <1>1, <1>3, <2>2, MaskDown
    <3>2. den = 2 * (d * qbit') /\ d * qbit' \in Nat
      BY <1>3, <3>1, Products
    <3>3. den' = d * qbit'
      BY <1>1, <3>2
    <3>4. den = 2 * den' /\ qbit' # 0
      BY <3>1, <3>2, <3>3
    <3> QED BY <3>1, <3>3, <3>4
  <2> QED BY <2>1, <2>2
<1>6. den' \in Numbers /\ qbit' \in Numbers
  BY <1>1, <1>3 DEF Numbers
<1>7. DivTypeOK'
  BY <1>1, <1>3, <1>4, <1>6 DEF DivInv, DivTypeOK, Numbers
<1>8. qbit' # 0 => qbit' \in Masks /\ den' = d * qbit' /\ num' < 2 * den'
  BY <1>4, <1>5
<1>9. qbit' = 0 => num' < d
  BY <1>4, <1>5
<1>10. LoopInvariant'
  BY <1>1, <1>2, <1>3, <1>4, <1>8, <1>9 DEF LoopInvariant
<1> QED BY <1>7, <1>10 DEF DivInv

LEMMA InvGiveBack ==
    ASSUME DivInv, GiveBack PROVE DivInv'
<1>1. op' = op /\ num' = num /\ den' = den /\ quot' = quot /\ qbit' = qbit
      /\ step = "divide" /\ step' = "done" /\ qbit = 0
      /\ result' = IF Minus(op) THEN [quot |-> Negated(quot), rem |-> Negated(num)]
                   ELSE [quot |-> quot, rem |-> num]
  BY DEF GiveBack
<1>2. Operand(op.num)' = Operand(op.num) /\ Operand(op.den)' = Operand(op.den)
  BY <1>1 DEF Operand, Magnitude, Negative, Negated
<1>3. Negated(quot) \in Numbers /\ Negated(num) \in Numbers
  BY Magnitudes DEF DivInv, DivTypeOK
<1>4. DivTypeOK'
  BY <1>1, <1>3 DEF DivInv, DivTypeOK
<1>5. Negated(quot)' = Negated(quot) /\ Negated(num)' = Negated(num) /\ Minus(op)' = Minus(op)
  BY <1>1 DEF Negated, Minus, Negative
<1>6. LoopInvariant'
  BY <1>1, <1>2, <1>5 DEF DivInv, LoopInvariant
<1> QED BY <1>4, <1>6 DEF DivInv

LEMMA InvNext == DivInv /\ [DivNext]_divVars => DivInv'
<1> SUFFICES ASSUME DivInv, [DivNext]_divVars PROVE DivInv'
  OBVIOUS
<1>1. CASE Enter
  BY <1>1, InvEnter
<1>2. CASE Justify
  BY <1>2, InvJustify
<1>3. CASE Divide
  BY <1>3, InvDivide
<1>4. CASE GiveBack
  BY <1>4, InvGiveBack
<1>5. CASE UNCHANGED divVars
  BY <1>5 DEF divVars, DivInv, DivTypeOK, LoopInvariant, Operand, Magnitude, Negative,
              Negated, Minus
<1> QED BY <1>1, <1>2, <1>3, <1>4, <1>5 DEF DivNext
-----------------------------------------------------------------------------
(* What the division is for.                                               *)

\* The registers hold numbers, and the loops keep what is left to divide.
THEOREM DivInvariant == DivSpec => []DivInv
<1>1. DivInit => DivInv
  BY InvInit
<1>2. DivInv /\ [DivNext]_divVars => DivInv'
  BY InvNext
<1> QED BY <1>1, <1>2, PTL DEF DivSpec

LEMMA InvDividesUnsigned == DivInv => DividesUnsigned
<1> SUFFICES ASSUME DivInv PROVE DividesUnsigned
  OBVIOUS
<1>1. step = "trap" <=> (step # "call" /\ op.den = 0)
  BY DEF DivInv, DivTypeOK, LoopInvariant
<1>2. ASSUME step = "done", ~op.signed
      PROVE  op.num = result.quot * op.den + result.rem /\ result.rem \in 0 .. op.den - 1
  <2>1. Operand(op.num) = op.num /\ Operand(op.den) = op.den /\ ~Minus(op)
    BY <1>2 DEF Operand, Minus
  <2>2. op.num = quot * op.den + num /\ num < op.den /\ result.quot = quot /\ result.rem = num
    BY <1>2, <2>1 DEF DivInv, LoopInvariant
  <2>3. num \in Nat /\ op.den \in Nat
    BY Widths DEF DivInv, DivTypeOK
  <2> QED BY <2>2, <2>3
<1> QED BY <1>1, <1>2 DEF DividesUnsigned

\* A magnitude and its negative, as signed numbers.
LEMMA SignedMagnitude ==
    ASSUME NEW n \in Numbers
    PROVE  /\ Signed(n) \in Int
           /\ n < Top => Signed(n) = n
           /\ n < Top => Signed(Negated(n)) = -n
           /\ n = Top => Signed(n) = -n /\ Signed(Negated(n)) = -n
           /\ Signed(n) = IF Negative(n) THEN -Magnitude(n) ELSE Magnitude(n)
           /\ n <= Top => Magnitude(n) = n /\ Magnitude(Negated(n)) = n
<1>1. n \in Nat /\ n < Modulus /\ Modulus \in Nat /\ Modulus = 2 * Top /\ Top \in Nat /\ Top > 0
  BY Widths DEF Numbers
<1>2. (n # 0 => Negated(n) = Modulus - n) /\ (n = 0 => Negated(n) = 0)
  BY Magnitudes
<1>3. n = Top => Negated(n) = Top
  BY <1>1, <1>2
<1>4. n < Top => Signed(Negated(n)) = -n
  BY <1>1, <1>2 DEF Signed, Negative
<1>5. n < Top => Magnitude(Negated(n)) = n
  <2>1. CASE n = 0
    BY <1>1, <1>2, <2>1 DEF Magnitude, Negative
  <2>2. ASSUME n # 0, n < Top PROVE Magnitude(Negated(n)) = n
    <3>1. Negated(n) \in Numbers /\ Negated(n) = Modulus - n /\ Negated(n) # 0
      BY <1>1, <1>2, <2>2, Magnitudes
    <3>2. Negated(Negated(n)) = n
      BY <1>1, <3>1, Magnitudes
    <3>3. Negative(Negated(n))
      BY <1>1, <2>2, <3>1 DEF Negative
    <3> QED BY <3>2, <3>3 DEF Magnitude
  <2> QED BY <2>1, <2>2
<1>6. n = Top => Magnitude(n) = n
  BY <1>3 DEF Magnitude
<1>7. n < Top => Magnitude(n) = n
  BY <1>1 DEF Magnitude, Negative
<1>8. Signed(n) \in Int /\ (n < Top => Signed(n) = n) /\ (n = Top => Signed(n) = -n)
  BY <1>1 DEF Signed, Negative
<1>9. Signed(n) = IF Negative(n) THEN -Magnitude(n) ELSE Magnitude(n)
  BY <1>1, <1>2 DEF Signed, Negative, Magnitude
<1>10. n <= Top => Magnitude(n) = n /\ Magnitude(Negated(n)) = n
  BY <1>1, <1>3, <1>5, <1>6, <1>7
<1>11. n = Top => Signed(n) = -n /\ Signed(Negated(n)) = -n
  BY <1>3, <1>8
<1> QED BY <1>4, <1>8, <1>9, <1>10, <1>11

\* Products of integers under their signs.
LEMMA SignedProducts ==
    ASSUME NEW a \in Nat, NEW b \in Nat
    PROVE  /\ (-a) * b = -(a * b) /\ a * (-b) = -(a * b) /\ (-a) * (-b) = a * b
           /\ a * b \in Nat
OBVIOUS

LEMMA InvDividesSigned == DivInv => DividesSigned
<1> DEFINE n == Signed(op.num)
           d == Signed(op.den)
           q == Signed(result.quot)
           r == Signed(result.rem)
           rem == IF d > 0 THEN r ELSE -r
           an == Magnitude(op.num)
           ad == Magnitude(op.den)
<1> SUFFICES ASSUME DivInv, step = "done", op.signed, ~(op.num = Top /\ op.den = Modulus - 1)
             PROVE  /\ n = q * d + rem
                    /\ Magnitude(result.rem) < Magnitude(op.den)
                    /\ rem # 0 => (rem < 0 <=> n < 0)
  BY DEF DividesSigned
<1>1. /\ op.num \in Numbers /\ op.den \in Numbers /\ num \in Numbers /\ quot \in Numbers
      /\ an = quot * ad + num /\ num < ad
      /\ result = IF Minus(op) THEN [quot |-> Negated(quot), rem |-> Negated(num)]
                  ELSE [quot |-> quot, rem |-> num]
  BY DEF DivInv, DivTypeOK, LoopInvariant, Operand
<1>2. /\ an \in Nat /\ ad \in Nat /\ num \in Nat /\ quot \in Nat /\ an <= Top /\ ad <= Top
      /\ Top \in Nat /\ Top > 0 /\ Modulus = 2 * Top
  BY <1>1, Magnitudes, Widths
<1>3. /\ n = IF Negative(op.num) THEN -an ELSE an
      /\ d = IF Negative(op.den) THEN -ad ELSE ad
      /\ Minus(op) <=> ~(Negative(op.num) <=> Negative(op.den))
  BY <1>1, SignedMagnitude DEF Minus
<1>4. num < Top /\ quot * ad \in Nat /\ quot * ad <= an /\ ad > 0
  BY <1>1, <1>2, Products
<1>5. quot <= an
  <2>1. quot <= ad * quot /\ ad * quot = quot * ad
    BY <1>2, <1>4, Products
  <2> QED BY <1>2, <1>4, <2>1
<1>6. r = (IF Minus(op) THEN -num ELSE num) /\ Magnitude(result.rem) = num
  BY <1>1, <1>2, <1>4, SignedMagnitude
\* The quotient fits its sign: it is -Top only where the signs differ.
<1>7. q = IF Minus(op) THEN -quot ELSE quot
  <2>1. CASE quot < Top
    BY <1>1, <2>1, SignedMagnitude
  <2>2. CASE quot >= Top
    <3>1. quot = Top /\ an = Top
      BY <1>2, <1>5, <2>2
    <3>2. ad = 1
      <4>1. ad >= 2 => quot < ad * quot
        BY <1>2, <3>1, Products
      <4>2. ad * quot = quot * ad
        BY <1>2, Products
      <4> QED BY <1>2, <1>4, <3>1, <4>1, <4>2
    <3>3. Negative(op.num) /\ op.num = Top
      BY <1>1, <1>2, <3>1, Magnitudes DEF Magnitude, Negative, Numbers
    <3>4. ~Negative(op.den)
      <4> SUFFICES ASSUME Negative(op.den) PROVE op.den = Modulus - 1
        BY <3>3
      <4>1. Negated(op.den) = 1 /\ op.den # 0
        BY <1>2, <3>2 DEF Magnitude, Negative
      <4>2. 1 = Modulus - op.den
        BY <1>1, <4>1, Magnitudes
      <4>3. op.den \in Nat /\ Modulus \in Nat
        BY <1>1, Widths
      <4> QED BY <4>2, <4>3
    <3>5. Minus(op)
      BY <1>3, <3>3, <3>4
    <3> QED BY <1>1, <3>1, <3>5, SignedMagnitude
  <2> QED BY <1>1, <1>2, <2>1, <2>2
<1>8. Magnitude(result.rem) < Magnitude(op.den)
  BY <1>1, <1>6
<1>9. n = q * d + rem /\ (rem # 0 => (rem < 0 <=> n < 0))
  <2> HIDE DEF n, d, q, r, rem, an, ad
  <2>0. rem = IF d > 0 THEN r ELSE -r
    BY DEF rem
  <2>1. CASE ~Negative(op.num) /\ ~Negative(op.den)
    <3>1. n = an /\ d = ad /\ q = quot /\ r = num
      BY <1>3, <1>6, <1>7, <2>1
    <3>2. q * d = quot * ad
      BY <1>2, <3>1, SignedProducts
    <3>3. rem = num
      BY <1>2, <1>4, <2>0, <3>1
    <3> QED BY <1>1, <1>2, <1>4, <3>1, <3>2, <3>3
  <2>2. CASE Negative(op.num) /\ ~Negative(op.den)
    <3>1. n = -an /\ d = ad /\ q = -quot /\ r = -num
      BY <1>3, <1>6, <1>7, <2>2
    <3>2. q * d = -(quot * ad)
      BY <1>2, <3>1, SignedProducts
    <3>3. rem = -num
      BY <1>2, <1>4, <2>0, <3>1
    <3> QED BY <1>1, <1>2, <1>4, <3>1, <3>2, <3>3
  <2>3. CASE ~Negative(op.num) /\ Negative(op.den)
    <3>1. n = an /\ d = -ad /\ q = -quot /\ r = -num
      BY <1>3, <1>6, <1>7, <2>3
    <3>2. q * d = quot * ad
      BY <1>2, <3>1, SignedProducts
    <3>3. rem = num
      BY <1>2, <1>4, <2>0, <3>1
    <3> QED BY <1>1, <1>2, <1>4, <3>1, <3>2, <3>3
  <2>4. CASE Negative(op.num) /\ Negative(op.den)
    <3>1. n = -an /\ d = -ad /\ q = quot /\ r = num
      BY <1>3, <1>6, <1>7, <2>4
    <3>2. q * d = -(quot * ad)
      BY <1>2, <3>1, SignedProducts
    <3>3. rem = -num
      BY <1>2, <1>4, <2>0, <3>1
    <3> QED BY <1>1, <1>2, <1>4, <3>1, <3>2, <3>3
  <2> QED BY <2>1, <2>2, <2>3, <2>4
<1> QED BY <1>8, <1>9

\* udivmoddi4 and divmoddi4 divide exactly, for registers of every width and all
\* numbers.
THEOREM DivisionDivides == LibcSpec => []Divides
<1> DEFINE Inv == DivInv \/ (step = "idle" /\ op.den # 0)
<1>1. LibcInit => Inv
  BY InvInit DEF LibcInit, DivIdle
<1>2. Inv /\ [LibcNext]_libcVars => Inv'
  <2> SUFFICES ASSUME Inv, [LibcNext]_libcVars PROVE Inv'
    OBVIOUS
  <2>1. CASE UNCHANGED divVars
    <3>1. DivInv => DivInv'
      BY <2>1, InvNext
    <3>2. step' = step /\ op' = op
      BY <2>1 DEF divVars
    <3> QED BY <3>1, <3>2
  <2>2. CASE DivNext
    <3>1. step # "idle"
      BY <2>2 DEF DivNext, Enter, Justify, Divide, GiveBack
    <3> QED BY <2>2, <3>1, InvNext
  <2> QED BY <2>1, <2>2 DEF LibcNext, libcVars
<1>3. Inv => Divides
  <2>1. DivInv => Divides
    BY InvDividesUnsigned, InvDividesSigned DEF Divides
  <2>2. step = "idle" /\ op.den # 0 => Divides
    BY DEF Divides, DividesUnsigned, DividesSigned
  <2> QED BY <2>1, <2>2
<1> HIDE DEF Inv
<1> QED BY <1>1, <1>2, <1>3, PTL DEF LibcSpec
=============================================================================
