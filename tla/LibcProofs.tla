----------------------------- MODULE LibcProofs -----------------------------
(***************************************************************************)
(* Proofs about the string and memory functions, for every memory, every   *)
(* legal call (module CString's Legal) and every size of a word.           *)
(*                                                                         *)
(* After k iterations a loop has changed k bytes of the memory the call    *)
(* found, those the function is to change, and the bytes it has yet to     *)
(* read are as they were (Progress).  That is where the calls have to be   *)
(* legal, and where the direction of memmove matters.                      *)
(***************************************************************************)
EXTENDS Libc, SequenceTheorems, WellFoundedInduction, TLAPS

-----------------------------------------------------------------------------
(* The memory after k iterations, of the memory b before them.             *)

Copied(b, d, s, k) ==
    [p \in DOMAIN b |-> IF p \in d .. d + k - 1 THEN b[s + p - d] ELSE b[p]]
CopiedDown(b, d, s, n, k) ==
    [p \in DOMAIN b |-> IF p \in d + n - k .. d + n - 1 THEN b[s + p - d] ELSE b[p]]
Filled(b, d, c, k) ==
    [p \in DOMAIN b |-> IF p \in d .. d + k - 1 THEN c ELSE b[p]]
Swapped(b, d, n, k) ==
    [p \in DOMAIN b |-> IF p \in d .. d + k - 1 \/ p \in d + n - k .. d + n - 1
                        THEN b[2 * d + n - 1 - p] ELSE b[p]]

\* A loop of n iterations is before its k-th, for some k.
Up(b, d, s, n) ==
    \E k \in 0 .. n : /\ loops = <<Loop("up", d + k, s + k, n - k)>>
                      /\ mem = Copied(b, d, s, k)
Down(b, d, s, n) ==
    \E k \in 0 .. n : /\ loops = <<Loop("down", d + n - 1 - k, s + n - 1 - k, n - k)>>
                      /\ mem = CopiedDown(b, d, s, n, k)
Filling(b, d, c, n) ==
    \E k \in 0 .. n : /\ loops = <<Loop("fill", d + k, c, n - k)>>
                      /\ mem = Filled(b, d, c, k)
FillingFirst(b, d, c, n, then) ==
    \E k \in 0 .. n : /\ loops = <<Loop("fill", d + k, c, n - k), then>>
                      /\ mem = Filled(b, d, c, k)
Texting(b, d, s, n) ==
    \E k \in 0 .. n : /\ loops = <<Loop("string", d + k, s + k, 0)>>
                      /\ mem = Copied(b, d, s, k)
Adding(b, d, s, n) ==
    \E k \in 0 .. n : /\ loops = <<Loop("cat", d + k, s + k, 0)>>
                      /\ mem = Copied(b, d, s, k)
Swapping(b, d, n) ==
    \E k \in 0 .. n : /\ 2 * k <= n
                      /\ loops = <<Loop("swap", d + k, d + n - 1 - k, n - k)>>
                      /\ mem = Swapped(b, d, n, k)

\* What can be copied upwards: nothing is overwritten before it is read.
Upwards(d, s, n) == d <= s \/ s + n <= d

Zeroed(m, d, size, n) == Filled(m, d + size, NUL, n - size)

Progress ==
    LET m == call.mem
        d == call.d
        s == call.s
        n == call.n
        source == strlen(m, s)
        size == Smaller(source, n)
    IN  \/ call.fn \in {"memcpy", "memmove"} /\ Upwards(d, s, n) /\ Up(m, d, s, n)
        \/ call.fn = "memmove" /\ s <= d /\ Down(m, d, s, n)
        \/ call.fn = "memset" /\ Filling(m, d, call.c, n)
        \/ call.fn = "strcpy" /\ Texting(m, d, s, source)
        \/ call.fn = "strcat" /\ Adding(m, d + strlen(m, d), s, source)
        \/ call.fn = "strrev" /\ Swapping(m, d, strlen(m, d))
        \/ call.fn = "strncpy" /\ FillingFirst(m, d + size, NUL, n - size, Loop("up", d, s, size))
        \/ call.fn = "strncpy" /\ Up(Zeroed(m, d, size, n), d, s, size)

Right == Cleared => mem = Meant

CallInv ==
    /\ call \in Calls
    /\ call.fn \in StrFns =>
          \/ pc = "call" /\ mem = call.mem /\ loops = <<>>
          \/ pc = "run" /\ Progress
          \/ pc \in {"run", "done"} /\ loops = <<>> /\ Right

MemoryInv == pc = "idle" \/ CallInv

-----------------------------------------------------------------------------
(* A set of natural numbers has a least one.                               *)

LEMMA NatOrder == IsWellFoundedOn({p \in Nat \X Nat : p[1] < p[2]}, Nat)
<1>1. OpToRel(<, Nat) = {p \in Nat \X Nat : p[1] < p[2]}
  BY DEF OpToRel
<1> QED BY <1>1, NatLessThanWellFounded

LEMMA LeastNat ==
    ASSUME NEW T, T \subseteq Nat, T # {}
    PROVE  \E x \in T : \A y \in T : x <= y
<1> DEFINE R == {p \in Nat \X Nat : p[1] < p[2]}
<1>1. PICK x \in T : \A y \in T : ~(<<y, x>> \in R)
  <2>1. IsWellFoundedOn(R, Nat)
    BY NatOrder
  <2> HIDE DEF R
  <2> QED BY WFMin, <2>1
<1>2. ASSUME NEW y \in T PROVE x <= y
  <2>1. x \in Nat /\ y \in Nat
    OBVIOUS
  <2>2. ~(y < x)
    <3> SUFFICES ASSUME y < x PROVE FALSE
      OBVIOUS
    <3>1. <<y, x>> \in Nat \X Nat /\ <<y, x>>[1] < <<y, x>>[2]
      BY <2>1
    <3> QED BY <1>1, <3>1
  <2> QED BY <2>1, <2>2, SMT
<1> QED BY <1>2

-----------------------------------------------------------------------------
(* Texts in memory.                                                        *)

LEMMA MemoryIs ==
    ASSUME NEW m, IsMemory(m)
    PROVE  /\ Cardinality(DOMAIN m) \in Nat
           /\ DOMAIN m = 0 .. Cardinality(DOMAIN m) - 1
           /\ m = [p \in DOMAIN m |-> m[p]]
BY DEF IsMemory

\* strlen finds the first terminator.
LEMMA LengthIs ==
    ASSUME NEW m, IsMemory(m), NEW a \in Nat, Ended(m, a)
    PROVE  /\ strlen(m, a) \in Nat
           /\ Within(m, a, strlen(m, a) + 1)
           /\ m[a + strlen(m, a)] = NUL
           /\ \A k \in 0 .. strlen(m, a) - 1 : m[a + k] # NUL
<1> DEFINE size == Cardinality(DOMAIN m)
           nuls == {p \in DOMAIN m : a <= p /\ m[p] = NUL}
           FirstNul(n) == m[a + n] = NUL /\ \A k \in 0 .. n - 1 : m[a + k] # NUL
<1>1. size \in Nat /\ DOMAIN m = 0 .. size - 1
  BY MemoryIs
<1>2. PICK q \in nuls : \A y \in nuls : q <= y
  <2>1. nuls \subseteq Nat /\ nuls # {}
    BY <1>1 DEF Ended
  <2> HIDE DEF nuls
  <2> QED BY <2>1, LeastNat
<1>3. q \in DOMAIN m /\ a <= q /\ m[q] = NUL
  BY <1>2
<1>4. q - a \in 0 .. size /\ a + (q - a) = q
  BY <1>1, <1>3
<1>5. ASSUME NEW k \in 0 .. q - a - 1 PROVE m[a + k] # NUL
  <2>1. a + k \in DOMAIN m /\ a <= a + k /\ ~(q <= a + k)
    BY <1>1, <1>3, <1>5
  <2> QED BY <1>2, <2>1
<1>6. FirstNul(q - a)
  BY <1>3, <1>4, <1>5
<1>7. ASSUME NEW n \in 0 .. size, FirstNul(n) PROVE n = q - a
  <2>1. ~(n < q - a)
    BY <1>5, <1>7, <1>4, SMT
  <2>2. ~(q - a < n)
    <3> SUFFICES ASSUME q - a < n PROVE FALSE
      OBVIOUS
    <3>1. q - a \in 0 .. n - 1
      BY <1>4
    <3> QED BY <3>1, <1>7, <1>3, <1>4
  <2> QED BY <2>1, <2>2, <1>4, SMT
<1>8. strlen(m, a) = CHOOSE n \in 0 .. size : FirstNul(n)
  BY DEF strlen
<1> HIDE DEF FirstNul, size
<1>9. strlen(m, a) = q - a
  BY <1>4, <1>6, <1>7, <1>8
<1>10. Within(m, a, q - a + 1)
  BY <1>1, <1>3 DEF Within
<1> QED BY <1>3, <1>4, <1>5, <1>9, <1>10
\* strnlen reads whole words and finds the length all the same.
LEMMA WordsReach ==
    ASSUME NEW x \in Nat
    PROVE  (x \div LongSize) * LongSize + LongSize - 1 \in Nat
           /\ x <= (x \div LongSize) * LongSize + LongSize - 1
<1>1. LongSize \in Nat \ {0}
  BY LongAssumption
<1>2. x \div LongSize \in Nat /\ x % LongSize \in 0 .. LongSize - 1
      /\ x = LongSize * (x \div LongSize) + (x % LongSize)
  BY <1>1
<1>3. LongSize * (x \div LongSize) = (x \div LongSize) * LongSize
      /\ LongSize * (x \div LongSize) \in Nat
  BY <1>1, <1>2
<1> QED BY <1>1, <1>2, <1>3

LEMMA LimitedLengthIs ==
    ASSUME NEW m, IsMemory(m), NEW a \in Nat, Ended(m, a), NEW max \in Nat
    PROVE  strnlen(m, a, max) = Smaller(strlen(m, a), max)
<1> DEFINE L == strlen(m, a)
           last == ((a + max - 1) \div LongSize) * LongSize + LongSize - 1
           nuls == {p \in a .. last : p \in DOMAIN m /\ m[p] = NUL}
<1>1. L \in Nat /\ a + L \in DOMAIN m /\ m[a + L] = NUL
      /\ \A k \in 0 .. L - 1 : m[a + k] # NUL
  BY LengthIs DEF Within
<1>2. strnlen(m, a, max) =
        IF max = 0 THEN 0
        ELSE IF nuls = {} THEN max ELSE Smaller(Min(nuls), a + max) - a
  BY DEF strnlen
<1>3. CASE max = 0
  BY <1>1, <1>2, <1>3 DEF Smaller
<1>4. CASE max # 0
  <2>1. a + max - 1 \in Nat
    BY <1>4
  <2>2. last \in Nat /\ a + max - 1 <= last
    BY <2>1, WordsReach
  <2> HIDE DEF L, last
  <2>3. ASSUME NEW p \in nuls PROVE p \in Nat /\ a + L <= p
    <3>1. p \in a .. last /\ m[p] = NUL
      OBVIOUS
    <3>2. p - a \in Nat /\ p = a + (p - a) /\ p \in Nat
      BY <3>1, <2>2
    <3> QED BY <3>1, <3>2, <1>1
  <2>4. CASE nuls = {}
    <3>1. ~(a + L \in a .. last)
      BY <1>1, <2>4
    <3>2. L >= max
      BY <3>1, <1>1, <2>2
    <3> QED BY <3>2, <1>1, <1>2, <1>4, <2>4 DEF Smaller, L
  <2>5. CASE nuls # {}
    <3>1. a + L \in nuls
      <4>1. PICK p \in nuls : TRUE
        BY <2>5
      <4>2. p <= last /\ a + L <= p /\ p \in Nat
        BY <4>1, <2>3, <2>2
      <4>3. a + L \in a .. last
        BY <4>2, <1>1, <2>2
      <4> QED BY <4>3, <1>1
    <3>2. Min(nuls) = a + L
      <4>1. \A y \in nuls : a + L <= y
        BY <2>3
      <4>2. \A x \in nuls : (\A y \in nuls : x <= y) => x = a + L
        BY <2>3, <3>1, <1>1
      <4> HIDE DEF nuls
      <4> QED BY <3>1, <4>1, <4>2 DEF Min
    <3> HIDE DEF nuls
    <3> QED BY <3>2, <1>1, <1>2, <1>4, <2>5 DEF Smaller, L
  <2> QED BY <2>4, <2>5
<1> QED BY <1>3, <1>4

-----------------------------------------------------------------------------
(* One iteration changes one byte more, or two.                            *)

Put(f, a, v) == [f EXCEPT ![a] = v]
Exchange(f, i, j) == [f EXCEPT ![i] = f[j], ![j] = f[i]]

LEMMA NotYetOverwritten ==
    ASSUME NEW b, NEW d \in Nat, NEW s \in Nat, NEW n \in Nat, NEW k \in 0 .. n - 1,
           Within(b, s, n), Upwards(d, s, n)
    PROVE  Copied(b, d, s, k)[s + k] = b[s + k]
<1>1. s + k \in DOMAIN b
  BY DEF Within
<1>2. ~(s + k \in d .. d + k - 1)
  BY DEF Upwards
<1> QED BY <1>1, <1>2 DEF Copied

LEMMA CopiesUp ==
    ASSUME NEW b, NEW d \in Nat, NEW s \in Nat, NEW n \in Nat, NEW k \in 0 .. n - 1,
           Within(b, d, n), Within(b, s, n), Upwards(d, s, n)
    PROVE  Put(Copied(b, d, s, k), d + k, Copied(b, d, s, k)[s + k])
              = Copied(b, d, s, k + 1)
<1>1. d + k \in DOMAIN b
  BY DEF Within
<1>3. Copied(b, d, s, k)[s + k] = b[s + k]
  BY NotYetOverwritten
<1>4. \A p : p \in d .. d + (k + 1) - 1 <=> p \in d .. d + k - 1 \/ p = d + k
  OBVIOUS
<1>5. s + (d + k) - d = s + k
  OBVIOUS
<1> QED BY <1>1, <1>3, <1>4, <1>5 DEF Copied, Put

LEMMA CopiesDown ==
    ASSUME NEW b, NEW d \in Nat, NEW s \in Nat, NEW n \in Nat, NEW k \in 0 .. n - 1,
           Within(b, d, n), Within(b, s, n), s <= d
    PROVE  Put(CopiedDown(b, d, s, n, k), d + n - 1 - k,
               CopiedDown(b, d, s, n, k)[s + n - 1 - k])
              = CopiedDown(b, d, s, n, k + 1)
<1>1. d + n - 1 - k \in DOMAIN b /\ s + n - 1 - k \in DOMAIN b
  BY DEF Within
<1>2. ~(s + n - 1 - k \in d + n - k .. d + n - 1)
  OBVIOUS
<1>3. CopiedDown(b, d, s, n, k)[s + n - 1 - k] = b[s + n - 1 - k]
  BY <1>1, <1>2 DEF CopiedDown
<1>4. \A p : p \in d + n - (k + 1) .. d + n - 1
             <=> p \in d + n - k .. d + n - 1 \/ p = d + n - 1 - k
  OBVIOUS
<1>5. s + (d + n - 1 - k) - d = s + n - 1 - k
  OBVIOUS
<1> QED BY <1>1, <1>3, <1>4, <1>5 DEF CopiedDown, Put

LEMMA FillsOne ==
    ASSUME NEW b, NEW d \in Nat, NEW c, NEW n \in Nat, NEW k \in 0 .. n - 1,
           Within(b, d, n)
    PROVE  Put(Filled(b, d, c, k), d + k, c) = Filled(b, d, c, k + 1)
<1>1. d + k \in DOMAIN b
  BY DEF Within
<1>2. \A p : p \in d .. d + (k + 1) - 1 <=> p \in d .. d + k - 1 \/ p = d + k
  OBVIOUS
<1> QED BY <1>1, <1>2 DEF Filled, Put

LEMMA SwapsTwo ==
    ASSUME NEW b, NEW d \in Nat, NEW n \in Nat, NEW k \in 0 .. n,
           Within(b, d, n), d + k < d + n - 1 - k
    PROVE  Exchange(Swapped(b, d, n, k), d + k, d + n - 1 - k) = Swapped(b, d, n, k + 1)
<1> DEFINE i == d + k
           j == d + n - 1 - k
           f == Swapped(b, d, n, k)
<1>1. i \in DOMAIN b /\ j \in DOMAIN b /\ i # j /\ DOMAIN f = DOMAIN b
  BY DEF Within, Swapped
<1>2. ~(i \in d .. d + k - 1 \/ i \in d + n - k .. d + n - 1)
      /\ ~(j \in d .. d + k - 1 \/ j \in d + n - k .. d + n - 1)
  OBVIOUS
<1>3. f[i] = b[i] /\ f[j] = b[j]
  BY <1>1, <1>2 DEF Swapped
<1>4. \A p : (p \in d .. d + (k + 1) - 1 \/ p \in d + n - (k + 1) .. d + n - 1)
             <=> (p \in d .. d + k - 1 \/ p \in d + n - k .. d + n - 1) \/ p = i \/ p = j
  OBVIOUS
<1>5. 2 * d + n - 1 - i = j /\ 2 * d + n - 1 - j = i
  OBVIOUS
<1>6. Exchange(f, i, j) =
      [p \in DOMAIN b |-> IF p = i THEN b[j] ELSE IF p = j THEN b[i] ELSE f[p]]
  <2> HIDE DEF i, j, f
  <2> QED BY <1>1, <1>3 DEF Exchange
<1>7. Swapped(b, d, n, k + 1) =
      [p \in DOMAIN b |-> IF p = i THEN b[j] ELSE IF p = j THEN b[i] ELSE f[p]]
  <2>1. ASSUME NEW p \in DOMAIN b
        PROVE  Swapped(b, d, n, k + 1)[p] =
               IF p = i THEN b[j] ELSE IF p = j THEN b[i] ELSE f[p]
    <3>1. Swapped(b, d, n, k + 1)[p] =
            IF p \in d .. d + (k + 1) - 1 \/ p \in d + n - (k + 1) .. d + n - 1
            THEN b[2 * d + n - 1 - p] ELSE b[p]
      BY DEF Swapped
    <3>2. f[p] = IF p \in d .. d + k - 1 \/ p \in d + n - k .. d + n - 1
                 THEN b[2 * d + n - 1 - p] ELSE b[p]
      BY DEF Swapped
    <3> HIDE DEF i, j, f
    <3> QED BY <3>1, <3>2, <1>4, <1>5
  <2>2. Swapped(b, d, n, k + 1) =
        [p \in DOMAIN b |-> Swapped(b, d, n, k + 1)[p]]
    BY DEF Swapped
  <2> HIDE DEF i, j, f
  <2> QED BY <2>1, <2>2
<1> QED BY <1>6, <1>7
-----------------------------------------------------------------------------
(* A loop goes on or ends.                                                 *)

Kinds == {"up", "down", "fill", "string", "cat", "swap"}

\* While one of these loops runs nothing else does.
LEMMA LoopRuns ==
    ASSUME pc = "run", loops # <<>>, loop.kind \in Kinds, LibNext
    PROVE  /\ call' = call /\ pc' = pc
           /\ \/ loop.kind = "up" /\ CopyUp
              \/ loop.kind = "down" /\ CopyDown
              \/ loop.kind = "fill" /\ Fill
              \/ loop.kind = "string" /\ CopyString
              \/ loop.kind = "cat" /\ CopyCat
              \/ loop.kind = "swap" /\ Swap
<1>1. CASE StrNext
  <2>1. ~memcpy /\ ~memmove /\ ~memset /\ ~strcpy /\ ~strncpy /\ ~strcat
    BY DEF memcpy, memmove, memset, strcpy, strncpy, strcat, Begins
  <2>2. ~append /\ ~backspace /\ ~Strrev /\ ~Looks /\ ~Return
    BY DEF append, backspace, Strrev, Looks, Return, Begins, Answers
  <2>3. CopyUp \/ CopyDown \/ Fill \/ CopyString \/ CopyCat \/ Swap
    BY <1>1, <2>1, <2>2 DEF StrNext
  <2> QED BY <2>3 DEF CopyUp, CopyDown, Fill, CopyString, CopyCat, Swap, In
<1>2. CASE Strtol \/ SkipSpace \/ Prefix \/ ScanDigit \/ ScanEnd
  BY <1>2 DEF Strtol, SkipSpace, Prefix, ScanDigit, ScanEnd
<1>3. CASE Itoa \/ ItoaDigit
  BY <1>3 DEF Itoa, ItoaDigit, In, Kinds
<1> QED BY <1>1, <1>2, <1>3 DEF LibNext

LEMMA OneLoop ==
    ASSUME NEW x, loops = <<x>>
    PROVE  /\ loops # <<>> /\ loop = x /\ Tail(loops) = <<>>
           /\ \A y : Next_(y) <=> loops' = <<y>>
<1>1. Tail(loops) = <<>> /\ \A y : <<y>> \o Tail(loops) = <<y>>
  OBVIOUS
<1> QED BY <1>1 DEF loop, Next_

LEMMA LoopIs ==
    ASSUME NEW kind, NEW d, NEW s, NEW n
    PROVE  /\ Loop(kind, d, s, n).kind = kind /\ Loop(kind, d, s, n).d = d
           /\ Loop(kind, d, s, n).s = s /\ Loop(kind, d, s, n).n = n
BY DEF Loop

LEMMA UpRuns ==
    ASSUME pc = "run", LibNext, NEW b, NEW d \in Nat, NEW s \in Nat, NEW n \in Nat,
           Within(b, d, n), Within(b, s, n), Upwards(d, s, n), Up(b, d, s, n)
    PROVE  \/ \E k \in 0 .. n : /\ loops' = <<Loop("up", d + k, s + k, n - k)>>
                                /\ mem' = Copied(b, d, s, k)
           \/ loops' = <<>> /\ mem' = Copied(b, d, s, n)
<1>1. PICK k \in 0 .. n : /\ loops = <<Loop("up", d + k, s + k, n - k)>>
                          /\ mem = Copied(b, d, s, k)
  BY DEF Up
<1> DEFINE x == Loop("up", d + k, s + k, n - k)
<1>2. x.kind = "up" /\ x.d = d + k /\ x.s = s + k /\ x.n = n - k
  BY LoopIs
<1>3. loops = <<x>>
  BY <1>1
<1> HIDE DEF x
<1>4. /\ loops # <<>> /\ loop = x /\ Tail(loops) = <<>>
      /\ \A y : Next_(y) <=> loops' = <<y>>
  BY <1>3, OneLoop
<1>5. CopyUp
  BY <1>2, <1>4, LoopRuns DEF Kinds
<1>6. CASE k = n
  <2>1. Leave
    BY <1>2, <1>4, <1>5, <1>6 DEF CopyUp
  <2> QED BY <2>1, <1>1, <1>4, <1>6 DEF Leave
<1>7. CASE k # n
  <2>1. Store(d + k, mem[s + k]) /\ Next_(Loop("up", d + k + 1, s + k + 1, n - k - 1))
    BY <1>2, <1>4, <1>5, <1>7 DEF CopyUp
  <2>2. k \in 0 .. n - 1 /\ k + 1 \in 0 .. n
        /\ d + k + 1 = d + (k + 1) /\ s + k + 1 = s + (k + 1) /\ n - k - 1 = n - (k + 1)
    BY <1>7
  <2>3. mem' = Copied(b, d, s, k + 1)
    <3>1. mem' = Put(Copied(b, d, s, k), d + k, Copied(b, d, s, k)[s + k])
      BY <2>1, <1>1 DEF Store, Put
    <3> QED BY <3>1, <2>2, CopiesUp
  <2>4. loops' = <<Loop("up", d + (k + 1), s + (k + 1), n - (k + 1))>>
    BY <2>1, <2>2, <1>4
  <2> QED BY <2>2, <2>3, <2>4
<1> QED BY <1>6, <1>7

LEMMA DownRuns ==
    ASSUME pc = "run", LibNext, NEW b, NEW d \in Nat, NEW s \in Nat, NEW n \in Nat,
           Within(b, d, n), Within(b, s, n), s <= d, Down(b, d, s, n)
    PROVE  \/ \E k \in 0 .. n :
                 /\ loops' = <<Loop("down", d + n - 1 - k, s + n - 1 - k, n - k)>>
                 /\ mem' = CopiedDown(b, d, s, n, k)
           \/ loops' = <<>> /\ mem' = CopiedDown(b, d, s, n, n)
<1>1. PICK k \in 0 .. n : /\ loops = <<Loop("down", d + n - 1 - k, s + n - 1 - k, n - k)>>
                          /\ mem = CopiedDown(b, d, s, n, k)
  BY DEF Down
<1> DEFINE x == Loop("down", d + n - 1 - k, s + n - 1 - k, n - k)
<1>2. x.kind = "down" /\ x.d = d + n - 1 - k /\ x.s = s + n - 1 - k /\ x.n = n - k
  BY LoopIs
<1>3. loops = <<x>>
  BY <1>1
<1> HIDE DEF x
<1>4. /\ loops # <<>> /\ loop = x /\ Tail(loops) = <<>>
      /\ \A y : Next_(y) <=> loops' = <<y>>
  BY <1>3, OneLoop
<1>5. CopyDown
  BY <1>2, <1>4, LoopRuns DEF Kinds
<1>6. CASE k = n
  <2>1. Leave
    BY <1>2, <1>4, <1>5, <1>6 DEF CopyDown
  <2> QED BY <2>1, <1>1, <1>4, <1>6 DEF Leave
<1>7. CASE k # n
  <2>1. Store(d + n - 1 - k, mem[s + n - 1 - k])
        /\ Next_(Loop("down", d + n - 1 - k - 1, s + n - 1 - k - 1, n - k - 1))
    BY <1>2, <1>4, <1>5, <1>7 DEF CopyDown
  <2>2. k \in 0 .. n - 1 /\ k + 1 \in 0 .. n /\ d + n - 1 - k - 1 = d + n - 1 - (k + 1)
        /\ s + n - 1 - k - 1 = s + n - 1 - (k + 1) /\ n - k - 1 = n - (k + 1)
    BY <1>7
  <2>3. mem' = CopiedDown(b, d, s, n, k + 1)
    <3>1. mem' = Put(CopiedDown(b, d, s, n, k), d + n - 1 - k,
                     CopiedDown(b, d, s, n, k)[s + n - 1 - k])
      BY <2>1, <1>1 DEF Store, Put
    <3> QED BY <3>1, <2>2, CopiesDown
  <2>4. loops' = <<Loop("down", d + n - 1 - (k + 1), s + n - 1 - (k + 1), n - (k + 1))>>
    BY <2>1, <2>2, <1>4
  <2> QED BY <2>2, <2>3, <2>4
<1> QED BY <1>6, <1>7

LEMMA FillRuns ==
    ASSUME pc = "run", LibNext, NEW b, NEW d \in Nat, NEW c, NEW n \in Nat,
           Within(b, d, n), Filling(b, d, c, n)
    PROVE  \/ \E k \in 0 .. n : /\ loops' = <<Loop("fill", d + k, c, n - k)>>
                                /\ mem' = Filled(b, d, c, k)
           \/ loops' = <<>> /\ mem' = Filled(b, d, c, n)
<1>1. PICK k \in 0 .. n : /\ loops = <<Loop("fill", d + k, c, n - k)>>
                          /\ mem = Filled(b, d, c, k)
  BY DEF Filling
<1> DEFINE x == Loop("fill", d + k, c, n - k)
<1>2. x.kind = "fill" /\ x.d = d + k /\ x.s = c /\ x.n = n - k
  BY LoopIs
<1>3. loops = <<x>>
  BY <1>1
<1> HIDE DEF x
<1>4. /\ loops # <<>> /\ loop = x /\ Tail(loops) = <<>>
      /\ \A y : Next_(y) <=> loops' = <<y>>
  BY <1>3, OneLoop
<1>5. Fill
  BY <1>2, <1>4, LoopRuns DEF Kinds
<1>6. CASE k = n
  <2>1. Leave
    BY <1>2, <1>4, <1>5, <1>6 DEF Fill
  <2> QED BY <2>1, <1>1, <1>4, <1>6 DEF Leave
<1>7. CASE k # n
  <2>1. Store(d + k, c) /\ Next_(Loop("fill", d + k + 1, c, n - k - 1))
    BY <1>2, <1>4, <1>5, <1>7 DEF Fill
  <2>2. k \in 0 .. n - 1 /\ k + 1 \in 0 .. n
        /\ d + k + 1 = d + (k + 1) /\ n - k - 1 = n - (k + 1)
    BY <1>7
  <2>3. mem' = Filled(b, d, c, k + 1)
    <3>1. mem' = Put(Filled(b, d, c, k), d + k, c)
      BY <2>1, <1>1 DEF Store, Put
    <3> QED BY <3>1, <2>2, FillsOne
  <2>4. loops' = <<Loop("fill", d + (k + 1), c, n - (k + 1))>>
    BY <2>1, <2>2, <1>4
  <2> QED BY <2>2, <2>3, <2>4
<1> QED BY <1>6, <1>7
LEMMA Pairs ==
    ASSUME NEW y, NEW z
    PROVE  <<y>> \o <<z>> = <<y, z>>
<1>1. <<y>> \in Seq({y, z}) /\ <<z>> \in Seq({y, z}) /\ <<y, z>> \in Seq({y, z})
  OBVIOUS
<1>2. /\ <<y>> \o <<z>> \in Seq({y, z}) /\ Len(<<y>> \o <<z>>) = Len(<<y>>) + Len(<<z>>)
      /\ \A i \in 1 .. Len(<<y>>) + Len(<<z>>) :
            (<<y>> \o <<z>>)[i] = IF i <= Len(<<y>>) THEN <<y>>[i] ELSE <<z>>[i - Len(<<y>>)]
  BY <1>1, ConcatProperties
<1>3. Len(<<y>>) = 1 /\ Len(<<z>>) = 1 /\ Len(<<y, z>>) = 2
      /\ <<y>>[1] = y /\ <<z>>[1] = z /\ <<y, z>>[1] = y /\ <<y, z>>[2] = z
  OBVIOUS
<1> DEFINE w == <<y>> \o <<z>>
<1>4. Len(w) = 2 /\ w[1] = y /\ w[2] = z
  BY <1>2, <1>3
<1>5. \A i \in 1 .. Len(w) : w[i] = <<y, z>>[i]
  BY <1>3, <1>4
<1> QED BY <1>1, <1>2, <1>3, <1>4, <1>5, SeqEqual

LEMMA FillRunsFirst ==
    ASSUME pc = "run", LibNext, NEW b, NEW d \in Nat, NEW c, NEW n \in Nat, NEW then,
           Within(b, d, n), FillingFirst(b, d, c, n, then)
    PROVE  \/ \E k \in 0 .. n : /\ loops' = <<Loop("fill", d + k, c, n - k), then>>
                                /\ mem' = Filled(b, d, c, k)
           \/ loops' = <<then>> /\ mem' = Filled(b, d, c, n)
<1>1. PICK k \in 0 .. n : /\ loops = <<Loop("fill", d + k, c, n - k), then>>
                          /\ mem = Filled(b, d, c, k)
  BY DEF FillingFirst
<1> DEFINE x == Loop("fill", d + k, c, n - k)
<1>2. x.kind = "fill" /\ x.d = d + k /\ x.s = c /\ x.n = n - k
  BY LoopIs
<1>3. loops = <<x, then>>
  BY <1>1
<1> HIDE DEF x
<1>4. /\ loops # <<>> /\ loop = x /\ Tail(loops) = <<then>>
      /\ \A y : Next_(y) <=> loops' = <<y, then>>
  <2>1. Tail(loops) = <<then>>
    BY <1>3
  <2>2. \A y : <<y>> \o <<then>> = <<y, then>>
    BY Pairs
  <2> QED BY <1>3, <2>1, <2>2 DEF loop, Next_
<1>5. Fill
  BY <1>2, <1>4, LoopRuns DEF Kinds
<1>6. CASE k = n
  <2>1. Leave
    BY <1>2, <1>4, <1>5, <1>6 DEF Fill
  <2> QED BY <2>1, <1>1, <1>4, <1>6 DEF Leave
<1>7. CASE k # n
  <2>1. Store(d + k, c) /\ Next_(Loop("fill", d + k + 1, c, n - k - 1))
    BY <1>2, <1>4, <1>5, <1>7 DEF Fill
  <2>2. k \in 0 .. n - 1 /\ k + 1 \in 0 .. n
        /\ d + k + 1 = d + (k + 1) /\ n - k - 1 = n - (k + 1)
    BY <1>7
  <2>3. mem' = Filled(b, d, c, k + 1)
    <3>1. mem' = Put(Filled(b, d, c, k), d + k, c)
      BY <2>1, <1>1 DEF Store, Put
    <3> QED BY <3>1, <2>2, FillsOne
  <2>4. loops' = <<Loop("fill", d + (k + 1), c, n - (k + 1)), then>>
    BY <2>1, <2>2, <1>4
  <2> QED BY <2>2, <2>3, <2>4
<1> QED BY <1>6, <1>7

\* A text of n characters and its terminator.
TextAt(b, s, n) ==
    Within(b, s, n + 1) /\ b[s + n] = NUL /\ \A k \in 0 .. n - 1 : b[s + k] # NUL

LEMMA TextRuns ==
    ASSUME pc = "run", LibNext, NEW b, NEW d \in Nat, NEW s \in Nat, NEW n \in Nat,
           Within(b, d, n + 1), TextAt(b, s, n), Upwards(d, s, n + 1), Texting(b, d, s, n)
    PROVE  \/ \E k \in 0 .. n : /\ loops' = <<Loop("string", d + k, s + k, 0)>>
                                /\ mem' = Copied(b, d, s, k)
           \/ loops' = <<>> /\ mem' = Copied(b, d, s, n + 1)
<1>1. PICK k \in 0 .. n : /\ loops = <<Loop("string", d + k, s + k, 0)>>
                          /\ mem = Copied(b, d, s, k)
  BY DEF Texting
<1> DEFINE x == Loop("string", d + k, s + k, 0)
<1>2. x.kind = "string" /\ x.d = d + k /\ x.s = s + k
  BY LoopIs
<1>3. loops = <<x>>
  BY <1>1
<1> HIDE DEF x
<1>4. /\ loops # <<>> /\ loop = x /\ Tail(loops) = <<>>
      /\ \A y : Next_(y) <=> loops' = <<y>>
  BY <1>3, OneLoop
<1>5. CopyString
  BY <1>2, <1>4, LoopRuns DEF Kinds
<1>6. n + 1 \in Nat /\ k \in 0 .. (n + 1) - 1 /\ Within(b, s, n + 1)
  BY DEF TextAt
<1>7. mem[s + k] = b[s + k]
  BY <1>1, <1>6, NotYetOverwritten
<1>8. mem' = Copied(b, d, s, k + 1)
  <2>1. mem' = Put(Copied(b, d, s, k), d + k, Copied(b, d, s, k)[s + k])
    BY <1>1, <1>2, <1>4, <1>5 DEF CopyString, Store, Put
  <2> QED BY <2>1, <1>6, CopiesUp
<1>9. CASE k = n
  <2>1. loops' = <<>>
    BY <1>2, <1>4, <1>5, <1>7, <1>9 DEF CopyString, TextAt
  <2> QED BY <2>1, <1>8, <1>9
<1>10. CASE k # n
  <2>1. k \in 0 .. n - 1 /\ k + 1 \in 0 .. n
        /\ d + k + 1 = d + (k + 1) /\ s + k + 1 = s + (k + 1)
    BY <1>10
  <2>2. mem[s + k] # NUL
    BY <2>1, <1>7 DEF TextAt
  <2>3. Next_(Loop("string", d + k + 1, s + k + 1, 0))
    BY <2>2, <1>2, <1>4, <1>5 DEF CopyString
  <2>4. loops' = <<Loop("string", d + (k + 1), s + (k + 1), 0)>>
    BY <2>1, <2>3, <1>4
  <2> QED BY <2>1, <2>4, <1>8
<1> QED BY <1>9, <1>10

LEMMA AddRuns ==
    ASSUME pc = "run", LibNext, NEW b, NEW d \in Nat, NEW s \in Nat, NEW n \in Nat,
           Within(b, d, n + 1), TextAt(b, s, n), Upwards(d, s, n + 1), Adding(b, d, s, n)
    PROVE  \/ \E k \in 0 .. n : /\ loops' = <<Loop("cat", d + k, s + k, 0)>>
                                /\ mem' = Copied(b, d, s, k)
           \/ loops' = <<>> /\ mem' = Copied(b, d, s, n)
<1>1. PICK k \in 0 .. n : /\ loops = <<Loop("cat", d + k, s + k, 0)>>
                          /\ mem = Copied(b, d, s, k)
  BY DEF Adding
<1> DEFINE x == Loop("cat", d + k, s + k, 0)
<1>2. x.kind = "cat" /\ x.d = d + k /\ x.s = s + k
  BY LoopIs
<1>3. loops = <<x>>
  BY <1>1
<1> HIDE DEF x
<1>4. /\ loops # <<>> /\ loop = x /\ Tail(loops) = <<>>
      /\ \A y : Next_(y) <=> loops' = <<y>>
  BY <1>3, OneLoop
<1>5. CopyCat
  BY <1>2, <1>4, LoopRuns DEF Kinds
<1>6. n + 1 \in Nat /\ k \in 0 .. (n + 1) - 1 /\ Within(b, s, n + 1)
  BY DEF TextAt
<1>7. mem[s + k] = b[s + k]
  BY <1>1, <1>6, NotYetOverwritten
<1>8. CASE k = n
  <2>1. Leave
    BY <1>2, <1>4, <1>5, <1>7, <1>8 DEF CopyCat, TextAt
  <2> QED BY <2>1, <1>1, <1>4, <1>8 DEF Leave
<1>9. CASE k # n
  <2>1. k \in 0 .. n - 1 /\ k + 1 \in 0 .. n
        /\ d + k + 1 = d + (k + 1) /\ s + k + 1 = s + (k + 1)
    BY <1>9
  <2>2. mem[s + k] # NUL
    BY <2>1, <1>7 DEF TextAt
  <2>3. Store(d + k, mem[s + k]) /\ Next_(Loop("cat", d + k + 1, s + k + 1, 0))
    BY <2>2, <1>2, <1>4, <1>5 DEF CopyCat
  <2>4. mem' = Copied(b, d, s, k + 1)
    <3>1. mem' = Put(Copied(b, d, s, k), d + k, Copied(b, d, s, k)[s + k])
      BY <2>3, <1>1 DEF Store, Put
    <3> QED BY <3>1, <1>6, CopiesUp
  <2>5. loops' = <<Loop("cat", d + (k + 1), s + (k + 1), 0)>>
    BY <2>1, <2>3, <1>4
  <2> QED BY <2>1, <2>4, <2>5
<1> QED BY <1>8, <1>9

LEMMA SwapRuns ==
    ASSUME pc = "run", LibNext, NEW b, NEW d \in Nat, NEW n \in Nat,
           Within(b, d, n), Swapping(b, d, n)
    PROVE  \/ \E k \in 0 .. n :
                 /\ 2 * k <= n
                 /\ loops' = <<Loop("swap", d + k, d + n - 1 - k, n - k)>>
                 /\ mem' = Swapped(b, d, n, k)
           \/ /\ loops' = <<>>
              /\ \E k \in 0 .. n : 2 * k \in {n - 1, n} /\ mem' = Swapped(b, d, n, k)
<1>1. PICK k \in 0 .. n : /\ 2 * k <= n
                          /\ loops = <<Loop("swap", d + k, d + n - 1 - k, n - k)>>
                          /\ mem = Swapped(b, d, n, k)
  BY DEF Swapping
<1> DEFINE x == Loop("swap", d + k, d + n - 1 - k, n - k)
<1>2. x.kind = "swap" /\ x.d = d + k /\ x.s = d + n - 1 - k /\ x.n = n - k
  BY LoopIs
<1>3. loops = <<x>>
  BY <1>1
<1> HIDE DEF x
<1>4. /\ loops # <<>> /\ loop = x /\ Tail(loops) = <<>>
      /\ \A y : Next_(y) <=> loops' = <<y>>
  BY <1>3, OneLoop
<1>5. Swap
  BY <1>2, <1>4, LoopRuns DEF Kinds
<1>6. CASE d + k >= d + n - 1 - k
  <2>1. Leave
    BY <1>2, <1>4, <1>5, <1>6 DEF Swap
  <2>2. 2 * k \in {n - 1, n}
    BY <1>1, <1>6
  <2> QED BY <2>1, <2>2, <1>1, <1>4 DEF Leave
<1>7. CASE ~(d + k >= d + n - 1 - k)
  <2>1. d + k < d + n - 1 - k /\ k + 1 \in 0 .. n /\ 2 * (k + 1) <= n
        /\ d + k + 1 = d + (k + 1) /\ d + n - 1 - k - 1 = d + n - 1 - (k + 1)
        /\ n - k - 1 = n - (k + 1)
    BY <1>1, <1>7
  <2>2. mem' = Exchange(mem, d + k, d + n - 1 - k)
        /\ Next_(Loop("swap", d + k + 1, d + n - 1 - k - 1, n - k - 1))
    BY <1>2, <1>4, <1>5, <1>7 DEF Swap, Exchange
  <2>3. mem' = Swapped(b, d, n, k + 1)
    BY <2>1, <2>2, <1>1, SwapsTwo
  <2>4. loops' = <<Loop("swap", d + (k + 1), d + n - 1 - (k + 1), n - (k + 1))>>
    BY <2>1, <2>2, <1>4
  <2> QED BY <2>1, <2>3, <2>4
<1> QED BY <1>6, <1>7
-----------------------------------------------------------------------------
(* A memory with all of its iterations behind it is the one that is meant. *)

LEMMA TextIs ==
    ASSUME NEW m, IsMemory(m), NEW a \in Nat, Ended(m, a)
    PROVE  /\ TextAt(m, a, strlen(m, a)) /\ strlen(m, a) \in Nat
           /\ Text(m, a) \in Seq(0 .. 255) /\ Len(Text(m, a)) = strlen(m, a)
           /\ \A i \in 1 .. strlen(m, a) : Text(m, a)[i] = m[a + i - 1]
<1> DEFINE L == strlen(m, a)
<1>1. L \in Nat /\ TextAt(m, a, L)
  BY LengthIs DEF TextAt
<1>2. Text(m, a) = [i \in 1 .. L |-> m[a + i - 1]]
  BY DEF Text
<1>3. ASSUME NEW i \in 1 .. L PROVE m[a + i - 1] \in 0 .. 255
  <2>1. a + i - 1 \in a .. a + (L + 1) - 1
    BY <1>1
  <2>2. a + i - 1 \in DOMAIN m
    BY <2>1, <1>1 DEF TextAt, Within
  <2> QED BY <2>2 DEF IsMemory
<1> HIDE DEF L
<1>4. Text(m, a) \in Seq(0 .. 255) /\ Len(Text(m, a)) = L
  BY <1>1, <1>2, <1>3
<1>5. \A i \in 1 .. L : Text(m, a)[i] = m[a + i - 1]
  BY <1>2
<1> QED BY <1>1, <1>4, <1>5 DEF L

LEMMA MoveMeans ==
    ASSUME call.fn \in {"memcpy", "memmove"}, call.n \in Nat, call.d \in Nat
    PROVE  /\ Meant = Copied(call.mem, call.d, call.s, call.n)
           /\ Meant = CopiedDown(call.mem, call.d, call.s, call.n, call.n)
<1>1. Meant = [p \in DOMAIN call.mem |->
                  IF p \in call.d .. call.d + call.n - 1
                  THEN call.mem[call.s + p - call.d] ELSE call.mem[p]]
  BY DEF Meant
<1>2. call.d + call.n - call.n = call.d
  OBVIOUS
<1> QED BY <1>1, <1>2 DEF Copied, CopiedDown

LEMMA SetMeans ==
    ASSUME call.fn = "memset"
    PROVE  Meant = Filled(call.mem, call.d, call.c, call.n)
BY DEF Meant, Filled

LEMMA LookMeans ==
    ASSUME call.fn \in {"strlen", "strnlen", "strcmp", "strncmp", "memcmp", "strchr"}
    PROVE  Meant = call.mem
BY DEF Meant

LEMMA CopyMeans ==
    ASSUME call.fn = "strcpy", IsMemory(call.mem), call.d \in Nat, call.s \in Nat,
           Ended(call.mem, call.s)
    PROVE  Meant = Copied(call.mem, call.d, call.s, strlen(call.mem, call.s) + 1)
<1> DEFINE m == call.mem
           d == call.d
           s == call.s
           L == strlen(m, s)
           t == Text(m, s)
<1>1. Meant = WithText(m, d, t)
  BY DEF Meant
<1>2. L \in Nat /\ Len(t) = L /\ m[s + L] = NUL
      /\ \A i \in 1 .. L : t[i] = m[s + i - 1]
  BY TextIs DEF TextAt
<1>3. DOMAIN m \subseteq Nat
  BY MemoryIs
<1>4. d \in Nat /\ s \in Nat
  OBVIOUS
<1> HIDE DEF m, d, s, L, t
<1>5. ASSUME NEW p \in DOMAIN m
      PROVE  (IF p \in d .. d + L - 1 THEN t[p - d + 1] ELSE IF p = d + L THEN NUL ELSE m[p])
             = IF p \in d .. d + (L + 1) - 1 THEN m[s + p - d] ELSE m[p]
  <2>1. CASE p \in d .. d + L - 1
    <3>1. p - d + 1 \in 1 .. L /\ s + (p - d + 1) - 1 = s + p - d
          /\ p \in d .. d + (L + 1) - 1
      BY <2>1, <1>2, <1>3, <1>4
    <3> QED BY <3>1, <2>1, <1>2
  <2>2. CASE p = d + L
    <3>1. p \in d .. d + (L + 1) - 1 /\ ~(p \in d .. d + L - 1) /\ s + p - d = s + L
      BY <2>2, <1>2, <1>3, <1>4
    <3> QED BY <3>1, <2>2, <1>2
  <2>3. CASE ~(p \in d .. d + L - 1) /\ p # d + L
    <3>1. ~(p \in d .. d + (L + 1) - 1)
      BY <2>3, <1>2, <1>3, <1>4
    <3> QED BY <3>1, <2>3
  <2> QED BY <2>1, <2>2, <2>3
<1>6. WithText(m, d, t) = Copied(m, d, s, L + 1)
  BY <1>2, <1>5 DEF WithText, Copied
<1> QED BY <1>1, <1>6 DEF m, d, s, L

LEMMA CatMeans ==
    ASSUME call.fn = "strcat", IsMemory(call.mem), call.d \in Nat, call.s \in Nat,
           Ended(call.mem, call.s), Ended(call.mem, call.d), Cleared
    PROVE  Meant = Copied(call.mem, call.d + strlen(call.mem, call.d), call.s,
                          strlen(call.mem, call.s))
<1> DEFINE m == call.mem
           d == call.d
           s == call.s
           L == strlen(m, s)
           K == strlen(m, d)
           t == Text(m, d)
           u == Text(m, s)
           w == t \o u
<1>1. Meant = WithText(m, d, w)
  BY DEF Meant
<1>2. L \in Nat /\ Len(u) = L /\ u \in Seq(0 .. 255) /\ \A i \in 1 .. L : u[i] = m[s + i - 1]
  BY TextIs
<1>3. K \in Nat /\ Len(t) = K /\ t \in Seq(0 .. 255) /\ \A i \in 1 .. K : t[i] = m[d + i - 1]
  BY TextIs
<1>4. DOMAIN m \subseteq Nat /\ d \in Nat /\ s \in Nat
  BY MemoryIs
<1>5. m[d + K + L] = NUL
  BY DEF Cleared
<1> HIDE DEF m, d, s, L, K, t, u
<1>6. Len(w) = K + L /\ \A i \in 1 .. K + L : w[i] = IF i <= K THEN t[i] ELSE u[i - K]
  BY <1>2, <1>3, ConcatProperties
<1> HIDE DEF w
<1>7. ASSUME NEW p \in DOMAIN m
      PROVE  (IF p \in d .. d + (K + L) - 1 THEN w[p - d + 1]
              ELSE IF p = d + (K + L) THEN NUL ELSE m[p])
             = IF p \in d + K .. d + K + L - 1 THEN m[s + p - (d + K)] ELSE m[p]
  <2>1. CASE p \in d .. d + K - 1
    <3>1. p \in Nat /\ K \in Nat /\ L \in Nat /\ d \in Nat
      BY <1>2, <1>3, <1>4
    <3>2. p - d + 1 \in 1 .. K /\ d + (p - d + 1) - 1 = p /\ p - d + 1 \in 1 .. K + L
      BY <2>1, <3>1
    <3>3. p \in d .. d + (K + L) - 1 /\ ~(p \in d + K .. d + K + L - 1)
      BY <2>1, <3>1
    <3>4. w[p - d + 1] = m[p]
      BY <3>2, <1>3, <1>6
    <3> QED BY <3>3, <3>4
  <2>2. CASE p \in d + K .. d + K + L - 1
    <3>1. p \in Nat /\ K \in Nat /\ L \in Nat /\ d \in Nat
      BY <1>2, <1>3, <1>4
    <3>2. p - d + 1 - K \in 1 .. L /\ s + (p - d + 1 - K) - 1 = s + p - (d + K)
      BY <2>2, <3>1, <1>4
    <3>3. p \in d .. d + (K + L) - 1 /\ p - d + 1 \in 1 .. K + L /\ ~(p - d + 1 <= K)
      BY <2>2, <3>1
    <3>4. w[p - d + 1] = u[p - d + 1 - K]
      <4>1. w[p - d + 1] = u[(p - d + 1) - K]
        BY <3>3, <1>6
      <4> QED BY <4>1, <3>1
    <3>5. u[p - d + 1 - K] = m[s + (p - d + 1 - K) - 1]
      BY <3>2, <1>2
    <3> QED BY <3>2, <3>3, <3>4, <3>5, <2>2
  <2>3. CASE p = d + (K + L)
    <3>1. ~(p \in d .. d + (K + L) - 1) /\ ~(p \in d + K .. d + K + L - 1)
          /\ p = d + K + L
      BY <2>3, <1>2, <1>3, <1>4
    <3> QED BY <3>1, <2>3, <1>5
  <2>4. CASE ~(p \in d .. d + (K + L) - 1) /\ p # d + (K + L)
    <3>1. ~(p \in d + K .. d + K + L - 1)
      BY <2>4, <1>2, <1>3, <1>4
    <3> QED BY <3>1, <2>4
  <2>5. p \in d .. d + K - 1 \/ p \in d + K .. d + K + L - 1 \/ p = d + (K + L)
        \/ (~(p \in d .. d + (K + L) - 1) /\ p # d + (K + L))
    BY <1>2, <1>3, <1>4
  <2> QED BY <2>1, <2>2, <2>3, <2>4, <2>5
<1>8. WithText(m, d, w) = Copied(m, d + K, s, L)
  BY <1>6, <1>7 DEF WithText, Copied
<1> QED BY <1>1, <1>8 DEF m, d, s, L, K
LEMMA ReverseMeans ==
    ASSUME call.fn = "strrev", IsMemory(call.mem), call.d \in Nat, Ended(call.mem, call.d),
           NEW k \in 0 .. strlen(call.mem, call.d),
           2 * k \in {strlen(call.mem, call.d) - 1, strlen(call.mem, call.d)}
    PROVE  Meant = Swapped(call.mem, call.d, strlen(call.mem, call.d), k)
<1> DEFINE m == call.mem
           d == call.d
           L == strlen(m, d)
           t == Text(m, d)
           r == [i \in 1 .. Len(t) |-> t[Len(t) + 1 - i]]
<1>1. Meant = WithText(m, d, r)
  BY DEF Meant
<1>2. L \in Nat /\ Len(t) = L /\ m[d + L] = NUL /\ \A i \in 1 .. L : t[i] = m[d + i - 1]
  BY TextIs DEF TextAt
<1>3. DOMAIN m \subseteq Nat /\ d \in Nat
  BY MemoryIs
<1>4. k \in 0 .. L /\ 2 * k \in {L - 1, L}
  OBVIOUS
<1> HIDE DEF m, d, L, t
<1>5. Len(r) = L /\ \A i \in 1 .. L : r[i] = m[d + L - i]
  <2>1. r = [i \in 1 .. L |-> t[L + 1 - i]]
    BY <1>2
  <2>2. ASSUME NEW i \in 1 .. L PROVE t[L + 1 - i] = m[d + L - i]
    <3>1. L + 1 - i \in 1 .. L /\ d + (L + 1 - i) - 1 = d + L - i
      BY <1>2, <1>3
    <3> QED BY <3>1, <1>2
  <2> HIDE DEF r
  <2> QED BY <2>1, <2>2, <1>2
<1> HIDE DEF r
<1>6. ASSUME NEW p \in DOMAIN m
      PROVE  (IF p \in d .. d + L - 1 THEN r[p - d + 1] ELSE IF p = d + L THEN NUL ELSE m[p])
             = IF p \in d .. d + k - 1 \/ p \in d + L - k .. d + L - 1
               THEN m[2 * d + L - 1 - p] ELSE m[p]
  <2>0. p \in Nat /\ d \in Nat /\ L \in Nat /\ k \in Nat /\ k <= L
    BY <1>2, <1>3, <1>4
  <2>1. CASE p \in d .. d + L - 1
    <3>1. p - d + 1 \in 1 .. L /\ d + L - (p - d + 1) = 2 * d + L - 1 - p
      BY <2>1, <2>0
    <3>2. r[p - d + 1] = m[2 * d + L - 1 - p]
      BY <3>1, <1>5
    <3>3. ~(p \in d .. d + k - 1 \/ p \in d + L - k .. d + L - 1) => 2 * d + L - 1 - p = p
      BY <2>1, <2>0, <1>4
    <3> QED BY <2>1, <3>2, <3>3
  <2>2. CASE ~(p \in d .. d + L - 1)
    <3>1. ~(p \in d .. d + k - 1 \/ p \in d + L - k .. d + L - 1)
      BY <2>2, <2>0
    <3> QED BY <3>1, <2>2, <1>2
  <2> QED BY <2>1, <2>2
<1>7. WithText(m, d, r) = Swapped(m, d, L, k)
  BY <1>5, <1>6 DEF WithText, Swapped
<1> QED BY <1>1, <1>7 DEF m, d, L

LEMMA CopyLimitedMeans ==
    ASSUME call.fn = "strncpy", IsMemory(call.mem), call.d \in Nat, call.s \in Nat,
           call.n \in Nat, Ended(call.mem, call.s),
           Apart(call.d, call.n, call.s, Smaller(call.n, strlen(call.mem, call.s) + 1)),
           NEW size, size = Smaller(strlen(call.mem, call.s), call.n)
    PROVE  Meant = Copied(Zeroed(call.mem, call.d, size, call.n), call.d, call.s, size)
<1> DEFINE m == call.mem
           d == call.d
           s == call.s
           n == call.n
           L == strlen(m, s)
           z == Zeroed(m, d, size, n)
<1>1. Meant = [p \in DOMAIN m |->
                  IF p \notin d .. d + n - 1 THEN m[p]
                  ELSE IF p - d < L THEN m[s + p - d] ELSE NUL]
  BY DEF Meant
<1>2. L \in Nat /\ Within(m, s, L + 1)
  BY TextIs DEF TextAt
<1>3. DOMAIN m \subseteq Nat /\ d \in Nat /\ s \in Nat /\ n \in Nat
  BY MemoryIs
<1>4. size = (IF L < n THEN L ELSE n) /\ (d + n <= s \/ s + (IF n < L + 1 THEN n ELSE L + 1) <= d)
  BY DEF Smaller, Apart
<1> HIDE DEF m, d, s, n, L
<1>5. size \in Nat /\ size <= L /\ size <= n
  BY <1>2, <1>3, <1>4
<1>6. z = [p \in DOMAIN m |-> IF p \in d + size .. d + size + (n - size) - 1 THEN NUL ELSE m[p]]
  BY DEF Zeroed, Filled
<1> HIDE DEF z
<1>7. ASSUME NEW p \in DOMAIN m
      PROVE  (IF p \notin d .. d + n - 1 THEN m[p]
              ELSE IF p - d < L THEN m[s + p - d] ELSE NUL)
             = IF p \in d .. d + size - 1 THEN z[s + p - d] ELSE z[p]
  <2>0. p \in Nat
    BY <1>3
  <2>1. CASE p \in d .. d + size - 1
    <3>1. p \in d .. d + n - 1 /\ p - d < L
      BY <2>0, <2>1, <1>2, <1>3, <1>5
    <3>2. s + p - d \in s .. s + (L + 1) - 1
      BY <2>0, <2>1, <1>2, <1>3, <1>5
    <3>3. s + p - d \in DOMAIN m
      BY <3>2, <1>2 DEF Within
    <3>4. ~(s + p - d \in d + size .. d + size + (n - size) - 1)
      BY <2>0, <2>1, <1>2, <1>3, <1>4, <1>5
    <3> QED BY <2>1, <3>1, <3>3, <3>4, <1>6
  <2>2. CASE p \in d + size .. d + n - 1
    <3>1. ~(p - d < L) /\ p \in d .. d + n - 1 /\ ~(p \in d .. d + size - 1)
          /\ p \in d + size .. d + size + (n - size) - 1
      BY <2>0, <2>2, <1>2, <1>3, <1>4, <1>5
    <3> QED BY <3>1, <1>6
  <2>3. CASE ~(p \in d .. d + n - 1)
    <3>1. ~(p \in d .. d + size - 1) /\ ~(p \in d + size .. d + size + (n - size) - 1)
      BY <2>0, <2>3, <1>3, <1>5
    <3> QED BY <3>1, <2>3, <1>6
  <2> QED BY <2>0, <2>1, <2>2, <2>3, <1>3, <1>5
<1>8. DOMAIN z = DOMAIN m
  BY <1>6
<1>9. Copied(z, d, s, size) = [p \in DOMAIN m |-> IF p \in d .. d + size - 1
                                                 THEN z[s + p - d] ELSE z[p]]
  BY <1>8 DEF Copied
<1>10. Meant = Copied(z, d, s, size)
  BY <1>1, <1>7, <1>9
<1> QED BY <1>10 DEF z, m, d, s, n
LEMMA AppendMeans ==
    ASSUME call.fn = "append", IsMemory(call.mem), call.d \in Nat, Ended(call.mem, call.d),
           NEW end, end = call.d + strlen(call.mem, call.d)
    PROVE  Meant = [call.mem EXCEPT ![end] = call.c, ![end + 1] = NUL]
<1> DEFINE m == call.mem
           d == call.d
           c == call.c
           L == strlen(m, d)
           t == Text(m, d)
           w == Append(t, c)
           S == (0 .. 255) \cup {c}
<1>1. Meant = WithText(m, d, w)
  BY DEF Meant
<1>2. L \in Nat /\ Len(t) = L /\ t \in Seq(0 .. 255) /\ \A i \in 1 .. L : t[i] = m[d + i - 1]
  BY TextIs
<1>3. DOMAIN m \subseteq Nat /\ d \in Nat /\ m = [p \in DOMAIN m |-> m[p]]
  BY MemoryIs
<1>4. end = d + L
  OBVIOUS
<1> HIDE DEF m, d, c, L, t
<1>5. t \in Seq(S) /\ c \in S
  BY <1>2, SeqMonotonic
<1> HIDE DEF S
<1>6. Len(w) = L + 1 /\ w[L + 1] = c /\ \A i \in 1 .. L : w[i] = t[i]
  BY <1>2, <1>5, AppendProperties
<1> HIDE DEF w
<1>7. ASSUME NEW p \in DOMAIN m
      PROVE  (IF p \in d .. d + (L + 1) - 1 THEN w[p - d + 1]
              ELSE IF p = d + (L + 1) THEN NUL ELSE m[p])
             = IF p = end + 1 THEN NUL ELSE IF p = end THEN c ELSE m[p]
  <2>0. p \in Nat /\ d \in Nat /\ L \in Nat /\ end \in Nat
    BY <1>2, <1>3, <1>4
  <2>1. CASE p \in d .. d + L - 1
    <3>1. p - d + 1 \in 1 .. L /\ d + (p - d + 1) - 1 = p /\ p # end /\ p # end + 1
          /\ p \in d .. d + (L + 1) - 1
      BY <2>0, <2>1, <1>4
    <3>2. w[p - d + 1] = m[d + (p - d + 1) - 1]
      BY <3>1, <1>2, <1>6
    <3> QED BY <3>1, <3>2
  <2>2. CASE p = end
    <3>1. p - d + 1 = L + 1 /\ p # end + 1 /\ p \in d .. d + (L + 1) - 1
      BY <2>0, <2>2, <1>4
    <3> QED BY <3>1, <2>2, <1>6
  <2>3. CASE p = end + 1
    <3>1. ~(p \in d .. d + (L + 1) - 1) /\ p = d + (L + 1)
      BY <2>0, <2>3, <1>4
    <3> QED BY <3>1, <2>3
  <2>4. CASE ~(p \in d .. d + L - 1) /\ p # end /\ p # end + 1
    <3>1. ~(p \in d .. d + (L + 1) - 1) /\ p # d + (L + 1)
      BY <2>0, <2>4, <1>4
    <3> QED BY <3>1, <2>4
  <2> QED BY <2>1, <2>2, <2>3, <2>4
<1>8. WithText(m, d, w) = [p \in DOMAIN m |->
                              IF p = end + 1 THEN NUL ELSE IF p = end THEN c ELSE m[p]]
  BY <1>6, <1>7 DEF WithText
<1>9. end # end + 1
  BY <1>2, <1>3, <1>4
<1>10. WithText(m, d, w) = [m EXCEPT ![end] = c, ![end + 1] = NUL]
  BY <1>3, <1>8, <1>9
<1> QED BY <1>1, <1>10 DEF m, c

LEMMA BackspaceMeans ==
    ASSUME call.fn = "backspace", IsMemory(call.mem), call.d \in Nat, Ended(call.mem, call.d),
           strlen(call.mem, call.d) > 0,
           NEW last, last = call.d + strlen(call.mem, call.d) - 1
    PROVE  Meant = [call.mem EXCEPT ![last] = NUL]
<1> DEFINE m == call.mem
           d == call.d
           L == strlen(m, d)
           t == Text(m, d)
           w == SubSeq(t, 1, Len(t) - 1)
<1>1. Meant = WithText(m, d, w)
  BY DEF Meant
<1>2. L \in Nat /\ Len(t) = L /\ t \in Seq(0 .. 255) /\ \A i \in 1 .. L : t[i] = m[d + i - 1]
  BY TextIs
<1>3. DOMAIN m \subseteq Nat /\ d \in Nat /\ m = [p \in DOMAIN m |-> m[p]]
  BY MemoryIs
<1>4. last = d + L - 1 /\ L > 0
  OBVIOUS
<1> HIDE DEF m, d, L, t
<1>5. Len(w) = L - 1 /\ \A i \in 1 .. L - 1 : w[i] = m[d + i - 1]
  <2>1. ASSUME NEW i \in 1 .. L - 1 PROVE t[i] \in 0 .. 255
    <3>1. i \in 1 .. Len(t)
      BY <1>2
    <3> QED BY <3>1, <1>2, ElementOfSeq
  <2>2. /\ Len(SubSeq(t, 1, L - 1)) = (IF 1 <= L - 1 THEN (L - 1) - 1 + 1 ELSE 0)
        /\ \A i \in 1 .. (L - 1) - 1 + 1 : SubSeq(t, 1, L - 1)[i] = t[1 + i - 1]
    BY <2>1, <1>2, SubSeqProperties
  <2> QED BY <2>2, <1>2, <1>4
<1> HIDE DEF w
<1>6. ASSUME NEW p \in DOMAIN m
      PROVE  (IF p \in d .. d + (L - 1) - 1 THEN w[p - d + 1]
              ELSE IF p = d + (L - 1) THEN NUL ELSE m[p])
             = IF p = last THEN NUL ELSE m[p]
  <2>0. p \in Nat /\ d \in Nat /\ L \in Nat
    BY <1>2, <1>3
  <2>1. CASE p \in d .. d + (L - 1) - 1
    <3>1. p - d + 1 \in 1 .. L - 1 /\ d + (p - d + 1) - 1 = p /\ p # last
      BY <2>0, <2>1, <1>4
    <3>2. w[p - d + 1] = m[d + (p - d + 1) - 1]
      BY <3>1, <1>5
    <3> QED BY <2>1, <3>1, <3>2
  <2>2. CASE ~(p \in d .. d + (L - 1) - 1)
    BY <2>0, <2>2, <1>4
  <2> QED BY <2>1, <2>2
<1>7. WithText(m, d, w) = [p \in DOMAIN m |-> IF p = last THEN NUL ELSE m[p]]
  BY <1>5, <1>6 DEF WithText
<1>8. WithText(m, d, w) = [m EXCEPT ![last] = NUL]
  BY <1>3, <1>7
<1> QED BY <1>1, <1>8 DEF m
-----------------------------------------------------------------------------
(* The invariant.                                                          *)

\* What a legal call is, function by function.
LEMMA LegalCall ==
    ASSUME call \in Calls
    PROVE  Legal(call)
BY CallsAssumption

\* The step of a call is the function it names.
LEMMA CallRuns ==
    ASSUME pc = "call", call.fn \in StrFns, LibNext
    PROVE  /\ call' = call
           /\ \/ call.fn = "memcpy" /\ memcpy
              \/ call.fn = "memmove" /\ memmove
              \/ call.fn = "memset" /\ memset
              \/ call.fn = "strcpy" /\ strcpy
              \/ call.fn = "strncpy" /\ strncpy
              \/ call.fn = "strcat" /\ strcat
              \/ call.fn = "append" /\ append
              \/ call.fn = "backspace" /\ backspace
              \/ call.fn = "strrev" /\ Strrev
              \/ call.fn \in {"strlen", "strnlen", "strcmp", "strncmp", "memcmp", "strchr"}
                 /\ Looks
<1>1. CASE StrNext
  <2>1. ~(CopyUp \/ CopyDown \/ Fill \/ CopyString \/ CopyCat \/ Swap \/ Return)
    BY DEF CopyUp, CopyDown, Fill, CopyString, CopyCat, Swap, Return, In
  <2>2. CASE memcpy \/ memmove \/ memset \/ strcpy \/ strncpy \/ strcat
    BY <2>2 DEF memcpy, memmove, memset, strcpy, strncpy, strcat, Begins
  <2>3. CASE append \/ backspace \/ Strrev
    BY <2>3 DEF append, backspace, Strrev, Begins
  <2>4. CASE Looks
    BY <2>4 DEF Looks, Answers
  <2> QED BY <1>1, <2>1, <2>2, <2>3, <2>4 DEF StrNext
<1>2. CASE Strtol \/ SkipSpace \/ Prefix \/ ScanDigit \/ ScanEnd
  BY <1>2 DEF Strtol, SkipSpace, Prefix, ScanDigit, ScanEnd, StrFns, Scanners
<1>3. CASE Itoa \/ ItoaDigit
  BY <1>3 DEF Itoa, ItoaDigit, In, StrFns
<1> QED BY <1>1, <1>2, <1>3 DEF LibNext

\* Nothing has been copied yet.
LEMMA NothingYet ==
    ASSUME NEW m, IsMemory(m), NEW d \in Nat, NEW s \in Nat, NEW c, NEW n \in Nat
    PROVE  /\ Copied(m, d, s, 0) = m
           /\ CopiedDown(m, d, s, n, 0) = m
           /\ Filled(m, d, c, 0) = m
           /\ Swapped(m, d, n, 0) = m
<1>1. m = [p \in DOMAIN m |-> m[p]]
  BY MemoryIs
<1>2. \A p : ~(p \in d .. d + 0 - 1) /\ ~(p \in d + n - 0 .. d + n - 1)
  OBVIOUS
<1> QED BY <1>1, <1>2 DEF Copied, CopiedDown, Filled, Swapped

\* The loops begin before their first iteration.
LEMMA InvCall ==
    ASSUME CallInv, pc = "call", call.fn \in StrFns, LibNext
    PROVE  \/ pc' = "run" /\ Progress'
           \/ pc' \in {"run", "done"} /\ loops' = <<>> /\ Right'
<1> DEFINE m == call.mem
           d == call.d
           s == call.s
           n == call.n
<1>0. mem = m /\ loops = <<>> /\ call \in Calls /\ Legal(call)
  BY LegalCall DEF CallInv
<1>1. IsMemory(m) /\ d \in Nat /\ s \in Nat /\ n \in Nat
  BY <1>0 DEF Legal
<1>2. call' = call
  BY CallRuns
<1>3. n - 0 = n /\ d + 0 = d /\ s + 0 = s /\ 0 \in 0 .. n
      /\ d + n - 1 - 0 = d + n - 1 /\ s + n - 1 - 0 = s + n - 1
  BY <1>1
<1>4. CASE call.fn = "memcpy" /\ memcpy
  <2>1. loops' = <<Loop("up", d, s, n)>> /\ mem' = m /\ pc' = "run"
    BY <1>4, <1>0 DEF memcpy, Begins
  <2>2. Upwards(d, s, n)
    BY <1>4, <1>0, <1>1 DEF Legal, Apart, Upwards
  <2>3. loops' = <<Loop("up", d + 0, s + 0, n - 0)>> /\ mem' = Copied(m, d, s, 0)
    BY <1>1, <1>3, <2>1, NothingYet
  <2>4. Up(m, d, s, n)'
    BY <1>2, <1>3, <2>3 DEF Up
  <2> QED BY <1>2, <1>4, <2>1, <2>2, <2>4 DEF Progress
<1>5. CASE call.fn = "memmove" /\ memmove
  <2>1. CASE d < s
    <3>1. loops' = <<Loop("up", d, s, n)>> /\ mem' = m /\ pc' = "run"
      BY <1>5, <1>0, <2>1 DEF memmove, Begins
    <3>2. Upwards(d, s, n)
      BY <2>1, <1>1 DEF Upwards
    <3>3. loops' = <<Loop("up", d + 0, s + 0, n - 0)>> /\ mem' = Copied(m, d, s, 0)
      BY <1>1, <1>3, <3>1, NothingYet
    <3>4. Up(m, d, s, n)'
      BY <1>2, <1>3, <3>3 DEF Up
    <3> QED BY <1>2, <1>5, <3>1, <3>2, <3>4 DEF Progress
  <2>2. CASE ~(d < s)
    <3>1. loops' = <<Loop("down", d + n - 1, s + n - 1, n)>> /\ mem' = m /\ pc' = "run"
      BY <1>5, <1>0, <2>2 DEF memmove, Begins
    <3>2. s <= d
      BY <2>2, <1>1
    <3>3. loops' = <<Loop("down", d + n - 1 - 0, s + n - 1 - 0, n - 0)>>
          /\ mem' = CopiedDown(m, d, s, n, 0)
      BY <1>1, <1>3, <3>1, NothingYet
    <3>4. Down(m, d, s, n)'
      BY <1>2, <1>3, <3>3 DEF Down
    <3> QED BY <1>2, <1>5, <3>1, <3>2, <3>4 DEF Progress
  <2> QED BY <2>1, <2>2
<1>6. CASE call.fn = "memset" /\ memset
  <2>1. loops' = <<Loop("fill", d, call.c, n)>> /\ mem' = m /\ pc' = "run"
    BY <1>6, <1>0 DEF memset, Begins
  <2>2. loops' = <<Loop("fill", d + 0, call.c, n - 0)>> /\ mem' = Filled(m, d, call.c, 0)
    BY <1>1, <1>3, <2>1, NothingYet
  <2>3. Filling(m, d, call.c, n)'
    BY <1>2, <1>3, <2>2 DEF Filling
  <2> QED BY <1>2, <1>6, <2>1, <2>3 DEF Progress
<1>7. CASE call.fn = "strcpy" /\ strcpy
  <2> DEFINE L == strlen(m, s)
  <2>1. loops' = <<Loop("string", d, s, 0)>> /\ mem' = m /\ pc' = "run"
    BY <1>7, <1>0 DEF strcpy, Begins
  <2>2. L \in Nat
    BY <1>0, <1>1, <1>7, TextIs DEF Legal
  <2> HIDE DEF L
  <2>3. loops' = <<Loop("string", d + 0, s + 0, 0)>> /\ 0 \in 0 .. L
    BY <1>3, <2>1, <2>2
  <2>4. mem' = Copied(m, d, s, 0)
    BY <1>1, <2>1, NothingYet
  <2>5. Texting(m, d, s, L)'
    BY <1>2, <2>3, <2>4 DEF Texting, L
  <2> QED BY <1>2, <1>7, <2>1, <2>5 DEF Progress, L
<1>8. CASE call.fn = "strcat" /\ strcat
  <2> DEFINE L == strlen(m, s)
             K == d + strlen(m, d)
  <2>1. loops' = <<Loop("cat", K, s, 0)>> /\ mem' = m /\ pc' = "run"
    BY <1>8, <1>0 DEF strcat, Begins
  <2>2. L \in Nat /\ K \in Nat
    <3>1. Ended(m, s) /\ Ended(m, d)
      BY <1>0, <1>8 DEF Legal
    <3> QED BY <1>1, <3>1, TextIs
  <2> HIDE DEF L, K
  <2>3. loops' = <<Loop("cat", K + 0, s + 0, 0)>> /\ mem' = Copied(m, K, s, 0) /\ 0 \in 0 .. L
    BY <1>1, <1>3, <2>1, <2>2, NothingYet
  <2>4. Adding(m, K, s, L)'
    BY <1>2, <2>3 DEF Adding, L, K
  <2> QED BY <1>2, <1>8, <2>1, <2>4 DEF Progress, L, K
<1>9. CASE call.fn = "strrev" /\ Strrev
  <2> DEFINE L == strlen(m, d)
  <2>1. loops' = <<Loop("swap", d, d + L - 1, L)>> /\ mem' = m /\ pc' = "run"
    BY <1>9, <1>0 DEF Strrev, Begins, strrev
  <2>2. L \in Nat
    BY <1>0, <1>1, <1>9, TextIs DEF Legal
  <2> HIDE DEF L
  <2>3. /\ loops' = <<Loop("swap", d + 0, d + L - 1 - 0, L - 0)>>
        /\ 0 \in 0 .. L /\ 2 * 0 <= L
    <3>1. d + 0 = d /\ d + L - 1 - 0 = d + L - 1 /\ L - 0 = L
      BY <1>1, <2>2
    <3> QED BY <3>1, <2>1, <2>2
  <2>4. mem' = Swapped(m, d, L, 0)
    BY <1>1, <2>1, <2>2, NothingYet
  <2>5. Swapping(m, d, L)'
    BY <1>2, <2>3, <2>4 DEF Swapping, L
  <2> QED BY <1>2, <1>9, <2>1, <2>5 DEF Progress, L
<1>10. CASE call.fn = "strncpy" /\ strncpy
  <2> DEFINE L == strlen(m, s)
             size == Smaller(L, n)
             then == Loop("up", d, s, size)
  <2>1. Ended(m, s)
    BY <1>0, <1>10 DEF Legal
  <2>2. L \in Nat /\ strnlen(m, s, n) = size
    BY <2>1, <1>1, TextIs, LimitedLengthIs
  <2>3. size \in Nat /\ size <= n
    BY <2>2, <1>1 DEF Smaller
  <2>4. /\ loops' = (IF size # n THEN <<Loop("fill", d + size, NUL, n - size)>> ELSE <<>>)
                    \o <<then>>
        /\ mem' = m /\ pc' = "run"
    BY <1>10, <1>0, <2>2 DEF strncpy, Begins
  <2> HIDE DEF L, size
  <2>5. CASE size # n
    <3>1. loops' = <<Loop("fill", d + size, NUL, n - size), then>>
      BY <2>4, <2>5, Pairs
    <3>2. d + size \in Nat /\ n - size \in Nat /\ d + size + 0 = d + size
          /\ n - size - 0 = n - size /\ 0 \in 0 .. n - size
      BY <2>3, <1>1
    <3>3. /\ loops' = <<Loop("fill", d + size + 0, NUL, n - size - 0), then>>
          /\ mem' = Filled(m, d + size, NUL, 0)
      BY <3>1, <3>2, <2>4, <1>1, NothingYet
    <3>4. FillingFirst(m, d + size, NUL, n - size, then)'
      BY <3>2, <3>3, <1>2 DEF FillingFirst, size, L
    <3> QED BY <3>4, <2>4, <1>2, <1>10 DEF Progress, size, L
  <2>6. CASE size = n
    <3>1. loops' = <<then>>
      BY <2>4, <2>6
    <3>2. n - size = 0 /\ d + size \in Nat /\ size - 0 = size /\ 0 \in 0 .. size
      BY <2>3, <2>6, <1>1
    <3>3. Zeroed(m, d, size, n) = m
      BY <3>2, <1>1, NothingYet DEF Zeroed
    <3>4. loops' = <<Loop("up", d + 0, s + 0, size - 0)>>
          /\ mem' = Copied(Zeroed(m, d, size, n), d, s, 0)
      BY <3>1, <3>2, <3>3, <2>4, <1>1, <1>3, NothingYet
    <3>5. Up(Zeroed(m, d, size, n), d, s, size)'
      BY <3>2, <3>4, <1>2 DEF Up, size, L
    <3> QED BY <3>5, <2>4, <1>2, <1>10 DEF Progress, size, L
  <2> QED BY <2>5, <2>6
<1>11. CASE call.fn = "append" /\ append
  <2>1. Ended(m, d)
    BY <1>0, <1>11 DEF Legal
  <2>2. /\ mem' = [m EXCEPT ![d + strlen(m, d)] = call.c, ![d + strlen(m, d) + 1] = NUL]
        /\ loops' = <<>> /\ pc' = "run"
    BY <1>11, <1>0 DEF append, Begins
  <2>3. mem' = Meant
    BY <2>1, <2>2, <1>1, <1>11, AppendMeans
  <2>4. Meant' = Meant
    BY <1>2 DEF Meant
  <2> QED BY <2>2, <2>3, <2>4 DEF Right
<1>12. CASE call.fn = "backspace" /\ backspace
  <2>1. Ended(m, d) /\ strlen(m, d) > 0
    BY <1>0, <1>12 DEF Legal
  <2>2. mem' = [m EXCEPT ![d + strlen(m, d) - 1] = NUL] /\ loops' = <<>> /\ pc' = "run"
    BY <1>12, <1>0 DEF backspace, Begins
  <2>3. mem' = Meant
    BY <2>1, <2>2, <1>1, <1>12, BackspaceMeans
  <2>4. Meant' = Meant
    BY <1>2 DEF Meant
  <2> QED BY <2>2, <2>3, <2>4 DEF Right
<1>13. CASE call.fn \in {"strlen", "strnlen", "strcmp", "strncmp", "memcmp", "strchr"} /\ Looks
  <2>1. mem' = m /\ loops' = <<>> /\ pc' = "done"
    BY <1>13, <1>0 DEF Looks, Answers
  <2>2. Meant' = m
    BY <1>13, <1>2, LookMeans DEF Meant
  <2> QED BY <2>1, <2>2 DEF Right
<1> QED BY CallRuns, <1>4, <1>5, <1>6, <1>7, <1>8, <1>9, <1>10, <1>11, <1>12, <1>13
LEMMA ProgressLoops ==
    ASSUME Progress
    PROVE  loops # <<>> /\ loop.kind \in Kinds
<1>1. ASSUME NEW x, NEW y, loops = <<x>> \/ loops = <<x, y>> PROVE loops # <<>> /\ loop = x
  BY <1>1 DEF loop
<1>2. ASSUME NEW kind \in Kinds, NEW d, NEW s, NEW n, NEW y,
             loops = <<Loop(kind, d, s, n)>> \/ loops = <<Loop(kind, d, s, n), y>>
      PROVE  loops # <<>> /\ loop.kind \in Kinds
  <2>1. loops # <<>> /\ loop = Loop(kind, d, s, n)
    BY <1>1, <1>2
  <2> QED BY <2>1, LoopIs
<1>3. ASSUME NEW b, NEW d, NEW s, NEW n, Up(b, d, s, n) \/ Down(b, d, s, n)
      PROVE  loops # <<>> /\ loop.kind \in Kinds
  BY <1>2, <1>3 DEF Up, Down, Kinds
<1>4. ASSUME NEW b, NEW d, NEW s, NEW n, Texting(b, d, s, n) \/ Adding(b, d, s, n)
      PROVE  loops # <<>> /\ loop.kind \in Kinds
  BY <1>2, <1>4 DEF Texting, Adding, Kinds
<1>5. ASSUME NEW b, NEW d, NEW n, Swapping(b, d, n)
      PROVE  loops # <<>> /\ loop.kind \in Kinds
  BY <1>2, <1>5 DEF Swapping, Kinds
<1>6. ASSUME NEW b, NEW d, NEW c, NEW n, NEW y, Filling(b, d, c, n) \/ FillingFirst(b, d, c, n, y)
      PROVE  loops # <<>> /\ loop.kind \in Kinds
  BY <1>2, <1>6 DEF Filling, FillingFirst, Kinds
<1> QED BY <1>3, <1>4, <1>5, <1>6 DEF Progress

\* A loop goes on, and when the last one has ended memory is as meant.
LEMMA InvRun ==
    ASSUME CallInv, pc = "run", Progress, LibNext
    PROVE  /\ call' = call /\ pc' = "run"
           /\ Progress' \/ (loops' = <<>> /\ Right')
<1> DEFINE m == call.mem
           d == call.d
           s == call.s
           n == call.n
           L == strlen(m, s)
           K == strlen(m, d)
           size == Smaller(L, n)
           then == Loop("up", d, s, size)
           z == Zeroed(m, d, size, n)
<1>0. call \in Calls /\ Legal(call)
  BY LegalCall DEF CallInv
<1>1. IsMemory(m) /\ d \in Nat /\ s \in Nat /\ n \in Nat
  BY <1>0 DEF Legal
<1>2. call' = call /\ pc' = "run"
  BY ProgressLoops, LoopRuns
<1>3. Meant' = Meant /\ Cleared' = Cleared
  BY <1>2 DEF Meant, Cleared
<1>4. CASE call.fn \in {"memcpy", "memmove"} /\ Upwards(d, s, n) /\ Up(m, d, s, n)
  <2>1. Within(m, d, n) /\ Within(m, s, n)
    BY <1>0, <1>4 DEF Legal
  <2>2. \/ \E k \in 0 .. n : /\ loops' = <<Loop("up", d + k, s + k, n - k)>>
                             /\ mem' = Copied(m, d, s, k)
        \/ loops' = <<>> /\ mem' = Copied(m, d, s, n)
    BY <1>1, <1>4, <2>1, UpRuns
  <2>3. Meant = Copied(m, d, s, n)
    BY <1>1, <1>4, MoveMeans
  <2>4. CASE loops' = <<>> /\ mem' = Copied(m, d, s, n)
    BY <2>3, <2>4, <1>2, <1>3 DEF Right
  <2>5. CASE \E k \in 0 .. n : /\ loops' = <<Loop("up", d + k, s + k, n - k)>>
                               /\ mem' = Copied(m, d, s, k)
    <3>1. Up(m, d, s, n)'
      BY <1>2, <2>5 DEF Up
    <3> QED BY <3>1, <1>2, <1>4 DEF Progress
  <2> QED BY <2>2, <2>4, <2>5, <1>2
<1>5. CASE call.fn = "memmove" /\ s <= d /\ Down(m, d, s, n)
  <2>1. Within(m, d, n) /\ Within(m, s, n)
    BY <1>0, <1>5 DEF Legal
  <2>2. \/ \E k \in 0 .. n :
              /\ loops' = <<Loop("down", d + n - 1 - k, s + n - 1 - k, n - k)>>
              /\ mem' = CopiedDown(m, d, s, n, k)
        \/ loops' = <<>> /\ mem' = CopiedDown(m, d, s, n, n)
    BY <1>1, <1>5, <2>1, DownRuns
  <2>3. Meant = CopiedDown(m, d, s, n, n)
    BY <1>1, <1>5, MoveMeans
  <2>4. CASE loops' = <<>> /\ mem' = CopiedDown(m, d, s, n, n)
    BY <2>3, <2>4, <1>2, <1>3 DEF Right
  <2>5. CASE \E k \in 0 .. n :
              /\ loops' = <<Loop("down", d + n - 1 - k, s + n - 1 - k, n - k)>>
              /\ mem' = CopiedDown(m, d, s, n, k)
    <3>1. Down(m, d, s, n)'
      BY <1>2, <2>5 DEF Down
    <3> QED BY <3>1, <1>2, <1>5 DEF Progress
  <2> QED BY <2>2, <2>4, <2>5, <1>2
<1>6. CASE call.fn = "memset" /\ Filling(m, d, call.c, n)
  <2>1. Within(m, d, n)
    BY <1>0, <1>6 DEF Legal
  <2>2. \/ \E k \in 0 .. n : /\ loops' = <<Loop("fill", d + k, call.c, n - k)>>
                             /\ mem' = Filled(m, d, call.c, k)
        \/ loops' = <<>> /\ mem' = Filled(m, d, call.c, n)
    BY <1>1, <1>6, <2>1, FillRuns
  <2>3. Meant = Filled(m, d, call.c, n)
    BY <1>6, SetMeans
  <2>4. CASE loops' = <<>> /\ mem' = Filled(m, d, call.c, n)
    BY <2>3, <2>4, <1>2, <1>3 DEF Right
  <2>5. CASE \E k \in 0 .. n : /\ loops' = <<Loop("fill", d + k, call.c, n - k)>>
                               /\ mem' = Filled(m, d, call.c, k)
    <3>1. Filling(m, d, call.c, n)'
      BY <1>2, <2>5 DEF Filling
    <3> QED BY <3>1, <1>2, <1>6 DEF Progress
  <2> QED BY <2>2, <2>4, <2>5, <1>2
<1>7. CASE call.fn = "strcpy" /\ Texting(m, d, s, L)
  <2>1. Ended(m, s) /\ Within(m, d, L + 1) /\ Apart(d, L + 1, s, L + 1)
    BY <1>0, <1>7 DEF Legal
  <2>2. L \in Nat /\ TextAt(m, s, L)
    BY <1>1, <2>1, TextIs
  <2>3. Meant = Copied(m, d, s, L + 1)
    BY <1>1, <1>7, <2>1, CopyMeans
  <2> HIDE DEF L
  <2>4. Upwards(d, s, L + 1)
    BY <1>1, <2>1, <2>2 DEF Apart, Upwards
  <2>5. Texting(m, d, s, L)
    BY <1>7 DEF L
  <2>6. \/ \E k \in 0 .. L : /\ loops' = <<Loop("string", d + k, s + k, 0)>>
                             /\ mem' = Copied(m, d, s, k)
        \/ loops' = <<>> /\ mem' = Copied(m, d, s, L + 1)
    BY <1>1, <2>1, <2>2, <2>4, <2>5, TextRuns
  <2>7. CASE loops' = <<>> /\ mem' = Copied(m, d, s, L + 1)
    BY <2>3, <2>7, <1>2, <1>3 DEF Right
  <2>8. CASE \E k \in 0 .. L : /\ loops' = <<Loop("string", d + k, s + k, 0)>>
                               /\ mem' = Copied(m, d, s, k)
    <3>1. Texting(m, d, s, L)'
      BY <1>2, <2>8 DEF Texting, L
    <3> QED BY <3>1, <1>2, <1>7 DEF Progress, L
  <2> QED BY <2>6, <2>7, <2>8, <1>2
<1>8. CASE call.fn = "strcat" /\ Adding(m, d + K, s, L)
  <2> DEFINE e == d + K
  <2>1. Ended(m, s) /\ Ended(m, d) /\ Within(m, d, K + L + 1) /\ Apart(d, K + L + 1, s, L + 1)
    BY <1>0, <1>8 DEF Legal
  <2>2. L \in Nat /\ TextAt(m, s, L) /\ K \in Nat /\ e \in Nat
    BY <1>1, <2>1, TextIs
  <2>3. Cleared => Meant = Copied(m, e, s, L)
    BY <1>1, <1>8, <2>1, CatMeans
  <2>4. Adding(m, e, s, L)
    BY <1>8
  <2> HIDE DEF L, K
  <2>5. Within(m, e, L + 1) /\ Upwards(e, s, L + 1)
    BY <1>1, <2>1, <2>2 DEF Apart, Upwards, Within
  <2> HIDE DEF e
  <2>6. \/ \E k \in 0 .. L : /\ loops' = <<Loop("cat", e + k, s + k, 0)>>
                             /\ mem' = Copied(m, e, s, k)
        \/ loops' = <<>> /\ mem' = Copied(m, e, s, L)
    BY <1>1, <2>2, <2>4, <2>5, AddRuns
  <2>7. CASE loops' = <<>> /\ mem' = Copied(m, e, s, L)
    BY <2>3, <2>7, <1>2, <1>3 DEF Right
  <2>8. CASE \E k \in 0 .. L : /\ loops' = <<Loop("cat", e + k, s + k, 0)>>
                               /\ mem' = Copied(m, e, s, k)
    <3>1. Adding(m, e, s, L)'
      BY <1>2, <2>8 DEF Adding, L, K, e
    <3> QED BY <3>1, <1>2, <1>8 DEF Progress, L, K, e
  <2> QED BY <2>6, <2>7, <2>8, <1>2
<1>9. CASE call.fn = "strrev" /\ Swapping(m, d, K)
  <2>1. Ended(m, d)
    BY <1>0, <1>9 DEF Legal
  <2>2. K \in Nat /\ TextAt(m, d, K)
    BY <1>1, <2>1, TextIs
  <2>3. \A k \in 0 .. K : 2 * k \in {K - 1, K} => Meant = Swapped(m, d, K, k)
    BY <1>1, <1>9, <2>1, ReverseMeans
  <2>4. Swapping(m, d, K)
    BY <1>9
  <2> HIDE DEF K
  <2>5. Within(m, d, K)
    BY <1>1, <2>2 DEF TextAt, Within
  <2>6. \/ \E k \in 0 .. K :
              /\ 2 * k <= K
              /\ loops' = <<Loop("swap", d + k, d + K - 1 - k, K - k)>>
              /\ mem' = Swapped(m, d, K, k)
        \/ /\ loops' = <<>>
           /\ \E k \in 0 .. K : 2 * k \in {K - 1, K} /\ mem' = Swapped(m, d, K, k)
    BY <1>1, <2>2, <2>4, <2>5, SwapRuns
  <2>7. CASE /\ loops' = <<>>
             /\ \E k \in 0 .. K : 2 * k \in {K - 1, K} /\ mem' = Swapped(m, d, K, k)
    BY <2>3, <2>7, <1>2, <1>3 DEF Right
  <2>8. CASE \E k \in 0 .. K :
              /\ 2 * k <= K
              /\ loops' = <<Loop("swap", d + k, d + K - 1 - k, K - k)>>
              /\ mem' = Swapped(m, d, K, k)
    <3>1. Swapping(m, d, K)'
      BY <1>2, <2>8 DEF Swapping, K
    <3> QED BY <3>1, <1>2, <1>9 DEF Progress, K
  <2> QED BY <2>6, <2>7, <2>8, <1>2
<1>10. CASE call.fn = "strncpy"
            /\ (FillingFirst(m, d + size, NUL, n - size, then) \/ Up(z, d, s, size))
  <2>1. Ended(m, s) /\ Within(m, d, n) /\ Apart(d, n, s, Smaller(n, L + 1))
    BY <1>0, <1>10 DEF Legal
  <2>2. L \in Nat /\ TextAt(m, s, L)
    BY <1>1, <2>1, TextIs
  <2>3. Meant = Copied(z, d, s, size)
    BY <1>1, <1>10, <2>1, CopyLimitedMeans
  <2>4. size \in Nat /\ n - size \in Nat /\ d + size \in Nat
    BY <1>1, <2>2 DEF Smaller
  <2>5. CASE FillingFirst(m, d + size, NUL, n - size, then)
    <3>1. Within(m, d + size, n - size)
      BY <1>1, <2>1, <2>4 DEF Within
    <3> HIDE DEF size, then
    <3>2. \/ \E k \in 0 .. n - size :
                /\ loops' = <<Loop("fill", d + size + k, NUL, n - size - k), then>>
                /\ mem' = Filled(m, d + size, NUL, k)
          \/ loops' = <<then>> /\ mem' = Filled(m, d + size, NUL, n - size)
      BY <1>1, <2>4, <2>5, <3>1, FillRunsFirst
    <3>3. CASE \E k \in 0 .. n - size :
                /\ loops' = <<Loop("fill", d + size + k, NUL, n - size - k), then>>
                /\ mem' = Filled(m, d + size, NUL, k)
      <4>1. FillingFirst(m, d + size, NUL, n - size, then)'
        BY <1>2, <3>3 DEF FillingFirst, size, then
      <4> QED BY <4>1, <1>2, <1>10 DEF Progress, size, then
    <3>4. CASE loops' = <<then>> /\ mem' = Filled(m, d + size, NUL, n - size)
      <4>1. mem' = z
        BY <3>4 DEF Zeroed
      <4>2. z = [p \in DOMAIN z |-> z[p]]
        BY DEF Zeroed, Filled
      <4>3. \A p : ~(p \in d .. d + 0 - 1)
        BY <1>1
      <4>4. Copied(z, d, s, 0) = z
        BY <4>2, <4>3 DEF Copied
      <4>5. loops' = <<Loop("up", d + 0, s + 0, size - 0)>> /\ 0 \in 0 .. size
        BY <3>4, <1>1, <2>4 DEF then
      <4>6. Up(z, d, s, size)'
        BY <4>1, <4>4, <4>5, <1>2 DEF Up, size
      <4> QED BY <4>6, <1>2, <1>10 DEF Progress, size
    <3> QED BY <3>2, <3>3, <3>4, <1>2
  <2>6. CASE Up(z, d, s, size)
    <3>1. DOMAIN z = DOMAIN m
      BY DEF Zeroed, Filled
    <3>2. Within(z, d, size) /\ Within(z, s, size)
      <4>1. size <= L /\ size <= n
        BY <1>1, <2>2 DEF Smaller
      <4> HIDE DEF z, size, L
      <4>2. d .. d + size - 1 \subseteq d .. d + n - 1
            /\ s .. s + size - 1 \subseteq s .. s + (L + 1) - 1
        BY <4>1, <1>1, <2>2, <2>4
      <4> QED BY <4>2, <3>1, <2>1, <2>2 DEF Within, TextAt
    <3>3. Upwards(d, s, size)
      BY <1>1, <2>1, <2>2 DEF Apart, Upwards, Smaller
    <3> HIDE DEF size, z
    <3>4. \/ \E k \in 0 .. size : /\ loops' = <<Loop("up", d + k, s + k, size - k)>>
                                  /\ mem' = Copied(z, d, s, k)
          \/ loops' = <<>> /\ mem' = Copied(z, d, s, size)
      BY <1>1, <2>4, <2>6, <3>2, <3>3, UpRuns
    <3>5. CASE loops' = <<>> /\ mem' = Copied(z, d, s, size)
      BY <2>3, <3>5, <1>2, <1>3 DEF Right
    <3>6. CASE \E k \in 0 .. size : /\ loops' = <<Loop("up", d + k, s + k, size - k)>>
                                    /\ mem' = Copied(z, d, s, k)
      <4>1. Up(z, d, s, size)'
        BY <1>2, <3>6 DEF Up, size, z
      <4> QED BY <4>1, <1>2, <1>10 DEF Progress, size, z
    <3> QED BY <3>4, <3>5, <3>6, <1>2
  <2> QED BY <1>10, <2>5, <2>6
<1> QED BY <1>4, <1>5, <1>6, <1>7, <1>8, <1>9, <1>10 DEF Progress
LEMMA MemoryInit == LibcInit => MemoryInv
<1> SUFFICES ASSUME LibcInit PROVE MemoryInv
  OBVIOUS
<1>1. CASE DivInit /\ LibIdle
  BY <1>1 DEF LibIdle, MemoryInv
<1>2. CASE LibInit /\ DivIdle
  BY <1>2 DEF LibInit, StrInit, MemoryInv, CallInv
<1> QED BY <1>1, <1>2 DEF LibcInit

LEMMA CallKept ==
    ASSUME LibNext
    PROVE  call' = call /\ pc # "idle"
<1>1. CASE StrNext
  <2>1. CASE memcpy \/ memmove \/ memset \/ strcpy \/ strncpy \/ strcat
             \/ append \/ backspace \/ Strrev \/ Looks
    BY <2>1 DEF memcpy, memmove, memset, strcpy, strncpy, strcat, append, backspace, Strrev,
                Begins, Looks, Answers
  <2>2. CASE CopyUp \/ CopyDown \/ Fill \/ CopyString \/ CopyCat \/ Swap \/ Return
    BY <2>2 DEF CopyUp, CopyDown, Fill, CopyString, CopyCat, Swap, Return, In
  <2> QED BY <1>1, <2>1, <2>2 DEF StrNext
<1>2. CASE Strtol \/ SkipSpace \/ Prefix \/ ScanDigit \/ ScanEnd
  BY <1>2 DEF Strtol, SkipSpace, Prefix, ScanDigit, ScanEnd, strVars
<1>3. CASE Itoa \/ ItoaDigit
  BY <1>3 DEF Itoa, ItoaDigit, In
<1> QED BY <1>1, <1>2, <1>3 DEF LibNext

\* A call that has no loop left returns, and one that has returned is over.
LEMMA InvReturn ==
    ASSUME CallInv, pc \in {"run", "done"}, loops = <<>>, Right, call.fn \in StrFns, LibNext
    PROVE  pc' = "done" /\ loops' = <<>> /\ Right'
<1>1. CASE StrNext
  <2>1. ~(memcpy \/ memmove \/ memset \/ strcpy \/ strncpy \/ strcat
          \/ append \/ backspace \/ Strrev \/ Looks)
    BY DEF memcpy, memmove, memset, strcpy, strncpy, strcat, append, backspace, Strrev,
           Begins, Looks, Answers
  <2>2. ~(CopyUp \/ CopyDown \/ Fill \/ CopyString \/ CopyCat \/ Swap)
    BY DEF CopyUp, CopyDown, Fill, CopyString, CopyCat, Swap, In
  <2>3. Return
    BY <1>1, <2>1, <2>2 DEF StrNext
  <2>4. Meant' = Meant /\ Cleared' = Cleared
    BY <2>3 DEF Return, Meant, Cleared
  <2> QED BY <2>3, <2>4 DEF Return, Right
<1>2. CASE Strtol \/ SkipSpace \/ Prefix \/ ScanDigit \/ ScanEnd
  BY <1>2 DEF Strtol, SkipSpace, Prefix, ScanDigit, ScanEnd
<1>3. CASE Itoa \/ ItoaDigit
  BY <1>3 DEF Itoa, ItoaDigit, In
<1> QED BY <1>1, <1>2, <1>3 DEF LibNext

LEMMA MemoryNext == MemoryInv /\ [LibcNext]_libcVars => MemoryInv'
<1> SUFFICES ASSUME MemoryInv, [LibcNext]_libcVars PROVE MemoryInv'
  OBVIOUS
<1>1. CASE UNCHANGED libVars
  <2>1. call' = call /\ mem' = mem /\ loops' = loops /\ pc' = pc
    BY <1>1 DEF libVars, strVars
  <2>2. Progress' <=> Progress
    BY <2>1 DEF Progress, Up, Down, Filling, FillingFirst, Texting, Adding, Swapping
  <2>3. Right' <=> Right
    BY <2>1 DEF Right, Meant, Cleared
  <2> QED BY <2>1, <2>2, <2>3 DEF MemoryInv, CallInv
<1>2. CASE LibNext
  <2>1. call' = call /\ CallInv
    BY <1>2, CallKept DEF MemoryInv
  <2>2. CASE call.fn \notin StrFns
    BY <2>1, <2>2 DEF MemoryInv, CallInv
  <2>3. CASE call.fn \in StrFns /\ pc = "call"
    BY <1>2, <2>1, <2>3, InvCall DEF MemoryInv, CallInv
  <2>4. CASE call.fn \in StrFns /\ pc = "run" /\ Progress
    BY <1>2, <2>1, <2>4, InvRun DEF MemoryInv, CallInv
  <2>5. CASE call.fn \in StrFns /\ pc \in {"run", "done"} /\ loops = <<>> /\ Right
    BY <1>2, <2>1, <2>5, InvReturn DEF MemoryInv, CallInv
  <2> QED BY <2>1, <2>2, <2>3, <2>4, <2>5 DEF CallInv
<1> QED BY <1>1, <1>2 DEF LibcNext, libcVars

\* For every memory and every legal call, the loops of memcpy, memmove, memset,
\* strcpy, strncpy, strcat and strrev change byte after byte what they are to
\* change, and have not overwritten what they are yet to read.
THEOREM LoopsProgress == LibcSpec => []MemoryInv
<1> QED BY MemoryInit, MemoryNext, PTL DEF LibcSpec

\* When a function of string.c has returned, memory is what the C standard says
\* of it, and unchanged everywhere else: in a memory of any size, for areas and
\* texts of any length, overlapping if it is memmove, and words of any size.
THEOREM MemoryRight == LibcSpec => []MemoryIsMeant
<1>1. MemoryInv => MemoryIsMeant
  BY DEF MemoryInv, CallInv, MemoryIsMeant, Right
<1> QED BY <1>1, LoopsProgress, PTL
-----------------------------------------------------------------------------
(* The length of a text that may be longer than asked for.                 *)

LengthInv ==
    \/ pc = "idle"
    \/ /\ call \in Calls
       /\ call.fn = "strnlen" =>
            \/ pc = "call" /\ mem = call.mem
            \/ pc = "done" /\ ret = Smaller(strlen(call.mem, call.s), call.n)

\* A call that has returned takes no step.
LEMMA NothingBehind == pc = "done" => ~LibNext
<1> SUFFICES ASSUME pc = "done", LibNext PROVE FALSE
  OBVIOUS
<1>1. CASE StrNext
  BY <1>1 DEF StrNext, memcpy, memmove, memset, strcpy, strncpy, strcat, append, backspace,
     Strrev, Looks, Begins, Answers, Return, CopyUp, CopyDown, Fill, CopyString, CopyCat,
     Swap, In
<1>2. CASE Strtol \/ SkipSpace \/ Prefix \/ ScanDigit \/ ScanEnd
  BY <1>2 DEF Strtol, SkipSpace, Prefix, ScanDigit, ScanEnd
<1>3. CASE Itoa \/ ItoaDigit
  BY <1>3 DEF Itoa, ItoaDigit, In
<1> QED BY <1>1, <1>2, <1>3 DEF LibNext

LEMMA LengthNext == LengthInv /\ [LibcNext]_libcVars => LengthInv'
<1> SUFFICES ASSUME LengthInv, [LibcNext]_libcVars PROVE LengthInv'
  OBVIOUS
<1>1. CASE UNCHANGED libVars
  BY <1>1 DEF libVars, strVars, LengthInv
<1>2. CASE LibNext
  <2>1. call' = call /\ pc # "idle" /\ call \in Calls
    BY <1>2, CallKept DEF LengthInv
  <2>2. CASE call.fn # "strnlen"
    BY <2>1, <2>2 DEF LengthInv
  <2>3. CASE call.fn = "strnlen" /\ pc = "call" /\ mem = call.mem
    <3>1. call.fn \in StrFns
      BY <2>3 DEF StrFns
    <3>2. Looks
      BY <1>2, <2>3, <3>1, CallRuns
    <3>3. ret' = strnlen(call.mem, call.s, call.n) /\ pc' = "done"
      BY <2>3, <3>2 DEF Looks, Answers
    <3>4. IsMemory(call.mem) /\ call.s \in Nat /\ call.n \in Nat /\ Ended(call.mem, call.s)
      BY <2>1, <2>3, LegalCall DEF Legal
    <3> QED BY <2>1, <3>3, <3>4, LimitedLengthIs DEF LengthInv
  <2>4. CASE call.fn = "strnlen" /\ pc = "done"
    BY <1>2, <2>4, NothingBehind
  <2> QED BY <2>1, <2>2, <2>3, <2>4 DEF LengthInv
<1> QED BY <1>1, <1>2 DEF LibcNext, libcVars

\* strnlen, which reads whole words, of any size, from any place in a word on,
\* answers the length of the text or the limit, whichever is smaller.
THEOREM LimitedLength == LibcSpec => []LengthIsMeant
<1>1. LibcInit => LengthInv
  BY DEF LibcInit, LibInit, StrInit, LibIdle, LengthInv
<1>2. LengthInv => LengthIsMeant
  BY DEF LengthInv, LengthIsMeant
<1> QED BY <1>1, <1>2, LengthNext, PTL DEF LibcSpec
=============================================================================
