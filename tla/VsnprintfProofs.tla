-------------------------- MODULE VsnprintfProofs --------------------------
(***************************************************************************)
(* Proofs about the formatter, for every list of items, every order of     *)
(* their flags, every buffer and every argument (an int for a width or a   *)
(* precision, a string for %s).                                            *)
(*                                                                         *)
(* A call's format is the texts of its items, one behind the other, and    *)
(* its arguments are theirs.  The scanner is always at the beginning of an *)
(* item or at a known place in one (AtItem), with the arguments of all     *)
(* before it taken: so it takes what the directives name, its widths and   *)
(* precisions are those of an int, and what it puts out is a text, of      *)
(* which the buffer holds what fits (ContractInv).                         *)
(***************************************************************************)
EXTENDS Vsnprintf, WellFoundedInduction, TLAPS

-----------------------------------------------------------------------------
(* A set of natural numbers has a least one.                               *)

LEMMA NatOrder == IsWellFoundedOn({p \in Nat \X Nat : p[1] < p[2]}, Nat)
<1>1. OpToRel(<, Nat) = {p \in Nat \X Nat : p[1] < p[2]}
  BY DEF OpToRel
<1> QED BY <1>1, NatLessThanWellFounded

LEMMA LeastNat ==
    ASSUME NEW T, T \subseteq Nat, T # {}
    PROVE  \E x \in T : \A y \in T : x <= y
<1> DEFINE R == {p \in Nat \X Nat : p[1] < p[2]}
<1>1. PICK x \in T : \A y \in T : ~(<<y, x>> \in R)
  <2>1. IsWellFoundedOn(R, Nat)
    BY NatOrder
  <2> HIDE DEF R
  <2> QED BY WFMin, <2>1
<1>2. ASSUME NEW y \in T PROVE x <= y
  <2>1. x \in Nat /\ y \in Nat
    OBVIOUS
  <2>2. ~(y < x)
    <3> SUFFICES ASSUME y < x PROVE FALSE
      OBVIOUS
    <3>1. <<y, x>> \in Nat \X Nat /\ <<y, x>>[1] < <<y, x>>[2]
      BY <2>1
    <3> QED BY <1>1, <3>1
  <2> QED BY <2>1, <2>2, SMT
<1> QED BY <1>2

\* A recursion over an interval has a solution.
Solves(f, lo, n, a, Step) ==
    f = [i \in lo .. lo + n |-> IF i = lo THEN a ELSE Step[<<i, f[i - 1]>>]]

LEMMA FiniteRecursion ==
    ASSUME NEW S, NEW a \in S, NEW lo \in Int, NEW n \in Nat, NEW Step,
           \A i \in lo + 1 .. lo + n, x \in S : Step[<<i, x>>] \in S
    PROVE  \E f \in [lo .. lo + n -> S] : Solves(f, lo, n, a, Step)
<1> DEFINE Bad == {m \in 0 .. n : ~ \E f \in [lo .. lo + m -> S] : Solves(f, lo, m, a, Step)}
<1>1. SUFFICES ASSUME Bad # {} PROVE FALSE
  <2>1. n \in 0 .. n
    OBVIOUS
  <2> QED BY <1>1, <2>1
<1>2. PICK m \in Bad : \A k \in Bad : m <= k
  <2>1. Bad \subseteq Nat
    OBVIOUS
  <2> HIDE DEF Bad
  <2> QED BY <1>1, <2>1, LeastNat
<1>3. m \in Nat /\ m <= n /\ ~ \E f \in [lo .. lo + m -> S] : Solves(f, lo, m, a, Step)
  OBVIOUS
<1>4. CASE m = 0
  <2> DEFINE f == [i \in lo .. lo + m |-> a]
  <2>1. f \in [lo .. lo + m -> S]
    OBVIOUS
  <2>2. \A i \in lo .. lo + m : i = lo
    BY <1>4
  <2>3. Solves(f, lo, m, a, Step)
    BY <2>2 DEF Solves
  <2> HIDE DEF f
  <2> QED BY <1>3, <2>1, <2>3
<1>5. CASE m # 0
  <2>1. m - 1 \in Nat /\ m - 1 <= n /\ ~(m <= m - 1) /\ m - 1 \in 0 .. n
    BY <1>3, <1>5
  <2>2. PICK g \in [lo .. lo + (m - 1) -> S] : Solves(g, lo, m - 1, a, Step)
    <3>1. m - 1 \notin Bad
      BY <1>2, <2>1
    <3> QED BY <2>1, <3>1
  <2> DEFINE f == [i \in lo .. lo + m |->
                      IF i = lo + m THEN Step[<<i, g[i - 1]>>] ELSE g[i]]
  <2>3. lo + m \in lo + 1 .. lo + n /\ lo + m - 1 \in lo .. lo + (m - 1)
    BY <1>3, <1>5
  <2>4. ASSUME NEW i \in lo .. lo + m PROVE f[i] \in S
    <3>1. CASE i = lo + m
      BY <2>3, <3>1
    <3>2. CASE i # lo + m
      <4>1. i \in lo .. lo + (m - 1)
        BY <1>3, <3>2
      <4> QED BY <3>2, <4>1
    <3> QED BY <3>1, <3>2
  <2>5. ASSUME NEW i \in lo .. lo + m
        PROVE  f[i] = IF i = lo THEN a ELSE Step[<<i, f[i - 1]>>]
    <3>1. CASE i = lo + m
      <4>1. i # lo /\ i - 1 \in lo .. lo + m /\ i - 1 # lo + m
        BY <1>3, <1>5, <3>1
      <4>2. f[i - 1] = g[i - 1]
        BY <4>1
      <4> QED BY <3>1, <4>1, <4>2
    <3>2. CASE i # lo + m
      <4>1. i \in lo .. lo + (m - 1)
        BY <1>3, <3>2
      <4>2. f[i] = g[i] /\ g[i] = IF i = lo THEN a ELSE Step[<<i, g[i - 1]>>]
        BY <2>2, <3>2, <4>1 DEF Solves
      <4>3. CASE i = lo
        BY <4>2, <4>3
      <4>4. CASE i # lo
        <5>1. i - 1 \in lo .. lo + m /\ i - 1 # lo + m
          BY <1>3, <4>1, <4>4
        <5>2. f[i - 1] = g[i - 1]
          BY <5>1
        <5> QED BY <4>2, <4>4, <5>2
      <4> QED BY <4>3, <4>4
    <3> QED BY <3>1, <3>2
  <2>6. f \in [lo .. lo + m -> S]
    <3> HIDE DEF f
    <3>1. f = [i \in lo .. lo + m |-> f[i]]
      BY DEF f
    <3> QED BY <2>4, <3>1
  <2>7. Solves(f, lo, m, a, Step)
    <3>1. f = [i \in lo .. lo + m |-> f[i]]
      OBVIOUS
    <3> HIDE DEF f
    <3> QED BY <2>5, <3>1 DEF Solves
  <2> HIDE DEF f
  <2> QED BY <1>3, <2>6, <2>7
<1> QED BY <1>4, <1>5

-----------------------------------------------------------------------------
(* The buffer.                                                             *)

LEMMA JobType ==
    ASSUME job \in Jobs
    PROVE  maxlen \in 0 .. SIZE_T - 1
  BY JobAssumption, SizeAssumption DEF maxlen, MaxLen

BufferInv ==
    /\ job \in Jobs
    /\ DOMAIN memory = 0 .. MemorySize - 1
    /\ StaysInBuffer

LEMMA OutStays ==
    ASSUME BufferInv, NEW s, Out(s), UNCHANGED job
    PROVE  BufferInv'
<1>1. maxlen \in Int /\ maxlen' = maxlen /\ DOMAIN memory \subseteq Int
  BY JobType DEF BufferInv, maxlen, MaxLen
<1> HIDE DEF maxlen
<1>2. ASSUME NEW i \in DOMAIN memory, i >= maxlen \/ job.null
      PROVE  memory'[i] = "old"
  <2>1. memory'[i] = memory[i]
    <3>1. ~(i < maxlen /\ ~job.null)
      BY <1>1, <1>2
    <3> QED BY <3>1 DEF Out, Stored
  <2> QED BY <1>2, <2>1 DEF BufferInv, StaysInBuffer
<1>3. DOMAIN memory' = DOMAIN memory
  BY DEF Out, Stored
<1> QED BY <1>1, <1>2, <1>3 DEF BufferInv, StaysInBuffer

LEMMA TerminateStays ==
    ASSUME BufferInv, Terminate
    PROVE  BufferInv'
<1>1. maxlen \in Int /\ maxlen' = maxlen /\ DOMAIN memory \subseteq Int
  BY JobType DEF BufferInv, Terminate, maxlen, MaxLen
<1> HIDE DEF maxlen
<1>2. ASSUME NEW i \in DOMAIN memory, i >= maxlen \/ job.null
      PROVE  memory'[i] = "old"
  <2>1. memory'[i] = memory[i]
    <3>1. ~(i < maxlen /\ ~job.null)
      BY <1>1, <1>2
    <3> QED BY <3>1 DEF Terminate
  <2> QED BY <1>2, <2>1 DEF BufferInv, StaysInBuffer
<1>3. DOMAIN memory' = DOMAIN memory /\ job' = job
  BY DEF Terminate
<1> QED BY <1>1, <1>2, <1>3 DEF BufferInv, StaysInBuffer

\* Nothing is stored behind the buffer, with a buffer of no size nothing at
\* all, nor through NULL: whatever the format and its arguments, matching or
\* not, and whatever the conversions put out.
THEOREM WritesStayInBuffer == Spec => []StaysInBuffer
<1>1. Init => BufferInv
  BY DEF Init, BufferInv, StaysInBuffer
<1>2. BufferInv /\ [Next]_vars => BufferInv'
  <2> SUFFICES ASSUME BufferInv, [Next]_vars PROVE BufferInv'
    OBVIOUS
  <2>1. CASE \E s : Out(s) /\ UNCHANGED job
    BY <2>1, OutStays
  <2>2. CASE UNCHANGED <<job, memory>>
    BY <2>2 DEF BufferInv, StaysInBuffer, maxlen, MaxLen
  <2>3. CASE Terminate
    BY <2>3, TerminateStays
  <2>4. CASE Ordinary
    <3>1. Out(<<Ch(pos)>>) /\ UNCHANGED job
      BY <2>4 DEF Ordinary
    <3> QED BY <2>1, <3>1
  <2>5. CASE Specifier
    <3>1. Out(Converted(Ch(pos))) /\ UNCHANGED job
      BY <2>5 DEF Specifier
    <3> QED BY <2>1, <3>1
  <2>6. CASE Percent \/ Flag \/ Width \/ Precision \/ Length
    BY <2>2, <2>6 DEF Percent, Flag, Width, Precision, Length
  <2>7. CASE UNCHANGED vars
    BY <2>2, <2>7 DEF vars
  <2> QED BY <2>3, <2>4, <2>5, <2>6, <2>7 DEF Next
<1>3. BufferInv => StaysInBuffer
  BY DEF BufferInv
<1> QED BY <1>1, <1>2, <1>3, PTL DEF Spec

-----------------------------------------------------------------------------
(* What is put out is always a text, a sequence.                           *)

IsText(s) == Len(s) \in Nat /\ s = [i \in 1 .. Len(s) |-> s[i]]

LEMMA FunctionIsText ==
    ASSUME NEW n \in Nat, NEW s, DOMAIN s = 1 .. n, s = [i \in 1 .. n |-> s[i]]
    PROVE  IsText(s) /\ Len(s) = n
<1>1. Len(s) = n
  <2>1. s \in Seq({s[i] : i \in 1 .. n})
    OBVIOUS
  <2> QED BY <2>1
<1> QED BY <1>1 DEF IsText

LEMMA SeqIsText == ASSUME NEW S, NEW s \in Seq(S) PROVE IsText(s)
  BY DEF IsText

LEMMA Joined ==
    ASSUME NEW S, NEW s \in Seq(S), NEW t \in Seq(S)
    PROVE  /\ Len(s \o t) = Len(s) + Len(t) /\ Len(s) \in Nat /\ Len(t) \in Nat
           /\ \A k \in 1 .. Len(s) : (s \o t)[k] = s[k]
           /\ \A k \in 1 .. Len(t) : (s \o t)[Len(s) + k] = t[k]
<1>1. Len(s \o t) = Len(s) + Len(t) /\ Len(s) \in Nat /\ Len(t) \in Nat
  OBVIOUS
<1>2. \A k \in 1 .. Len(s) : (s \o t)[k] = s[k]
  OBVIOUS
<1>3. ASSUME NEW k \in 1 .. Len(t) PROVE (s \o t)[Len(s) + k] = t[k]
  <2>1. Len(s) + k \in 1 .. Len(s) + Len(t) /\ ~(Len(s) + k <= Len(s))
        /\ (Len(s) + k) - Len(s) = k
    BY <1>1
  <2> QED BY <2>1
<1> QED BY <1>1, <1>2, <1>3

LEMMA Concatenation ==
    ASSUME NEW s, NEW t, IsText(s), IsText(t)
    PROVE  /\ IsText(s \o t) /\ Len(s \o t) = Len(s) + Len(t)
           /\ Len(s) \in Nat /\ Len(t) \in Nat
           /\ \A k \in 1 .. Len(s) : (s \o t)[k] = s[k]
           /\ \A k \in 1 .. Len(t) : (s \o t)[Len(s) + k] = t[k]
<1> DEFINE S == {s[i] : i \in 1 .. Len(s)} \cup {t[i] : i \in 1 .. Len(t)}
<1>1. s \in Seq(S) /\ t \in Seq(S)
  BY DEF IsText
<1> HIDE DEF S
<1>2. s \o t \in Seq(S)
  BY <1>1
<1>3. IsText(s \o t)
  BY <1>2, SeqIsText
<1> QED BY <1>1, <1>3, Joined

LEMMA Appending ==
    ASSUME NEW s, NEW e, IsText(s)
    PROVE  IsText(Append(s, e)) /\ Len(Append(s, e)) = Len(s) + 1
<1> DEFINE S == {s[i] : i \in 1 .. Len(s)} \cup {e}
<1>1. s \in Seq(S) /\ e \in S
  BY DEF IsText
<1> HIDE DEF S
<1>2. Append(s, e) \in Seq(S) /\ Len(Append(s, e)) = Len(s) + 1
  BY <1>1
<1> QED BY <1>2, SeqIsText

LEMMA Prefix ==
    ASSUME NEW s, IsText(s), NEW n \in Nat, n <= Len(s)
    PROVE  IsText(SubSeq(s, 1, n)) /\ Len(SubSeq(s, 1, n)) = n
<1> DEFINE S == {s[i] : i \in 1 .. Len(s)}
<1>1. s \in Seq(S)
  BY DEF IsText
<1> HIDE DEF S
<1>2. SubSeq(s, 1, n) \in Seq(S)
  BY <1>1
<1>3. Len(SubSeq(s, 1, n)) = n
  BY <1>1
<1> QED BY <1>2, <1>3, SeqIsText

LEMMA Reversing ==
    ASSUME NEW s, IsText(s)
    PROVE  IsText(Reverse(s)) /\ Len(Reverse(s)) = Len(s)
<1> DEFINE r == Reverse(s)
<1>1. DOMAIN r = 1 .. Len(s) /\ r = [i \in 1 .. Len(s) |-> r[i]] /\ Len(s) \in Nat
  BY DEF Reverse, IsText
<1> HIDE DEF r
<1> QED BY <1>1, FunctionIsText DEF r

LEMMA Repeating ==
    ASSUME NEW ch, NEW n \in Int
    PROVE  IsText(Repeat(ch, n))
<1> DEFINE r == Repeat(ch, n)
<1>1. Most(n, 0) \in Nat
  BY DEF Most
<1>2. DOMAIN r = 1 .. Most(n, 0) /\ r = [i \in 1 .. Most(n, 0) |-> r[i]]
  BY DEF Repeat
<1> HIDE DEF r
<1> QED BY <1>1, <1>2, FunctionIsText DEF r

LEMMA SingleText == ASSUME NEW e PROVE IsText(<<e>>) /\ Len(<<e>>) = 1
<1>1. <<e>> \in Seq({e}) /\ Len(<<e>>) = 1
  OBVIOUS
<1> QED BY <1>1, SeqIsText

LEMMA EmptyText == IsText(<<>>) /\ Len(<<>>) = 0
  BY DEF IsText

\* The digits of a number: a text whatever the value.
LEMMA DigitCountIs ==
    ASSUME NEW v, NEW base
    PROVE  /\ DigitCount(v, base) \in 1 .. BufferSize
           /\ Quotient(v, base, DigitCount(v, base)) = 0 \/ DigitCount(v, base) = BufferSize
           /\ \A k \in 1 .. DigitCount(v, base) - 1 : Quotient(v, base, k) # 0
<1> DEFINE Ends(n) == Quotient(v, base, n) = 0 \/ n = BufferSize
           T == {n \in 1 .. BufferSize : Ends(n)}
<1>1. BufferSize \in T /\ T \subseteq Nat
  BY SizeAssumption
<1>2. PICK n \in T : \A y \in T : n <= y
  <2> HIDE DEF T
  <2> QED BY <1>1, LeastNat
<1>3. ASSUME NEW k \in 1 .. n - 1 PROVE Quotient(v, base, k) # 0
  <2> HIDE DEF Ends
  <2>1. n \in 1 .. BufferSize /\ k \in 1 .. BufferSize /\ ~(n <= k)
    BY SizeAssumption
  <2>2. k \notin T
    BY <1>2, <2>1
  <2>3. ~Ends(k)
    BY <2>1, <2>2
  <2> QED BY <2>3 DEF Ends
<1>4. n \in 1 .. BufferSize /\ Ends(n)
  <2> HIDE DEF Ends
  <2> QED OBVIOUS
<1>5. \E m \in 1 .. BufferSize :
         /\ Quotient(v, base, m) = 0 \/ m = BufferSize
         /\ \A k \in 1 .. m - 1 : Quotient(v, base, k) # 0
  BY <1>3, <1>4
<1> QED BY <1>5 DEF DigitCount

\* The digits of a numeral, with flags that may ask for capitals.
Glyphs(fl) == IF "upper" \in fl THEN Upper ELSE Digit

LEMMA DigitsAre ==
    ASSUME NEW v, NEW base, NEW fl, ~("precision" \in fl /\ v = 0)
    PROVE  /\ IsText(Digits(v, base, fl)) /\ Len(Digits(v, base, fl)) = DigitCount(v, base)
           /\ \A i \in 1 .. DigitCount(v, base) :
                 Digits(v, base, fl)[i] = Glyphs(fl)[(Quotient(v, base, i - 1) % base) + 1]
<1> DEFINE n == DigitCount(v, base)
           d == [i \in 1 .. n |-> Glyphs(fl)[(Quotient(v, base, i - 1) % base) + 1]]
<1>1. n \in Nat
  BY DigitCountIs, SizeAssumption
<1>2. Digits(v, base, fl) = d
  BY DEF Digits, Glyphs
<1>3. DOMAIN d = 1 .. n /\ d = [i \in 1 .. n |-> d[i]]
  OBVIOUS
<1>4. \A i \in 1 .. n : d[i] = Glyphs(fl)[(Quotient(v, base, i - 1) % base) + 1]
  OBVIOUS
<1> HIDE DEF d, n
<1>5. IsText(d) /\ Len(d) = n
  BY <1>1, <1>3, FunctionIsText
<1> QED BY <1>2, <1>4, <1>5 DEF n

LEMMA DigitsText == ASSUME NEW v, NEW base, NEW fl PROVE IsText(Digits(v, base, fl))
<1>1. CASE "precision" \in fl /\ v = 0
  BY <1>1, EmptyText DEF Digits
<1>2. CASE ~("precision" \in fl /\ v = 0)
  BY <1>2, DigitsAre
<1> QED BY <1>1, <1>2

LEMMA ZerosText ==
    ASSUME NEW b, IsText(b), NEW n \in Int PROVE IsText(ZerosTo(b, n))
<1>1. Least(n, BufferSize) - Len(b) \in Int
  BY SizeAssumption DEF Least, IsText
<1> QED BY <1>1, Repeating, Concatenation DEF ZerosTo

LEMMA AddText == ASSUME NEW b, IsText(b), NEW ch PROVE IsText(Add(b, ch))
  BY Appending DEF Add

LEMMA PaddedText ==
    ASSUME NEW b, IsText(b), NEW prec \in Int, NEW w \in Int, NEW fl
    PROVE  IsText(Padded(b, prec, w, fl))
  BY ZerosText DEF Padded

LEMMA HashedText ==
    ASSUME NEW b, IsText(b), NEW base, NEW prec, NEW w, NEW fl
    PROVE  IsText(Hashed(b, base, prec, w, fl))
<1> DEFINE n == Len(b)
           filled == "precision" \notin fl /\ n > 0 /\ (n = prec \/ n = w)
           cut == IF ~filled THEN 0 ELSE IF n > 1 /\ base = 16 THEN 2 ELSE 1
           room == SubSeq(b, 1, n - cut)
           letter == IF base = 16 THEN Add(room, IF "upper" \in fl THEN "X" ELSE "x")
                     ELSE IF base = 2 THEN Add(room, "b") ELSE room
<1>1. n \in Nat /\ n - cut \in Nat /\ n - cut <= n
  BY DEF IsText
<1>2. IsText(room)
  <2> HIDE DEF cut
  <2> QED BY <1>1, Prefix
<1>3. IsText(letter)
  <2> HIDE DEF room
  <2> QED BY <1>2, AddText
<1>4. IsText(Add(letter, "0"))
  <2> HIDE DEF letter
  <2> QED BY <1>3, AddText
<1>5. Hashed(b, base, prec, w, fl) = IF "#" \in fl THEN Add(letter, "0") ELSE b
  BY DEF Hashed
<1> HIDE DEF letter
<1> QED BY <1>4, <1>5

LEMMA SignedText ==
    ASSUME NEW b, IsText(b), NEW negative, NEW fl PROVE IsText(Signed(b, negative, fl))
  BY AddText DEF Signed

LEMMA JustifiedText ==
    ASSUME NEW b, IsText(b), NEW w \in Int, NEW fl PROVE IsText(Justified(b, w, fl))
<1>1. w - Len(b) \in Int
  BY DEF IsText
<1>2. IsText(Repeat(" ", w - Len(b))) /\ IsText(Reverse(b))
  BY <1>1, Repeating, Reversing
<1> QED BY <1>2, Concatenation DEF Justified

LEMMA NumberText ==
    ASSUME NEW v, NEW negative, NEW base, NEW prec \in Int, NEW w \in Int, NEW fl0
    PROVE  IsText(Number(v, negative, base, prec, w, fl0))
<1> DEFINE fl == IF v = 0 THEN fl0 \ {"#"} ELSE fl0
           ww == ZeroWidth(negative, w, fl)
           b == Padded(Digits(v, base, fl), prec, ww, fl)
           h == Hashed(b, base, prec, ww, fl)
<1>1. ww \in Int
  <2> HIDE DEF fl
  <2> QED BY DEF ZeroWidth
<1> HIDE DEF fl, ww
<1>2. IsText(b)
  BY <1>1, DigitsText, PaddedText
<1> HIDE DEF b
<1>3. IsText(h)
  BY <1>2, HashedText
<1> HIDE DEF h
<1>4. IsText(Justified(Signed(h, negative, fl), ww, fl))
  BY <1>1, <1>3, SignedText, JustifiedText
<1> QED BY <1>4 DEF Number, fl, ww, b, h

LEMMA InFieldText ==
    ASSUME width \in Int, NEW s, IsText(s), NEW n \in Int PROVE IsText(InField(s, n))
<1>1. width - n \in Int
  OBVIOUS
<1>2. IsText(Repeat(" ", width - n))
  BY <1>1, Repeating
<1> QED BY <1>2, Concatenation DEF InField

LEMMA StringText ==
    ASSUME width \in Int, precision \in Nat, NEW s, IsText(s) PROVE IsText(String(s))
<1> DEFINE t == IF "precision" \in flags THEN SubSeq(s, 1, Least(Len(s), precision)) ELSE s
<1>1. Least(Len(s), precision) \in Nat /\ Least(Len(s), precision) <= Len(s)
  BY DEF Least, IsText
<1>2. IsText(t) /\ Len(t) \in Int
  <2> DEFINE m == Least(Len(s), precision)
  <2>1. IsText(SubSeq(s, 1, m))
    <3> HIDE DEF m
    <3> QED BY <1>1, Prefix DEF m
  <2>2. IsText(t)
    BY <2>1
  <2> HIDE DEF t
  <2> QED BY <2>2 DEF IsText
<1> HIDE DEF t
<1>3. IsText(InField(t, Len(t)))
  BY <1>2, InFieldText
<1> QED BY <1>3 DEF String, t

\* Every conversion gives a text, whatever its argument: only %s takes its
\* argument for a text itself.
LEMMA ConvertedText ==
    ASSUME width \in Nat, precision \in Nat, NEW spec,
           spec = "s" => IsText(Head(va))
    PROVE  IsText(Converted(spec))
<1>1. CASE spec \in IntegerSpecs
  <2>1. IsText(Integer(spec, Head(va)))
    BY NumberText DEF Integer
  <2> QED BY <1>1, <2>1 DEF Converted, IntegerSpecs
<1>2. CASE spec = "c"
  <2>1. IsText(InField(<<Head(va)>>, 1))
    BY SingleText, InFieldText
  <2> QED BY <1>2, <2>1 DEF Converted, IntegerSpecs
<1>3. CASE spec = "s"
  <2>1. IsText(String(Head(va)))
    BY <1>3, StringText
  <2> QED BY <1>3, <2>1 DEF Converted, IntegerSpecs
<1>4. CASE spec = "p"
  <2>1. PointerDigits \in Int /\ precision \in Int
    BY SizeAssumption
  <2>2. IsText(Pointer(Head(va)))
    BY <2>1, NumberText DEF Pointer
  <2> QED BY <1>4, <2>2 DEF Converted, IntegerSpecs
<1>5. CASE spec \notin IntegerSpecs \cup {"c", "s", "p"}
  <2>1. IsText(<<spec>>)
    BY SingleText
  <2> QED BY <1>5, <2>1 DEF Converted
<1> QED BY <1>1, <1>2, <1>3, <1>4, <1>5

-----------------------------------------------------------------------------
(* Texts one after the other: where each of them lies.                     *)

\* The recursion that flattens a sequence of texts.
Flattens(f, ss) ==
    /\ FlattenSeq(ss) = f[Len(ss)]
    /\ \A i \in 1 .. Len(ss) : f[i] = IF i = 1 THEN ss[i] ELSE f[i - 1] \o ss[i]

LEMMA FlattenRecursion ==
    ASSUME NEW S, NEW n \in Nat \ {0}, NEW ss \in Seq(Seq(S)), Len(ss) = n
    PROVE  \E f \in [1 .. n -> Seq(S)] : Flattens(f, ss)
<1> DEFINE Eq(f) == f = [i \in 1 .. n |-> IF i = 1 THEN ss[i] ELSE f[i - 1] \o ss[i]]
           g == CHOOSE f : Eq(f)
<1>1. PICK f \in [1 .. n -> Seq(S)] : Eq(f)
  <2> DEFINE Step == [p \in (1 .. n) \X Seq(S) |-> p[2] \o ss[p[1]]]
  <2>1. \A i \in 1 .. n : ss[i] \in Seq(S)
    OBVIOUS
  <2>2. \A i \in 1 .. n, x \in Seq(S) : Step[<<i, x>>] = x \o ss[i]
    OBVIOUS
  <2>3. \A i \in 1 .. n, x \in Seq(S) : x \o ss[i] \in Seq(S)
    BY <2>1
  <2> HIDE DEF Step
  <2> DEFINE m == n - 1
             T == Seq(S)
  <2>4. 1 \in 1 .. n /\ m \in Nat /\ 1 + m = n /\ 1 \in Int
        /\ \A i \in 1 + 1 .. 1 + m : i \in 1 .. n
    OBVIOUS
  <2> HIDE DEF m
  <2>5. ASSUME NEW i \in 1 + 1 .. 1 + m, NEW x \in T PROVE Step[<<i, x>>] \in T
    <3>1. i \in 1 .. n
      BY <2>4
    <3> QED BY <2>2, <2>3, <3>1
  <2>6. ss[1] \in T
    BY <2>1, <2>4
  <2>7. \E f \in [1 .. 1 + m -> T] : Solves(f, 1, m, ss[1], Step)
    <3> HIDE DEF T
    <3> QED BY <2>4, <2>5, <2>6, FiniteRecursion
  <2>8. PICK f \in [1 .. n -> Seq(S)] :
           f = [i \in 1 .. n |-> IF i = 1 THEN ss[1] ELSE Step[<<i, f[i - 1]>>]]
    BY <2>4, <2>7 DEF Solves
  <2>9. ASSUME NEW i \in 1 .. n PROVE f[i] = IF i = 1 THEN ss[i] ELSE f[i - 1] \o ss[i]
    <3>1. f[i] = IF i = 1 THEN ss[1] ELSE Step[<<i, f[i - 1]>>]
      BY <2>8
    <3>2. CASE i = 1
      BY <3>1, <3>2
    <3>3. CASE i # 1
      <4>1. i - 1 \in 1 .. n
        BY <3>3
      <4>2. f[i - 1] \in Seq(S)
        BY <4>1
      <4>3. Step[<<i, f[i - 1]>>] = f[i - 1] \o ss[i]
        BY <4>2, <2>2
      <4> QED BY <3>1, <3>3, <4>3
    <3> QED BY <3>2, <3>3
  <2>10. f = [i \in 1 .. n |-> f[i]]
    OBVIOUS
  <2>11. Eq(f)
    BY <2>9, <2>10
  <2> QED BY <2>11
<1>2. Eq(g)
  <2> HIDE DEF Eq
  <2> QED BY <1>1
<1>3. \A i \in 1 .. n :
         /\ f[i] = IF i = 1 THEN ss[i] ELSE f[i - 1] \o ss[i]
         /\ g[i] = IF i = 1 THEN ss[i] ELSE g[i - 1] \o ss[i]
  <2> HIDE DEF g
  <2> QED BY <1>1, <1>2
<1>4. FlattenSeq(ss) = g[n]
  BY DEF FlattenSeq
<1> HIDE DEF g, Eq
<1>5. g[n] = f[n]
  <2> DEFINE Bad == {i \in 1 .. n : g[i] # f[i]}
  <2>1. SUFFICES ASSUME Bad # {} PROVE FALSE
    <3>1. n \in 1 .. n
      OBVIOUS
    <3> QED BY <2>1, <3>1
  <2>2. PICK m \in Bad : \A k \in Bad : m <= k
    <3>1. Bad \subseteq Nat
      OBVIOUS
    <3> HIDE DEF Bad
    <3> QED BY <2>1, <3>1, LeastNat
  <2>3. m \in 1 .. n /\ g[m] # f[m]
    OBVIOUS
  <2>4. m # 1
    BY <1>3, <2>3
  <2>5. m - 1 \in 1 .. n /\ ~(m <= m - 1)
    BY <2>3, <2>4
  <2>6. m - 1 \notin Bad
    <3> HIDE DEF Bad
    <3> QED BY <2>2, <2>5
  <2>7. g[m - 1] = f[m - 1]
    BY <2>5, <2>6
  <2> HIDE DEF Bad
  <2> QED BY <1>3, <2>3, <2>4, <2>7
<1> QED BY <1>3, <1>4, <1>5 DEF Flattens

\* Where texts end when they are put one after the other.
Placed(off, ss) ==
    /\ off \in [0 .. Len(ss) -> Nat]
    /\ off[0] = 0
    /\ \A i \in 1 .. Len(ss) : off[i] = off[i - 1] + Len(ss[i])
    /\ IsText(FlattenSeq(ss)) /\ Len(FlattenSeq(ss)) = off[Len(ss)]
    /\ \A i \in 0 .. Len(ss) : off[i] <= Len(FlattenSeq(ss))
    /\ \A i \in 1 .. Len(ss) : \A k \in 1 .. Len(ss[i]) :
          FlattenSeq(ss)[off[i - 1] + k] = ss[i][k]

LEMMA Flattening ==
    ASSUME NEW ss, IsText(ss), \A i \in 1 .. Len(ss) : IsText(ss[i])
    PROVE  \E off : Placed(off, ss)
<1> DEFINE n == Len(ss)
           flat == FlattenSeq(ss)
<1>1. CASE n = 0
  <2> DEFINE off == [i \in 0 .. n |-> 0]
  <2>1. flat = ss
    BY <1>1 DEF FlattenSeq
  <2>2. off \in [0 .. Len(ss) -> Nat] /\ off[0] = 0 /\ off[Len(ss)] = 0
        /\ \A i \in 0 .. Len(ss) : off[i] = 0
    BY <1>1
  <2> HIDE DEF off, flat
  <2>3. Placed(off, ss)
    BY <1>1, <2>1, <2>2 DEF flat, Placed
  <2> QED BY <2>3
<1>2. CASE n # 0
  <2> DEFINE S == UNION {{ss[i][k] : k \in 1 .. Len(ss[i])} : i \in 1 .. n}
  <2>1. n \in Nat \ {0}
    BY <1>2 DEF IsText
  <2>2. ASSUME NEW i \in 1 .. n PROVE ss[i] \in Seq(S)
    <3>1. IsText(ss[i])
      OBVIOUS
    <3>2. \A k \in 1 .. Len(ss[i]) : ss[i][k] \in S
      OBVIOUS
    <3> HIDE DEF S
    <3> QED BY <3>1, <3>2 DEF IsText
  <2> HIDE DEF S
  <2>3. ss \in Seq(Seq(S))
    BY <2>2 DEF IsText
  <2>4. PICK f \in [1 .. n -> Seq(S)] :
           /\ flat = f[n]
           /\ \A i \in 1 .. n : f[i] = IF i = 1 THEN ss[i] ELSE f[i - 1] \o ss[i]
    <3> HIDE DEF flat, n
    <3>1. Len(ss) = n
      BY DEF n
    <3>2. \E f \in [1 .. n -> Seq(S)] : Flattens(f, ss)
      BY <2>1, <2>3, <3>1, FlattenRecursion
    <3> QED BY <3>1, <3>2 DEF flat, Flattens
  <2> HIDE DEF flat, n
  <2> DEFINE off == [i \in 0 .. n |-> IF i = 0 THEN 0 ELSE Len(f[i])]
  <2>5. ASSUME NEW i \in 1 .. n
        PROVE  /\ f[i] \in Seq(S) /\ ss[i] \in Seq(S)
               /\ off[i] = Len(f[i]) /\ off[i - 1] \in Nat
               /\ Len(f[i]) = off[i - 1] + Len(ss[i])
               /\ \A k \in 1 .. Len(ss[i]) : f[i][off[i - 1] + k] = ss[i][k]
               /\ i > 1 => /\ f[i - 1] \in Seq(S) /\ off[i - 1] = Len(f[i - 1])
                           /\ \A k \in 1 .. Len(f[i - 1]) : f[i][k] = f[i - 1][k]
    <3>1. f[i] \in Seq(S) /\ ss[i] \in Seq(S) /\ off[i] = Len(f[i])
      BY <2>2
    <3>2. CASE i = 1
      <4>1. off[i - 1] = 0 /\ f[i] = ss[i]
        <5>1. i - 1 = 0 /\ 0 \in 0 .. n
          BY <2>1, <3>2
        <5> QED BY <2>4, <3>2, <5>1
      <4> HIDE DEF off
      <4> QED BY <3>1, <3>2, <4>1
    <3>3. CASE i # 1
      <4>1. i - 1 \in 1 .. n /\ i - 1 \in 0 .. n /\ i - 1 # 0
        BY <2>1, <3>3
      <4>2. f[i - 1] \in Seq(S) /\ off[i - 1] = Len(f[i - 1])
        BY <4>1
      <4>3. f[i] = f[i - 1] \o ss[i]
        BY <2>4, <3>3
      <4> HIDE DEF off
      <4>4. /\ Len(f[i]) = Len(f[i - 1]) + Len(ss[i]) /\ Len(f[i - 1]) \in Nat
            /\ \A k \in 1 .. Len(f[i - 1]) : f[i][k] = f[i - 1][k]
            /\ \A k \in 1 .. Len(ss[i]) : f[i][Len(f[i - 1]) + k] = ss[i][k]
        <5> DEFINE s == f[i - 1]
                   t == ss[i]
        <5>1. s \in Seq(S) /\ t \in Seq(S) /\ f[i] = s \o t
          BY <3>1, <4>2, <4>3
        <5> HIDE DEF s, t
        <5>2. /\ Len(f[i]) = Len(s) + Len(t) /\ Len(s) \in Nat
              /\ \A k \in 1 .. Len(s) : f[i][k] = s[k]
              /\ \A k \in 1 .. Len(t) : f[i][Len(s) + k] = t[k]
          BY <5>1, Joined
        <5> QED BY <5>2 DEF s, t
      <4> QED BY <3>1, <3>3, <4>2, <4>4
    <3> QED BY <3>2, <3>3
  <2>6. off \in [0 .. n -> Nat] /\ off[0] = 0
        /\ \A i \in 1 .. n : off[i] = off[i - 1] + Len(ss[i])
    <3>1. off[0] = 0
      BY <2>1
    <3>2. off \in [0 .. n -> Nat]
      <4>1. ASSUME NEW i \in 0 .. n PROVE (IF i = 0 THEN 0 ELSE Len(f[i])) \in Nat
        <5>1. CASE i = 0
          BY <5>1
        <5>2. CASE i # 0
          <6>1. i \in 1 .. n
            BY <2>1, <5>2
          <6> QED BY <2>5, <5>2, <6>1
        <5> QED BY <5>1, <5>2
      <4> QED BY <4>1
    <3> HIDE DEF off
    <3> QED BY <2>5, <3>1, <3>2
  <2>7. IsText(flat) /\ Len(flat) = off[n] /\ n \in 1 .. n
    <3>1. n \in 1 .. n
      BY <2>1
    <3> HIDE DEF off
    <3> QED BY <2>4, <2>5, <3>1, SeqIsText
  <2> HIDE DEF off
  <2>8. ASSUME NEW i \in 1 .. n
        PROVE  Len(f[i]) <= Len(flat) /\ \A k \in 1 .. Len(f[i]) : flat[k] = f[i][k]
    <3> DEFINE Kept(j) == /\ Len(f[i]) <= Len(f[j])
                          /\ \A k \in 1 .. Len(f[i]) : f[j][k] = f[i][k]
               Bad == {j \in i .. n : ~Kept(j)}
    <3>1. SUFFICES ASSUME Bad # {} PROVE FALSE
      <4>1. n \in i .. n
        BY <2>1
      <4>2. Kept(n)
        BY <3>1, <4>1
      <4> QED BY <2>4, <4>2
    <3>2. PICK m \in Bad : \A k \in Bad : m <= k
      <4>1. Bad \subseteq Nat
        BY <2>1
      <4> HIDE DEF Bad
      <4> QED BY <3>1, <4>1, LeastNat
    <3>3. m \in i .. n /\ ~Kept(m)
      <4> HIDE DEF Kept
      <4> QED OBVIOUS
    <3>4. Kept(i)
      <4>1. Len(f[i]) \in Nat
        OBVIOUS
      <4> QED BY <4>1
    <3> HIDE DEF Kept
    <3>5. m # i
      BY <3>3, <3>4
    <3>6. m - 1 \in i .. n /\ m \in 1 .. n /\ m > 1 /\ ~(m <= m - 1)
      BY <2>1, <3>3, <3>5
    <3>7. Kept(m - 1)
      <4>1. m - 1 \notin Bad
        <5> HIDE DEF Bad
        <5> QED BY <3>2, <3>6
      <4> QED BY <3>6, <4>1
    <3>8. Kept(m)
      <4>1. /\ Len(f[i]) \in Nat /\ Len(f[m - 1]) \in Nat /\ Len(ss[m]) \in Nat
            /\ Len(f[m]) = Len(f[m - 1]) + Len(ss[m])
            /\ \A k \in 1 .. Len(f[m - 1]) : f[m][k] = f[m - 1][k]
        <5>1. /\ f[m] \in Seq(S) /\ ss[m] \in Seq(S) /\ f[m - 1] \in Seq(S)
              /\ off[m] = Len(f[m]) /\ off[m - 1] = Len(f[m - 1])
              /\ Len(f[m]) = off[m - 1] + Len(ss[m])
              /\ \A k \in 1 .. Len(f[m - 1]) : f[m][k] = f[m - 1][k]
          BY <2>5, <3>6
        <5>2. f[i] \in Seq(S)
          OBVIOUS
        <5> QED BY <5>1, <5>2
      <4>2. Len(f[i]) <= Len(f[m])
        <5>1. Len(f[i]) <= Len(f[m - 1])
          BY <3>7 DEF Kept
        <5> DEFINE x == Len(f[i])
                   y == Len(f[m - 1])
                   z == Len(ss[m])
                   w == Len(f[m])
        <5>2. x \in Nat /\ y \in Nat /\ z \in Nat /\ w = y + z /\ x <= y
          BY <4>1, <5>1
        <5> HIDE DEF x, y, z, w
        <5>3. x <= w
          BY <5>2
        <5> QED BY <5>3 DEF x, w
      <4>3. ASSUME NEW k \in 1 .. Len(f[i]) PROVE f[m][k] = f[i][k]
        <5>1. k \in 1 .. Len(f[m - 1]) /\ f[m - 1][k] = f[i][k]
          BY <3>7, <4>1 DEF Kept
        <5> QED BY <4>1, <5>1
      <4> QED BY <4>2, <4>3 DEF Kept
    <3> QED BY <3>3, <3>8
  <2>9. ASSUME NEW i \in 1 .. n, NEW k \in 1 .. Len(ss[i])
        PROVE  flat[off[i - 1] + k] = ss[i][k]
    <3>1. /\ off[i - 1] + k \in 1 .. Len(f[i])
          /\ f[i][off[i - 1] + k] = ss[i][k]
      <4>1. Len(f[i]) = off[i - 1] + Len(ss[i]) /\ off[i - 1] \in Nat /\ Len(ss[i]) \in Nat
        BY <2>5
      <4> QED BY <2>5, <4>1
    <3> QED BY <2>8, <3>1
  <2>10. ASSUME NEW i \in 0 .. n PROVE off[i] <= Len(flat)
    <3>1. CASE i = 0
      BY <2>6, <2>7, <3>1 DEF IsText
    <3>2. CASE i # 0
      <4>1. i \in 1 .. n
        BY <2>1, <3>2
      <4> QED BY <2>5, <2>8, <4>1
    <3> QED BY <3>1, <3>2
  <2>11. Placed(off, ss)
    BY <2>6, <2>7, <2>9, <2>10 DEF Placed, n, flat
  <2> QED BY <2>11
<1> QED BY <1>1, <1>2

-----------------------------------------------------------------------------
(* Numbers in a format.                                                    *)

LEMMA DecimalsAre ==
    Decimals = {"0", "1", "2", "3", "4", "5", "6", "7", "8", "9"}
<1>1. \A d \in 1 .. 10 : d \in {1, 2, 3, 4, 5, 6, 7, 8, 9, 10}
  OBVIOUS
<1> QED BY <1>1 DEF Decimals, Digit

LEMMA NoDecimal == NUL \notin Decimals
  BY DecimalsAre DEF NUL

LEMMA DigitValue == ASSUME NEW ch \in Decimals PROVE ValueOf(ch) \in 0 .. 9
<1>1. PICK d \in 1 .. 10 : ch = Digit[d]
  BY DEF Decimals
<1>2. d - 1 \in 0 .. 9 /\ (d - 1) + 1 = d
  OBVIOUS
<1>3. \E n \in 0 .. 9 : Digit[n + 1] = ch
  BY <1>1, <1>2
<1> QED BY <1>3 DEF ValueOf

\* The run of digits at p ends where it should.
RunsTo(p, q) ==
    /\ q \in p .. Len(format) + 1
    /\ Ch(q) \notin Decimals
    /\ \A r \in p .. q - 1 : Ch(r) \in Decimals

LEMMA RunEnds ==
    ASSUME Len(format) \in Nat, NEW p \in 1 .. Len(format) + 1
    PROVE  RunsTo(p, RunEnd(p))
<1> DEFINE T == {q \in p .. Len(format) + 1 : Ch(q) \notin Decimals}
<1>1. Len(format) + 1 \in T /\ T \subseteq Nat
  BY NoDecimal DEF Ch
<1>2. PICK q \in T : \A y \in T : q <= y
  <2> HIDE DEF T
  <2> QED BY <1>1, LeastNat
<1>3. q \in p .. Len(format) + 1 /\ Ch(q) \notin Decimals
  OBVIOUS
<1>4. ASSUME NEW r \in p .. q - 1 PROVE Ch(r) \in Decimals
  <2>1. r \in p .. Len(format) + 1 /\ ~(q <= r)
    BY <1>3
  <2> QED BY <1>2, <2>1
<1>5. \E e \in p .. Len(format) + 1 :
         Ch(e) \notin Decimals /\ \A r \in p .. e - 1 : Ch(r) \in Decimals
  BY <1>3, <1>4
<1> QED BY <1>5 DEF RunEnd, RunsTo

LEMMA RunUnique ==
    ASSUME Len(format) \in Nat, NEW p \in 1 .. Len(format) + 1, NEW q, RunsTo(p, q)
    PROVE  RunEnd(p) = q
<1> DEFINE e == RunEnd(p)
<1>1. RunsTo(p, e)
  BY RunEnds
<1> HIDE DEF e
<1>2. e \in Int /\ q \in Int /\ e >= p /\ q >= p
  BY <1>1 DEF RunsTo
<1>3. CASE e < q
  <2>1. e \in p .. q - 1
    BY <1>2, <1>3
  <2> QED BY <1>1, <2>1 DEF RunsTo
<1>4. CASE q < e
  <2>1. q \in p .. e - 1
    BY <1>2, <1>4
  <2> QED BY <1>1, <2>1 DEF RunsTo
<1>5. CASE e = q
  BY <1>5 DEF e
<1> QED BY <1>2, <1>3, <1>4, <1>5

LEMMA Wraps == ASSUME NEW x \in Int PROVE x % SIZE_T \in 0 .. SIZE_T - 1
  BY SizeAssumption

\* The number of a run of digits, from digit to digit.
LEMMA RunValueSteps ==
    ASSUME Len(format) \in Nat, NEW p \in 1 .. Len(format) + 1
    PROVE  \E g : /\ RunValue(p) = g[RunEnd(p)] /\ g[p] = 0
                  /\ \A i \in p + 1 .. RunEnd(p) :
                        g[i] = (10 * g[i - 1] + ValueOf(Ch(i - 1))) % SIZE_T
                  /\ \A i \in p .. RunEnd(p) : g[i] \in 0 .. SIZE_T - 1
<1> DEFINE e == RunEnd(p)
           S == 0 .. SIZE_T - 1
           Sum(i, x) == (10 * x + ValueOf(Ch(i - 1))) % SIZE_T
           Eq(f) == f = [q \in p .. e |-> IF q = p THEN 0 ELSE Sum(q, f[q - 1])]
           g == CHOOSE f : Eq(f)
<1>1. RunsTo(p, e) /\ e \in Int /\ p \in Int /\ e >= p
  BY RunEnds DEF RunsTo
<1> HIDE DEF e
<1>2. 0 \in S
  BY SizeAssumption
<1>3. ASSUME NEW i \in p + 1 .. e, NEW x \in S PROVE Sum(i, x) \in S
  <2>1. i - 1 \in p .. e - 1
    BY <1>1
  <2>2. ValueOf(Ch(i - 1)) \in 0 .. 9
    BY <1>1, <2>1, DigitValue DEF RunsTo
  <2>3. 10 * x + ValueOf(Ch(i - 1)) \in Nat
    BY <2>2
  <2> QED BY <2>3, Wraps
<1> HIDE DEF S, Sum
<1>4. PICK f \in [p .. e -> S] : Eq(f)
  <2> DEFINE Step == [y \in (p + 1 .. e) \X S |-> Sum(y[1], y[2])]
             m == e - p
  <2>1. \A i \in p + 1 .. e, x \in S : Step[<<i, x>>] = Sum(i, x)
    OBVIOUS
  <2> HIDE DEF Step
  <2>2. m \in Nat /\ p + m = e
    BY <1>1
  <2> HIDE DEF m
  <2>3. \A i \in p + 1 .. p + m, x \in S : Step[<<i, x>>] \in S
    BY <1>3, <2>1, <2>2
  <2>4. \E f \in [p .. p + m -> S] : Solves(f, p, m, 0, Step)
    BY <1>1, <1>2, <2>2, <2>3, FiniteRecursion
  <2>5. PICK f \in [p .. e -> S] :
           f = [i \in p .. e |-> IF i = p THEN 0 ELSE Step[<<i, f[i - 1]>>]]
    BY <2>2, <2>4 DEF Solves
  <2>6. ASSUME NEW i \in p .. e PROVE f[i] = IF i = p THEN 0 ELSE Sum(i, f[i - 1])
    <3>1. CASE i = p
      BY <2>5, <3>1
    <3>2. CASE i # p
      <4>1. i \in p + 1 .. e /\ i - 1 \in p .. e
        BY <1>1, <3>2
      <4>2. f[i - 1] \in S
        BY <4>1
      <4> QED BY <2>1, <2>5, <3>2, <4>1, <4>2
    <3> QED BY <3>1, <3>2
  <2>7. f = [i \in p .. e |-> f[i]]
    OBVIOUS
  <2>8. Eq(f)
    BY <2>6, <2>7
  <2> QED BY <2>8
<1>5. Eq(g)
  <2> HIDE DEF Eq
  <2> QED BY <1>4
<1>6. \A i \in p .. e : g[i] = IF i = p THEN 0 ELSE Sum(i, g[i - 1])
  <2> HIDE DEF g
  <2> QED BY <1>5
<1>7. RunValue(p) = g[e]
  BY DEF RunValue, e, Sum
<1> HIDE DEF g, Eq
<1>8. \A i \in p .. e : g[i] \in S
  <2> DEFINE Bad == {i \in p .. e : g[i] \notin S}
  <2>1. SUFFICES ASSUME Bad # {} PROVE FALSE
    OBVIOUS
  <2>2. PICK m \in Bad : \A k \in Bad : m <= k
    <3>1. Bad \subseteq Nat
      OBVIOUS
    <3> HIDE DEF Bad
    <3> QED BY <2>1, <3>1, LeastNat
  <2>3. m \in p .. e /\ g[m] \notin S
    OBVIOUS
  <2>4. m # p
    BY <1>2, <1>6, <2>3
  <2>5. m - 1 \in p .. e /\ m \in p + 1 .. e /\ ~(m <= m - 1)
    BY <1>1, <2>3, <2>4
  <2>6. m - 1 \notin Bad
    <3> HIDE DEF Bad
    <3> QED BY <2>2, <2>5
  <2>7. g[m - 1] \in S
    BY <2>5, <2>6
  <2> HIDE DEF Bad
  <2> QED BY <1>3, <1>6, <2>3, <2>4, <2>5, <2>7
<1>9. g[p] = 0
  BY <1>1, <1>6
<1>10. ASSUME NEW i \in p + 1 .. e PROVE g[i] = (10 * g[i - 1] + ValueOf(Ch(i - 1))) % SIZE_T
  <2>1. i \in p .. e /\ i # p
    BY <1>1
  <2> QED BY <1>6, <2>1 DEF Sum
<1> QED BY <1>7, <1>8, <1>9, <1>10 DEF S, e

\* The number is one of the unsigned int type, however many digits it has.
LEMMA RunValueType ==
    ASSUME Len(format) \in Nat, NEW p \in 1 .. Len(format) + 1
    PROVE  RunValue(p) \in 0 .. SIZE_T - 1
<1>1. RunEnd(p) \in p .. RunEnd(p)
  BY RunEnds DEF RunsTo
<1> QED BY <1>1, RunValueSteps

-----------------------------------------------------------------------------
(* The text of a directive, and what it takes.                             *)

PrecText(item) ==
    IF item.prec = <<>> THEN <<>> ELSE <<".">> \o FieldText(item.prec)

\* The offsets in the item's text behind its flags, and so on.
ToWidth(item) == 1 + Len(item.flags)
ToPrec(item) == ToWidth(item) + Len(FieldText(item.width))
ToLength(item) == ToPrec(item) + Len(PrecText(item))
ToSpec(item) == ToLength(item) + Len(item.length)

LEMMA NumeralIs ==
    ASSUME NEW k \in 0 .. 99
    PROVE  /\ IsText(Numeral(k)) /\ Len(Numeral(k)) \in {1, 2}
           /\ \A i \in 1 .. Len(Numeral(k)) : Numeral(k)[i] \in Decimals
           /\ k # 0 => Numeral(k)[1] # "0"
<1> DEFINE hi == k \div 10
           lo == k % 10
<1>1. \A d \in 0 .. 9 : d + 1 \in 1 .. 10 /\ Digit[d + 1] \in Decimals
  <2>1. \A d \in 0 .. 9 : d + 1 \in 1 .. 10
    OBVIOUS
  <2> QED BY <2>1 DEF Decimals
<1>2. \A d \in 1 .. 9 : Digit[d + 1] # "0"
  BY DEF Digit
<1>3. CASE k < 10
  <2>1. k \in 0 .. 9 /\ (k # 0 => k \in 1 .. 9)
    BY <1>3
  <2>2. Numeral(k) = <<Digit[k + 1]>>
    BY <1>3 DEF Numeral
  <2> QED BY <1>1, <1>2, <2>1, <2>2, SingleText
<1>4. CASE ~(k < 10)
  <2>1. hi \in 1 .. 9 /\ lo \in 0 .. 9 /\ hi \in 0 .. 9
    BY <1>4
  <2>2. Numeral(k) = <<Digit[hi + 1], Digit[lo + 1]>>
    BY <1>4 DEF Numeral
  <2> HIDE DEF hi, lo
  <2>3. Digit[hi + 1] \in Decimals /\ Digit[lo + 1] \in Decimals /\ Digit[hi + 1] # "0"
    BY <1>1, <1>2, <2>1
  <2> DEFINE a == Digit[hi + 1]
             b == Digit[lo + 1]
  <2> HIDE DEF a, b
  <2>4. <<a, b>> \in Seq(Decimals) /\ Len(<<a, b>>) = 2 /\ <<a, b>>[1] = a
    BY <2>3 DEF a, b
  <2>5. IsText(<<a, b>>)
    BY <2>4, SeqIsText
  <2>6. \A i \in 1 .. 2 : <<a, b>>[i] \in Decimals
    BY <2>4
  <2>7. Numeral(k) = <<a, b>> /\ a # "0"
    BY <2>2, <2>3 DEF a, b
  <2> QED BY <2>4, <2>5, <2>6, <2>7
<1> QED BY <1>3, <1>4

\* A field is none, an argument, or a number.
LEMMA FieldIs ==
    ASSUME NEW f \in Fields
    PROVE  /\ IsText(FieldText(f)) /\ IsText(FieldArgs(f))
           /\ \/ /\ f = <<>> /\ FieldText(f) = <<>> /\ FieldArgs(f) = <<>>
                 /\ Len(FieldText(f)) = 0 /\ Len(FieldArgs(f)) = 0
              \/ /\ \E k \in -(SIZE_T \div 2) .. SIZE_T \div 2 - 1 :
                       f = <<"*", k>> /\ FieldArgs(f) = <<k>> /\ FieldArgs(f)[1] = k
                 /\ FieldText(f) = <<"*">> /\ FieldText(f)[1] = "*"
                 /\ Len(FieldText(f)) = 1 /\ Len(FieldArgs(f)) = 1
              \/ /\ \E k \in 0 .. 99 :
                       f = <<"n", k>> /\ (k # 0 => FieldText(f)[1] # "0")
                 /\ FieldArgs(f) = <<>> /\ Len(FieldArgs(f)) = 0
                 /\ Len(FieldText(f)) \in {1, 2}
                 /\ \A i \in 1 .. Len(FieldText(f)) : FieldText(f)[i] \in Decimals
<1>1. CASE f = <<>>
  <2>1. FieldText(f) = <<>> /\ FieldArgs(f) = <<>>
    BY <1>1 DEF FieldText, FieldArgs
  <2> QED BY <1>1, <2>1, EmptyText
<1>2. ASSUME NEW k \in -(SIZE_T \div 2) .. SIZE_T \div 2 - 1, f = <<"*", k>>
      PROVE  /\ FieldText(f) = <<"*">> /\ FieldText(f)[1] = "*"
             /\ FieldArgs(f) = <<k>> /\ FieldArgs(f)[1] = k
             /\ Len(FieldText(f)) = 1 /\ Len(FieldArgs(f)) = 1
             /\ IsText(FieldText(f)) /\ IsText(FieldArgs(f))
  <2>1. f # <<>> /\ f[1] = "*" /\ f[2] = k
    BY <1>2
  <2>2. FieldText(f) = <<"*">> /\ FieldArgs(f) = <<k>>
    BY <2>1 DEF FieldText, FieldArgs
  <2> QED BY <2>2, SingleText
<1>3. ASSUME NEW k \in 0 .. 99, f = <<"n", k>>
      PROVE  /\ FieldText(f) = Numeral(k) /\ FieldArgs(f) = <<>>
             /\ IsText(FieldText(f)) /\ IsText(FieldArgs(f)) /\ Len(FieldArgs(f)) = 0
             /\ k # 0 => FieldText(f)[1] # "0"
             /\ Len(FieldText(f)) \in {1, 2}
             /\ \A i \in 1 .. Len(FieldText(f)) : FieldText(f)[i] \in Decimals
  <2>1. f # <<>> /\ f[1] # "*" /\ f[2] = k
    BY <1>3
  <2>2. FieldText(f) = Numeral(k) /\ FieldArgs(f) = <<>>
    BY <2>1 DEF FieldText, FieldArgs
  <2> QED BY <2>2, NumeralIs, EmptyText
<1>4. \/ f = <<>>
      \/ \E k \in 0 .. 99 : f = <<"n", k>>
      \/ \E k \in -(SIZE_T \div 2) .. SIZE_T \div 2 - 1 : f = <<"*", k>>
  BY DEF Fields
<1>5. CASE \E k \in 0 .. 99 : f = <<"n", k>>
  BY <1>3, <1>5
<1>6. CASE \E k \in -(SIZE_T \div 2) .. SIZE_T \div 2 - 1 : f = <<"*", k>>
  BY <1>2, <1>6
<1> QED BY <1>1, <1>4, <1>5, <1>6

LEMMA LengthIs ==
    ASSUME NEW len \in Lengths
    PROVE  IsText(len) /\ len \in Seq({"l", "h", "t", "j", "z"}) /\ Len(len) \in 0 .. 2
<1> DEFINE C == {"l", "h", "t", "j", "z"}
<1>1. \/ len = <<>> \/ (\E a \in C : len = <<a>>) \/ (\E a, b \in C : len = <<a, b>>)
  BY DEF Lengths
<1>2. /\ <<>> \in Seq(C) /\ (\A a \in C : <<a>> \in Seq(C))
      /\ \A a, b \in C : <<a, b>> \in Seq(C)
  <2> HIDE DEF C
  <2> QED OBVIOUS
<1>3. /\ Len(<<>>) = 0 /\ (\A a \in C : Len(<<a>>) = 1)
      /\ \A a, b \in C : Len(<<a, b>>) = 2
  OBVIOUS
<1>4. len \in Seq(C) /\ Len(len) \in 0 .. 2
  <2> HIDE DEF C
  <2>1. CASE len = <<>>
    BY <1>2, <1>3, <2>1
  <2>2. ASSUME NEW a \in C, len = <<a>> PROVE len \in Seq(C) /\ Len(len) \in 0 .. 2
    BY <1>2, <1>3, <2>2
  <2>3. ASSUME NEW a \in C, NEW b \in C, len = <<a, b>>
        PROVE  len \in Seq(C) /\ Len(len) \in 0 .. 2
    BY <1>2, <1>3, <2>3
  <2> QED BY <1>1, <2>1, <2>2, <2>3
<1> QED BY <1>4, SeqIsText

LEMMA PrecIs ==
    ASSUME NEW item, item.prec \in Fields
    PROVE  /\ IsText(PrecText(item))
           /\ item.prec = <<>> => Len(PrecText(item)) = 0
           /\ item.prec # <<>> =>
                /\ Len(PrecText(item)) = 1 + Len(FieldText(item.prec))
                /\ PrecText(item)[1] = "."
                /\ \A i \in 1 .. Len(FieldText(item.prec)) :
                      PrecText(item)[1 + i] = FieldText(item.prec)[i]
<1>1. CASE item.prec = <<>>
  BY <1>1, EmptyText DEF PrecText
<1>2. CASE item.prec # <<>>
  <2> DEFINE d == <<".">>
             t == FieldText(item.prec)
  <2>0. IsText(t) /\ IsText(d)
    BY FieldIs, SingleText
  <2>1. Len(d) = 1 /\ d[1] = "." /\ Len(t) \in Nat
    BY <2>0, SingleText DEF IsText
  <2>2. PrecText(item) = d \o t
    BY <1>2 DEF PrecText
  <2> HIDE DEF d, t
  <2>3. /\ IsText(d \o t) /\ Len(d \o t) = Len(d) + Len(t)
        /\ \A k \in 1 .. Len(d) : (d \o t)[k] = d[k]
        /\ \A k \in 1 .. Len(t) : (d \o t)[Len(d) + k] = t[k]
    BY <2>0, Concatenation
  <2>4. Len(d \o t) = 1 + Len(t) /\ (d \o t)[1] = "."
    BY <2>1, <2>3
  <2>5. \A k \in 1 .. Len(t) : (d \o t)[1 + k] = t[k]
    BY <2>1, <2>3
  <2> QED BY <1>2, <2>2, <2>3, <2>4, <2>5 DEF t
<1> QED BY <1>1, <1>2

\* u is s and then t.
Joins(u, s, t) ==
    /\ Len(u) = Len(s) + Len(t) /\ Len(s) \in Nat /\ Len(t) \in Nat
    /\ \A k \in 1 .. Len(s) : u[k] = s[k]
    /\ \A k \in 1 .. Len(t) : u[Len(s) + k] = t[k]

LEMMA Joining ==
    ASSUME NEW s, NEW t, IsText(s), IsText(t)
    PROVE  IsText(s \o t) /\ Joins(s \o t, s, t)
  BY Concatenation DEF Joins

LEMMA LiteralText ==
    ASSUME NEW item, IsLiteral(item)
    PROVE  /\ IsText(TextOf(item)) /\ Len(TextOf(item)) = 1 /\ TextOf(item)[1] = item.arg
           /\ IsText(ArgsOf(item)) /\ Len(ArgsOf(item)) = 0
<1>1. TextOf(item) = <<item.arg>> /\ ArgsOf(item) = <<>>
  BY DEF IsLiteral, TextOf, ArgsOf
<1> QED BY <1>1, SingleText, EmptyText

\* Where the parts of a directive lie in its text.
LEMMA DirectiveText ==
    ASSUME NEW item, IsDirective(item)
    PROVE  /\ IsText(TextOf(item)) /\ Len(TextOf(item)) = ToSpec(item) + 1
           /\ Len(item.flags) \in Nat /\ Len(FieldText(item.width)) \in Nat
           /\ Len(PrecText(item)) \in Nat /\ Len(item.length) \in Nat
           /\ TextOf(item)[1] = "%"
           /\ \A i \in 1 .. Len(item.flags) : TextOf(item)[1 + i] = item.flags[i]
           /\ \A i \in 1 .. Len(FieldText(item.width)) :
                 TextOf(item)[ToWidth(item) + i] = FieldText(item.width)[i]
           /\ \A i \in 1 .. Len(PrecText(item)) :
                 TextOf(item)[ToPrec(item) + i] = PrecText(item)[i]
           /\ \A i \in 1 .. Len(item.length) :
                 TextOf(item)[ToLength(item) + i] = item.length[i]
           /\ TextOf(item)[ToSpec(item) + 1] = item.spec
<1> DEFINE p == <<"%">>
           f == item.flags
           w == FieldText(item.width)
           r == PrecText(item)
           l == item.length
           c == <<item.spec>>
           s1 == p \o f
           s2 == s1 \o w
           s3 == s2 \o r
           s4 == s3 \o l
           s5 == s4 \o c
<1>0. Len(p) = 1 /\ Len(c) = 1 /\ p[1] = "%" /\ c[1] = item.spec
  BY SingleText
<1>1. IsText(p) /\ IsText(f) /\ IsText(w) /\ IsText(r) /\ IsText(l) /\ IsText(c)
  <2>1. IsText(f)
    BY SeqIsText DEF IsDirective
  <2>2. IsText(w)
    BY FieldIs DEF IsDirective
  <2>3. IsText(r)
    BY PrecIs DEF IsDirective
  <2>4. IsText(l)
    BY LengthIs DEF IsDirective
  <2> QED BY <2>1, <2>2, <2>3, <2>4, SingleText
<1>2. TextOf(item) = s5
  <2>1. item.spec # "literal"
    BY DEF IsDirective, TakesArgument, IntegerSpecs
  <2>2. TextOf(item) = <<"%">> \o item.flags \o FieldText(item.width)
                       \o PrecText(item) \o item.length \o <<item.spec>>
    BY <2>1 DEF TextOf, PrecText
  <2> QED BY <2>2
<1> HIDE DEF p, f, w, r, l, c
<1>3. IsText(s1) /\ Joins(s1, p, f)
  BY <1>1, Joining
<1> HIDE DEF s1
<1>4. IsText(s2) /\ Joins(s2, s1, w)
  BY <1>3, <1>1, Joining
<1> HIDE DEF s2
<1>5. IsText(s3) /\ Joins(s3, s2, r)
  BY <1>4, <1>1, Joining
<1> HIDE DEF s3
<1>6. IsText(s4) /\ Joins(s4, s3, l)
  BY <1>5, <1>1, Joining
<1> HIDE DEF s4
<1>7. IsText(s5) /\ Joins(s5, s4, c)
  BY <1>6, <1>1, Joining
<1> HIDE DEF s5
<1> DEFINE F == Len(f)
           W == Len(w)
           R == Len(r)
           L == Len(l)
<1>8. /\ Len(s1) = 1 + F /\ Len(s2) = 1 + F + W /\ Len(s3) = 1 + F + W + R
      /\ Len(s4) = 1 + F + W + R + L /\ Len(s5) = 1 + F + W + R + L + 1
      /\ F \in Nat /\ W \in Nat /\ R \in Nat /\ L \in Nat
  BY <1>0, <1>3, <1>4, <1>5, <1>6, <1>7 DEF Joins
<1>9. \A k \in 1 .. F : f[k] = s1[1 + k]
  BY <1>0, <1>3 DEF Joins
<1>10. \A k \in 1 .. W : w[k] = s2[(1 + F) + k]
  BY <1>4, <1>8 DEF Joins
<1>11. \A k \in 1 .. R : r[k] = s3[(1 + F + W) + k]
  BY <1>5, <1>8 DEF Joins
<1>12. \A k \in 1 .. L : l[k] = s4[(1 + F + W + R) + k]
  BY <1>6, <1>8 DEF Joins
<1>13. s5[(1 + F + W + R + L) + 1] = item.spec
  BY <1>0, <1>7, <1>8 DEF Joins
<1> HIDE DEF F, W, R, L
<1>14. \A k \in 1 .. 1 + F + W + R + L : s5[k] = s4[k]
  BY <1>7, <1>8 DEF Joins
<1>15. \A k \in 1 .. 1 + F + W + R : s5[k] = s3[k]
  BY <1>6, <1>8, <1>14 DEF Joins
<1>16. \A k \in 1 .. 1 + F + W : s5[k] = s2[k]
  BY <1>5, <1>8, <1>15 DEF Joins
<1>17. \A k \in 1 .. 1 + F : s5[k] = s1[k]
  BY <1>4, <1>8, <1>16 DEF Joins
<1>18. s5[1] = "%"
  BY <1>0, <1>3, <1>8, <1>17 DEF Joins
<1>19. \A k \in 1 .. F : s5[1 + k] = f[k]
  BY <1>8, <1>9, <1>17
<1>20. \A k \in 1 .. W : s5[(1 + F) + k] = w[k]
  BY <1>8, <1>10, <1>16
<1>21. \A k \in 1 .. R : s5[(1 + F + W) + k] = r[k]
  BY <1>8, <1>11, <1>15
<1>22. \A k \in 1 .. L : s5[(1 + F + W + R) + k] = l[k]
  BY <1>8, <1>12, <1>14
<1>23. /\ ToWidth(item) = 1 + F /\ ToPrec(item) = 1 + F + W
       /\ ToLength(item) = 1 + F + W + R /\ ToSpec(item) = 1 + F + W + R + L
  BY DEF ToWidth, ToPrec, ToLength, ToSpec, F, W, R, L, f, w, r, l
<1>24. /\ Len(item.flags) = F /\ Len(FieldText(item.width)) = W
       /\ Len(PrecText(item)) = R /\ Len(item.length) = L
       /\ f = item.flags /\ w = FieldText(item.width) /\ r = PrecText(item)
       /\ l = item.length
  BY DEF F, W, R, L, f, w, r, l
<1> QED BY <1>2, <1>7, <1>8, <1>13, <1>18, <1>19, <1>20, <1>21, <1>22, <1>23, <1>24

\* The offsets in the item's arguments behind those of its width, and so on.
ToPrecArg(item) == Len(FieldArgs(item.width))
ToValue(item) == ToPrecArg(item) + Len(FieldArgs(item.prec))

LEMMA DirectiveArgs ==
    ASSUME NEW item, IsDirective(item)
    PROVE  /\ IsText(ArgsOf(item))
           /\ Len(ArgsOf(item)) = ToValue(item) + (IF item.spec = "%" THEN 0 ELSE 1)
           /\ Len(FieldArgs(item.width)) \in Nat /\ Len(FieldArgs(item.prec)) \in Nat
           /\ \A i \in 1 .. Len(FieldArgs(item.width)) :
                 ArgsOf(item)[i] = FieldArgs(item.width)[i]
           /\ \A i \in 1 .. Len(FieldArgs(item.prec)) :
                 ArgsOf(item)[ToPrecArg(item) + i] = FieldArgs(item.prec)[i]
           /\ item.spec # "%" => ArgsOf(item)[ToValue(item) + 1] = item.arg
<1> DEFINE w == FieldArgs(item.width)
           r == FieldArgs(item.prec)
           c == IF item.spec = "%" THEN <<>> ELSE <<item.arg>>
           s1 == w \o r
           s2 == s1 \o c
<1>1. IsText(w) /\ IsText(r) /\ IsText(c)
  <2>1. item.width \in Fields /\ item.prec \in Fields
    BY DEF IsDirective
  <2> QED BY <2>1, FieldIs, SingleText, EmptyText
<1>2. Len(c) = (IF item.spec = "%" THEN 0 ELSE 1) /\ (item.spec # "%" => c[1] = item.arg)
  BY SingleText, EmptyText
<1>3. ArgsOf(item) = s2
  <2>1. item.spec # "literal"
    BY DEF IsDirective, TakesArgument, IntegerSpecs
  <2> QED BY <2>1 DEF ArgsOf
<1> HIDE DEF w, r, c
<1>4. IsText(s1) /\ Joins(s1, w, r)
  BY <1>1, Joining
<1> HIDE DEF s1
<1>5. IsText(s2) /\ Joins(s2, s1, c)
  BY <1>1, <1>4, Joining
<1> HIDE DEF s2
<1>6. \A k \in 1 .. Len(w) : s2[k] = w[k]
  BY <1>4, <1>5 DEF Joins
<1>7. \A k \in 1 .. Len(r) : s2[Len(w) + k] = r[k]
  BY <1>4, <1>5 DEF Joins
<1>8. item.spec # "%" => s2[(Len(w) + Len(r)) + 1] = item.arg
  BY <1>2, <1>4, <1>5 DEF Joins
<1>9. ToPrecArg(item) = Len(w) /\ ToValue(item) = Len(w) + Len(r)
      /\ w = FieldArgs(item.width) /\ r = FieldArgs(item.prec)
  BY DEF ToPrecArg, ToValue, w, r
<1>10. Len(s2) = (Len(w) + Len(r)) + Len(c) /\ Len(w) \in Nat /\ Len(r) \in Nat
  BY <1>4, <1>5 DEF Joins
<1> QED BY <1>2, <1>3, <1>5, <1>6, <1>7, <1>8, <1>9, <1>10

\* What comes behind each part of a directive.
Letters == {"l", "h", "t", "j", "z"}
Specs == TakesArgument \cup {"%"}

LEMMA LettersAndSpecs ==
    /\ (Letters \cup Specs) \cap (FlagChars \cup Decimals \cup {NUL, "*", "."}) = {}
    /\ Letters \cap Specs = {}
  BY DecimalsAre DEF Letters, Specs, TakesArgument, IntegerSpecs, FlagChars, NUL

LEMMA DirectiveChars ==
    ASSUME NEW item, IsDirective(item)
    PROVE  LET t == TextOf(item)
           IN  /\ t[ToLength(item) + 1] \in Letters \cup Specs
               /\ item.prec # <<>> => t[ToPrec(item) + 1] = "."
               /\ item.prec = <<>> => /\ ToPrec(item) = ToLength(item)
                                      /\ t[ToPrec(item) + 1] \in Letters \cup Specs
               /\ item.width = <<>> => ToWidth(item) = ToPrec(item)
<1> DEFINE t == TextOf(item)
<1>1. item.width \in Fields /\ item.prec \in Fields /\ item.length \in Lengths
      /\ item.spec \in Specs
  BY DEF IsDirective, Specs
<1>2. t[ToLength(item) + 1] \in Letters \cup Specs
  <2>1. CASE Len(item.length) = 0
    <3>1. ToSpec(item) = ToLength(item)
      BY <2>1, DirectiveText DEF ToSpec, ToLength, ToPrec, ToWidth
    <3>2. t[ToSpec(item) + 1] = item.spec
      BY DirectiveText
    <3> QED BY <1>1, <3>1, <3>2
  <2>2. CASE Len(item.length) # 0
    <3>1. 1 \in 1 .. Len(item.length) /\ item.length[1] \in Letters
      <4>1. item.length \in Seq(Letters) /\ Len(item.length) \in 0 .. 2
        BY <1>1, LengthIs DEF Letters
      <4> QED BY <2>2, <4>1
    <3>2. t[ToLength(item) + 1] = item.length[1]
      BY <3>1, DirectiveText
    <3> QED BY <3>1, <3>2
  <2> QED BY <2>1, <2>2
<1>3. ASSUME item.prec # <<>> PROVE t[ToPrec(item) + 1] = "."
  <2>1. 1 \in 1 .. Len(PrecText(item)) /\ PrecText(item)[1] = "."
    <3>1. Len(PrecText(item)) = 1 + Len(FieldText(item.prec))
          /\ PrecText(item)[1] = "." /\ IsText(FieldText(item.prec))
      BY <1>1, <1>3, PrecIs, FieldIs
    <3> QED BY <3>1 DEF IsText
  <2> QED BY <2>1, DirectiveText
<1>4. ASSUME item.prec = <<>>
      PROVE  ToPrec(item) = ToLength(item) /\ t[ToPrec(item) + 1] \in Letters \cup Specs
  <2>1. Len(PrecText(item)) = 0
    BY <1>1, <1>4, PrecIs
  <2>2. ToPrec(item) = ToLength(item)
    BY <2>1, DirectiveText DEF ToLength, ToPrec, ToWidth
  <2> QED BY <1>2, <2>2
<1>5. ASSUME item.width = <<>> PROVE ToWidth(item) = ToPrec(item)
  <2>1. Len(FieldText(item.width)) = 0
    BY <1>5, EmptyText DEF FieldText
  <2> QED BY <2>1, DirectiveText DEF ToPrec, ToWidth
<1> QED BY <1>2, <1>3, <1>4, <1>5

-----------------------------------------------------------------------------
(* Where the items of a call lie in its format, and their arguments.       *)

Texts(j) == Each(TextOf, j.items)
Values(j) == Each(ArgsOf, j.items)
TextAt(j) == CHOOSE off : Placed(off, Texts(j))
ValueAt(j) == CHOOSE off : Placed(off, Values(j))

\* The arguments of a call when n of them have been taken.
Rest(j, n) == SubSeq(Passed(j), n + 1, Len(Passed(j)))

LEMMA ItemsPlaced ==
    ASSUME NEW j \in Jobs
    PROVE  /\ Len(j.items) \in Nat
           /\ Len(Texts(j)) = Len(j.items) /\ Len(Values(j)) = Len(j.items)
           /\ \A i \in 1 .. Len(j.items) : /\ Texts(j)[i] = TextOf(j.items[i])
                                           /\ Values(j)[i] = ArgsOf(j.items[i])
           /\ Placed(TextAt(j), Texts(j)) /\ Placed(ValueAt(j), Values(j))
<1> DEFINE n == Len(j.items)
           T == Texts(j)
           V == Values(j)
<1>1. n \in Nat /\ \A i \in 1 .. n : IsLiteral(j.items[i]) \/ IsDirective(j.items[i])
  BY JobAssumption
<1>2. T = [i \in 1 .. n |-> TextOf(j.items[i])] /\ V = [i \in 1 .. n |-> ArgsOf(j.items[i])]
  BY DEF Texts, Values, Each
<1>3. \A i \in 1 .. n : IsText(TextOf(j.items[i])) /\ IsText(ArgsOf(j.items[i]))
  BY <1>1, LiteralText, DirectiveText, DirectiveArgs
<1> HIDE DEF n, T, V
<1>4. \A i \in 1 .. n : T[i] = TextOf(j.items[i]) /\ V[i] = ArgsOf(j.items[i])
  BY <1>2
<1>5. /\ DOMAIN T = 1 .. n /\ T = [i \in 1 .. n |-> T[i]]
      /\ DOMAIN V = 1 .. n /\ V = [i \in 1 .. n |-> V[i]]
  BY <1>2
<1>6. IsText(T) /\ Len(T) = n
  BY <1>1, <1>5, FunctionIsText
<1>7. IsText(V) /\ Len(V) = n
  BY <1>1, <1>5, FunctionIsText
<1>8. \E off : Placed(off, T)
  BY <1>3, <1>4, <1>6, Flattening
<1>9. \E off : Placed(off, V)
  BY <1>3, <1>4, <1>7, Flattening
<1>10. Placed(TextAt(j), T) /\ Placed(ValueAt(j), V)
  BY <1>8, <1>9 DEF TextAt, ValueAt, T, V
<1> QED BY <1>1, <1>4, <1>6, <1>7, <1>10 DEF n, T, V

\* The characters of the item behind the first k, and what it takes.
LEMMA ItemChars ==
    ASSUME job \in Jobs, format = Written(job), NEW k \in 0 .. Len(job.items) - 1
    PROVE  LET item == job.items[k + 1]
               b == TextAt(job)[k]
           IN  /\ b \in Nat /\ TextAt(job)[k + 1] = b + Len(TextOf(item))
               /\ b + Len(TextOf(item)) <= Len(format)
               /\ IsText(TextOf(item))
               /\ \A i \in 1 .. Len(TextOf(item)) : Ch(b + i) = TextOf(item)[i]
<1> DEFINE item == job.items[k + 1]
           off == TextAt(job)
           b == off[k]
           n == Len(job.items)
           T == Texts(job)
<1>1. n \in Nat /\ k + 1 \in 1 .. n /\ k \in 0 .. n /\ (k + 1) - 1 = k /\ k + 1 \in 0 .. n
  BY ItemsPlaced
<1>2. Len(T) = n /\ T[k + 1] = TextOf(item) /\ Placed(off, T) /\ format = FlattenSeq(T)
  BY <1>1, ItemsPlaced DEF Written, Texts
<1>3. IsText(TextOf(item))
  <2>1. IsLiteral(item) \/ IsDirective(item)
    BY <1>1, JobAssumption
  <2> QED BY <2>1, LiteralText, DirectiveText
<1> HIDE DEF off, n, T, item
<1>4. b \in Nat /\ off[k + 1] = b + Len(TextOf(item)) /\ off[k + 1] <= Len(format)
  BY <1>1, <1>2 DEF Placed
<1>5. ASSUME NEW i \in 1 .. Len(TextOf(item)) PROVE Ch(b + i) = TextOf(item)[i]
  <2>1. format[b + i] = TextOf(item)[i]
    BY <1>1, <1>2 DEF Placed
  <2>2. b + i <= Len(format)
    <3>1. Len(TextOf(item)) \in Nat /\ Len(format) \in Nat
      BY <1>2, <1>3 DEF IsText, Placed
    <3> QED BY <1>4, <3>1
  <2> QED BY <2>1, <2>2 DEF Ch
<1> QED BY <1>3, <1>4, <1>5 DEF off, item

LEMMA ItemValues ==
    ASSUME job \in Jobs, NEW k \in 0 .. Len(job.items) - 1
    PROVE  LET item == job.items[k + 1]
               a == ValueAt(job)[k]
           IN  /\ a \in Nat /\ ValueAt(job)[k + 1] = a + Len(ArgsOf(item))
               /\ IsText(ArgsOf(item)) /\ IsText(Passed(job))
               /\ a + Len(ArgsOf(item)) <= Len(Passed(job))
               /\ \A i \in 1 .. Len(ArgsOf(item)) : Passed(job)[a + i] = ArgsOf(item)[i]
<1> DEFINE item == job.items[k + 1]
           off == ValueAt(job)
           a == off[k]
           n == Len(job.items)
           V == Values(job)
<1>1. n \in Nat /\ k + 1 \in 1 .. n /\ k \in 0 .. n /\ (k + 1) - 1 = k /\ k + 1 \in 0 .. n
  BY ItemsPlaced
<1>2. Len(V) = n /\ V[k + 1] = ArgsOf(item) /\ Placed(off, V) /\ Passed(job) = FlattenSeq(V)
  BY <1>1, ItemsPlaced DEF Passed, Values
<1>3. IsText(ArgsOf(item))
  <2>1. IsLiteral(item) \/ IsDirective(item)
    BY <1>1, JobAssumption
  <2> QED BY <2>1, LiteralText, DirectiveArgs
<1> HIDE DEF off, n, V, item
<1>4. a \in Nat /\ off[k + 1] = a + Len(ArgsOf(item)) /\ off[k + 1] <= Len(Passed(job))
      /\ IsText(Passed(job))
  BY <1>1, <1>2 DEF Placed
<1>5. \A i \in 1 .. Len(ArgsOf(item)) : Passed(job)[a + i] = ArgsOf(item)[i]
  BY <1>1, <1>2 DEF Placed
<1> QED BY <1>3, <1>4, <1>5 DEF off, item

\* Taking the next argument.
LEMMA TakeOne ==
    ASSUME NEW a \in Nat, IsText(Passed(job)), a < Len(Passed(job))
    PROVE  Head(Rest(job, a)) = Passed(job)[a + 1] /\ Tail(Rest(job, a)) = Rest(job, a + 1)
<1> DEFINE p == Passed(job)
           S == {p[i] : i \in 1 .. Len(p)}
           r == SubSeq(p, a + 1, Len(p))
           q == SubSeq(p, (a + 1) + 1, Len(p))
<1>1. p \in Seq(S) /\ Len(p) \in Nat /\ a < Len(p)
  BY DEF IsText
<1> HIDE DEF p, S
<1>2. r \in Seq(S) /\ Len(r) = Len(p) - a /\ \A i \in 1 .. Len(r) : r[i] = p[a + i]
  BY <1>1
<1>3. /\ q \in Seq(S) /\ Len(q) = Len(p) - (a + 1)
      /\ \A i \in 1 .. Len(q) : q[i] = p[(a + 1) + i]
  BY <1>1
<1> HIDE DEF r, q
<1>4. Head(r) = p[a + 1]
  BY <1>1, <1>2
<1>5. /\ Tail(r) \in Seq(S) /\ Len(Tail(r)) = Len(r) - 1
      /\ \A i \in 1 .. Len(Tail(r)) : Tail(r)[i] = r[i + 1]
  BY <1>1, <1>2
<1>6. Tail(r) = q
  <2>1. Len(Tail(r)) = Len(q)
    BY <1>1, <1>2, <1>3, <1>5
  <2>2. ASSUME NEW i \in 1 .. Len(q) PROVE Tail(r)[i] = q[i]
    <3>1. i + 1 \in 1 .. Len(r) /\ a + (i + 1) = (a + 1) + i
      BY <1>1, <1>2, <1>3
    <3> QED BY <1>2, <1>3, <1>5, <2>1, <3>1
  <2> QED BY <1>3, <1>5, <2>1, <2>2
<1> QED BY <1>4, <1>6 DEF Rest, p, r, q

-----------------------------------------------------------------------------
(* The scanner takes one item after the other.                             *)

\* How far the scanner is (state c, position p, arguments v left) in a
\* directive of call j that begins behind b characters and a arguments.
Within(j, item, b, a, c, p, v) ==
    \/ c = "flags" /\ v = Rest(j, a) /\ \E m \in 0 .. Len(item.flags) : p = b + 1 + m + 1
    \/ c = "precision" /\ p = b + ToPrec(item) + 1 /\ v = Rest(j, a + ToPrecArg(item))
    \/ c = "length" /\ p = b + ToLength(item) + 1 /\ v = Rest(j, a + ToValue(item))
    \/ c = "specifier" /\ p = b + ToSpec(item) + 1 /\ v = Rest(j, a + ToValue(item))

\* k items have been taken, and perhaps a part of the next.
Taken(j, k, c, p, v) ==
    \/ c = "text" /\ p = TextAt(j)[k] + 1 /\ v = Rest(j, ValueAt(j)[k])
    \/ /\ c = "done" /\ k = Len(j.items)
       /\ p = TextAt(j)[k] + 1 /\ v = Rest(j, ValueAt(j)[k])
    \/ /\ k < Len(j.items) /\ IsDirective(j.items[k + 1])
       /\ Within(j, j.items[k + 1], TextAt(j)[k], ValueAt(j)[k], c, p, v)

AtItem == \E k \in 0 .. Len(job.items) : Taken(job, k, pc, pos, va)

\* What is known of an item that the scanner is in.
Facing(item, b, a) ==
    /\ IsDirective(item) /\ b \in Nat /\ a \in Nat
    /\ b + Len(TextOf(item)) <= Len(format)
    /\ \A i \in 1 .. Len(TextOf(item)) : Ch(b + i) = TextOf(item)[i]
    /\ IsText(Passed(job)) /\ a + Len(ArgsOf(item)) <= Len(Passed(job))
    /\ \A i \in 1 .. Len(ArgsOf(item)) : Passed(job)[a + i] = ArgsOf(item)[i]

LEMMA Faces ==
    ASSUME job \in Jobs, format = Written(job), NEW k \in 0 .. Len(job.items) - 1,
           IsDirective(job.items[k + 1])
    PROVE  Facing(job.items[k + 1], TextAt(job)[k], ValueAt(job)[k])
  BY ItemChars, ItemValues DEF Facing

\* The characters behind the parts of the directive.
LEMMA CharsAhead ==
    ASSUME NEW item, NEW b, NEW a, Facing(item, b, a)
    PROVE  /\ \A m \in 1 .. Len(item.flags) : Ch(b + 1 + m) = item.flags[m]
           /\ \A i \in 1 .. Len(FieldText(item.width)) :
                 Ch(b + ToWidth(item) + i) = FieldText(item.width)[i]
           /\ item.width = <<>> => ToWidth(item) = ToPrec(item)
           /\ item.prec # <<>> =>
                /\ Ch(b + ToPrec(item) + 1) = "."
                /\ ToLength(item) = ToPrec(item) + 1 + Len(FieldText(item.prec))
                /\ \A i \in 1 .. Len(FieldText(item.prec)) :
                      Ch(b + ToPrec(item) + 1 + i) = FieldText(item.prec)[i]
           /\ item.prec = <<>> =>
                /\ ToPrec(item) = ToLength(item)
                /\ Ch(b + ToPrec(item) + 1) \in Letters \cup Specs
           /\ Ch(b + ToLength(item) + 1) \in Letters \cup Specs
           /\ \A i \in 1 .. Len(item.length) : Ch(b + ToLength(item) + i) = item.length[i]
           /\ Ch(b + ToSpec(item) + 1) = item.spec
           /\ ToWidth(item) = 1 + Len(item.flags) /\ Len(item.flags) \in Nat
           /\ ToPrec(item) = ToWidth(item) + Len(FieldText(item.width))
           /\ Len(FieldText(item.width)) \in Nat /\ Len(FieldText(item.prec)) \in Nat
           /\ ToLength(item) \in Nat /\ ToLength(item) >= ToPrec(item)
           /\ ToSpec(item) = ToLength(item) + Len(item.length) /\ Len(item.length) \in Nat
           /\ Len(TextOf(item)) = ToSpec(item) + 1
           /\ b + ToSpec(item) + 1 <= Len(format)
<1> DEFINE t == TextOf(item)
           F == Len(item.flags)
           W == Len(FieldText(item.width))
           R == Len(PrecText(item))
           L == Len(item.length)
           P == Len(FieldText(item.prec))
<1>1. /\ IsDirective(item) /\ b \in Nat /\ b + Len(t) <= Len(format)
      /\ \A i \in 1 .. Len(t) : Ch(b + i) = t[i]
      /\ item.width \in Fields /\ item.prec \in Fields
  BY DEF Facing, IsDirective
<1>2. /\ F \in Nat /\ W \in Nat /\ R \in Nat /\ L \in Nat /\ P \in Nat
      /\ Len(t) = ToSpec(item) + 1
      /\ ToWidth(item) = 1 + F /\ ToPrec(item) = 1 + F + W
      /\ ToLength(item) = 1 + F + W + R /\ ToSpec(item) = 1 + F + W + R + L
  <2>1. P \in Nat
    BY <1>1, FieldIs DEF IsText
  <2> QED BY <1>1, <2>1, DirectiveText DEF ToWidth, ToPrec, ToLength, ToSpec
<1>3. item.prec # <<>> => R = 1 + P
  BY <1>1, PrecIs
<1>4. /\ \A i \in 1 .. F : t[1 + i] = item.flags[i]
      /\ \A i \in 1 .. W : t[ToWidth(item) + i] = FieldText(item.width)[i]
      /\ \A i \in 1 .. R : t[ToPrec(item) + i] = PrecText(item)[i]
      /\ \A i \in 1 .. L : t[ToLength(item) + i] = item.length[i]
      /\ t[ToSpec(item) + 1] = item.spec
  BY <1>1, DirectiveText
<1>5. /\ t[ToLength(item) + 1] \in Letters \cup Specs
      /\ item.prec # <<>> => t[ToPrec(item) + 1] = "."
      /\ item.prec = <<>> => /\ ToPrec(item) = ToLength(item)
                             /\ t[ToPrec(item) + 1] \in Letters \cup Specs
      /\ item.width = <<>> => ToWidth(item) = ToPrec(item)
  BY <1>1, DirectiveChars
<1>6. item.prec # <<>> => \A i \in 1 .. P : PrecText(item)[1 + i] = FieldText(item.prec)[i]
  BY <1>1, PrecIs
<1> HIDE DEF t, F, W, R, L, P
<1>7. ASSUME NEW x \in Nat, NEW y \in Nat, x + y \in 1 .. Len(t)
      PROVE  Ch(b + x + y) = t[x + y]
  <2>1. b + x + y = b + (x + y)
    BY <1>1, <1>7
  <2> QED BY <1>1, <1>7, <2>1
<1>8. \A m \in 1 .. F : Ch(b + 1 + m) = item.flags[m]
  <2>1. \A m \in 1 .. F : 1 + m \in 1 .. Len(t)
    BY <1>2
  <2> QED BY <1>2, <1>4, <1>7, <2>1
<1>9. \A i \in 1 .. W : Ch(b + ToWidth(item) + i) = FieldText(item.width)[i]
  <2>1. ToWidth(item) \in Nat /\ \A i \in 1 .. W : ToWidth(item) + i \in 1 .. Len(t)
    BY <1>2
  <2> QED BY <1>2, <1>4, <1>7, <2>1
<1>10. /\ Ch(b + ToPrec(item) + 1) = t[ToPrec(item) + 1]
       /\ Ch(b + ToLength(item) + 1) = t[ToLength(item) + 1]
       /\ Ch(b + ToSpec(item) + 1) = t[ToSpec(item) + 1]
  <2>1. /\ ToPrec(item) \in Nat /\ ToPrec(item) + 1 \in 1 .. Len(t)
        /\ ToLength(item) \in Nat /\ ToLength(item) + 1 \in 1 .. Len(t)
        /\ ToSpec(item) \in Nat /\ ToSpec(item) + 1 \in 1 .. Len(t)
    BY <1>2
  <2> QED BY <1>7, <2>1
<1>11. \A i \in 1 .. L : Ch(b + ToLength(item) + i) = item.length[i]
  <2>1. ToLength(item) \in Nat /\ \A i \in 1 .. L : ToLength(item) + i \in 1 .. Len(t)
    BY <1>2
  <2> QED BY <1>2, <1>4, <1>7, <2>1
<1>12. ASSUME item.prec # <<>>, NEW i \in 1 .. P
       PROVE  Ch(b + ToPrec(item) + 1 + i) = FieldText(item.prec)[i]
  <2> DEFINE q == ToPrec(item)
  <2>0. q \in Nat /\ b \in Nat /\ i \in Nat /\ 1 + i \in 1 .. R /\ q + R <= Len(t)
    BY <1>1, <1>2, <1>3, <1>12
  <2> HIDE DEF q
  <2>1. /\ 1 + i \in Nat /\ q + (1 + i) \in 1 .. Len(t)
        /\ b + q + 1 + i = b + q + (1 + i)
    BY <1>2, <2>0
  <2>2. Ch(b + q + (1 + i)) = t[q + (1 + i)]
    BY <1>7, <2>0, <2>1
  <2> QED BY <1>4, <1>6, <1>12, <2>0, <2>1, <2>2 DEF q
<1>13. item.prec # <<>> => ToLength(item) = ToPrec(item) + 1 + P
  BY <1>2, <1>3
<1>14. /\ ToLength(item) \in Nat /\ ToLength(item) >= ToPrec(item)
       /\ b + ToSpec(item) + 1 <= Len(format)
  BY <1>1, <1>2
<1> QED BY <1>2, <1>4, <1>5, <1>8, <1>9, <1>10, <1>11, <1>12, <1>13, <1>14
        DEF t, F, W, R, L, P

\* int.
Ints == -(SIZE_T \div 2) .. SIZE_T \div 2 - 1

LEMMA IntMagnitude ==
    ASSUME NEW w \in Ints
    PROVE  Magnitude(w) \in 0 .. SIZE_T - 1 /\ Most(w, 0) \in 0 .. SIZE_T - 1
<1>1. /\ SIZE_T \in Nat \ {0} /\ w \in Int /\ w <= SIZE_T \div 2 - 1
      /\ -(SIZE_T \div 2) <= w /\ SIZE_T \div 2 \in Nat
      /\ SIZE_T \div 2 <= SIZE_T - 1
  BY SizeAssumption DEF Ints
<1> QED BY <1>1 DEF Magnitude, Most

\* The arguments behind those of the parts of a directive.
LEMMA ArgsAhead ==
    ASSUME NEW item, NEW b, NEW a, Facing(item, b, a)
    PROVE  /\ Len(FieldArgs(item.width)) = 1 =>
                /\ Head(Rest(job, a)) = FieldArgs(item.width)[1]
                /\ Tail(Rest(job, a)) = Rest(job, a + ToPrecArg(item))
           /\ Len(FieldArgs(item.width)) = 0 => Rest(job, a) = Rest(job, a + ToPrecArg(item))
           /\ Len(FieldArgs(item.prec)) = 1 =>
                /\ Head(Rest(job, a + ToPrecArg(item))) = FieldArgs(item.prec)[1]
                /\ Tail(Rest(job, a + ToPrecArg(item))) = Rest(job, a + ToValue(item))
           /\ Len(FieldArgs(item.prec)) = 0 =>
                Rest(job, a + ToPrecArg(item)) = Rest(job, a + ToValue(item))
           /\ item.spec # "%" =>
                /\ Head(Rest(job, a + ToValue(item))) = item.arg
                /\ Tail(Rest(job, a + ToValue(item))) = Rest(job, a + Len(ArgsOf(item)))
           /\ item.spec = "%" =>
                Rest(job, a + ToValue(item)) = Rest(job, a + Len(ArgsOf(item)))
<1> DEFINE w == Len(FieldArgs(item.width))
           r == Len(FieldArgs(item.prec))
           c == IF item.spec = "%" THEN 0 ELSE 1
           P == Passed(job)
<1>1. /\ IsDirective(item) /\ a \in Nat /\ IsText(P) /\ Len(P) \in Nat
      /\ a + Len(ArgsOf(item)) <= Len(P)
      /\ \A i \in 1 .. Len(ArgsOf(item)) : P[a + i] = ArgsOf(item)[i]
  BY DEF Facing, IsText
<1>2. /\ w \in Nat /\ r \in Nat /\ c \in Nat /\ Len(ArgsOf(item)) = w + r + c
      /\ ToPrecArg(item) = w /\ ToValue(item) = w + r
      /\ \A i \in 1 .. w : ArgsOf(item)[i] = FieldArgs(item.width)[i]
      /\ \A i \in 1 .. r : ArgsOf(item)[w + i] = FieldArgs(item.prec)[i]
      /\ item.spec # "%" => ArgsOf(item)[(w + r) + 1] = item.arg
  BY <1>1, DirectiveArgs DEF ToPrecArg, ToValue
<1> HIDE DEF w, r
<1>3. ASSUME NEW x \in Nat, x + 1 \in 1 .. w + r + c
      PROVE  /\ Head(Rest(job, a + x)) = ArgsOf(item)[x + 1]
             /\ Tail(Rest(job, a + x)) = Rest(job, a + x + 1)
  <2>1. a + x \in Nat /\ a + x < Len(P) /\ (a + x) + 1 = a + (x + 1)
    BY <1>1, <1>2, <1>3
  <2>2. Head(Rest(job, a + x)) = P[(a + x) + 1] /\ Tail(Rest(job, a + x)) = Rest(job, (a + x) + 1)
    BY <1>1, <2>1, TakeOne
  <2>3. P[a + (x + 1)] = ArgsOf(item)[x + 1]
    BY <1>1, <1>2, <1>3
  <2> QED BY <2>1, <2>2, <2>3
<1>4. ASSUME w = 1
      PROVE  /\ Head(Rest(job, a)) = FieldArgs(item.width)[1]
             /\ Tail(Rest(job, a)) = Rest(job, a + w)
  <2>1. 0 \in Nat /\ 0 + 1 \in 1 .. w + r + c /\ a + 0 = a /\ 0 + 1 = 1 /\ 1 \in 1 .. w
        /\ a + 0 + 1 = a + w
    BY <1>1, <1>2, <1>4
  <2>2. /\ Head(Rest(job, a + 0)) = ArgsOf(item)[0 + 1]
        /\ Tail(Rest(job, a + 0)) = Rest(job, a + 0 + 1)
    BY <1>3, <2>1
  <2>3. ArgsOf(item)[1] = FieldArgs(item.width)[1]
    BY <1>2, <2>1
  <2> QED BY <2>1, <2>2, <2>3
<1>5. ASSUME r = 1
      PROVE  /\ Head(Rest(job, a + w)) = FieldArgs(item.prec)[1]
             /\ Tail(Rest(job, a + w)) = Rest(job, a + (w + r))
  <2>1. w + 1 \in 1 .. w + r + c /\ 1 \in 1 .. r /\ a + w + 1 = a + (w + r)
    BY <1>1, <1>2, <1>5
  <2>2. /\ Head(Rest(job, a + w)) = ArgsOf(item)[w + 1]
        /\ Tail(Rest(job, a + w)) = Rest(job, a + w + 1)
    BY <1>2, <1>3, <2>1
  <2>3. ArgsOf(item)[w + 1] = FieldArgs(item.prec)[1]
    BY <1>2, <2>1
  <2> QED BY <2>1, <2>2, <2>3
<1>6. ASSUME item.spec # "%"
      PROVE  /\ Head(Rest(job, a + (w + r))) = item.arg
             /\ Tail(Rest(job, a + (w + r))) = Rest(job, a + Len(ArgsOf(item)))
  <2> DEFINE x == w + r
  <2>1. x \in Nat /\ x + 1 \in 1 .. w + r + c /\ a + x + 1 = a + Len(ArgsOf(item))
    BY <1>1, <1>2, <1>6
  <2> HIDE DEF x
  <2>2. /\ Head(Rest(job, a + x)) = ArgsOf(item)[x + 1]
        /\ Tail(Rest(job, a + x)) = Rest(job, a + x + 1)
    BY <1>3, <2>1
  <2>3. ArgsOf(item)[x + 1] = item.arg
    BY <1>2, <1>6 DEF x
  <2>4. /\ Head(Rest(job, a + x)) = item.arg
        /\ Tail(Rest(job, a + x)) = Rest(job, a + Len(ArgsOf(item)))
    BY <2>1, <2>2, <2>3
  <2> QED BY <2>4 DEF x
<1>7. ASSUME w = 0 PROVE Rest(job, a) = Rest(job, a + w)
  <2>1. a = a + w
    BY <1>1, <1>7
  <2> QED BY <2>1
<1>8. ASSUME r = 0 PROVE Rest(job, a + w) = Rest(job, a + (w + r))
  <2>1. w = w + r
    BY <1>2, <1>8
  <2> QED BY <2>1
<1>9. ASSUME item.spec = "%" PROVE Rest(job, a + (w + r)) = Rest(job, a + Len(ArgsOf(item)))
  <2>1. w + r = Len(ArgsOf(item))
    BY <1>2, <1>9
  <2> QED BY <2>1
<1>10. ToPrecArg(item) = w /\ ToValue(item) = w + r
  BY <1>2
<1> QED BY <1>4, <1>5, <1>6, <1>7, <1>8, <1>9, <1>10 DEF w, r

\* A flag is taken.
LEMMA FlagWithin ==
    ASSUME NEW item, NEW b, NEW a, Facing(item, b, a), Flag,
           Within(job, item, b, a, pc, pos, va)
    PROVE  Within(job, item, b, a, "flags", pos', va')
<1>1. pc = "flags" /\ Ch(pos) \in FlagChars /\ pos' = pos + 1 /\ va' = va
  BY DEF Flag
<1>2. PICK m \in 0 .. Len(item.flags) : pos = b + 1 + m + 1
  BY <1>1 DEF Within
<1>3. va = Rest(job, a)
  BY <1>1 DEF Within
<1>4. b \in Nat /\ IsDirective(item) /\ Len(item.flags) \in Nat /\ item.width \in Fields \ {<<"n", 0>>}
  BY CharsAhead DEF Facing, IsDirective
<1>5. m # Len(item.flags)
  <2> SUFFICES ASSUME m = Len(item.flags) PROVE FALSE
    OBVIOUS
  <2>1. pos = b + ToWidth(item) + 1
    <3> DEFINE F == Len(item.flags)
    <3>1. ToWidth(item) = 1 + F
      BY CharsAhead
    <3>2. F \in Nat /\ b \in Nat /\ pos = b + 1 + F + 1
      BY <1>2, <1>4
    <3> HIDE DEF F
    <3> QED BY <3>1, <3>2
  <2>2. Ch(pos) \notin FlagChars
    <3>1. CASE item.width = <<>>
      <4>1. pos = b + ToPrec(item) + 1
        BY <2>1, <3>1, CharsAhead
      <4>2. Ch(pos) \in Letters \cup Specs \cup {"."}
        BY <4>1, CharsAhead
      <4> QED BY <4>2, LettersAndSpecs DEF FlagChars
    <3>2. CASE Len(FieldText(item.width)) = 1 /\ FieldText(item.width)[1] = "*"
      <4>1. Ch(pos) = "*"
        BY <2>1, <3>2, CharsAhead
      <4> QED BY <4>1 DEF FlagChars
    <3>3. CASE \E n \in 0 .. 99 : item.width = <<"n", n>> /\ (n # 0 => FieldText(item.width)[1] # "0")
      <4>1. FieldText(item.width)[1] # "0"
        BY <1>4, <3>3
      <4>2. 1 \in 1 .. Len(FieldText(item.width)) /\ FieldText(item.width)[1] \in Decimals
        <5>1. item.width # <<>>
          BY <3>3
        <5>2. item.width[1] # "*"
          BY <3>3
        <5> QED BY <1>4, <5>1, <5>2, FieldIs
      <4>3. Ch(pos) = FieldText(item.width)[1]
        BY <2>1, <4>2, CharsAhead
      <4> QED BY <4>1, <4>2, <4>3, DecimalsAre DEF FlagChars
    <3> QED BY <1>4, <3>1, <3>2, <3>3, FieldIs
  <2> QED BY <1>1, <2>2
<1>6. m + 1 \in 0 .. Len(item.flags) /\ pos' = b + 1 + (m + 1) + 1
  BY <1>1, <1>2, <1>4, <1>5
<1> QED BY <1>1, <1>3, <1>6 DEF Within

\* The width is looked for behind the last flag.
LEMMA WidthStarts ==
    ASSUME NEW item, NEW b, NEW a, Facing(item, b, a), Width,
           Within(job, item, b, a, pc, pos, va)
    PROVE  /\ pos = b + 1 + Len(item.flags) + 1 /\ pos = b + ToWidth(item) + 1
           /\ ToWidth(item) \in Nat /\ Len(FieldText(item.width)) \in Nat
           /\ ToPrec(item) = ToWidth(item) + Len(FieldText(item.width))
           /\ b + ToPrec(item) + 1 <= Len(format)
           /\ b \in Nat /\ va = Rest(job, a)
<1>1. pc = "flags" /\ Ch(pos) \notin FlagChars
  BY DEF Width
<1>2. PICK m \in 0 .. Len(item.flags) : pos = b + 1 + m + 1
  BY <1>1 DEF Within
<1>3. va = Rest(job, a)
  BY <1>1 DEF Within
<1>4. /\ b \in Nat /\ IsDirective(item) /\ Len(item.flags) \in Nat
      /\ item.width \in Fields /\ item.flags \in Seq(FlagChars)
  BY CharsAhead DEF Facing, IsDirective
<1>5. m = Len(item.flags)
  <2> SUFFICES ASSUME m # Len(item.flags) PROVE FALSE
    OBVIOUS
  <2>1. m + 1 \in 1 .. Len(item.flags) /\ pos = b + 1 + (m + 1)
    BY <1>2, <1>4
  <2>2. Ch(pos) = item.flags[m + 1]
    BY <2>1, CharsAhead
  <2>3. item.flags[m + 1] \in FlagChars
    BY <1>4, <2>1
  <2> QED BY <1>1, <2>2, <2>3
<1> DEFINE W == Len(FieldText(item.width))
           q == ToWidth(item)
           e == ToPrec(item)
<1>6. /\ pos = b + 1 + Len(item.flags) + 1 /\ pos = b + q + 1 /\ q \in Nat
      /\ e = q + W /\ W \in Nat /\ b + e + 1 <= Len(format)
  <2> DEFINE F == Len(item.flags)
             g == ToLength(item)
             s == ToSpec(item)
  <2>1. /\ q = 1 + F /\ F \in Nat /\ e = q + W /\ W \in Nat /\ g \in Nat /\ g >= e
        /\ s = g + Len(item.length) /\ Len(item.length) \in Nat
        /\ b + s + 1 <= Len(format)
    BY CharsAhead
  <2>2. pos = b + 1 + F + 1
    BY <1>2, <1>5
  <2>4. pos = b + 1 + Len(item.flags) + 1
    BY <2>2
  <2> HIDE DEF F, g, s, q, e, W
  <2>3. b + e + 1 <= b + s + 1
    BY <1>4, <2>1
  <2>5. /\ pos = b + q + 1 /\ q \in Nat
        /\ e = q + W /\ W \in Nat /\ b + e + 1 <= Len(format)
    BY <1>4, <2>1, <2>2, <2>3
  <2> QED BY <2>4, <2>5
<1> QED BY <1>3, <1>4, <1>6

\* The width is taken, a number, an argument or none.
LEMMA WidthWithin ==
    ASSUME NEW item, NEW b, NEW a, Facing(item, b, a), Width, Len(format) \in Nat,
           Within(job, item, b, a, pc, pos, va)
    PROVE  /\ Within(job, item, b, a, "precision", pos', va')
           /\ Ch(pos) = "*" => Head(va) \in Ints
<1> DEFINE W == Len(FieldText(item.width))
           q == ToWidth(item)
           e == ToPrec(item)
<1>3. va = Rest(job, a)
  BY WidthStarts
<1>4. b \in Nat /\ item.width \in Fields
  BY DEF Facing, IsDirective
<1>6. /\ pos = b + q + 1 /\ q \in Nat /\ e = q + W /\ W \in Nat
      /\ b + e + 1 <= Len(format)
  BY WidthStarts
<1>7. Ch(b + e + 1) \in Letters \cup Specs \cup {"."}
  BY CharsAhead
<1>8. CASE Len(FieldText(item.width)) = 1 /\ FieldText(item.width)[1] = "*"
           /\ Len(FieldArgs(item.width)) = 1 /\ FieldArgs(item.width)[1] \in Ints
  <2>1. Ch(pos) = "*"
    BY <1>6, <1>8, CharsAhead
  <2>2. pos' = pos + 1 /\ va' = Tail(va)
    BY <2>1 DEF Width
  <2>3. pos' = b + e + 1
    <3> HIDE DEF q, e
    <3> QED BY <1>4, <1>6, <1>8, <2>2
  <2>4. va' = Rest(job, a + ToPrecArg(item))
    BY <1>3, <1>8, <2>2, ArgsAhead
  <2>5. Head(va) \in Ints
    BY <1>3, <1>8, ArgsAhead
  <2> QED BY <2>3, <2>4, <2>5 DEF Within
<1>9. CASE Len(FieldArgs(item.width)) = 0
           /\ \A i \in 1 .. W : FieldText(item.width)[i] \in Decimals
  <2>1. \A i \in 1 .. W : Ch(b + q + i) \in Decimals
    BY <1>9, CharsAhead
  <2> HIDE DEF q, e, W
  <2>2. Ch(b + e + 1) \notin Decimals /\ Ch(b + e + 1) # "*"
    BY <1>7, LettersAndSpecs, DecimalsAre
  <2>3. Ch(pos) # "*"
    <3>1. CASE W = 0
      <4>1. pos = b + e + 1
        BY <1>4, <1>6, <3>1
      <4> QED BY <2>2, <4>1
    <3>2. CASE W # 0
      <4>1. 1 \in 1 .. W
        BY <1>6, <3>2
      <4> QED BY <1>6, <2>1, <4>1, DecimalsAre
    <3> QED BY <3>1, <3>2
  <2>4. pos' = RunEnd(pos) /\ va' = va
    BY <2>3 DEF Width
  <2>5. RunsTo(pos, b + e + 1) /\ pos \in 1 .. Len(format) + 1
    <3>1. b + e + 1 \in pos .. Len(format) + 1 /\ pos \in 1 .. Len(format) + 1
      BY <1>4, <1>6
    <3>2. ASSUME NEW r \in pos .. (b + e + 1) - 1 PROVE Ch(r) \in Decimals
      <4>1. r - (b + q) \in 1 .. W /\ b + q + (r - (b + q)) = r
        BY <1>4, <1>6
      <4> QED BY <2>1, <4>1
    <3> QED BY <2>2, <3>1, <3>2 DEF RunsTo
  <2>6. pos' = b + e + 1
    BY <2>4, <2>5, RunUnique
  <2>7. va' = Rest(job, a + ToPrecArg(item))
    BY <1>3, <1>9, <2>4, ArgsAhead
  <2> QED BY <2>3, <2>6, <2>7 DEF Within, e
<1>10. item.width = <<>> => W = 0
  BY <1>4, FieldIs
<1> QED BY <1>4, <1>6, <1>8, <1>9, <1>10, FieldIs DEF Ints

\* The precision is taken, a number, an argument or none.
LEMMA PrecisionWithin ==
    ASSUME NEW item, NEW b, NEW a, Facing(item, b, a), Precision, Len(format) \in Nat,
           Within(job, item, b, a, pc, pos, va)
    PROVE  /\ Within(job, item, b, a, "length", pos', va')
           /\ Ch(pos) = "." /\ Ch(pos + 1) = "*" => Head(va) \in Ints
<1> DEFINE P == Len(FieldText(item.prec))
           e == ToPrec(item)
           g == ToLength(item)
<1>1. pc = "precision" /\ pos = b + e + 1 /\ va = Rest(job, a + ToPrecArg(item))
  BY DEF Precision, Within
<1>2. /\ b \in Nat /\ IsDirective(item) /\ item.prec \in Fields
  BY DEF Facing, IsDirective
<1>3. /\ e \in Nat /\ g \in Nat /\ P \in Nat /\ b + g + 1 <= Len(format)
  <2> DEFINE s == ToSpec(item)
             F == Len(item.flags)
             W == Len(FieldText(item.width))
             L == Len(item.length)
  <2>1. /\ ToWidth(item) = 1 + F /\ F \in Nat /\ e = ToWidth(item) + W /\ W \in Nat
        /\ P \in Nat /\ g \in Nat /\ s = g + L /\ L \in Nat /\ b + s + 1 <= Len(format)
    BY CharsAhead
  <2> HIDE DEF s, F, W, L, e, g, P
  <2> QED BY <1>2, <2>1
<1>4. Ch(b + g + 1) \in Letters \cup Specs
  BY CharsAhead
<1>5. CASE item.prec = <<>>
  <2>1. g = e /\ Ch(pos) \in Letters \cup Specs
    BY <1>1, <1>5, CharsAhead
  <2>2. Ch(pos) # "."
    BY <2>1, LettersAndSpecs
  <2>3. pos' = pos /\ va' = va
    BY <2>2 DEF Precision
  <2>4. Len(FieldArgs(item.prec)) = 0
    BY <1>2, <1>5, EmptyText DEF FieldArgs
  <2>5. va' = Rest(job, a + ToValue(item))
    BY <1>1, <2>3, <2>4, ArgsAhead
  <2> QED BY <1>1, <2>1, <2>2, <2>3, <2>5 DEF Within
<1>6. CASE item.prec # <<>>
  <2>1. /\ Ch(pos) = "." /\ g = e + 1 + P
        /\ \A i \in 1 .. P : Ch(b + e + 1 + i) = FieldText(item.prec)[i]
    BY <1>1, <1>6, CharsAhead
  <2>2. CASE Len(FieldText(item.prec)) = 1 /\ FieldText(item.prec)[1] = "*"
             /\ Len(FieldArgs(item.prec)) = 1 /\ FieldArgs(item.prec)[1] \in Ints
    <3>1. Ch(pos + 1) = "*"
      <4>1. 1 \in 1 .. P
        BY <2>2
      <4> QED BY <1>1, <2>1, <2>2, <4>1
    <3>2. pos' = pos + 2 /\ va' = Tail(va)
      BY <2>1, <3>1 DEF Precision
    <3>3. va' = Rest(job, a + ToValue(item))
      BY <1>1, <2>2, <3>2, ArgsAhead
    <3>5. Head(va) \in Ints
      BY <1>1, <2>2, ArgsAhead
    <3> HIDE DEF e, g
    <3>4. pos' = b + g + 1
      BY <1>1, <1>2, <1>3, <2>1, <2>2, <3>2
    <3> QED BY <3>3, <3>4, <3>5 DEF Within, g
  <2>3. CASE Len(FieldArgs(item.prec)) = 0
             /\ \A i \in 1 .. P : FieldText(item.prec)[i] \in Decimals
    <3>1. \A i \in 1 .. P : Ch(b + e + 1 + i) \in Decimals
      BY <2>1, <2>3
    <3> HIDE DEF e, g, P
    <3>2. Ch(b + g + 1) \notin Decimals /\ Ch(b + g + 1) # "*"
      BY <1>4, LettersAndSpecs
    <3>3. Ch(pos + 1) # "*"
      <4>1. CASE P = 0
        <5>1. pos + 1 = b + g + 1
          BY <1>1, <1>2, <1>3, <2>1, <4>1
        <5> QED BY <3>2, <5>1
      <4>2. CASE P # 0
        <5>1. 1 \in 1 .. P
          BY <1>3, <4>2
        <5> QED BY <1>1, <3>1, <5>1, DecimalsAre
      <4> QED BY <4>1, <4>2
    <3>4. pos' = RunEnd(pos + 1) /\ va' = va
      BY <2>1, <3>3 DEF Precision
    <3>5. RunsTo(pos + 1, b + g + 1) /\ pos + 1 \in 1 .. Len(format) + 1
      <4>1. b + g + 1 \in pos + 1 .. Len(format) + 1 /\ pos + 1 \in 1 .. Len(format) + 1
        BY <1>1, <1>2, <1>3, <2>1
      <4>2. ASSUME NEW r \in pos + 1 .. (b + g + 1) - 1 PROVE Ch(r) \in Decimals
        <5>1. r - (b + e + 1) \in 1 .. P /\ b + e + 1 + (r - (b + e + 1)) = r
          BY <1>1, <1>2, <1>3, <2>1
        <5> QED BY <3>1, <5>1
      <4> QED BY <3>2, <4>1, <4>2 DEF RunsTo
    <3>6. pos' = b + g + 1
      BY <3>4, <3>5, RunUnique
    <3>7. va' = Rest(job, a + ToValue(item))
      BY <1>1, <2>3, <3>4, ArgsAhead
    <3> QED BY <3>3, <3>6, <3>7 DEF Within, g
  <2> QED BY <1>2, <1>6, <2>2, <2>3, FieldIs DEF Ints
<1> QED BY <1>5, <1>6

\* There is a longest length.
LEMMA LongestLength ==
    ASSUME NEW p
    PROVE  /\ LengthAt(p) \in Lengths /\ Matches(LengthAt(p), p)
           /\ \A other \in Lengths : Matches(other, p) => Len(other) <= Len(LengthAt(p))
<1> DEFINE T == {n \in 0 .. 2 : \E len \in Lengths : Matches(len, p) /\ Len(len) = 2 - n}
<1>1. T \subseteq Nat /\ T # {}
  <2>1. <<>> \in Lengths /\ Len(<<>>) = 2 - 2 /\ Matches(<<>>, p)
    BY EmptyText DEF Lengths, Matches
  <2>2. 2 \in T
    BY <2>1
  <2> QED BY <2>2
<1>2. PICK n \in T : \A y \in T : n <= y
  <2> HIDE DEF T
  <2> QED BY <1>1, LeastNat
<1>3. PICK len \in Lengths : Matches(len, p) /\ Len(len) = 2 - n
  OBVIOUS
<1>4. ASSUME NEW other \in Lengths, Matches(other, p) PROVE Len(other) <= Len(len)
  <2>1. Len(other) \in 0 .. 2 /\ n \in 0 .. 2
    BY LengthIs
  <2>2. 2 - Len(other) \in 0 .. 2 /\ Len(other) = 2 - (2 - Len(other))
    <3> DEFINE x == Len(other)
    <3> HIDE DEF x
    <3>1. x \in 0 .. 2
      BY <2>1 DEF x
    <3>2. 2 - x \in 0 .. 2 /\ x = 2 - (2 - x)
      BY <3>1
    <3> QED BY <3>2 DEF x
  <2>3. 2 - Len(other) \in T
    BY <1>4, <2>2
  <2>4. n <= 2 - Len(other)
    <3> HIDE DEF T
    <3> QED BY <1>2, <2>3
  <2> QED BY <1>3, <2>1, <2>4
<1>5. \E l \in Lengths :
         /\ Matches(l, p)
         /\ \A other \in Lengths : Matches(other, p) => Len(other) <= Len(l)
  BY <1>3, <1>4
<1> QED BY <1>5 DEF LengthAt

\* The length found is that of the directive.
LEMMA LengthFound ==
    ASSUME NEW item, NEW b, NEW a, Facing(item, b, a), pos = b + ToLength(item) + 1
    PROVE  LengthAt(pos) = item.length /\ Len(item.length) \in Nat
<1> DEFINE l == item.length
           len == LengthAt(pos)
           g == ToLength(item)
           s == ToSpec(item)
<1>1. pos = b + g + 1
  OBVIOUS
<1>2. b \in Nat /\ l \in Lengths /\ item.spec \in Specs
  BY DEF Facing, IsDirective, Specs
<1>3. /\ \A i \in 1 .. Len(l) : Ch(b + g + i) = l[i]
      /\ Ch(b + s + 1) = item.spec /\ s = g + Len(l) /\ g \in Nat
  BY CharsAhead
<1>4. l \in Seq(Letters) /\ Len(l) \in Nat
  BY <1>2, LengthIs DEF Letters
<1>5. /\ len \in Lengths /\ Matches(len, pos)
      /\ \A other \in Lengths : Matches(other, pos) => Len(other) <= Len(len)
  BY LongestLength
<1> HIDE DEF l, len, g, s
<1>6. len \in Seq(Letters) /\ Len(len) \in Nat
  BY <1>5, LengthIs DEF Letters
<1>7. Matches(l, pos)
  <2>1. ASSUME NEW i \in 1 .. Len(l) PROVE Ch(pos + i - 1) = l[i]
    <3>1. pos + i - 1 = b + g + i
      <4>1. b \in Nat /\ g \in Nat /\ i \in Nat
        BY <1>2, <1>3, <1>4
      <4>2. pos + i - 1 = (b + g + 1) + i - 1
        BY <1>1
      <4>3. (b + g + 1) + i - 1 = b + g + i
        BY <4>1
      <4> QED BY <4>2, <4>3
    <3> QED BY <1>3, <3>1
  <2> QED BY <2>1 DEF Matches
<1>8. Len(l) <= Len(len)
  BY <1>2, <1>5, <1>7
<1>9. ~(Len(len) > Len(l))
  <2> SUFFICES ASSUME Len(len) > Len(l) PROVE FALSE
    OBVIOUS
  <2>1. Len(l) + 1 \in 1 .. Len(len) /\ pos + (Len(l) + 1) - 1 = b + s + 1
    BY <1>1, <1>2, <1>3, <1>4, <1>6
  <2>2. Ch(b + s + 1) = len[Len(l) + 1]
    BY <1>5, <2>1 DEF Matches
  <2>3. len[Len(l) + 1] \in Letters
    BY <1>6, <2>1
  <2> QED BY <1>2, <1>3, <2>2, <2>3, LettersAndSpecs
<1>10. Len(len) = Len(l)
  BY <1>4, <1>6, <1>8, <1>9
<1>11. len = l
  <2>1. \A i \in 1 .. Len(l) : len[i] = l[i]
    BY <1>5, <1>7, <1>10 DEF Matches
  <2> QED BY <1>4, <1>6, <1>10, <2>1
<1> QED BY <1>4, <1>11 DEF len, l

\* The length is taken.
LEMMA LengthWithin ==
    ASSUME NEW item, NEW b, NEW a, Facing(item, b, a), Length,
           Within(job, item, b, a, pc, pos, va)
    PROVE  Within(job, item, b, a, "specifier", pos', va')
<1> DEFINE l == item.length
           g == ToLength(item)
           s == ToSpec(item)
<1>1. /\ pc = "length" /\ pos = b + g + 1 /\ va = Rest(job, a + ToValue(item)) /\ va' = va
  BY DEF Length, Within
<1>2. pos' = pos + Len(l) /\ Len(l) \in Nat
  BY <1>1, LengthFound DEF Length
<1>3. b \in Nat /\ s = g + Len(l) /\ g \in Nat
  BY CharsAhead DEF Facing
<1> HIDE DEF l, g, s
<1>4. pos' = b + s + 1
  BY <1>1, <1>2, <1>3
<1> QED BY <1>1, <1>4 DEF Within, s

\* The conversion ends the directive and takes its value.
LEMMA SpecifierTakes ==
    ASSUME NEW item, NEW b, NEW a, Facing(item, b, a), Specifier,
           Within(job, item, b, a, pc, pos, va)
    PROVE  /\ pos' = b + Len(TextOf(item)) + 1
           /\ va' = Rest(job, a + Len(ArgsOf(item)))
<1>1. /\ pc = "specifier" /\ pos = b + ToSpec(item) + 1
      /\ va = Rest(job, a + ToValue(item)) /\ pos' = pos + 1
      /\ va' = IF Ch(pos) \in TakesArgument THEN Tail(va) ELSE va
  BY DEF Specifier, Within
<1>2. Ch(pos) = item.spec
  BY <1>1, CharsAhead
<1>3. item.spec \in TakesArgument <=> item.spec # "%"
  BY DEF Facing, IsDirective, TakesArgument, IntegerSpecs
<1>4. va' = Rest(job, a + Len(ArgsOf(item)))
  BY <1>1, <1>2, <1>3, ArgsAhead
<1>5. pos' = b + Len(TextOf(item)) + 1
  <2> DEFINE s == ToSpec(item)
             n == Len(TextOf(item))
  <2>1. b \in Nat /\ n = s + 1 /\ s \in Nat
    <3>1. n = s + 1 /\ s = ToLength(item) + Len(item.length)
          /\ ToLength(item) \in Nat /\ Len(item.length) \in Nat
      BY CharsAhead
    <3>2. s \in Nat
      BY <3>1
    <3> QED BY <3>1, <3>2 DEF Facing
  <2> HIDE DEF s, n
  <2>2. pos = b + s + 1
    BY <1>1 DEF s
  <2>3. pos' = b + n + 1
    BY <1>1, <2>1, <2>2
  <2> QED BY <2>3 DEF n
<1> QED BY <1>4, <1>5

-----------------------------------------------------------------------------
(* The scanner, from any item to the next.                                 *)

LEMMA ItemStart ==
    ASSUME job \in Jobs, format = Written(job), NEW k \in 0 .. Len(job.items) - 1
    PROVE  LET item == job.items[k + 1]
               c == Ch(TextAt(job)[k] + 1)
           IN  \/ /\ IsLiteral(item) /\ c \notin {NUL, "%"}
                  /\ TextAt(job)[k + 1] = TextAt(job)[k] + 1
                  /\ ValueAt(job)[k + 1] = ValueAt(job)[k]
               \/ IsDirective(item) /\ c = "%"
<1> DEFINE item == job.items[k + 1]
           b == TextAt(job)[k]
           a == ValueAt(job)[k]
<1>1. IsLiteral(item) \/ IsDirective(item)
  <2>1. k + 1 \in 1 .. Len(job.items)
    BY ItemsPlaced
  <2> QED BY <2>1, JobAssumption
<1>2. /\ b \in Nat /\ TextAt(job)[k + 1] = b + Len(TextOf(item))
      /\ \A i \in 1 .. Len(TextOf(item)) : Ch(b + i) = TextOf(item)[i]
  BY ItemChars
<1>3. a \in Nat /\ ValueAt(job)[k + 1] = a + Len(ArgsOf(item))
  BY ItemValues
<1> HIDE DEF item, b, a
<1>4. CASE IsLiteral(item)
  <2>1. Len(TextOf(item)) = 1 /\ TextOf(item)[1] = item.arg /\ Len(ArgsOf(item)) = 0
    BY <1>4, LiteralText
  <2>2. Ch(b + 1) = item.arg /\ item.arg \notin {NUL, "%"}
    BY <1>2, <1>4, <2>1 DEF IsLiteral
  <2>3. TextAt(job)[k + 1] = b + 1 /\ ValueAt(job)[k + 1] = a
    BY <1>2, <1>3, <2>1
  <2> QED BY <1>4, <2>2, <2>3 DEF item, b, a
<1>5. CASE IsDirective(item)
  <2>1. 1 \in 1 .. Len(TextOf(item)) /\ TextOf(item)[1] = "%"
    <3> DEFINE F == Len(item.flags)
               W == Len(FieldText(item.width))
               R == Len(PrecText(item))
               L == Len(item.length)
               n == Len(TextOf(item))
    <3>1. /\ n = 1 + F + W + R + L + 1 /\ TextOf(item)[1] = "%"
          /\ F \in Nat /\ W \in Nat /\ R \in Nat /\ L \in Nat
      BY <1>5, DirectiveText DEF ToSpec, ToLength, ToPrec, ToWidth
    <3> HIDE DEF F, W, R, L, n
    <3>2. 1 \in 1 .. n
      BY <3>1
    <3> QED BY <3>1, <3>2 DEF n
  <2>2. Ch(b + 1) = "%"
    BY <1>2, <2>1
  <2> QED BY <1>5, <2>2 DEF item, b
<1> QED BY <1>1, <1>4, <1>5

\* Behind the last item is the end of the format.
LEMMA ItemsEnd ==
    ASSUME job \in Jobs, format = Written(job)
    PROVE  /\ IsText(format) /\ TextAt(job)[Len(job.items)] = Len(format)
           /\ Ch(TextAt(job)[Len(job.items)] + 1) = NUL
           /\ \A k \in 0 .. Len(job.items) : TextAt(job)[k] \in 0 .. Len(format)
           /\ ValueAt(job)[Len(job.items)] = Len(Passed(job)) /\ IsText(Passed(job))
           /\ TextAt(job)[0] = 0 /\ ValueAt(job)[0] = 0
<1> DEFINE T == Texts(job)
           V == Values(job)
           n == Len(job.items)
<1>1. /\ n \in Nat /\ Len(T) = n /\ Len(V) = n
      /\ Placed(TextAt(job), T) /\ Placed(ValueAt(job), V)
      /\ format = FlattenSeq(T) /\ Passed(job) = FlattenSeq(V)
  BY ItemsPlaced DEF Written, Passed, Texts, Values
<1> HIDE DEF T, V, n
<1>2. /\ IsText(format) /\ TextAt(job)[n] = Len(format)
      /\ \A k \in 0 .. n : TextAt(job)[k] \in Nat /\ TextAt(job)[k] <= Len(format)
      /\ ValueAt(job)[n] = Len(Passed(job)) /\ IsText(Passed(job))
      /\ TextAt(job)[0] = 0 /\ ValueAt(job)[0] = 0
  BY <1>1 DEF Placed
<1>3. Ch(TextAt(job)[n] + 1) = NUL
  BY <1>2 DEF Ch, IsText
<1>4. \A k \in 0 .. n : TextAt(job)[k] \in 0 .. Len(format)
  BY <1>2 DEF IsText
<1> QED BY <1>2, <1>3, <1>4 DEF n

\* Between two items, and in one.
LEMMA BetweenItems ==
    ASSUME NEW k, Taken(job, k, pc, pos, va), pc = "text"
    PROVE  pos = TextAt(job)[k] + 1 /\ va = Rest(job, ValueAt(job)[k])
  BY DEF Taken, Within

LEMMA InItem ==
    ASSUME job \in Jobs, format = Written(job), NEW k \in 0 .. Len(job.items),
           Taken(job, k, pc, pos, va), pc \notin {"text", "done"}
    PROVE  LET item == job.items[k + 1]
               b == TextAt(job)[k]
               a == ValueAt(job)[k]
           IN  /\ k < Len(job.items) /\ k \in 0 .. Len(job.items) - 1 /\ IsDirective(item)
               /\ Facing(item, b, a) /\ Within(job, item, b, a, pc, pos, va)
<1>1. /\ k < Len(job.items) /\ IsDirective(job.items[k + 1])
      /\ Within(job, job.items[k + 1], TextAt(job)[k], ValueAt(job)[k], pc, pos, va)
  BY DEF Taken
<1>2. k \in 0 .. Len(job.items) - 1
  BY <1>1, ItemsPlaced
<1> QED BY <1>1, <1>2, Faces

\* A step of the scanner takes it from item to item: an ordinary character
\* and a conversion finish one, all else leaves it where it is.
LEMMA ItemMoves ==
    ASSUME job \in Jobs, format = Written(job), NEW k \in 0 .. Len(job.items),
           Taken(job, k, pc, pos, va)
    PROVE  /\ Ordinary \/ Specifier =>
                k \in 0 .. Len(job.items) - 1 /\ Taken(job, k + 1, pc', pos', va')
           /\ Percent => k \in 0 .. Len(job.items) - 1 /\ IsDirective(job.items[k + 1])
           /\ Percent \/ Flag \/ Width \/ Precision \/ Length \/ Terminate =>
                Taken(job, k, pc', pos', va')
<1>1. IsText(format) /\ Len(format) \in Nat
  BY ItemsEnd DEF IsText
<1> DEFINE item == job.items[k + 1]
           b == TextAt(job)[k]
           a == ValueAt(job)[k]
           n == Len(job.items)
<1>4. n \in Nat /\ k \in Nat /\ (k # n => k \in 0 .. n - 1 /\ k < n /\ k + 1 \in 0 .. n)
      /\ b \in Nat
  BY ItemsPlaced, ItemsEnd
<1>6. ASSUME k < n, IsDirective(item), Within(job, item, b, a, pc', pos', va')
      PROVE  Taken(job, k, pc', pos', va')
  BY <1>6 DEF Taken
<1>7. ASSUME pc \notin {"text", "done"}
      PROVE  /\ k < n /\ k \in 0 .. n - 1 /\ IsDirective(item) /\ Facing(item, b, a)
             /\ Within(job, item, b, a, pc, pos, va)
  BY <1>7, InItem
<1>8. ASSUME pc = "text"
      PROVE  pos = b + 1 /\ va = Rest(job, a)
  BY <1>8, BetweenItems
<1> HIDE DEF b, a, item
<1>9. ASSUME Ordinary PROVE k \in 0 .. n - 1 /\ Taken(job, k + 1, pc', pos', va')
  <2>1. pc = "text" /\ Ch(pos) \notin {NUL, "%"} /\ pos' = pos + 1 /\ va' = va /\ pc' = pc
    BY <1>9 DEF Ordinary
  <2>2. k # n
    <3>1. Ch(TextAt(job)[n] + 1) = NUL
      BY ItemsEnd
    <3> QED BY <1>8, <2>1, <3>1 DEF b
  <2>3. k \in 0 .. n - 1 /\ k + 1 \in 0 .. n
    BY <1>4, <2>2
  <2>4. TextAt(job)[k + 1] = b + 1 /\ ValueAt(job)[k + 1] = a
    BY <1>8, <2>1, <2>3, ItemStart DEF b, a
  <2>5. Taken(job, k + 1, pc', pos', va')
    BY <1>4, <1>8, <2>1, <2>4 DEF Taken
  <2> QED BY <2>3, <2>5
<1>10. ASSUME Percent
       PROVE  k \in 0 .. n - 1 /\ IsDirective(item) /\ Taken(job, k, pc', pos', va')
  <2>1. pc = "text" /\ Ch(pos) = "%" /\ pos' = pos + 1 /\ va' = va /\ pc' = "flags"
    BY <1>10 DEF Percent
  <2>2. k # n
    <3>1. Ch(TextAt(job)[n] + 1) = NUL
      BY ItemsEnd
    <3> QED BY <1>8, <2>1, <3>1 DEF b, NUL
  <2>3. k \in 0 .. n - 1 /\ k < n
    BY <1>4, <2>2
  <2>4. IsDirective(item)
    BY <1>8, <2>1, <2>3, ItemStart DEF b, item
  <2>5. 0 \in 0 .. Len(item.flags)
    BY <2>4, SeqIsText DEF IsDirective, IsText
  <2>6. Within(job, item, b, a, pc', pos', va')
    <3>1. pos' = b + 1 + 0 + 1
      BY <1>4, <1>8, <2>1
    <3> QED BY <1>8, <2>1, <2>5, <3>1 DEF Within
  <2>7. Taken(job, k, pc', pos', va')
    BY <1>6, <2>3, <2>4, <2>6
  <2> QED BY <2>3, <2>4, <2>7
<1>11. ASSUME Flag PROVE Taken(job, k, pc', pos', va')
  <2>1. pc = "flags" /\ pc' = "flags"
    BY <1>11 DEF Flag
  <2>2. Within(job, item, b, a, pc', pos', va')
    BY <1>7, <1>11, <2>1, FlagWithin
  <2> QED BY <1>6, <1>7, <2>1, <2>2
<1>12. ASSUME Width PROVE Taken(job, k, pc', pos', va')
  <2>1. pc = "flags" /\ pc' = "precision"
    BY <1>12 DEF Width
  <2>2. Within(job, item, b, a, pc', pos', va')
    BY <1>1, <1>7, <1>12, <2>1, WidthWithin
  <2> QED BY <1>6, <1>7, <2>1, <2>2
<1>13. ASSUME Precision PROVE Taken(job, k, pc', pos', va')
  <2>1. pc = "precision" /\ pc' = "length"
    BY <1>13 DEF Precision
  <2>2. Within(job, item, b, a, pc', pos', va')
    BY <1>1, <1>7, <1>13, <2>1, PrecisionWithin
  <2> QED BY <1>6, <1>7, <2>1, <2>2
<1>14. ASSUME Length PROVE Taken(job, k, pc', pos', va')
  <2>1. pc = "length" /\ pc' = "specifier"
    BY <1>14 DEF Length
  <2>2. Within(job, item, b, a, pc', pos', va')
    BY <1>7, <1>14, <2>1, LengthWithin
  <2> QED BY <1>6, <1>7, <2>1, <2>2
<1>15. ASSUME Specifier PROVE k \in 0 .. n - 1 /\ Taken(job, k + 1, pc', pos', va')
  <2>1. pc = "specifier" /\ pc' = "text"
    BY <1>15 DEF Specifier
  <2>2. k \in 0 .. n - 1 /\ k + 1 \in 0 .. n
    BY <1>4, <1>7, <2>1
  <2>3. pos' = b + Len(TextOf(item)) + 1 /\ va' = Rest(job, a + Len(ArgsOf(item)))
    BY <1>7, <1>15, <2>1, SpecifierTakes
  <2>4. TextAt(job)[k + 1] = b + Len(TextOf(item))
        /\ ValueAt(job)[k + 1] = a + Len(ArgsOf(item))
    BY <2>2, ItemChars, ItemValues DEF b, a, item
  <2>5. Taken(job, k + 1, pc', pos', va')
    BY <2>1, <2>3, <2>4 DEF Taken
  <2> QED BY <2>2, <2>5
<1>16. ASSUME Terminate PROVE Taken(job, k, pc', pos', va')
  <2>1. pc = "text" /\ Ch(pos) = NUL /\ pc' = "done" /\ pos' = pos /\ va' = va
    BY <1>16 DEF Terminate
  <2>2. k = n
    <3> SUFFICES ASSUME k # n PROVE FALSE
      OBVIOUS
    <3>1. k \in 0 .. n - 1
      BY <1>4
    <3>2. Ch(b + 1) # NUL
      BY <3>1, ItemStart DEF b, NUL
    <3> QED BY <1>8, <2>1, <3>2
  <2>3. Taken(job, k, pc', pos', va')
    BY <1>8, <2>1, <2>2 DEF Taken, a, b
  <2> QED BY <2>3
<1> QED BY <1>9, <1>10, <1>11, <1>12, <1>13, <1>14, <1>15, <1>16 DEF item

LEMMA ItemStep ==
    ASSUME job \in Jobs, format = Written(job), AtItem, [Next]_vars
    PROVE  AtItem'
<1>1. job' = job
  BY DEF Next, Ordinary, Percent, Flag, Width, Precision, Length, Specifier,
         Terminate, vars
<1>2. PICK k \in 0 .. Len(job.items) : Taken(job, k, pc, pos, va)
  BY DEF AtItem
<1>3. SUFFICES \E i \in 0 .. Len(job.items) : Taken(job, i, pc', pos', va')
  BY <1>1 DEF AtItem
<1>4. CASE Ordinary \/ Specifier
  <2>1. k \in 0 .. Len(job.items) - 1 /\ Taken(job, k + 1, pc', pos', va')
    BY <1>2, <1>4, ItemMoves
  <2>2. k + 1 \in 0 .. Len(job.items)
    BY <2>1, ItemsPlaced
  <2> QED BY <2>1, <2>2
<1>5. CASE Percent \/ Flag \/ Width \/ Precision \/ Length \/ Terminate
  BY <1>2, <1>5, ItemMoves
<1>6. CASE UNCHANGED vars
  BY <1>2, <1>6 DEF vars
<1> QED BY <1>4, <1>5, <1>6 DEF Next

-----------------------------------------------------------------------------
(* The whole of a call.                                                    *)

ItemInv ==
    /\ job \in Jobs
    /\ format = Format(job)
    /\ job.entry # "sprintf_" => AtItem

LEMMA RestEnds ==
    ASSUME IsText(Passed(job))
    PROVE  Rest(job, 0) = Passed(job) /\ Rest(job, Len(Passed(job))) = <<>>
<1> DEFINE p == Passed(job)
           S == {p[i] : i \in 1 .. Len(p)}
<1>1. p \in Seq(S)
  BY DEF IsText
<1> HIDE DEF p, S
<1>2. SubSeq(p, 0 + 1, Len(p)) = p
  BY <1>1
<1>3. SubSeq(p, Len(p) + 1, Len(p)) = <<>>
  BY <1>1
<1> QED BY <1>2, <1>3 DEF Rest, p

LEMMA ItemInit == Init => ItemInv
<1> SUFFICES ASSUME Init, job.entry # "sprintf_" PROVE AtItem
  BY DEF Init, ItemInv
<1>1. job \in Jobs /\ format = Written(job)
  BY DEF Init, Format
<1>2. TextAt(job)[0] = 0 /\ ValueAt(job)[0] = 0 /\ IsText(Passed(job))
  BY <1>1, ItemsEnd
<1>3. pc = "text" /\ pos = 1 /\ va = Passed(job)
  BY DEF Init
<1>4. va = Rest(job, 0)
  BY <1>2, <1>3, RestEnds
<1>5. Taken(job, 0, pc, pos, va)
  BY <1>2, <1>3, <1>4 DEF Taken
<1>6. 0 \in 0 .. Len(job.items)
  BY <1>1, ItemsPlaced
<1> QED BY <1>5, <1>6 DEF AtItem

LEMMA ItemNext == ItemInv /\ [Next]_vars => ItemInv'
<1> SUFFICES ASSUME ItemInv, [Next]_vars PROVE ItemInv'
  OBVIOUS
<1>1. job' = job /\ format' = format
  BY DEF Next, Ordinary, Percent, Flag, Width, Precision, Length, Specifier,
         Terminate, vars
<1>2. job.entry # "sprintf_" => AtItem'
  BY ItemStep DEF ItemInv, Format
<1> QED BY <1>1, <1>2 DEF ItemInv, Format, TestFormat

\* Whatever the directives, the flags in any order, fields in numbers or in
\* arguments: the scanner takes the arguments they name, each once, and it
\* stops at the terminator of the format.
THEOREM DirectivesTakeTheirs == Spec => []TakesItsArguments
<1>1. ItemInv => TakesItsArguments
  <2> SUFFICES ASSUME ItemInv, pc = "done", job.entry # "sprintf_"
               PROVE  va = <<>> /\ pos = Len(format) + 1
    BY DEF TakesItsArguments
  <2>1. job \in Jobs /\ format = Written(job)
    BY DEF ItemInv, Format
  <2>2. PICK k \in 0 .. Len(job.items) : Taken(job, k, pc, pos, va)
    BY DEF ItemInv, AtItem
  <2>3. k = Len(job.items) /\ pos = TextAt(job)[k] + 1 /\ va = Rest(job, ValueAt(job)[k])
    BY <2>2 DEF Taken, Within
  <2>4. /\ TextAt(job)[k] = Len(format) /\ ValueAt(job)[k] = Len(Passed(job))
        /\ IsText(Passed(job))
    BY <2>1, <2>3, ItemsEnd
  <2> QED BY <2>3, <2>4, RestEnds
<1> QED BY <1>1, ItemInit, ItemNext, PTL DEF Spec

\* An argument that a field takes is an int, and that of %s a string.
ArgumentsFit ==
    /\ Width /\ Ch(pos) = "*" => Head(va) \in Ints
    /\ Precision /\ Ch(pos) = "." /\ Ch(pos + 1) = "*" => Head(va) \in Ints
    /\ Specifier /\ Ch(pos) = "s" => IsText(Head(va))

LEMMA TestChars ==
    ASSUME format = TestFormat
    PROVE  IsText(format) /\ Len(format) = 8 /\ \A p \in Nat \ {0} : Ch(p) \notin {"*", "s"}
<1>1. IsText(format) /\ Len(format) = 8
  <2>1. DOMAIN format = 1 .. 8
    BY DEF TestFormat
  <2>2. format = [i \in 1 .. 8 |-> format[i]]
    BY DEF TestFormat
  <2> QED BY <2>1, <2>2, FunctionIsText
<1>2. ASSUME NEW p \in Nat \ {0} PROVE Ch(p) \notin {"*", "s"}
  <2>1. CASE p <= 8
    <3>1. p \in {1, 2, 3, 4, 5, 6, 7, 8}
      BY <2>1
    <3>2. format[p] \notin {"*", "s"}
      BY <3>1 DEF TestFormat
    <3> QED BY <1>1, <2>1, <3>2 DEF Ch
  <2>2. CASE ~(p <= 8)
    BY <1>1, <2>2 DEF Ch, NUL
  <2> QED BY <2>1, <2>2
<1> QED BY <1>1, <1>2

LEMMA FormatIsText == ASSUME ItemInv PROVE IsText(format) /\ Len(format) \in Nat
<1>1. CASE job.entry = "sprintf_"
  BY <1>1, TestChars DEF ItemInv, Format
<1>2. CASE job.entry # "sprintf_"
  BY <1>2, ItemsEnd DEF ItemInv, Format, IsText
<1> QED BY <1>1, <1>2

LEMMA ArgumentsFitTheItem ==
    ASSUME job \in Jobs, format = Written(job), AtItem
    PROVE  ArgumentsFit
<1>1. IsText(format) /\ Len(format) \in Nat
  BY ItemsEnd DEF IsText
<1>2. PICK k \in 0 .. Len(job.items) : Taken(job, k, pc, pos, va)
  BY DEF AtItem
<1> DEFINE item == job.items[k + 1]
           b == TextAt(job)[k]
           a == ValueAt(job)[k]
<1>3. ASSUME pc \notin {"text", "done"}
      PROVE  Facing(item, b, a) /\ Within(job, item, b, a, pc, pos, va)
  <2>1. /\ k < Len(job.items) /\ IsDirective(item)
        /\ Within(job, item, b, a, pc, pos, va)
    BY <1>2, <1>3 DEF Taken
  <2>2. k \in 0 .. Len(job.items) - 1
    BY <2>1, ItemsPlaced
  <2> QED BY <2>1, <2>2, Faces
<1> HIDE DEF b, a, item
<1>4. Width /\ Ch(pos) = "*" => Head(va) \in Ints
  <2>1. Width => pc = "flags"
    BY DEF Width
  <2> QED BY <1>1, <1>3, <2>1, WidthWithin
<1>5. Precision /\ Ch(pos) = "." /\ Ch(pos + 1) = "*" => Head(va) \in Ints
  <2>1. Precision => pc = "precision"
    BY DEF Precision
  <2> QED BY <1>1, <1>3, <2>1, PrecisionWithin
<1>6. ASSUME Specifier, Ch(pos) = "s" PROVE IsText(Head(va))
  <2>1. pc = "specifier"
    BY <1>6 DEF Specifier
  <2>2. Facing(item, b, a) /\ pos = b + ToSpec(item) + 1 /\ va = Rest(job, a + ToValue(item))
    BY <1>3, <2>1 DEF Within
  <2>3. item.spec = "s"
    BY <1>6, <2>2, CharsAhead
  <2>4. Head(va) = item.arg
    BY <2>2, <2>3, ArgsAhead
  <2>5. item.arg \in Seq(STRING)
    BY <2>2, <2>3 DEF Facing, IsDirective
  <2> QED BY <2>4, <2>5, SeqIsText
<1> QED BY <1>4, <1>5, <1>6 DEF ArgumentsFit

LEMMA ArgumentsAlwaysFit ==
    ASSUME ItemInv, pos \in Nat \ {0}
    PROVE  ArgumentsFit
<1>1. CASE job.entry = "sprintf_"
  <2>1. \A p \in Nat \ {0} : Ch(p) \notin {"*", "s"}
    BY <1>1, TestChars DEF ItemInv, Format
  <2>2. pos + 1 \in Nat \ {0}
    OBVIOUS
  <2> QED BY <2>1, <2>2 DEF ArgumentsFit
<1>2. CASE job.entry # "sprintf_"
  BY <1>2, ArgumentsFitTheItem DEF ItemInv, Format
<1> QED BY <1>1, <1>2

-----------------------------------------------------------------------------
(* The types.                                                              *)

AllFlags == FlagChars \cup {"precision", "long", "long_long", "short", "char"}

\* Within a directive the scanner is at its terminator at most, and only the
\* conversion takes it behind that.
ScanInv ==
    /\ ItemInv
    /\ TypeOK
    /\ pc \notin {"text", "done"} => pos <= Len(format) + 1

LEMMA NotTheEnd ==
    ASSUME NEW p \in Int, Ch(p) # NUL PROVE p <= Len(format)
  BY DEF Ch

LEMMA ZeroFits == 0 \in 0 .. SIZE_T - 1
  BY SizeAssumption

LEMMA LengthStaysIn ==
    ASSUME NEW p \in 1 .. Len(format) + 1, Len(format) \in Nat
    PROVE  /\ p + Len(LengthAt(p)) \in 1 .. Len(format) + 1
           /\ LengthFlags(LengthAt(p)) \subseteq AllFlags
<1> DEFINE len == LengthAt(p)
           l == Len(len)
           n == Len(format)
<1>1. len \in Lengths /\ Matches(len, p)
  BY LongestLength
<1> HIDE DEF len
<1>2. l \in 0 .. 2 /\ len \in Seq({"l", "h", "t", "j", "z"})
  BY <1>1, LengthIs
<1>3. ASSUME l = 0 PROVE p + l \in 1 .. n + 1
  BY <1>3
<1>4. ASSUME l # 0 PROVE p + l \in 1 .. n + 1
  <2>1. l \in 1 .. Len(len) /\ p + l - 1 \in Int
    BY <1>2, <1>4
  <2>2. Ch(p + l - 1) = len[l]
    BY <1>1, <2>1 DEF Matches
  <2>3. len[l] \in {"l", "h", "t", "j", "z"}
    BY <1>2, <2>1
  <2>4. p + l - 1 <= n
    BY <2>1, <2>2, <2>3, NotTheEnd DEF NUL
  <2>5. p \in 1 .. n + 1 /\ n \in Nat /\ l \in Nat
    BY <1>2
  <2> HIDE DEF l, n
  <2>6. p + l \in 1 .. n + 1
    BY <2>4, <2>5
  <2> QED BY <2>6 DEF l, n
<1>5. LengthFlags(len) \subseteq AllFlags
  BY <1>1 DEF Lengths, LengthFlags, AllFlags
<1>6. p + l \in 1 .. n + 1
  BY <1>3, <1>4, <1>2
<1> QED BY <1>5, <1>6 DEF len

LEMMA ScanInit == Init => ScanInv
<1> SUFFICES ASSUME Init PROVE ScanInv
  OBVIOUS
<1>1. ItemInv
  BY ItemInit
<1>2. Len(format) \in Nat
  BY <1>1, FormatIsText
<1> QED BY <1>1, <1>2, ZeroFits DEF Init, ScanInv, TypeOK

\* What the actions that put nothing out do to the scanner's own variables.
LEMMA ScanFields ==
    ASSUME ScanInv, Percent \/ Flag \/ Width \/ Precision \/ Length
    PROVE  /\ pc' \in {"flags", "precision", "length", "specifier"}
           /\ pos' \in 1 .. Len(format) + 1
           /\ flags' \subseteq AllFlags
           /\ width' \in 0 .. SIZE_T - 1 /\ precision' \in 0 .. SIZE_T - 1
           /\ UNCHANGED <<job, format, idx, memory, full>>
<1> DEFINE n == Len(format)
<1>1. /\ n \in Nat /\ pos \in 1 .. n + 2 /\ pos + 1 \in Int
      /\ flags \subseteq AllFlags /\ width \in 0 .. SIZE_T - 1
      /\ precision \in 0 .. SIZE_T - 1
      /\ pc \notin {"text", "done"} => pos \in 1 .. n + 1
      /\ ItemInv /\ ArgumentsFit
  <2>1. n \in Nat
    BY FormatIsText DEF ScanInv
  <2>2. pos \in 1 .. n + 2 /\ pos \in Nat \ {0}
    BY <2>1 DEF ScanInv, TypeOK
  <2>3. ItemInv /\ ArgumentsFit
    BY <2>2, ArgumentsAlwaysFit DEF ScanInv
  <2> HIDE DEF n
  <2> QED BY <2>1, <2>2, <2>3 DEF ScanInv, TypeOK, AllFlags, n
<1> HIDE DEF n
<1>2. ASSUME NEW c, c # NUL, Ch(pos) = c PROVE pos <= n /\ pos + 1 \in 1 .. n + 1
  <2>1. pos <= n
    BY <1>1, <1>2, NotTheEnd DEF n
  <2> QED BY <1>1, <2>1
<1>3. NUL # "%" /\ NUL \notin FlagChars /\ NUL # "*" /\ NUL # "."
  BY DEF NUL, FlagChars
<1>4. CASE Percent
  <2>1. Ch(pos) = "%"
    BY <1>4 DEF Percent
  <2>2. pos + 1 \in 1 .. n + 1
    BY <1>2, <1>3, <2>1
  <2> QED BY <1>1, <1>4, <2>2 DEF Percent, n
<1>5. CASE Flag
  <2>1. Ch(pos) \in FlagChars /\ flags' = flags \cup {Ch(pos)}
    BY <1>5 DEF Flag
  <2>2. pos + 1 \in 1 .. n + 1
    BY <1>2, <1>3, <2>1
  <2>3. flags' \subseteq AllFlags
    BY <1>1, <2>1 DEF AllFlags
  <2> QED BY <1>1, <1>5, <2>2, <2>3 DEF Flag, n
<1>6. CASE Width
  <2>1. pos \in 1 .. n + 1
    BY <1>1, <1>6 DEF Width
  <2>2. CASE Ch(pos) = "*"
    <3>1. Head(va) \in Ints
      BY <1>1, <1>6, <2>2 DEF ArgumentsFit
    <3>2. width' \in 0 .. SIZE_T - 1
      BY <1>6, <2>2, <3>1, IntMagnitude DEF Width
    <3>3. flags' \subseteq AllFlags
      BY <1>1, <1>6, <2>2 DEF Width, AllFlags, FlagChars
    <3>4. pos + 1 \in 1 .. n + 1
      BY <1>2, <1>3, <2>2
    <3> QED BY <1>1, <1>6, <2>2, <3>2, <3>3, <3>4 DEF Width, n
  <2>3. CASE Ch(pos) # "*"
    <3>1. width' \in 0 .. SIZE_T - 1
      BY <1>1, <1>6, <2>1, <2>3, RunValueType DEF Width, n
    <3>2. pos' \in 1 .. n + 1
      <4>1. RunEnd(pos) \in pos .. n + 1
        BY <1>1, <2>1, RunEnds DEF RunsTo, n
      <4>2. pos' = RunEnd(pos)
        BY <1>6, <2>3 DEF Width
      <4> HIDE DEF n
      <4> QED BY <1>1, <2>1, <4>1, <4>2
    <3> QED BY <1>1, <1>6, <2>3, <3>1, <3>2 DEF Width, n
  <2> QED BY <2>2, <2>3
<1>7. CASE Precision
  <2>1. pos \in 1 .. n + 1
    BY <1>1, <1>7 DEF Precision
  <2>2. CASE Ch(pos) # "."
    BY <1>1, <1>7, <2>1, <2>2, ZeroFits DEF Precision, n
  <2>3. CASE Ch(pos) = "." /\ Ch(pos + 1) = "*"
    <3>1. Head(va) \in Ints
      BY <1>1, <1>7, <2>3 DEF ArgumentsFit
    <3>2. precision' \in 0 .. SIZE_T - 1
      BY <1>7, <2>3, <3>1, IntMagnitude DEF Precision
    <3>3. flags' \subseteq AllFlags
      BY <1>1, <1>7, <2>3 DEF Precision, AllFlags
    <3>4. pos' \in 1 .. n + 1
      <4>1. pos + 1 <= n
        BY <1>1, <1>3, <2>3, NotTheEnd DEF n
      <4>2. pos' = pos + 2
        BY <1>7, <2>3 DEF Precision
      <4> QED BY <1>1, <2>1, <4>1, <4>2
    <3> QED BY <1>1, <1>7, <3>2, <3>3, <3>4 DEF Precision, n
  <2>4. CASE Ch(pos) = "." /\ Ch(pos + 1) # "*"
    <3>1. pos + 1 \in 1 .. n + 1
      BY <1>2, <1>3, <2>4
    <3>2. precision' = RunValue(pos + 1) /\ pos' = RunEnd(pos + 1)
          /\ flags' = flags \cup {"precision"}
      BY <1>7, <2>4 DEF Precision
    <3>3. precision' \in 0 .. SIZE_T - 1
      BY <1>1, <3>1, <3>2, RunValueType DEF n
    <3>4. pos' \in 1 .. n + 1
      <4>1. RunEnd(pos + 1) \in pos + 1 .. n + 1
        BY <1>1, <3>1, RunEnds DEF RunsTo, n
      <4> QED BY <1>1, <2>1, <3>2, <4>1
    <3>5. flags' \subseteq AllFlags
      BY <1>1, <3>2 DEF AllFlags
    <3> QED BY <1>1, <1>7, <3>3, <3>4, <3>5 DEF Precision, n
  <2> QED BY <2>2, <2>3, <2>4
<1>8. CASE Length
  <2>1. pos \in 1 .. n + 1
    BY <1>1, <1>8 DEF Length
  <2>2. /\ pos + Len(LengthAt(pos)) \in 1 .. n + 1
        /\ LengthFlags(LengthAt(pos)) \subseteq AllFlags
    BY <1>1, <2>1, LengthStaysIn DEF n
  <2>3. flags' \subseteq AllFlags
    BY <1>1, <1>8, <2>2 DEF Length
  <2> QED BY <1>1, <1>8, <2>2, <2>3 DEF Length, n
<1> QED BY <1>4, <1>5, <1>6, <1>7, <1>8

LEMMA ScanNext == ScanInv /\ [Next]_vars => ScanInv'
<1> SUFFICES ASSUME ScanInv, [Next]_vars PROVE ScanInv'
  OBVIOUS
<1>1. ItemInv'
  BY ItemNext DEF ScanInv
<1> DEFINE n == Len(format)
<1>2. n \in Nat
  BY FormatIsText DEF ScanInv
<1>3. /\ pos \in 1 .. n + 2 /\ flags \subseteq AllFlags
      /\ width \in 0 .. SIZE_T - 1 /\ precision \in 0 .. SIZE_T - 1
      /\ idx \in 0 .. SIZE_T - 1 /\ DOMAIN memory = 0 .. MemorySize - 1
      /\ pc \in {"text", "flags", "precision", "length", "specifier", "done"}
      /\ pc \notin {"text", "done"} => pos <= n + 1
  BY DEF ScanInv, TypeOK, AllFlags
<1>4. SUFFICES /\ pc' \in {"text", "flags", "precision", "length", "specifier", "done"}
               /\ pos' \in 1 .. n + 2 /\ flags' \subseteq AllFlags
               /\ width' \in 0 .. SIZE_T - 1 /\ precision' \in 0 .. SIZE_T - 1
               /\ idx' \in 0 .. SIZE_T - 1 /\ DOMAIN memory' = 0 .. MemorySize - 1
               /\ pc' \notin {"text", "done"} => pos' <= n + 1
               /\ format' = format
  BY <1>1 DEF ScanInv, TypeOK, AllFlags
<1> HIDE DEF n
<1>5. ASSUME NEW s, Out(s), Len(s) \in Int
      PROVE  idx' \in 0 .. SIZE_T - 1 /\ DOMAIN memory' = 0 .. MemorySize - 1
  <2>1. idx + Len(s) \in Int /\ idx' = (idx + Len(s)) % SIZE_T
    BY <1>3, <1>5, SizeAssumption DEF Out
  <2>2. DOMAIN memory' = DOMAIN memory
    BY <1>5 DEF Out, Stored
  <2> QED BY <1>3, <2>1, <2>2, Wraps
<1>6. CASE Ordinary
  <2>1. Ch(pos) # NUL /\ pos \in Int /\ Out(<<Ch(pos)>>) /\ Len(<<Ch(pos)>>) \in Int
    BY <1>3, <1>6, SingleText DEF Ordinary
  <2>2. pos <= n
    BY <2>1, NotTheEnd DEF n
  <2>3. pos + 1 \in 1 .. n + 2
    BY <1>2, <1>3, <2>2
  <2>4. idx' \in 0 .. SIZE_T - 1 /\ DOMAIN memory' = 0 .. MemorySize - 1
    BY <1>5, <2>1
  <2> QED BY <1>3, <1>6, <2>3, <2>4 DEF Ordinary
<1>7. CASE Percent \/ Flag \/ Width \/ Precision \/ Length
  <2>1. /\ pc' \in {"flags", "precision", "length", "specifier"}
        /\ pos' \in 1 .. n + 1
        /\ flags' \subseteq AllFlags
        /\ width' \in 0 .. SIZE_T - 1 /\ precision' \in 0 .. SIZE_T - 1
        /\ UNCHANGED <<job, format, idx, memory, full>>
    BY <1>7, ScanFields DEF n
  <2>2. pos' \in 1 .. n + 2 /\ pos' <= n + 1
    BY <1>2, <2>1
  <2> QED BY <1>3, <2>1, <2>2
<1>8. CASE Specifier
  <2>1. ArgumentsFit
    <3>1. pos \in Nat \ {0}
      BY <1>2, <1>3
    <3> QED BY <3>1, ArgumentsAlwaysFit DEF ScanInv
  <2>2. Out(Converted(Ch(pos))) /\ pos \in 1 .. n + 1
    BY <1>2, <1>3, <1>8 DEF Specifier
  <2>3. IsText(Converted(Ch(pos)))
    <3>1. width \in Nat /\ precision \in Nat
      BY <1>3, SizeAssumption
    <3>2. Ch(pos) = "s" => IsText(Head(va))
      BY <1>8, <2>1 DEF ArgumentsFit
    <3> QED BY <3>1, <3>2, ConvertedText
  <2>4. idx' \in 0 .. SIZE_T - 1 /\ DOMAIN memory' = 0 .. MemorySize - 1
    BY <1>5, <2>2, <2>3 DEF IsText
  <2>5. pos + 1 \in 1 .. n + 2
    BY <1>2, <2>2
  <2> QED BY <1>3, <1>8, <2>4, <2>5 DEF Specifier
<1>9. CASE Terminate
  BY <1>3, <1>9 DEF Terminate
<1>10. CASE UNCHANGED vars
  BY <1>3, <1>10 DEF vars
<1> QED BY <1>6, <1>7, <1>8, <1>9, <1>10 DEF Next

\* Whatever the widths and precisions, from the format or from arguments of
\* any sign, and however long the output: the scanner's numbers stay unsigned
\* int, and it stays in its format.
THEOREM ScannerTypeCorrect == Spec => []TypeOK
<1>1. ScanInv => TypeOK
  BY DEF ScanInv
<1> QED BY <1>1, ScanInit, ScanNext, PTL DEF Spec

-----------------------------------------------------------------------------
(* The result and the buffer.                                              *)

\* The i-th byte of the buffer when the text t has been put out.
Held(t, i) == IF i < Len(t) /\ i < maxlen /\ ~job.null THEN t[i + 1] ELSE "old"

ContractInv ==
    /\ ScanInv
    /\ IsText(full)
    /\ Len(full) < SIZE_T => idx = Len(full)
    /\ pc # "done" /\ Len(full) < SIZE_T =>
          \A i \in DOMAIN memory : memory[i] = Held(full, i)
    /\ KeepsItsContract

LEMMA InRange ==
    ASSUME NEW x \in 0 .. SIZE_T - 1 PROVE x % SIZE_T = x
  BY SizeAssumption

LEMMA OneIsMax == ASSUME NEW x \in Int PROVE Max({x}) = x
  BY DEF Max

\* As long as no index wraps, a character goes to the byte of its index.
LEMMA Lands ==
    ASSUME idx \in Nat, NEW s, Len(s) \in Nat, idx + Len(s) < SIZE_T, NEW i \in Nat
    PROVE  LET here == {k \in 1 .. Len(s) : Place(k) = i}
           IN  IF i >= idx /\ i < idx + Len(s) THEN here = {i - idx + 1} ELSE here = {}
<1> DEFINE n == Len(s)
<1>1. \A k \in 1 .. n : idx + k - 1 \in 0 .. SIZE_T - 1
  <2>1. n \in Nat /\ idx + n < SIZE_T /\ idx \in Nat /\ SIZE_T \in Nat
    BY SizeAssumption
  <2> HIDE DEF n
  <2> QED BY <2>1
<1>2. \A k \in 1 .. n : Place(k) = idx + k - 1
  BY <1>1, InRange DEF Place
<1>3. n \in Nat /\ idx \in Nat
  OBVIOUS
<1> HIDE DEF n
<1>4. \A k \in 1 .. n : Place(k) = i <=> k = i - idx + 1
  BY <1>2, <1>3
<1>5. i - idx + 1 \in 1 .. n <=> i >= idx /\ i < idx + n
  BY <1>3
<1> QED BY <1>4, <1>5 DEF n

LEMMA OutHolds ==
    ASSUME IsText(full), NEW s, IsText(s), Out(s), UNCHANGED job,
           idx \in 0 .. SIZE_T - 1, DOMAIN memory = 0 .. MemorySize - 1,
           Len(full) < SIZE_T => idx = Len(full),
           Len(full) < SIZE_T => \A i \in DOMAIN memory : memory[i] = Held(full, i)
    PROVE  /\ IsText(full')
           /\ Len(full') < SIZE_T => idx' = Len(full')
           /\ Len(full') < SIZE_T =>
                 \A i \in DOMAIN memory' : memory'[i] = Held(full', i)
<1> DEFINE n == Len(full)
           m == Len(s)
<1>1. full' = full \o s /\ idx' = (idx + m) % SIZE_T /\ memory' = Stored(s)
  BY DEF Out
<1>2. /\ IsText(full') /\ Len(full') = n + m /\ n \in Nat /\ m \in Nat
      /\ \A k \in 1 .. n : full'[k] = full[k]
      /\ \A k \in 1 .. m : full'[n + k] = s[k]
  BY <1>1, Concatenation
<1> SUFFICES ASSUME n + m < SIZE_T
             PROVE  /\ idx' = n + m
                    /\ \A i \in DOMAIN memory' : memory'[i] = Held(full', i)
  BY <1>2
<1>3. idx = n /\ \A i \in DOMAIN memory : memory[i] = Held(full, i)
  BY <1>2, SizeAssumption
<1>4. idx' = n + m
  <2>1. n + m \in 0 .. SIZE_T - 1 /\ idx + m = n + m
    <3>1. n \in Nat /\ m \in Nat /\ n + m < SIZE_T /\ idx = n
      BY <1>2, <1>3
    <3> HIDE DEF n, m
    <3> QED BY <3>1, SizeAssumption
  <2> QED BY <1>1, <2>1, InRange
<1>5. maxlen' = maxlen
  BY DEF maxlen, MaxLen
<1>6. ASSUME NEW i \in DOMAIN memory PROVE memory'[i] = Held(full', i)
  <2> DEFINE here == {k \in 1 .. m : Place(k) = i}
             fits == i < maxlen /\ ~job.null
  <2>1. memory'[i] = IF here # {} /\ fits THEN s[Max(here)] ELSE memory[i]
    BY <1>1 DEF Stored
  <2>2. i \in Nat
    BY <1>6, SizeAssumption
  <2>3. IF i >= n /\ i < n + m THEN here = {i - n + 1} ELSE here = {}
    BY <1>2, <1>3, <2>2, Lands
  <2>4. memory[i] = IF i < n /\ fits THEN full[i + 1] ELSE "old"
    BY <1>3, <1>6 DEF Held
  <2>5. Held(full', i) = IF i < n + m /\ fits THEN full'[i + 1] ELSE "old"
    BY <1>2, <1>5 DEF Held
  <2> HIDE DEF here, fits, n, m
  <2>6. CASE i < n
    <3>1. here = {} /\ i + 1 \in 1 .. n /\ i < n + m
      BY <1>2, <2>2, <2>3, <2>6
    <3>2. full'[i + 1] = full[i + 1]
      BY <1>2, <3>1
    <3> QED BY <2>1, <2>4, <2>5, <2>6, <3>1, <3>2
  <2>7. CASE i >= n /\ i < n + m
    <3>1. here = {i - n + 1} /\ i - n + 1 \in 1 .. m /\ n + (i - n + 1) = i + 1
          /\ ~(i < n)
      BY <1>2, <2>2, <2>3, <2>7
    <3>2. here # {} /\ Max(here) = i - n + 1
      BY <3>1, OneIsMax
    <3>3. full'[n + (i - n + 1)] = s[i - n + 1]
      BY <1>2, <3>1
    <3> QED BY <2>1, <2>4, <2>5, <2>7, <3>1, <3>2, <3>3
  <2>8. CASE ~(i < n + m)
    <3>1. here = {} /\ ~(i < n)
      BY <1>2, <2>2, <2>3, <2>8
    <3> QED BY <2>1, <2>4, <2>5, <2>8, <3>1
  <2> QED BY <1>2, <2>2, <2>6, <2>7, <2>8
<1>7. DOMAIN memory' = DOMAIN memory
  BY <1>1 DEF Stored
<1> QED BY <1>4, <1>6, <1>7

LEMMA TerminateKeeps ==
    ASSUME ContractInv, Terminate
    PROVE  KeepsItsContract'
<1> DEFINE n == Len(full)
           end == Least(n, maxlen - 1)
           e == IF idx < maxlen THEN idx ELSE (maxlen - 1) % SIZE_T
<1>1. /\ UNCHANGED <<job, idx, full>> /\ pc = "text"
      /\ memory' = [i \in DOMAIN memory |->
                      IF i = e /\ i < maxlen /\ ~job.null THEN NUL ELSE memory[i]]
  BY DEF Terminate
<1>2. maxlen' = maxlen /\ maxlen \in 0 .. SIZE_T - 1
  BY <1>1, JobType DEF ContractInv, ScanInv, ItemInv, maxlen, MaxLen
<1>3. DOMAIN memory = 0 .. MemorySize - 1 /\ n \in Nat
  BY DEF ContractInv, ScanInv, TypeOK, IsText
<1> SUFFICES ASSUME n < SIZE_T
             PROVE  /\ idx = n
                    /\ ~job.null /\ maxlen > 0 =>
                         \A i \in DOMAIN memory :
                             memory'[i] = IF i < end THEN full[i + 1]
                                          ELSE IF i = end THEN NUL ELSE "old"
  BY <1>1, <1>2 DEF KeepsItsContract
<1>4. idx = n /\ \A i \in DOMAIN memory : memory[i] = Held(full, i)
  BY <1>1 DEF ContractInv
<1>5. ASSUME ~job.null, maxlen > 0, NEW i \in DOMAIN memory
      PROVE  memory'[i] = IF i < end THEN full[i + 1] ELSE IF i = end THEN NUL ELSE "old"
  <2>1. i \in Nat
    BY <1>3, SizeAssumption
  <2>2. maxlen - 1 \in 0 .. SIZE_T - 1
    BY <1>2, <1>5, SizeAssumption
  <2>3. (maxlen - 1) % SIZE_T = maxlen - 1
    BY <2>2, InRange
  <2>4. memory[i] = IF i < n /\ i < maxlen THEN full[i + 1] ELSE "old"
    BY <1>4, <1>5 DEF Held
  <2>5. memory'[i] = IF i = e /\ i < maxlen THEN NUL ELSE memory[i]
    BY <1>1, <1>5
  <2>6. maxlen \in Nat
    BY <1>2, SizeAssumption
  <2> HIDE DEF n, maxlen
  <2>7. e = end
    BY <1>3, <1>4, <2>3, <2>6 DEF Least
  <2>8. end <= n /\ end <= maxlen - 1 /\ (end = n \/ end = maxlen - 1) /\ end \in Int
    BY <1>3, <2>6 DEF Least
  <2> HIDE DEF e, end
  <2> QED BY <1>3, <2>1, <2>4, <2>5, <2>6, <2>7, <2>8
<1> QED BY <1>4, <1>5

LEMMA ContractInit == Init => ContractInv
<1> SUFFICES ASSUME Init PROVE ContractInv
  OBVIOUS
<1>1. ScanInv /\ full = <<>> /\ idx = 0 /\ pc = "text"
      /\ \A i \in DOMAIN memory : memory[i] = "old"
  BY ScanInit DEF Init
<1>2. DOMAIN memory \subseteq Nat
  BY <1>1, SizeAssumption DEF ScanInv, TypeOK
<1>3. \A i \in DOMAIN memory : memory[i] = Held(full, i)
  BY <1>1, <1>2, EmptyText DEF Held
<1> QED BY <1>1, <1>3, EmptyText DEF ContractInv, KeepsItsContract

LEMMA ContractNext == ContractInv /\ [Next]_vars => ContractInv'
<1> SUFFICES ASSUME ContractInv, [Next]_vars PROVE ContractInv'
  OBVIOUS
<1>1. ScanInv'
  BY ScanNext DEF ContractInv
<1>2. ASSUME NEW s, IsText(s), Out(s), pc = "text" \/ pc = "specifier", pc' = "text",
             UNCHANGED job
      PROVE  ContractInv'
  <2>1. /\ IsText(full) /\ idx \in 0 .. SIZE_T - 1
        /\ DOMAIN memory = 0 .. MemorySize - 1
        /\ Len(full) < SIZE_T => idx = Len(full)
        /\ Len(full) < SIZE_T => \A i \in DOMAIN memory : memory[i] = Held(full, i)
    BY <1>2 DEF ContractInv, ScanInv, TypeOK
  <2>2. /\ IsText(full')
        /\ Len(full') < SIZE_T => idx' = Len(full')
        /\ Len(full') < SIZE_T => \A i \in DOMAIN memory' : memory'[i] = Held(full', i)
    BY <1>2, <2>1, OutHolds
  <2>3. maxlen' = maxlen
    BY <1>2 DEF maxlen, MaxLen
  <2> QED BY <1>1, <1>2, <2>2, <2>3 DEF ContractInv, KeepsItsContract, Held
<1>3. CASE Ordinary
  <2>1. Out(<<Ch(pos)>>) /\ pc = "text" /\ pc' = pc /\ job' = job
    BY <1>3 DEF Ordinary
  <2> QED BY <1>2, <2>1, SingleText
<1>4. CASE Percent \/ Flag \/ Width \/ Precision \/ Length
  <2>1. /\ pc' \in {"flags", "precision", "length", "specifier"}
        /\ UNCHANGED <<job, format, idx, memory, full>>
    BY <1>4, ScanFields DEF ContractInv
  <2>2. pc # "done"
    BY <1>4 DEF Percent, Flag, Width, Precision, Length
  <2>3. maxlen' = maxlen
    BY <2>1 DEF maxlen, MaxLen
  <2> QED BY <1>1, <2>1, <2>2, <2>3 DEF ContractInv, KeepsItsContract, Held, IsText
<1>5. CASE Specifier
  <2>1. ArgumentsFit
    <3>1. pos \in Nat \ {0}
      BY FormatIsText DEF ContractInv, ScanInv, TypeOK
    <3> QED BY <3>1, ArgumentsAlwaysFit DEF ContractInv, ScanInv
  <2>2. IsText(Converted(Ch(pos)))
    <3>1. width \in Nat /\ precision \in Nat
      BY SizeAssumption DEF ContractInv, ScanInv, TypeOK
    <3>2. Ch(pos) = "s" => IsText(Head(va))
      BY <1>5, <2>1 DEF ArgumentsFit
    <3> QED BY <3>1, <3>2, ConvertedText
  <2>3. Out(Converted(Ch(pos))) /\ pc = "specifier" /\ pc' = "text" /\ job' = job
    BY <1>5 DEF Specifier
  <2> QED BY <1>2, <2>2, <2>3
<1>6. CASE Terminate
  <2>1. KeepsItsContract'
    BY <1>6, TerminateKeeps
  <2>2. UNCHANGED <<job, idx, full>> /\ pc' = "done"
    BY <1>6 DEF Terminate
  <2> QED BY <1>1, <2>1, <2>2 DEF ContractInv, IsText
<1>7. CASE UNCHANGED vars
  <2>1. UNCHANGED <<job, pc, idx, memory, full>> /\ maxlen' = maxlen
    BY <1>7 DEF vars, maxlen, MaxLen
  <2> QED BY <1>1, <2>1 DEF ContractInv, KeepsItsContract, Held, IsText
<1> QED BY <1>3, <1>4, <1>5, <1>6, <1>7 DEF Next

\* A call returns the length of its output, and leaves in the buffer as much
\* of it as fits, terminated, for a buffer of any size and a text of fewer
\* than 2^32 characters.
THEOREM ContractKept == Spec => []KeepsItsContract
<1>1. ContractInv => KeepsItsContract
  BY DEF ContractInv
<1> QED BY <1>1, ContractInit, ContractNext, PTL DEF Spec
=============================================================================
