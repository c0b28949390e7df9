------------------------------- MODULE CString -------------------------------
(***************************************************************************)
(* The string and memory functions, src/src/libc/src/string/string.c.      *)
(*                                                                         *)
(* A run is one call on a memory of bytes.  A function that changes memory *)
(* is a sequence of loops, and an iteration of a loop is a step, so that   *)
(* the order in which overlapping bytes are copied is the code's.  What    *)
(* the functions only read is looked up at once.                           *)
(***************************************************************************)
EXTENDS Integers, Sequences, FiniteSetsExt

CONSTANTS
    Calls,          \* [fn, mem, d, s, n, c, base]: a function, the memory it
                    \* finds, and its arguments
    LongSize        \* sizeof(unsigned long): 8

VARIABLES
    call,       \* the call
    mem,        \* [addresses -> 0 .. 255]
    loops,      \* the loops to run, the current one first
    pc,         \* "call", "run", "done"
    ret         \* the result

strVars == <<call, mem, loops, pc, ret>>

NUL == 0
AsChar(b) == IF b < 128 THEN b ELSE b - 256
Store(a, b) == mem' = [mem EXCEPT ![a] = b]
Smaller(m, n) == IF m < n THEN m ELSE n

-----------------------------------------------------------------------------
(* What is read of a memory m.                                             *)

strlen(m, a) == CHOOSE n \in 0 .. Cardinality(DOMAIN m) :
                    m[a + n] = NUL /\ \A k \in 0 .. n - 1 : m[a + k] # NUL

\* Defect: a terminator behind the limit counts.
strnlenUnclamped(m, a, max) ==
    LET last == ((a + max - 1) \div LongSize) * LongSize + LongSize - 1
        nuls == {p \in a .. last : p \in DOMAIN m /\ m[p] = NUL}
    IN  IF max = 0 THEN 0 ELSE IF nuls = {} THEN max ELSE Min(nuls) - a

\* Bytes up to the first aligned address, then words: the last word is read
\* whole, and what is found behind the limit is cut off.
strnlen(m, a, max) ==
    LET last == ((a + max - 1) \div LongSize) * LongSize + LongSize - 1
        nuls == {p \in a .. last : p \in DOMAIN m /\ m[p] = NUL}
    IN  IF max = 0 THEN 0
        ELSE IF nuls = {} THEN max ELSE Smaller(Min(nuls), a + max) - a

\* The first place, of n, where the bytes differ or, for strings, end.
Stop(m, a, b, n, strings) ==
    LET stops == {k \in 0 .. n - 1 : m[a + k] # m[b + k] \/ (strings /\ m[a + k] = NUL)}
    IN  IF stops = {} THEN n ELSE Min(stops)

\* Signed characters here, unsigned ones in strncmp and memcmp.
strcmp(m, a, b) ==
    LET k == Stop(m, a, b, Smaller(strlen(m, a), strlen(m, b)) + 1, TRUE)
    IN  AsChar(m[a + k]) - AsChar(m[b + k])
strncmp(m, a, b, n) ==
    LET k == Stop(m, a, b, n, TRUE) IN IF k = n THEN 0 ELSE m[a + k] - m[b + k]
memcmp(m, a, b, n) ==
    LET k == Stop(m, a, b, n, FALSE)
    IN  IF k = n THEN 0 ELSE IF m[a + k] < m[b + k] THEN -1 ELSE 1

\* NULL is no address of the memory: -1.
strchr(m, a, c) ==
    LET found == {p \in a .. a + strlen(m, a) : AsChar(m[p]) = c}
    IN  IF found = {} THEN -1 ELSE Min(found)

-----------------------------------------------------------------------------
(* The loops.                                                              *)

Loop(kind, d, s, n) == [kind |-> kind, d |-> d, s |-> s, n |-> n]
loop == Head(loops)
In(kind) == pc = "run" /\ loops # <<>> /\ loop.kind = kind
Next_(l) == loops' = <<l>> \o Tail(loops)
Leave == loops' = Tail(loops) /\ UNCHANGED mem

\* memcpy, and memmove towards lower addresses.
CopyUp ==
    /\ In("up")
    /\ \/ /\ loop.n > 0
          /\ Store(loop.d, mem[loop.s])
          /\ Next_(Loop("up", loop.d + 1, loop.s + 1, loop.n - 1))
       \/ loop.n = 0 /\ Leave
    /\ UNCHANGED <<call, pc, ret>>

\* memmove towards higher addresses, from the last byte down.
CopyDown ==
    /\ In("down")
    /\ \/ /\ loop.n > 0
          /\ Store(loop.d, mem[loop.s])
          /\ Next_(Loop("down", loop.d - 1, loop.s - 1, loop.n - 1))
       \/ loop.n = 0 /\ Leave
    /\ UNCHANGED <<call, pc, ret>>

\* memset; the value is in s.
Fill ==
    /\ In("fill")
    /\ \/ /\ loop.n > 0
          /\ Store(loop.d, loop.s)
          /\ Next_(Loop("fill", loop.d + 1, loop.s, loop.n - 1))
       \/ loop.n = 0 /\ Leave
    /\ UNCHANGED <<call, pc, ret>>

\* strcpy: the terminator is copied before the loop ends.
CopyString ==
    /\ In("string")
    /\ Store(loop.d, mem[loop.s])
    /\ IF mem[loop.s] = NUL THEN loops' = Tail(loops)
       ELSE Next_(Loop("string", loop.d + 1, loop.s + 1, 0))
    /\ UNCHANGED <<call, pc, ret>>

\* strcat: the loop ends before the terminator is copied.
CopyCat ==
    /\ In("cat")
    /\ \/ /\ mem[loop.s] # NUL
          /\ Store(loop.d, mem[loop.s])
          /\ Next_(Loop("cat", loop.d + 1, loop.s + 1, 0))
       \/ mem[loop.s] = NUL /\ Leave
    /\ UNCHANGED <<call, pc, ret>>

\* Defect: the middle is passed, and swapped back.
SwapPast ==
    /\ In("swap")
    /\ \/ /\ loop.n > 0
          /\ mem' = [mem EXCEPT ![loop.d] = mem[loop.s], ![loop.s] = mem[loop.d]]
          /\ Next_(Loop("swap", loop.d + 1, loop.s - 1, loop.n - 1))
       \/ loop.n = 0 /\ Leave
    /\ UNCHANGED <<call, pc, ret>>

\* strrev: the ends are swapped until they meet.
Swap ==
    /\ In("swap")
    /\ \/ /\ loop.d < loop.s
          /\ mem' = [mem EXCEPT ![loop.d] = mem[loop.s], ![loop.s] = mem[loop.d]]
          /\ Next_(Loop("swap", loop.d + 1, loop.s - 1, loop.n - 1))
       \/ loop.d >= loop.s /\ Leave
    /\ UNCHANGED <<call, pc, ret>>

strrev(m, a) == Loop("swap", a, a + strlen(m, a) - 1, strlen(m, a))
-----------------------------------------------------------------------------
(* The calls.                                                              *)

\* A function that changes memory: what it stores at once, and its loops.
Begins(fn, stored, ls) ==
    /\ pc = "call"
    /\ call.fn = fn
    /\ mem' = stored
    /\ loops' = ls
    /\ pc' = "run"
    /\ UNCHANGED <<call, ret>>

memcpy == Begins("memcpy", mem, <<Loop("up", call.d, call.s, call.n)>>)
memset == Begins("memset", mem, <<Loop("fill", call.d, call.c, call.n)>>)
strcpy == Begins("strcpy", mem, <<Loop("string", call.d, call.s, 0)>>)
strcat == Begins("strcat", mem, <<Loop("cat", call.d + strlen(mem, call.d), call.s, 0)>>)
Strrev == Begins("strrev", mem, <<strrev(mem, call.d)>>)

\* Defect: overlapping or not, upwards.
memmoveUp == Begins("memmove", mem, <<Loop("up", call.d, call.s, call.n)>>)

memmove ==
    Begins("memmove", mem,
        IF call.d < call.s THEN <<Loop("up", call.d, call.s, call.n)>>
        ELSE <<Loop("down", call.d + call.n - 1, call.s + call.n - 1, call.n)>>)

\* The zeros behind the text come first.
strncpy ==
    LET size == strnlen(mem, call.s, call.n)
    IN  Begins("strncpy", mem,
            (IF size # call.n
             THEN <<Loop("fill", call.d + size, NUL, call.n - size)>> ELSE <<>>)
            \o <<Loop("up", call.d, call.s, size)>>)

append ==
    LET end == call.d + strlen(mem, call.d)
    IN  Begins("append", [mem EXCEPT ![end] = call.c, ![end + 1] = NUL], <<>>)
backspace ==
    Begins("backspace", [mem EXCEPT ![call.d + strlen(mem, call.d) - 1] = NUL], <<>>)

\* A function that only reads.
Answers(fn, result) ==
    /\ pc = "call"
    /\ call.fn = fn
    /\ ret' = result
    /\ pc' = "done"
    /\ UNCHANGED <<call, mem, loops>>

Looks ==
    \/ Answers("strlen", strlen(mem, call.s))
    \/ Answers("strnlen", strnlen(mem, call.s, call.n))
    \/ Answers("strcmp", strcmp(mem, call.s, call.d))
    \/ Answers("strncmp", strncmp(mem, call.s, call.d, call.n))
    \/ Answers("memcmp", memcmp(mem, call.s, call.d, call.n))
    \/ Answers("strchr", strchr(mem, call.s, call.c))

Return ==
    /\ pc = "run"
    /\ loops = <<>>
    /\ pc' = "done"
    /\ UNCHANGED <<call, mem, loops, ret>>

StrFns == {"memcpy", "memset", "memmove", "strcpy", "strncpy", "strcat", "strrev",
           "append", "backspace", "strlen", "strnlen", "strcmp", "strncmp",
           "memcmp", "strchr"}

(* The calls the C standard defines: areas and texts lie in the memory, texts *)
(* are ended, and but for memmove what is written and what is read do not   *)
(* overlap.                                                                *)
Within(m, a, n) == a .. a + n - 1 \subseteq DOMAIN m
Ended(m, a) == \E p \in DOMAIN m : a <= p /\ m[p] = NUL
Apart(a, k, b, n) == a + k <= b \/ b + n <= a

IsMemory(m) ==
    LET size == Cardinality(DOMAIN m)
    IN  size \in Nat /\ m \in [0 .. size - 1 -> 0 .. 255]

Legal(c) ==
    LET m == c.mem
        dest == strlen(m, c.d)
        source == strlen(m, c.s)
    IN  /\ IsMemory(m) /\ c.d \in Nat /\ c.s \in Nat /\ c.n \in Nat
        /\ c.fn \in {"memcpy", "memmove", "memset", "strncpy"} => Within(m, c.d, c.n)
        /\ c.fn \in {"memcpy", "memmove", "memcmp"} => Within(m, c.s, c.n)
        /\ c.fn = "memcmp" => Within(m, c.d, c.n)
        /\ c.fn \in {"strcpy", "strncpy", "strcat", "strlen", "strnlen", "strcmp", "strncmp",
                      "strchr"} => Ended(m, c.s)
        /\ c.fn \in {"strcat", "strrev", "append", "backspace", "strcmp", "strncmp"}
              => Ended(m, c.d)
        /\ c.fn = "memcpy" => Apart(c.d, c.n, c.s, c.n)
        /\ c.fn = "strcpy" =>
              Within(m, c.d, source + 1) /\ Apart(c.d, source + 1, c.s, source + 1)
        /\ c.fn = "strncpy" => Apart(c.d, c.n, c.s, Smaller(c.n, source + 1))
        /\ c.fn = "strcat" =>
              Within(m, c.d, dest + source + 1) /\ Apart(c.d, dest + source + 1, c.s, source + 1)
        /\ c.fn = "append" => Within(m, c.d, dest + 2)
        /\ c.fn = "backspace" => dest > 0

ASSUME LongAssumption == LongSize \in Nat \ {0}
ASSUME CallsAssumption == \A c \in Calls : Legal(c)

StrInit ==
    /\ call \in Calls
    /\ mem = call.mem
    /\ loops = <<>>
    /\ pc = "call"
    /\ ret = 0

StrNext ==
    \/ memcpy \/ memmove \/ memset
    \/ strcpy \/ strncpy \/ strcat \/ append \/ backspace \/ Strrev
    \/ Looks
    \/ CopyUp \/ CopyDown \/ Fill \/ CopyString \/ CopyCat \/ Swap
    \/ Return

-----------------------------------------------------------------------------
(* What the functions are for, by the C standard, told from the memory the *)
(* call found.                                                             *)

Text(m, a) == [i \in 1 .. strlen(m, a) |-> m[a + i - 1]]
WithText(m, a, t) ==
    [p \in DOMAIN m |-> IF p \in a .. a + Len(t) - 1 THEN t[p - a + 1]
                        ELSE IF p = a + Len(t) THEN NUL ELSE m[p]]

Meant ==
    LET m == call.mem
        t == Text(m, call.d)
        n == call.n
    IN  CASE call.fn \in {"memcpy", "memmove"} ->
                [p \in DOMAIN m |-> IF p \in call.d .. call.d + n - 1
                                    THEN m[call.s + p - call.d] ELSE m[p]]
          [] call.fn = "memset" ->
                [p \in DOMAIN m |-> IF p \in call.d .. call.d + n - 1
                                    THEN call.c ELSE m[p]]
          [] call.fn = "strcpy" -> WithText(m, call.d, Text(m, call.s))
          [] call.fn = "strncpy" ->
                [p \in DOMAIN m |->
                    IF p \notin call.d .. call.d + n - 1 THEN m[p]
                    ELSE IF p - call.d < strlen(m, call.s)
                         THEN m[call.s + p - call.d] ELSE NUL]
          [] call.fn = "append" -> WithText(m, call.d, Append(t, call.c))
          [] call.fn = "backspace" -> WithText(m, call.d, SubSeq(t, 1, Len(t) - 1))
          [] call.fn = "strcat" -> WithText(m, call.d, t \o Text(m, call.s))
          [] call.fn = "strrev" ->
                WithText(m, call.d, [i \in 1 .. Len(t) |-> t[Len(t) + 1 - i]])
          [] OTHER -> m

\* strcat leaves the terminator to whoever cleared the buffer before.
Cleared == call.fn = "strcat" =>
              call.mem[call.d + strlen(call.mem, call.d) + strlen(call.mem, call.s)] = NUL

\* The numbers that the first 0, 1, ... of the digits v make in a base.
NumberUpTo(v, base) ==
    LET number[k \in 0 .. Len(v)] == IF k = 0 THEN 0 ELSE number[k - 1] * base + v[k]
    IN  number
Number(v, base) == NumberUpTo(v, base)[Len(v)]

\* The first n bytes at a, as a number; for strings, zeros from the end on.
Weight(m, a, n, strings) ==
    LET end == IF strings THEN strlen(m, a) ELSE n
    IN  Number([k \in 1 .. n |-> IF k <= end THEN m[a + k - 1] ELSE 0], 256)
Agrees(r, x) == (r < 0 <=> x < 0) /\ (r > 0 <=> x > 0)
Orders(n, strings) ==
    Agrees(ret, Weight(call.mem, call.s, n, strings) - Weight(call.mem, call.d, n, strings))

\* When a call has returned, memory is what the function is for and the same
\* everywhere else: overlapping bytes survive a memmove either way, and no
\* loop runs one byte too far.
MemoryIsMeant == pc = "done" /\ Cleared /\ call.fn \in StrFns => mem = Meant

\* strcmp is for characters of 7 bits.
Ascii == \A p \in DOMAIN call.mem : call.mem[p] < 128

\* strnlen, reading whole words, never counts a terminator behind the limit or
\* misses one before it.
LengthIsMeant ==
    pc = "done" /\ call.fn = "strnlen" => ret = Smaller(strlen(call.mem, call.s), call.n)

\* The comparisons order strings and memory as their bytes do, and strnlen
\* counts as it is meant to.
ResultIsMeant ==
    /\ LengthIsMeant
    /\ pc = "done" =>
        /\ call.fn = "strcmp" /\ Ascii =>
              Orders(Max({strlen(mem, call.s), strlen(mem, call.d)}) + 1, TRUE)
        /\ call.fn = "strncmp" => Orders(call.n, TRUE)
        /\ call.fn = "memcmp" => Orders(call.n, FALSE)
=============================================================================
