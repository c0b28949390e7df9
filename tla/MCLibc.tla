-------------------------------- MODULE MCLibc --------------------------------
(* Legal calls on a memory of 8 bytes, with 7 bits to a long and 6 to an int; *)
(* every division of numbers of 5 bits.                                      *)
EXTENDS Libc

Mem == 0 .. 7
Call(fn, m, d, s, n, c, base) ==
    [fn |-> fn, mem |-> m, d |-> d, s |-> s, n |-> n, c |-> c, base |-> base]

\* Texts of at most 2 characters, ended, with garbage behind.
Texts == {<<0>>} \cup {<<a, 0>> : a \in {65, 66, 200}}
              \cup {<<a, b, 0>> : a, b \in {65, 66}}
Laid(t, a) == [p \in Mem |-> IF p \in a .. a + Len(t) - 1 THEN t[p - a + 1] ELSE 88]
Two(t, a, u, b) ==
    [p \in Mem |-> IF p \in a .. a + Len(t) - 1 THEN t[p - a + 1]
                   ELSE IF p \in b .. b + Len(u) - 1 THEN u[p - b + 1] ELSE 88]

\* memmove, also where the areas overlap; memcpy where they do not; memset.
Blocks ==
    LET m == [p \in Mem |-> 70 + p]
    IN  {Call("memmove", m, d, s, n, 0, 0) : d, s \in 1 .. 4, n \in 0 .. 3}
        \cup {Call("memcpy", m, d, s, n, 0, 0) :
                 <<d, s, n>> \in {x \in (0 .. 4) \X (0 .. 4) \X (0 .. 3) :
                                    x[1] + x[3] <= x[2] \/ x[2] + x[3] <= x[1]}}
        \cup {Call("memset", m, d, 0, n, c, 0) : d \in 1 .. 4, n \in 0 .. 3, c \in {0, 65}}

\* One text: strlen; strnlen at every alignment; strchr; the changes in place.
One ==
    LET at(fn, t, a, n, c) == Call(fn, Laid(t, a), a, a, n, c, 0)
    IN  {at(fn, t, a, 0, 0) : fn \in {"strlen", "strrev"}, t \in Texts, a \in 0 .. 3}
        \cup {at("strnlen", t, a, n, 0) : t \in Texts, a \in 0 .. 3, n \in 0 .. 4}
        \cup {at("strchr", t, a, 0, c) : t \in Texts, a \in {1}, c \in {0, 65, 66}}
        \cup {at("append", t, a, 0, 66) : t \in Texts, a \in {1, 2}}
        \cup {at("backspace", t, a, 0, 0) : t \in Texts \ {<<0>>}, a \in {1, 2}}
        \cup {Call("strrev", Laid(<<65, 66, 67, 68, 69, 0>>, 1), 1, 1, 0, 0, 0)}

\* Two texts, the source in the back; a destination that was cleared or not.
Pairs ==
    LET at(fn, t, u, n) == Call(fn, Two(t, 0, u, 5), 0, 5, n, 0, 0)
        zeros == <<0, 0, 0, 0, 0>>
    IN  {at(fn, t, u, 0) : fn \in {"strcpy", "strcat", "strcmp"}, t, u \in Texts}
        \cup {at("strcat", SubSeq(t \o zeros, 1, 5), u, 0) : t, u \in Texts}
        \cup {at(fn, t, u, n) : fn \in {"strncpy", "strncmp"}, t, u \in Texts, n \in 0 .. 3}
        \cup {at("memcmp", t, u, n) : t, u \in Texts, n \in 0 .. 3}

\* Texts of at most 4 characters for strtol: spaces, signs, prefixes, digits
\* around the limits 63 and -64, and what is no digit.
Words ==
    {<<0>>} \cup
    {SubSeq(<<a, b, c, d>>, 1, n) \o <<0>> :
        n \in 1 .. 4, a \in {32, 43, 45, 48, 54}, b \in {9, 45, 48, 51, 52, 54, 120},
        c \in {48, 51, 52, 53, 97, 120}, d \in {52, 53, 102, 122}}
Reads ==
    {Call(fn, Laid(t, 1), 0, 1, 0, 0, b) :
        fn \in {"strtol", "strtoll"}, t \in Words, b \in {0, 10, 16}}
    \cup {Call("atoi", Laid(t, 1), 0, 1, 0, 0, 10) : t \in Words}

Writes ==
    {Call("itoa", Laid(<<0>>, 7), 1, 0, n, v, b) :
        n \in {0, 2, 3, 4, 5}, v \in {0, 1, 7, 8, 9, 10, 15, 16, 31}, b \in {2, 10, 16}}

MCCalls == Blocks \cup One \cup Pairs \cup Reads \cup Writes

MCBit == [i \in 0 .. Width |-> 2 ^ i]
=============================================================================
