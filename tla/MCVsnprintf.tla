---------------------------- MODULE MCVsnprintf -----------------------------
(* Calls of the formatter for TLC.                                         *)
EXTENDS Vsnprintf

FlagOrder == <<"0", "-", "+", " ", "#">>
Item(fl, w, p, l, s, a) ==
    [flags |-> SelectSeq(FlagOrder, LAMBDA ch : ch \in fl), width |-> w, prec |-> p,
     length |-> l, spec |-> s, arg |-> a]
Lit(ch) == Item({}, <<>>, <<>>, <<>>, "literal", ch)
Job(e, n, c, items) == [entry |-> e, null |-> n, count |-> c, items |-> items]

Wide == MemorySize - 2
Single(items) == {Job("vsnprintf_", FALSE, Wide, <<item>>) : item \in items}

\* All flags, with a width and a precision or without.
FlagItems ==
    {Item(fl, w, p, <<>>, s, a) :
        fl \in SUBSET FlagChars, w \in {<<>>, <<"n", 6>>},
        p \in {<<>>, <<"n", 0>>, <<"n", 3>>},
        s \in {"d", "x", "o"}, a \in {-3, 0, 6}}
    \cup {Item(fl, w, <<>>, <<>>, "b", a) :
        fl \in SUBSET {"#", "-", "0"}, w \in {<<>>, <<"n", 6>>}, a \in {0, 3}}

\* All lengths, and fields taken from arguments.
LengthItems ==
    {Item(fl, w, p, l, s, a) :
        fl \in {{}, {"0"}}, w \in {<<>>, <<"n", 12>>, <<"*", -4>>, <<"*", 3>>},
        p \in {<<>>, <<"*", -2>>, <<"*", 2>>},
        l \in {<<>>, <<"h">>, <<"h", "h">>, <<"l">>, <<"l", "l">>, <<"j">>, <<"t">>},
        s \in {"i", "u", "X"}, a \in {-16, -1, 13}}

\* Numbers at the limit of the digit buffer and beyond it.
LongItems ==
    {Item(fl, w, p, <<"l">>, s, a) :
        fl \in {{}, {"+"}, {"-"}, {"0"}, {"0", " "}},
        w \in {<<>>, <<"n", 8>>, <<"n", 9>>, <<"n", 12>>},
        p \in {<<>>, <<"n", 7>>, <<"n", 8>>, <<"n", 10>>},
        s \in {"d", "b"}, a \in {-5, 0, 127, 128, 511}}

MCNumbers == Single(FlagItems \cup LengthItems \cup LongItems)

TextItems ==
    {Item(fl, w, <<>>, <<>>, "c", "k") : fl \in {{}, {"-"}}, w \in {<<>>, <<"n", 3>>}}
    \cup {Item(fl, w, p, <<>>, "s", s) :
            fl \in {{}, {"-"}}, w \in {<<>>, <<"*", -3>>},
            p \in {<<>>, <<"n", 0>>, <<"*", 1>>}, s \in {<<>>, <<"h", "i">>}}
    \cup {Item({}, <<>>, <<>>, <<>>, "%", 0), Lit("k"),
          Item({"#"}, <<>>, <<>>, <<>>, "x", 10),
          Item({}, <<"*", 4>>, <<>>, <<>>, "d", -7),
          Item({}, <<>>, <<>>, <<"z">>, "u", 12),
          Item({}, <<>>, <<>>, <<>>, "p", 10)}

\* Two items, every size of the buffer, and none.
MCCalls ==
    {Job("snprintf_", FALSE, c, <<i, j>>) :
        c \in 0 .. 5, i \in TextItems,
        j \in {Lit("k"), Item({}, <<"*", 4>>, <<>>, <<>>, "d", -7)}}
    \cup {Job("vsnprintf_", TRUE, 4, <<i, Lit("k")>>) : i \in TextItems}
    \cup {Job("snprintf_", FALSE, 4, <<>>)}

\* Outputs up to SIZE_T characters and beyond.
MCEndless ==
    {Job("snprintf_", FALSE, 12, <<Item({}, <<"n", 99>>, <<>>, <<>>, "c", "k"),
        Item({"-"}, <<"*", w>>, <<>>, <<>>, "c", "k"),
        Item({}, <<"n", v>>, <<>>, <<>>, "d", 5), Lit("k")>>) :
            w \in {-5, 77}, v \in 77 .. 82}

MCFormats == MCNumbers \cup MCCalls \cup MCEndless

MCSprintf == {Job("sprintf_", FALSE, 0, <<Item({}, <<>>, <<>>, <<>>, "d", 5)>>)}
=============================================================================
