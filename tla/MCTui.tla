------------------------------- MODULE MCTui --------------------------------
(* Tui on small screens: the strings and firmware leftovers TLC explores.  *)
EXTENDS Tui

MCStrings == {<<"a", "lf">>}
MCTabStrings == {<<"tab", "a">>}
MCInitText == <<"a", "lf">>
MCBootScreens ==
    {[i \in Page |-> [c |-> g, fore |-> 7, back |-> 1]] : g \in Chars}
=============================================================================
