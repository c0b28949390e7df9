------------------------------- MODULE MCScene -------------------------------
(* A root folder with the kernel alone, as BuildRootfs.cmake makes it, no   *)
(* folder at all, and folders with nested directories, hidden entries, an   *)
(* empty file, and two names that differ in their case only.                *)
EXTENDS Scene

Kernel == <<"kernel">>
MCHosts ==
    {[given |-> FALSE, dirs |-> {}, sizes |-> [p \in {} |-> 0]],
     [given |-> TRUE, dirs |-> {}, sizes |-> [p \in {Kernel} |-> 3]],
     [given |-> TRUE, dirs |-> {<<"boot">>, <<"boot", "b">>, <<".git">>},
      sizes |-> [p \in {Kernel, <<"boot", "a">>, <<"boot", "b", "a">>,
                        <<".git", "a">>, <<"boot", ".git">>}
                   |-> IF p = Kernel THEN 3 ELSE IF Len(p) = 3 THEN 0 ELSE 1]],
     [given |-> TRUE, dirs |-> {<<"boot">>},
      sizes |-> [p \in {Kernel, <<"boot", "a">>, <<"boot", "A">>} |-> 1]]}
MCHidden == {".git"}
MCFatName == [n \in {"boot", "b", ".git", "kernel", "a", "A"} |->
                 IF n = "a" THEN "A" ELSE n]
=============================================================================
