------------------------------ MODULE MCMkFat32 ------------------------------
(* A folder with a directory, and files that may not fit.                   *)
EXTENDS MkFat32

Kernel == <<"kernel">>
MCHosts ==
    {[given |-> TRUE, dirs |-> {<<"boot">>},
      sizes |-> [p \in {Kernel, <<"boot", "a">>} |-> 1]]}
MCFatName == [n \in {"boot", "kernel", "a"} |-> n]
=============================================================================
