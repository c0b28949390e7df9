-------------------------------- MODULE Libc --------------------------------
(***************************************************************************)
(* The library: a run is one call, of a function of strings and numbers    *)
(* (modules CString and CStdlib) or of the division (module Division).     *)
(***************************************************************************)
EXTENDS CStdlib, Division

libcVars == <<libVars, divVars>>

LibIdle ==
    /\ call = <<>> /\ mem = <<>> /\ loops = <<>> /\ pc = "idle" /\ ret = 0
    /\ scan = <<>>
DivIdle ==
    /\ op = [signed |-> FALSE, num |-> 0, den |-> 1] /\ num = 0 /\ den = 0 /\ quot = 0 /\ qbit = 0
    /\ result = <<>> /\ step = "idle"

LibcInit ==
    \/ LibInit /\ DivIdle
    \/ DivInit /\ LibIdle
LibcNext ==
    \/ LibNext /\ UNCHANGED divVars
    \/ DivNext /\ UNCHANGED libVars

\* A call runs on by itself.
LibcSpec == LibcInit /\ [][LibcNext]_libcVars /\ WF_libcVars(LibcNext)
-----------------------------------------------------------------------------
\* Every call returns, and every division ends: no loop over characters,
\* digits or bits runs on, whatever the arguments.
CallsReturn == <>(pc = "done" \/ step \in {"done", "trap"})
=============================================================================
