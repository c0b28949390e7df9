-------------------------------- MODULE MCIo --------------------------------
(* Io on a screen of 2 x 2 with a buffer of 4 bytes.                        *)
EXTENDS Io

MCStrings == {<<"a", "a">>}
MCInitText == <<"a">>
MCBootScreens == {[i \in Page |-> [c |-> "a", fore |-> 7, back |-> 1]]}

\* Empty, shorter than the buffer, filling it, longer, and with a NUL.
MCOutputs ==
    {<<>>, <<"a">>, <<"lf", "a", "a">>, <<"a", "bs", "a", "a">>,
     <<"a", "a", "lf", "a", "a">>, <<"a", "nul", "a">>}
=============================================================================
