---------------------------- MODULE MCConnection ----------------------------
(* An instance of Connection for TLC.                                      *)
EXTENDS Connection, TLC

MCByte == 1 .. MaxSent
MCReadLengths == {2}
MCCallbackPairs == {<<"none", "none">>, <<"clears", "none">>, <<"none", "clears">>}

\* Descriptors are only compared.
Symmetric == Permutations(Fds)
=============================================================================
