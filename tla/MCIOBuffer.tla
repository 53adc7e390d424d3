----------------------------- MODULE MCIOBuffer -----------------------------
(* Instances of IOBuffer for TLC.                                          *)
EXTENDS IOBuffer, TLC

\* One byte, and a pair whose order can be told.
MCPieces == {<<1>>, <<1, 2>>}

\* No action and no property names a buffer.
Symmetric == Permutations(Buffers)
=============================================================================
