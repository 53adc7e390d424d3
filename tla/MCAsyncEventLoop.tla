-------------------------- MODULE MCAsyncEventLoop --------------------------
(* Instances of AsyncEventLoop for TLC.                                    *)
EXTENDS AsyncEventLoop, TLC

\* No action and no invariant names a descriptor or an address.
Symmetric == Permutations(Peers) \cup Permutations(Addresses)
=============================================================================
