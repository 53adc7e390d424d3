------------------------ MODULE MCThreadPoolExecutor ------------------------
(* Instances of ThreadPoolExecutor for TLC.                                *)
EXTENDS ThreadPoolExecutor, TLC

\* Threads of a kind, and callables, are interchangeable: no action and no
\* invariant names one of them.
Symmetric == Permutations(Workers) \cup Permutations(Clients) \cup Permutations(Tasks)
=============================================================================
