----------------------------- MODULE AtomicQueue -----------------------------
(* A queue shared by threads, as blueth/concurrency/ThreadsafeQueue.hpp    *)
(* promises it: push, pop and size each happen at one moment.  This is the *)
(* abstract specification that SynchronizedData implements.                *)
EXTENDS Naturals, Sequences

CONSTANT Items

VARIABLES items, out    \* what the queue holds, and all that was popped

Init == items = <<>> /\ out = <<>>

Push(v) == items' = Append(items, v) /\ UNCHANGED out

Pop == /\ items # <<>>
       /\ out' = Append(out, Head(items)) /\ items' = Tail(items)

Next == Pop \/ \E v \in Items : Push(v)

Spec == Init /\ [][Next]_<<items, out>>
=============================================================================
