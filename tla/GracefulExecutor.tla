-------------------------- MODULE GracefulExecutor --------------------------
(***************************************************************************)
(* What ThreadPoolExecutor promises to the code that submits work to it,   *)
(* with no mutex, no condition variable and no client threads in it:       *)
(*                                                                         *)
(*   - work is dispatched in the order in which it was queued;             *)
(*   - a piece of work is dispatched at most once, to one worker;          *)
(*   - a worker retires only after the executor was closed, and only at a  *)
(*     moment when no work is queued.                                      *)
(*                                                                         *)
(* Work queued after the last worker retired is never dispatched: the      *)
(* specification admits that, because the implementation accepts work at   *)
(* any time.                                                               *)
(***************************************************************************)
EXTENDS Naturals, Sequences

CONSTANTS Workers, Tasks, NoTask

VARIABLES
    queue,      \* the work that waits for a worker, oldest first
    running,    \* running[w]: the work w executes, or NoTask
    finished,   \* the work whose execution has ended
    closed,     \* TRUE once the executor has been shut down
    live        \* the workers that have not retired

vars == <<queue, running, finished, closed, live>>

QueuedTasks  == {queue[i] : i \in 1 .. Len(queue)}
RunningTasks == {running[w] : w \in Workers} \ {NoTask}
Known        == QueuedTasks \cup RunningTasks \cup finished

Init ==
    /\ queue = <<>>
    /\ running = [w \in Workers |-> NoTask]
    /\ finished = {}
    /\ closed = FALSE
    /\ live = Workers

Accept(k) ==
    /\ k \in Tasks \ Known
    /\ queue' = Append(queue, k)
    /\ UNCHANGED <<running, finished, closed, live>>

Dispatch(w) ==
    /\ w \in live
    /\ running[w] = NoTask
    /\ queue # <<>>
    /\ running' = [running EXCEPT ![w] = Head(queue)]
    /\ queue' = Tail(queue)
    /\ UNCHANGED <<finished, closed, live>>

Complete(w) ==
    /\ running[w] # NoTask
    /\ finished' = finished \cup {running[w]}
    /\ running' = [running EXCEPT ![w] = NoTask]
    /\ UNCHANGED <<queue, closed, live>>

Close ==
    /\ closed' = TRUE
    /\ UNCHANGED <<queue, running, finished, live>>

Retire(w) ==
    /\ w \in live
    /\ closed
    /\ queue = <<>>
    /\ running[w] = NoTask
    /\ live' = live \ {w}
    /\ UNCHANGED <<queue, running, finished, closed>>

Next ==
    \/ \E k \in Tasks : Accept(k)
    \/ \E w \in Workers : Dispatch(w) \/ Complete(w) \/ Retire(w)
    \/ Close

Spec == Init /\ [][Next]_vars
=============================================================================
