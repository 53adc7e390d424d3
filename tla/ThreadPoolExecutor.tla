------------------------- MODULE ThreadPoolExecutor -------------------------
(***************************************************************************)
(* blueth/concurrency/ThreadPoolExecutor.hpp: a fixed set of worker        *)
(* threads that take callables from a std::queue protected by              *)
(* queue_mutex_ and sleep on worker_cv_ when the queue is empty.           *)
(*                                                                         *)
(* A step of the model is what a thread does between two points where      *)
(* another thread can interfere: acquiring queue_mutex_, the critical      *)
(* section up to its release, a notification (which the code issues after  *)
(* the release), the call of a callable.  The set of threads blocked in    *)
(* worker_cv_.wait is the set of workers whose pc is "wait".               *)
(*                                                                         *)
(* submit() and shutdown() can be called by a client thread, and by a      *)
(* callable while a worker executes it (no lock is held then).  The        *)
(* destructor is run by one client; the language requires that no other    *)
(* client is inside a member function, or enters one, from then on.        *)
(***************************************************************************)
EXTENDS Naturals, Sequences, FiniteSets

CONSTANTS
    Workers,    \* the threads the constructor creates; pool_size_ is their number
    Clients,    \* the threads that own or share the executor
    Tasks,      \* the callables that may be submitted, each at most once
    NoThread,   \* "queue_mutex_ is free"
    NoTask      \* std::nullopt

ASSUME ThreadsAssumption ==
    /\ IsFiniteSet(Workers) /\ Workers # {}
    /\ IsFiniteSet(Clients)
    /\ Workers \cap Clients = {}
    /\ NoThread \notin Workers \cup Clients
    /\ NoTask \notin Tasks

Threads == Workers \cup Clients

VARIABLES
    pc,           \* where each thread is
    queue_mutex,  \* the thread that holds queue_mutex_, or NoThread
    work_queue,   \* work_queue_
    shutdown,     \* shutdown_
    work,         \* work[w]: the local std::optional<Callable> of worker w
    arg,          \* arg[t]: the callable t passes to submit()
    closers,      \* threads that have called shutdown(), each at most once (bound)
    pushed,       \* history: the callables in the order submit() queued them
    started,      \* history: the callables in the order workers popped them
    finished,     \* history: the callables whose call has returned
    late          \* history: the callables queued after shutdown_ was set

history == <<pushed, started, finished, late>>
vars == <<pc, queue_mutex, work_queue, shutdown, work, arg, closers,
          pushed, started, finished, late>>

WorkerPc == {"lock", "check", "wait", "run", "done"}
CallPc   == {"submit", "push", "notify_one", "close", "set", "notify_all"}
DtorPc   == {"dtor", "dtor_set", "dtor_notify_all", "join", "destroyed"}
LockedPc == {"check", "push", "set", "dtor_set"}

\* Where a thread is when it is in no member function of the executor.
Home(t) == IF t \in Workers THEN "run" ELSE "idle"

RangeOf(s) == {s[i] : i \in 1 .. Len(s)}

\* The callables queued so far or on their way into the queue.
Used == RangeOf(pushed) \cup {arg[t] : t \in Threads}

Alive == \A c \in Clients : pc[c] \notin DtorPc

Waiting   == {w \in Workers : pc[w] = "wait"}
Seeking   == {w \in Workers : pc[w] \in {"lock", "check"}}
Notifying == {t \in Threads : pc[t] = "notify_one"}

Init ==
    /\ pc = [t \in Threads |-> IF t \in Workers THEN "lock" ELSE "idle"]
    /\ queue_mutex = NoThread
    /\ work_queue = <<>>
    /\ shutdown = FALSE
    /\ work = [w \in Workers |-> NoTask]
    /\ arg = [t \in Threads |-> NoTask]
    /\ closers = {}
    /\ pushed = <<>>
    /\ started = <<>>
    /\ finished = {}
    /\ late = {}

-----------------------------------------------------------------------------
(* std::unique_lock<std::mutex> lock(queue_mutex_), wherever the code takes *)
(* it, and also the reacquisition that ends a worker_cv_.wait.              *)

Locked(p) == CASE p = "lock"   -> "check"
               [] p = "submit" -> "push"
               [] p = "close"  -> "set"
               [] p = "dtor"   -> "dtor_set"

\* Mutant: the mutex is not waited for.
AcquireUnguarded(t) ==
    /\ pc[t] \in {"lock", "submit", "close", "dtor"}
    /\ queue_mutex' = t
    /\ pc' = [pc EXCEPT ![t] = Locked(pc[t])]
    /\ UNCHANGED <<work_queue, shutdown, work, arg, closers, history>>

Acquire(t) ==
    /\ pc[t] \in {"lock", "submit", "close", "dtor"}
    /\ queue_mutex = NoThread
    /\ queue_mutex' = t
    /\ pc' = [pc EXCEPT ![t] = Locked(pc[t])]
    /\ UNCHANGED <<work_queue, shutdown, work, arg, closers, history>>

-----------------------------------------------------------------------------
(* The worker loop.                                                        *)

WaitPredicate == shutdown \/ work_queue # <<>>

\* The predicate is false: release the mutex and block, in one atomic step.
Wait(w) ==
    /\ pc[w] = "check"
    /\ ~ WaitPredicate
    /\ pc' = [pc EXCEPT ![w] = "wait"]
    /\ queue_mutex' = NoThread
    /\ UNCHANGED <<work_queue, shutdown, work, arg, closers, history>>

\* A condition variable may wake a thread that nobody notified.
SpuriousWakeup(w) ==
    /\ pc[w] = "wait"
    /\ pc' = [pc EXCEPT ![w] = "lock"]
    /\ UNCHANGED <<queue_mutex, work_queue, shutdown, work, arg, closers, history>>

\* Mutant: if (shutdown_) return;
ReturnAtOnce(w) ==
    /\ pc[w] = "check"
    /\ shutdown
    /\ pc' = [pc EXCEPT ![w] = "done"]
    /\ queue_mutex' = NoThread
    /\ UNCHANGED <<work_queue, shutdown, work, arg, closers, history>>

\* if (shutdown_ && work_queue_.empty()) return;
Return(w) ==
    /\ pc[w] = "check"
    /\ shutdown /\ work_queue = <<>>
    /\ pc' = [pc EXCEPT ![w] = "done"]
    /\ queue_mutex' = NoThread
    /\ UNCHANGED <<work_queue, shutdown, work, arg, closers, history>>

\* Mutant: the queue is not popped.
TakeWithoutPop(w) ==
    /\ pc[w] = "check"
    /\ work_queue # <<>>
    /\ work' = [work EXCEPT ![w] = Head(work_queue)]
    /\ started' = Append(started, Head(work_queue))
    /\ pc' = [pc EXCEPT ![w] = "run"]
    /\ queue_mutex' = NoThread
    /\ UNCHANGED <<work_queue, shutdown, arg, closers, pushed, finished, late>>

\* Move the front of the queue into the local optional, pop, release.
Take(w) ==
    /\ pc[w] = "check"
    /\ work_queue # <<>>
    /\ work' = [work EXCEPT ![w] = Head(work_queue)]
    /\ work_queue' = Tail(work_queue)
    /\ started' = Append(started, Head(work_queue))
    /\ pc' = [pc EXCEPT ![w] = "run"]
    /\ queue_mutex' = NoThread
    /\ UNCHANGED <<shutdown, arg, closers, pushed, finished, late>>

\* Mutant: the optional is declared outside the loop and keeps its value.
FinishKeepsWork(w) ==
    /\ pc[w] = "run"
    /\ finished' = finished \cup {work[w]}
    /\ pc' = [pc EXCEPT ![w] = "lock"]
    /\ UNCHANGED <<queue_mutex, work_queue, shutdown, work, arg, closers,
                   pushed, started, late>>

\* (*work)() returns, the optional goes out of scope, the loop starts again.
Finish(w) ==
    /\ pc[w] = "run"
    /\ finished' = finished \cup {work[w]}
    /\ work' = [work EXCEPT ![w] = NoTask]
    /\ pc' = [pc EXCEPT ![w] = "lock"]
    /\ UNCHANGED <<queue_mutex, work_queue, shutdown, arg, closers,
                   pushed, started, late>>

-----------------------------------------------------------------------------
(* submit()                                                                *)

\* A thread may enter a member function: a worker from the callable it
\* executes, a client as long as no client has begun to destroy the executor.
MayCall(t) == pc[t] = Home(t) /\ (t \in Clients => Alive)

CallSubmit(t, k) ==
    /\ MayCall(t)
    /\ k \notin Used
    /\ arg' = [arg EXCEPT ![t] = k]
    /\ pc' = [pc EXCEPT ![t] = "submit"]
    /\ UNCHANGED <<queue_mutex, work_queue, shutdown, work, closers, history>>

\* The queue takes the callable whether or not the executor was shut down.
Push(t) ==
    /\ pc[t] = "push"
    /\ work_queue' = Append(work_queue, arg[t])
    /\ pushed' = Append(pushed, arg[t])
    /\ late' = IF shutdown THEN late \cup {arg[t]} ELSE late
    /\ arg' = [arg EXCEPT ![t] = NoTask]
    /\ pc' = [pc EXCEPT ![t] = "notify_one"]
    /\ queue_mutex' = NoThread
    /\ UNCHANGED <<shutdown, work, closers, started, finished>>

\* Mutant: submit() notifies nobody.
NotifyNobody(t) ==
    /\ pc[t] = "notify_one"
    /\ pc' = [pc EXCEPT ![t] = Home(t)]
    /\ UNCHANGED <<queue_mutex, work_queue, shutdown, work, arg, closers, history>>

\* worker_cv_.notify_one(): one of the blocked workers, if there is any.
NotifyOne(t) ==
    /\ pc[t] = "notify_one"
    /\ \/ /\ Waiting = {}
          /\ pc' = [pc EXCEPT ![t] = Home(t)]
       \/ \E w \in Waiting : pc' = [pc EXCEPT ![t] = Home(t), ![w] = "lock"]
    /\ UNCHANGED <<queue_mutex, work_queue, shutdown, work, arg, closers, history>>

-----------------------------------------------------------------------------
(* shutdown(), and the destructor, which begins with the same two steps.   *)

CallShutdown(t) ==
    /\ MayCall(t)
    /\ t \notin closers
    /\ closers' = closers \cup {t}
    /\ pc' = [pc EXCEPT ![t] = "close"]
    /\ UNCHANGED <<queue_mutex, work_queue, shutdown, work, arg, history>>

CallDestructor(c) ==
    /\ \A d \in Clients : pc[d] = "idle"
    /\ pc' = [pc EXCEPT ![c] = "dtor"]
    /\ UNCHANGED <<queue_mutex, work_queue, shutdown, work, arg, closers, history>>

SetShutdown(t) ==
    /\ pc[t] \in {"set", "dtor_set"}
    /\ shutdown' = TRUE
    /\ pc' = [pc EXCEPT ![t] = IF pc[t] = "set" THEN "notify_all"
                                                ELSE "dtor_notify_all"]
    /\ queue_mutex' = NoThread
    /\ UNCHANGED <<work_queue, work, arg, closers, history>>

\* Mutant: shutdown() and the destructor notify one worker.
NotifyJustOne(t) ==
    LET next == IF pc[t] = "notify_all" THEN Home(t) ELSE "join"
    IN  /\ pc[t] \in {"notify_all", "dtor_notify_all"}
        /\ \/ Waiting = {} /\ pc' = [pc EXCEPT ![t] = next]
           \/ \E w \in Waiting : pc' = [pc EXCEPT ![t] = next, ![w] = "lock"]
        /\ UNCHANGED <<queue_mutex, work_queue, shutdown, work, arg, closers, history>>

\* worker_cv_.notify_all(): every blocked worker has to take the mutex again.
NotifyAll(t) ==
    /\ pc[t] \in {"notify_all", "dtor_notify_all"}
    /\ pc' = [u \in Threads |->
                IF u = t THEN IF pc[t] = "notify_all" THEN Home(t) ELSE "join"
                ELSE IF pc[u] = "wait" THEN "lock"
                ELSE pc[u]]
    /\ UNCHANGED <<queue_mutex, work_queue, shutdown, work, arg, closers, history>>

\* Mutant: the destructor detaches the workers.
DetachInsteadOfJoin(c) ==
    /\ pc[c] = "join"
    /\ pc' = [pc EXCEPT ![c] = "destroyed"]
    /\ UNCHANGED <<queue_mutex, work_queue, shutdown, work, arg, closers, history>>

\* for (std::thread &worker : thread_pool_) worker.join();
Join(c) ==
    /\ pc[c] = "join"
    /\ \A w \in Workers : pc[w] = "done"
    /\ pc' = [pc EXCEPT ![c] = "destroyed"]
    /\ UNCHANGED <<queue_mutex, work_queue, shutdown, work, arg, closers, history>>

\* Nothing is left to do with a destroyed executor.
Terminated ==
    /\ \E c \in Clients : pc[c] = "destroyed"
    /\ UNCHANGED vars

-----------------------------------------------------------------------------

\* What a thread does on its own once it is inside the executor's code.
Proceed(t) ==
    \/ t \in Workers /\ (Wait(t) \/ Return(t) \/ Take(t) \/ Finish(t))
    \/ Push(t) \/ NotifyOne(t) \/ SetShutdown(t) \/ NotifyAll(t)
    \/ t \in Clients /\ Join(t)

Call(t) ==
    \/ \E k \in Tasks : CallSubmit(t, k)
    \/ CallShutdown(t)
    \/ t \in Clients /\ CallDestructor(t)

Next ==
    \/ \E t \in Threads : Acquire(t) \/ Proceed(t) \/ Call(t)
    \/ \E w \in Workers : SpuriousWakeup(w)
    \/ Terminated

Spec == Init /\ [][Next]_vars

\* A thread inside the executor's code keeps running (a callable returns),
\* and a free mutex is eventually given to one of the threads that want it:
\* which one, the standard does not say, and nothing here assumes it.
Fairness ==
    /\ \A t \in Threads : WF_vars(Proceed(t))
    /\ WF_vars(\E t \in Threads : Acquire(t))

FairSpec == Spec /\ Fairness

-----------------------------------------------------------------------------
(* Properties                                                              *)

\* The variables keep their types; a worker holds a callable exactly while it
\* is executing it, and a thread has an argument exactly inside submit().
TypeOK ==
    /\ pc \in [Threads -> WorkerPc \cup CallPc \cup DtorPc \cup {"idle"}]
    /\ queue_mutex \in Threads \cup {NoThread}
    /\ work_queue \in Seq(Tasks)
    /\ shutdown \in BOOLEAN
    /\ work \in [Workers -> Tasks \cup {NoTask}]
    /\ arg \in [Threads -> Tasks \cup {NoTask}]
    /\ closers \subseteq Threads
    /\ pushed \in Seq(Tasks)
    /\ started \in Seq(Tasks)
    /\ finished \subseteq Tasks
    /\ late \subseteq Tasks
    /\ \A w \in Workers : pc[w] \in WorkerPc \cup CallPc
    /\ \A c \in Clients : pc[c] \in {"idle"} \cup CallPc \cup DtorPc
    /\ \A w \in Workers : work[w] # NoTask <=> pc[w] \in {"run"} \cup CallPc
    /\ \A t \in Threads : arg[t] # NoTask <=> pc[t] \in {"submit", "push"}

\* Two threads are never both between the acquisition and the release of
\* queue_mutex_, so work_queue_ and shutdown_ are written by one at a time.
MutualExclusion ==
    \A t \in Threads : pc[t] \in LockedPc <=> queue_mutex = t

\* Callables leave the queue in the order in which they entered it; none is
\* lost and none is handed out twice: what was popped followed by what is
\* still queued is what was pushed, and no callable was pushed twice.
FifoNoLossNoDuplicate ==
    /\ pushed = started \o work_queue
    /\ \A i, j \in 1 .. Len(pushed) : pushed[i] = pushed[j] => i = j

\* A popped callable is being executed by exactly one worker or has finished.
OneWorkerPerTask ==
    /\ RangeOf(started) = finished \cup ({work[w] : w \in Workers} \ {NoTask})
    /\ \A w \in Workers : work[w] \notin finished
    /\ \A v, w \in Workers : v # w /\ work[v] # NoTask => work[v] # work[w]

\* The notification after the release of the mutex is never lost: while a
\* worker sleeps, every queued callable has a worker that is on its way to
\* the queue or a submit() that is still going to wake one; and once
\* shutdown_ is set a worker sleeps only until a pending notify_all.
NoLostWakeup ==
    Waiting # {} =>
       /\ Len(work_queue) <= Cardinality(Seeking) + Cardinality(Notifying)
       /\ shutdown => \E t \in Threads : pc[t] \in {"notify_all", "dtor_notify_all"}

\* "The already existing work will be processed": when the last worker has
\* returned, everything queued before shutdown_ was set has been executed to
\* its end, whoever queued it and whatever was queued behind it.
GracefulShutdown ==
    (\A w \in Workers : pc[w] = "done") => RangeOf(pushed) \ late \subseteq finished

\* When the destructor returns no thread is inside a member function, none
\* holds the mutex, and nothing is left in the queue but what was queued
\* after an explicit shutdown().
QuietAfterDestructor ==
    (\E c \in Clients : pc[c] = "destroyed") =>
        /\ \A w \in Workers : pc[w] = "done"
        /\ \A c \in Clients : pc[c] \in {"idle", "destroyed"}
        /\ queue_mutex = NoThread
        /\ RangeOf(work_queue) \subseteq late

\* What makes the invariants above inductive: a callable inside submit() is
\* not in the queue yet and belongs to one thread; workers return only after
\* shutdown_ was set, and then only what was submitted later can still be
\* queued when the last one is gone; the destructor runs alone.
Coordination ==
    /\ \A t \in Threads : arg[t] \notin RangeOf(pushed)
    /\ \A t, u \in Threads : t # u /\ arg[t] # NoTask => arg[t] # arg[u]
    /\ \A w \in Workers : pc[w] = "done" => shutdown
    /\ (\A w \in Workers : pc[w] = "done") => RangeOf(work_queue) \subseteq late
    /\ \A c, d \in Clients : c # d /\ pc[c] \in DtorPc => pc[d] = "idle"
    /\ \A c \in Clients : pc[c] = "destroyed" => \A w \in Workers : pc[w] = "done"

\* Everything queued before shutdown_ was set is handed to a worker in the
\* end.  (That its call also returns needs more than the mutex promises: a
\* callable that itself calls submit() or shutdown() can be overtaken forever
\* at queue_mutex_ by a worker that keeps waking up spuriously.)
AcceptedWorkIsStarted ==
    \A k \in Tasks : k \in RangeOf(pushed) \ late ~> k \in RangeOf(started)

\* "No new 'Work' will be processed on the Thread-Pool", says the comment of
\* shutdown(): what is queued after shutdown_ was set is never started.
NoNewWorkAfterShutdown == late \cap RangeOf(started) = {}

\* After shutdown_ is set every worker returns, and a destructor that has
\* reached its joins comes to an end.
ShutdownTerminates ==
    /\ shutdown ~> \A w \in Workers : pc[w] = "done"
    /\ \A c \in Clients : pc[c] = "join" ~> pc[c] = "destroyed"

\* The executor implements the abstract one.
Abstract == INSTANCE GracefulExecutor WITH
    queue    <- work_queue,
    running  <- work,
    closed   <- shutdown,
    live     <- {w \in Workers : pc[w] # "done"}

\* Every step of the pool is a step of the abstract executor or leaves it alone.
ImplementsGracefulExecutor == Abstract!Spec
=============================================================================
