-------------------------- MODULE SynchronizedData --------------------------
(***************************************************************************)
(* Data shared between threads behind a lock: the queue of                 *)
(* blueth/concurrency/ThreadsafeQueue.hpp behind a mutex, and a value of   *)
(* blueth/concurrency/MutexSynchronize.hpp behind a shared mutex.  The     *)
(* handlers that run under the shared mutex may themselves use the queue.  *)
(*                                                                         *)
(* A step is what a thread does between two points where another one can   *)
(* interfere.  The value has two parts, which a handler reads or writes    *)
(* one after the other.  A handler may throw: the guard then releases the  *)
(* lock, and a value that is half written stays so.  Read handlers do not  *)
(* write (withReadLock() hands them the value without const).              *)
(***************************************************************************)
EXTENDS Naturals, Sequences, FiniteSets

CONSTANTS
    Threads,
    NoThread,
    Items,      \* what is pushed, each once, and written as a value
    Null,       \* the std::nullopt of pop()
    Garbage     \* an indeterminate value

ASSUME NamesAssumption == NoThread \notin Threads /\ {Null, Garbage} \cap Items = {}

VARIABLES
    queue, mutex,       \* queue_ and the holder of mutex_
    data,               \* data_, in two parts
    writer, readers,    \* the holders of data_mutex_
    pc,                 \* pc[t]: where thread t is
    back,               \* back[t]: where it goes on after a call of the queue
    val,                \* val[t]: what it pushes, or pop() will return
    cell,               \* cell[t]: what its read handler has read
    pushed, popped,     \* history of the queue
    latest              \* history: the value as the last write section left it

queueVars == <<queue, mutex, val, back, pushed, popped>>
dataVars  == <<data, writer, readers, cell, latest>>
vars      == <<queueVars, dataVars, pc>>

\* The constructor that takes a const reference initialises data_ with data_.
Init ==
    /\ queue = <<>> /\ mutex = NoThread /\ pushed = <<>> /\ popped = <<>>
    /\ \E v \in Items \cup {Garbage} : latest = <<v, v>>
    /\ data = latest
    /\ writer = NoThread /\ readers = {}
    /\ pc = [t \in Threads |-> "idle"] /\ back = [t \in Threads |-> "idle"]
    /\ val = [t \in Threads |-> Null] /\ cell = [t \in Threads |-> <<Garbage, Garbage>>]

Go(t, place) == pc' = [pc EXCEPT ![t] = place]

-----------------------------------------------------------------------------
(* ThreadSafeQueue                                                         *)

\* Between operations, or inside a handler.
MayCall == {"idle", "wrote one", "read one"}

Call(t, op, v) ==
    /\ pc[t] \in MayCall
    /\ Go(t, op)
    /\ back' = [back EXCEPT ![t] = pc[t]]
    /\ val' = [val EXCEPT ![t] = v]
    /\ UNCHANGED <<queue, mutex, pushed, popped, dataVars>>

\* Nobody else is about to push v: each item is pushed once.
Unused(v) == \A i \in 1 .. Len(pushed) : pushed[i] # v

CallPush(t) == \E v \in Items : Unused(v) /\ (\A u \in Threads : val[u] # v) /\ Call(t, "push", v)
CallPop(t)  == Call(t, "pop", Null)
CallSize(t) == Call(t, "size", Null)

\* Mutant: the guard is not taken.
EnterAnyway(t) ==
    /\ pc[t] \in {"push", "pop", "size"}
    /\ Go(t, [push |-> "pushing", pop |-> "front", size |-> "sizing"][pc[t]])
    /\ UNCHANGED <<queueVars, dataVars>>

\* std::lock_guard<std::mutex>
LockQueue(t) ==
    /\ pc[t] \in {"push", "pop", "size"} /\ mutex = NoThread
    /\ mutex' = t
    /\ Go(t, [push |-> "pushing", pop |-> "front", size |-> "sizing"][pc[t]])
    /\ UNCHANGED <<queue, val, back, pushed, popped, dataVars>>

\* The body, and the end of the guard's life.
Leave(t) == mutex' = NoThread /\ Go(t, back[t]) /\ UNCHANGED <<back, dataVars>>

\* Mutant: the item goes to the front.
PushFront(t) ==
    /\ pc[t] = "pushing"
    /\ queue' = <<val[t]>> \o queue /\ pushed' = Append(pushed, val[t])
    /\ val' = [val EXCEPT ![t] = Null]
    /\ Leave(t) /\ UNCHANGED popped

PushBack(t) ==
    /\ pc[t] = "pushing"
    /\ queue' = Append(queue, val[t]) /\ pushed' = Append(pushed, val[t])
    /\ val' = [val EXCEPT ![t] = Null]
    /\ Leave(t) /\ UNCHANGED popped

Size(t) == pc[t] = "sizing" /\ Leave(t) /\ UNCHANGED <<queue, val, pushed, popped>>

\* Mutant: pop() waits for an item.
AwaitItem(t) == pc[t] = "front" /\ queue = <<>> /\ UNCHANGED vars

PopEmpty(t) == /\ pc[t] = "front" /\ queue = <<>>
               /\ Leave(t) /\ UNCHANGED <<queue, val, pushed, popped>>

\* Mutant: the front is erased without having been moved out.
ForgetFront(t) == pc[t] = "front" /\ queue # <<>> /\ Go(t, "erase") /\ UNCHANGED <<queueVars, dataVars>>

MoveFront(t) ==
    /\ pc[t] = "front" /\ queue # <<>>
    /\ val' = [val EXCEPT ![t] = Head(queue)]
    /\ Go(t, "erase")
    /\ UNCHANGED <<queue, mutex, back, pushed, popped, dataVars>>

PopFront(t) ==
    /\ pc[t] = "erase"
    /\ queue' = Tail(queue) /\ popped' = Append(popped, val[t])
    /\ val' = [val EXCEPT ![t] = Null]
    /\ Leave(t) /\ UNCHANGED pushed

-----------------------------------------------------------------------------
(* MutexSynchronize                                                        *)

\* Mutant: the writer does not wait for the readers.
WriteBesideReaders(t) ==
    /\ pc[t] = "idle" /\ writer = NoThread
    /\ writer' = t
    /\ Go(t, "write")
    /\ UNCHANGED <<data, readers, cell, latest, queueVars>>

\* withWriteLock(): std::lock_guard<std::shared_mutex>
LockExclusive(t) ==
    /\ pc[t] = "idle" /\ writer = NoThread /\ readers = {}
    /\ writer' = t
    /\ Go(t, "write")
    /\ UNCHANGED <<data, readers, cell, latest, queueVars>>

WriteOne(t) ==
    /\ pc[t] = "write"
    /\ \E v \in Items : data' = [data EXCEPT ![1] = v]
    /\ Go(t, "wrote one")
    /\ UNCHANGED <<writer, readers, cell, latest, queueVars>>

WriteTwo(t) ==
    /\ pc[t] = "wrote one"
    /\ \E v \in Items : data' = [data EXCEPT ![2] = v]
    /\ latest' = data'
    /\ writer' = NoThread
    /\ Go(t, "idle")
    /\ UNCHANGED <<readers, cell, queueVars>>

\* The write handler throws: the guard is unwound, data_ stays as it is.
WriteThrows(t) ==
    /\ pc[t] \in {"write", "wrote one"}
    /\ latest' = data
    /\ writer' = NoThread
    /\ Go(t, "idle")
    /\ UNCHANGED <<data, readers, cell, queueVars>>

\* withReadLock(): std::shared_lock<std::shared_mutex>
LockShared(t) ==
    /\ pc[t] = "idle" /\ writer = NoThread
    /\ readers' = readers \cup {t}
    /\ Go(t, "read")
    /\ UNCHANGED <<data, writer, cell, latest, queueVars>>

ReadOne(t) ==
    /\ pc[t] = "read"
    /\ cell' = [cell EXCEPT ![t][1] = data[1]]
    /\ Go(t, "read one")
    /\ UNCHANGED <<data, writer, readers, latest, queueVars>>

ReadTwo(t) ==
    /\ pc[t] = "read one"
    /\ cell' = [cell EXCEPT ![t][2] = data[2]]
    /\ Go(t, "read two")
    /\ UNCHANGED <<data, writer, readers, latest, queueVars>>

\* The end of the guard's life.
EndOfShared(t) ==
    /\ readers' = readers \ {t}
    /\ Go(t, "idle")
    /\ cell' = [cell EXCEPT ![t] = <<Garbage, Garbage>>]
    /\ UNCHANGED <<data, writer, latest, queueVars>>

\* The handler returns what it has read, or throws.
UnlockShared(t) == pc[t] = "read two" /\ EndOfShared(t)
ReadThrows(t)   == pc[t] \in {"read", "read one"} /\ EndOfShared(t)

-----------------------------------------------------------------------------

Body(t) == \/ PushBack(t) \/ Size(t) \/ PopEmpty(t) \/ MoveFront(t) \/ PopFront(t)
           \/ WriteOne(t) \/ WriteTwo(t) \/ ReadOne(t) \/ ReadTwo(t) \/ UnlockShared(t)

Next == \E t \in Threads :
           \/ CallPush(t) \/ CallPop(t) \/ CallSize(t) \/ LockQueue(t)
           \/ LockExclusive(t) \/ LockShared(t)
           \/ Body(t) \/ WriteThrows(t) \/ ReadThrows(t)

Spec == Init /\ [][Next]_vars

\* A thread inside a critical section goes on, and a free mutex that threads
\* ask for is given to one of them.
FairSpec == /\ Spec
            /\ \A t \in Threads : WF_vars(Body(t))
            /\ WF_vars(\E t \in Threads : LockQueue(t))

-----------------------------------------------------------------------------
(* Properties                                                              *)

Places == MayCall \cup {"push", "pop", "size", "pushing", "front", "sizing", "erase",
                        "write", "read", "read two"}

\* The variables keep their types.
TypeOK ==
    /\ {queue, pushed, popped} \subseteq Seq(Items)
    /\ mutex \in Threads \cup {NoThread} /\ writer \in Threads \cup {NoThread}
    /\ readers \subseteq Threads
    /\ {data, latest} \subseteq (Items \cup {Garbage}) \X (Items \cup {Garbage})
    /\ pc \in [Threads -> Places] /\ back \in [Threads -> MayCall]
    /\ val \in [Threads -> Items \cup {Null}]
    /\ cell \in [Threads -> (Items \cup {Garbage}) \X (Items \cup {Garbage})]

\* "During writing we are guaranteed to write it completely without any
\* concurrent readers accessing the value in the middle", and a read is not
\* disturbed by a write: the two parts that a read handler has read one after
\* the other are the value as one and the same write section left it, the
\* last.  (A section that a throwing handler ends may leave a mixture.)
ReadersSeeWhole ==
    \A t \in Threads : pc[t] = "read two" => cell[t] = latest

\* While a handler that uses the queue waits for it, it keeps its lock on the
\* value, and a section of the queue is left by whoever entered it: the locks
\* are held by exactly the threads whose place says so.
LocksMatchPlaces ==
    LET at(t) == IF pc[t] \in {"push", "pop", "size", "pushing", "front", "sizing", "erase"}
                 THEN back[t] ELSE pc[t]
    IN  /\ {t \in Threads : pc[t] \in {"pushing", "front", "sizing", "erase"}} =
               {mutex} \ {NoThread}
        /\ {t \in Threads : at(t) \in {"write", "wrote one"}} = {writer} \ {NoThread}
        /\ {t \in Threads : at(t) \in {"read", "read one", "read two"}} = readers

\* Whoever has the mutex leaves its section, and whenever threads wait
\* for it one of them gets it.
SectionsEnd ==
    /\ mutex # NoThread ~> mutex = NoThread
    /\ (\E t \in Threads : pc[t] \in {"push", "pop", "size"}) ~> mutex # NoThread

Abstract == INSTANCE AtomicQueue WITH items <- queue, out <- popped

\* Every step of the threads is a push, a pop of the oldest item, or nothing
\* to the queue: the calls are linearizable, and pop() returns what it took.
ImplementsAtomicQueue == Abstract!Spec
=============================================================================
