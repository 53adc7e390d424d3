---------------------- MODULE SynchronizedData_proofs ----------------------
(***************************************************************************)
(* Proofs about SynchronizedData, for any set of threads and of items: the *)
(* locks exclude, readers see the value whole, and the queue implements    *)
(* AtomicQueue.                                                            *)
(***************************************************************************)
EXTENDS SynchronizedData, TLAPS

\* The places of a call of the queue, and those that are under its mutex.
Inside  == {"pushing", "front", "sizing", "erase"}
Calling == {"push", "pop", "size"} \cup Inside

\* Where a thread is with respect to the value: a handler that calls the queue
\* stays where it called from.
At(t) == IF pc[t] \in Calling THEN back[t] ELSE pc[t]

\* The mutex of the queue is held by the thread inside a section; a push has an
\* item, and the front that a pop() has moved out is still the front.
QueueInv ==
    /\ \A t \in Threads : pc[t] \in Inside <=> mutex = t
    /\ \A t \in Threads : pc[t] \in {"push", "pushing"} => val[t] \in Items
    /\ \A t \in Threads : pc[t] = "erase" => queue # <<>> /\ val[t] = Head(queue)

\* The shared mutex is held as the places say, and never for writing and for
\* reading at a time.
LockInv ==
    /\ \A t \in Threads : At(t) \in {"write", "wrote one"} <=> writer = t
    /\ \A t \in Threads : At(t) \in {"read", "read one", "read two"} <=> t \in readers
    /\ writer # NoThread => readers = {}

\* The value is what the last write section left unless its writer is between
\* the two parts, and what a reader has of it is that.
ValueInv ==
    /\ data[2] = latest[2]
    /\ (\A t \in Threads : At(t) # "wrote one") => data[1] = latest[1]
    /\ \A t \in Threads : At(t) \in {"read one", "read two"} => cell[t][1] = latest[1]
    /\ \A t \in Threads : At(t) = "read two" => cell[t][2] = latest[2]

IInv == TypeOK /\ QueueInv /\ LockInv /\ ValueInv

-----------------------------------------------------------------------------
(* The value is a pair.                                                    *)

\* What a part of the value can be.
Part == Items \cup {Garbage}

\* Two pairs with equal parts are equal.
LEMMA PairEqual ==
    ASSUME NEW S, NEW p \in S \X S
    PROVE  p = <<p[1], p[2]>> /\ p[1] \in S /\ p[2] \in S
OBVIOUS

\* Assigning to one part.
LEMMA PairExcept ==
    ASSUME NEW S, NEW p \in S \X S, NEW v \in S
    PROVE  [p EXCEPT ![1] = v] = <<v, p[2]>> /\ [p EXCEPT ![2] = v] = <<p[1], v>>
<1>1. PICK a \in S, b \in S : p = <<a, b>>
  BY PairEqual
<1>2. [<<a, b>> EXCEPT ![1] = v] = <<v, b>> /\ [<<a, b>> EXCEPT ![2] = v] = <<a, v>>
  OBVIOUS
<1> QED
  BY <1>1, <1>2

-----------------------------------------------------------------------------
(* The two locks are independent: a step of one leaves the other's         *)
(* invariant alone.                                                        *)

\* The steps of the queue leave a handler where it is.
LEMMA ValueKept ==
    ASSUME LockInv, ValueInv, UNCHANGED dataVars, \A t \in Threads : At(t)' = At(t)
    PROVE  LockInv' /\ ValueInv'
BY DEF LockInv, ValueInv, dataVars

\* The steps of a handler are between places outside the queue.
LEMMA QueueKept ==
    ASSUME QueueInv, UNCHANGED queueVars, NEW t \in Threads, NEW place,
           pc \in [Threads -> Places], pc[t] \notin Calling, place \notin Calling, Go(t, place)
    PROVE  QueueInv'
BY DEF QueueInv, queueVars, Go, Calling, Inside

\* The state after the constructors.
LEMMA InvInit == Init => IInv
<1> SUFFICES ASSUME Init PROVE IInv
  OBVIOUS
<1>1. \A t \in Threads : pc[t] = "idle" /\ At(t) = "idle"
  BY DEF Init, At, Calling, Inside
<1>2. TypeOK
  BY DEF Init, TypeOK, Places, MayCall
<1>3. QueueInv
  BY <1>1, NamesAssumption DEF Init, QueueInv, Inside
<1>4. LockInv
  BY <1>1, NamesAssumption DEF Init, LockInv
<1>5. ValueInv
  BY <1>1 DEF Init, ValueInv
<1> QED
  BY <1>2, <1>3, <1>4, <1>5 DEF IInv

\* The section that a call enters is its own.
LEMMA EntrySection ==
    ASSUME NEW t \in Threads, LockQueue(t)
    PROVE  \E place \in {"pushing", "front", "sizing"} :
              /\ pc' = [pc EXCEPT ![t] = place]
              /\ place = "pushing" => pc[t] = "push"
<1> DEFINE entry == [push |-> "pushing", pop |-> "front", size |-> "sizing"]
<1>1. entry["push"] = "pushing" /\ entry["pop"] = "front" /\ entry["size"] = "sizing"
  OBVIOUS
<1>2. pc[t] \in {"push", "pop", "size"} /\ pc' = [pc EXCEPT ![t] = entry[pc[t]]]
  BY DEF LockQueue, Go
<1> HIDE DEF entry
<1> QED
  BY <1>1, <1>2

\* A step of the queue keeps every handler where it is: a call remembers the
\* place it leaves, and the end of the call goes back to it.
LEMMA CallsKeepPlaces ==
    ASSUME TypeOK, NEW t \in Threads,
           \/ \E op \in Calling : \E v : Call(t, op, v)
           \/ LockQueue(t) \/ PushBack(t) \/ Size(t)
           \/ PopEmpty(t) \/ MoveFront(t) \/ PopFront(t)
    PROVE  \A u \in Threads : At(u)' = At(u)
<1>0. pc \in [Threads -> Places] /\ back \in [Threads -> MayCall]
  BY DEF TypeOK
<1>1. ASSUME NEW op \in Calling, NEW v, Call(t, op, v)
      PROVE  \A u \in Threads : At(u)' = At(u)
  BY <1>0, <1>1 DEF Call, Go, At, Calling, Inside, MayCall
<1>2. CASE LockQueue(t)
  <2>1. \E place \in Inside : pc' = [pc EXCEPT ![t] = place]
    BY <1>2, EntrySection DEF Inside
  <2> QED
    BY <1>0, <1>2, <2>1 DEF LockQueue, At, Calling, Inside
<1>3. ASSUME pc[t] \in Inside, Leave(t)
      PROVE  \A u \in Threads : At(u)' = At(u)
  BY <1>0, <1>3 DEF Leave, Go, At, Calling, Inside, MayCall
<1>4. CASE PushBack(t) \/ Size(t) \/ PopEmpty(t) \/ PopFront(t)
  BY <1>3, <1>4 DEF PushBack, Size, PopEmpty, PopFront, Inside
<1>5. CASE MoveFront(t)
  BY <1>0, <1>5 DEF MoveFront, Go, At, Calling, Inside
<1> QED
  BY <1>1, <1>2, <1>4, <1>5

\* A call of the queue.
LEMMA CallStep ==
    ASSUME IInv, NEW t \in Threads, NEW op \in {"push", "pop", "size"}, NEW v \in Items \cup {Null},
           op = "push" => v \in Items, Call(t, op, v)
    PROVE  IInv'
<1>1. LockInv' /\ ValueInv'
  BY CallsKeepPlaces, ValueKept DEF IInv, Call, Calling
<1>2. TypeOK'
  BY DEF IInv, TypeOK, Call, Go, dataVars, MayCall, Places
<1>3. QueueInv'
  BY DEF IInv, TypeOK, QueueInv, Call, Go, MayCall, Inside
<1> QED
  BY <1>1, <1>2, <1>3 DEF IInv

\* std::lock_guard takes the mutex of the queue.
LEMMA LockQueueStep ==
    ASSUME IInv, NEW t \in Threads, LockQueue(t)
    PROVE  IInv'
<1>1. LockInv' /\ ValueInv'
  BY CallsKeepPlaces, ValueKept DEF IInv, LockQueue
<1>2. \E place \in {"pushing", "front", "sizing"} :
         /\ pc' = [pc EXCEPT ![t] = place]
         /\ place = "pushing" => pc[t] = "push"
  BY EntrySection
<1>3. TypeOK'
  BY <1>2 DEF IInv, TypeOK, LockQueue, dataVars, MayCall, Places
<1>4. QueueInv'
  BY <1>2, NamesAssumption DEF IInv, TypeOK, QueueInv, LockQueue, Inside
<1> QED
  BY <1>1, <1>3, <1>4 DEF IInv

\* The critical sections of the queue.
LEMMA SectionStep ==
    ASSUME IInv, NEW t \in Threads,
           PushBack(t) \/ Size(t) \/ PopEmpty(t) \/ MoveFront(t) \/ PopFront(t)
    PROVE  IInv'
<1>0. UNCHANGED dataVars
  BY DEF PushBack, Size, PopEmpty, MoveFront, PopFront, Leave
<1>1. LockInv' /\ ValueInv'
  BY <1>0, CallsKeepPlaces, ValueKept DEF IInv
<1>2. mutex = t /\ \A u \in Threads : pc[u] \in Inside => u = t
  BY DEF IInv, QueueInv, PushBack, Size, PopEmpty, MoveFront, PopFront, Inside
<1>3. ASSUME Leave(t), \A u \in Threads \ {t} : val'[u] = val[u]
      PROVE  QueueInv'
  <2>1. /\ mutex' = NoThread /\ pc'[t] \in MayCall
        /\ \A u \in Threads \ {t} : pc'[u] = pc[u] /\ pc[u] \notin Inside
    BY <1>2, <1>3 DEF IInv, TypeOK, Leave, Go
  <2> QED
    BY <1>3, <2>1, NamesAssumption DEF IInv, QueueInv, MayCall, Inside
<1>4. ASSUME Leave(t), val' \in [Threads -> Items \cup {Null}], {queue', pushed', popped'} \subseteq Seq(Items)
      PROVE  TypeOK'
  <2>1. pc' \in [Threads -> Places] /\ back' \in [Threads -> MayCall] /\ mutex' \in Threads \cup {NoThread}
    BY <1>4 DEF IInv, TypeOK, Leave, Go, Places
  <2> QED
    BY <1>4, <1>0, <2>1 DEF IInv, TypeOK, dataVars
<1>5. CASE PushBack(t)
  <2>1. val[t] \in Items
    BY <1>5 DEF IInv, QueueInv, PushBack
  <2>2. {queue', pushed', popped'} \subseteq Seq(Items)
    BY <1>5, <2>1 DEF IInv, TypeOK, PushBack
  <2>3. val' \in [Threads -> Items \cup {Null}] /\ \A u \in Threads \ {t} : val'[u] = val[u]
    BY <1>5 DEF IInv, TypeOK, PushBack
  <2> QED
    BY <1>1, <1>3, <1>4, <1>5, <2>2, <2>3 DEF IInv, PushBack
<1>6. CASE Size(t) \/ PopEmpty(t)
  BY <1>1, <1>3, <1>4, <1>6 DEF IInv, TypeOK, Size, PopEmpty
<1>7. CASE MoveFront(t)
  <2>1. Head(queue) \in Items
    BY <1>7 DEF IInv, TypeOK, MoveFront
  <2>2. TypeOK'
    BY <1>7, <2>1 DEF IInv, TypeOK, MoveFront, Go, dataVars, Places
  <2>3. QueueInv'
    BY <1>2, <1>7, <2>1 DEF IInv, TypeOK, QueueInv, MoveFront, Go, Inside
  <2> QED
    BY <1>1, <2>2, <2>3 DEF IInv
<1>8. CASE PopFront(t)
  <2>1. queue # <<>> /\ val[t] \in Items
    BY <1>8 DEF IInv, TypeOK, QueueInv, PopFront
  <2>2. {queue', pushed', popped'} \subseteq Seq(Items)
    BY <1>8, <2>1 DEF IInv, TypeOK, PopFront
  <2>3. val' \in [Threads -> Items \cup {Null}] /\ \A u \in Threads \ {t} : val'[u] = val[u]
    BY <1>8 DEF IInv, TypeOK, PopFront
  <2> QED
    BY <1>1, <1>3, <1>4, <1>8, <2>2, <2>3 DEF IInv, PopFront
<1> QED
  BY <1>5, <1>6, <1>7, <1>8

-----------------------------------------------------------------------------
(* The steps of the handlers.                                              *)

\* What a step of a handler does to the places.
LEMMA HandlerMoves ==
    ASSUME TypeOK, NEW t \in Threads, NEW place \in Places \ Calling,
           pc[t] \notin Calling, Go(t, place), UNCHANGED back
    PROVE  /\ pc' \in [Threads -> Places]
           /\ At(t) = pc[t] /\ At(t)' = place
           /\ \A u \in Threads \ {t} : At(u)' = At(u)
BY DEF TypeOK, Go, At

\* withWriteLock(): nobody reads or writes.
LEMMA LockExclusiveStep ==
    ASSUME IInv, NEW t \in Threads, LockExclusive(t)
    PROVE  IInv'
<1>1. /\ pc' \in [Threads -> Places] /\ At(t) = "idle" /\ At(t)' = "write"
      /\ \A u \in Threads \ {t} : At(u)' = At(u)
  BY HandlerMoves DEF IInv, LockExclusive, queueVars, Calling, Inside, Places, MayCall
<1>3. TypeOK'
  BY <1>1 DEF IInv, TypeOK, LockExclusive, queueVars
<1>4. QueueInv'
  BY QueueKept DEF IInv, TypeOK, LockExclusive, Calling, Inside
<1>5. LockInv'
  BY <1>1, NamesAssumption DEF IInv, LockInv, LockExclusive
<1>6. ValueInv'
  <2>1. \A u \in Threads : At(u) \notin {"write", "wrote one", "read", "read one", "read two"}
    BY NamesAssumption DEF IInv, LockInv, LockExclusive
  <2> QED
    BY <1>1, <2>1 DEF IInv, ValueInv, LockExclusive
<1> QED
  BY <1>3, <1>4, <1>5, <1>6 DEF IInv

\* The writer's first assignment: nobody else is at the value.
LEMMA WriteOneStep ==
    ASSUME IInv, NEW t \in Threads, WriteOne(t)
    PROVE  IInv'
<1>1. /\ pc' \in [Threads -> Places] /\ At(t) = "write" /\ At(t)' = "wrote one"
      /\ \A u \in Threads \ {t} : At(u)' = At(u)
  BY HandlerMoves DEF IInv, WriteOne, queueVars, Calling, Inside, Places, MayCall
<1>2. data'[2] = data[2] /\ data' \in Part \X Part
  <2>1. data \in Part \X Part
    BY DEF IInv, TypeOK, Part
  <2>2. PICK v \in Part : data' = [data EXCEPT ![1] = v]
    BY DEF WriteOne, Part
  <2>3. data' = <<v, data[2]>> /\ data[2] \in Part
    BY <2>1, <2>2, PairExcept, PairEqual
  <2> QED
    BY <2>3
<1>3. TypeOK'
  BY <1>1, <1>2, PairEqual DEF IInv, TypeOK, WriteOne, queueVars, Part
<1>4. QueueInv'
  BY QueueKept DEF IInv, TypeOK, WriteOne, Calling, Inside
<1>5. LockInv'
  BY <1>1 DEF IInv, LockInv, WriteOne
<1>6. ValueInv'
  <2>1. \A u \in Threads \ {t} : At(u) \notin {"write", "wrote one", "read", "read one", "read two"}
    BY <1>1, NamesAssumption DEF IInv, LockInv
  <2> QED
    BY <1>1, <1>2, <2>1, ZenonT(40) DEF IInv, ValueInv, WriteOne
<1> QED
  BY <1>3, <1>4, <1>5, <1>6 DEF IInv

\* The writer's second assignment and the end of its lock.
LEMMA WriteTwoStep ==
    ASSUME IInv, NEW t \in Threads, WriteTwo(t)
    PROVE  IInv'
<1>1. /\ pc' \in [Threads -> Places] /\ At(t) = "wrote one" /\ At(t)' = "idle"
      /\ \A u \in Threads \ {t} : At(u)' = At(u)
  BY HandlerMoves DEF IInv, WriteTwo, queueVars, Calling, Inside, Places, MayCall
<1>2. data' \in Part \X Part
  <2>1. data \in Part \X Part
    BY DEF IInv, TypeOK, Part
  <2>2. PICK v \in Part : data' = [data EXCEPT ![2] = v]
    BY DEF WriteTwo, Part
  <2>3. data' = <<data[1], v>> /\ data[1] \in Part
    BY <2>1, <2>2, PairExcept, PairEqual
  <2> QED
    BY <2>3
<1>3. TypeOK'
  BY <1>1, <1>2, PairEqual DEF IInv, TypeOK, WriteTwo, queueVars, Part
<1>4. QueueInv'
  BY QueueKept DEF IInv, TypeOK, WriteTwo, Calling, Inside
<1>5. \A u \in Threads \ {t} : At(u) \notin {"write", "wrote one", "read", "read one", "read two"}
  BY <1>1, NamesAssumption DEF IInv, LockInv
<1>6. LockInv'
  BY <1>1, <1>5, NamesAssumption DEF IInv, LockInv, WriteTwo
<1>7. ValueInv'
  <2>1. latest' = data'
    BY DEF WriteTwo
  <2>2. \A u \in Threads : At(u)' \notin {"write", "wrote one", "read", "read one", "read two"}
    BY <1>1, <1>5
  <2> QED
    BY <2>1, <2>2 DEF ValueInv
<1> QED
  BY <1>3, <1>4, <1>6, <1>7 DEF IInv

\* A write handler throws: what it has written is what the section leaves.
LEMMA WriteThrowsStep ==
    ASSUME IInv, NEW t \in Threads, WriteThrows(t)
    PROVE  IInv'
<1>1. /\ pc' \in [Threads -> Places] /\ At(t) \in {"write", "wrote one"} /\ At(t)' = "idle"
      /\ \A u \in Threads \ {t} : At(u)' = At(u)
  BY HandlerMoves DEF IInv, WriteThrows, queueVars, Calling, Inside, Places, MayCall
<1>2. TypeOK'
  BY <1>1 DEF IInv, TypeOK, WriteThrows, queueVars
<1>3. QueueInv'
  BY QueueKept DEF IInv, TypeOK, WriteThrows, Calling, Inside
<1>4. \A u \in Threads \ {t} : At(u) \notin {"write", "wrote one", "read", "read one", "read two"}
  BY <1>1, NamesAssumption DEF IInv, LockInv
<1>5. LockInv'
  BY <1>1, <1>4, NamesAssumption DEF IInv, LockInv, WriteThrows
<1>6. ValueInv'
  <2>1. latest' = data'
    BY DEF WriteThrows
  <2>2. \A u \in Threads : At(u)' \notin {"write", "wrote one", "read", "read one", "read two"}
    BY <1>1, <1>4
  <2> QED
    BY <2>1, <2>2 DEF ValueInv
<1> QED
  BY <1>2, <1>3, <1>5, <1>6 DEF IInv

\* withReadLock(): there is no writer.
LEMMA LockSharedStep ==
    ASSUME IInv, NEW t \in Threads, LockShared(t)
    PROVE  IInv'
<1>1. /\ pc' \in [Threads -> Places] /\ At(t) = "idle" /\ At(t)' = "read"
      /\ \A u \in Threads \ {t} : At(u)' = At(u)
  BY HandlerMoves DEF IInv, LockShared, queueVars, Calling, Inside, Places, MayCall
<1>2. TypeOK'
  BY <1>1 DEF IInv, TypeOK, LockShared, queueVars
<1>3. QueueInv'
  BY QueueKept DEF IInv, TypeOK, LockShared, Calling, Inside
<1>4. LockInv'
  BY <1>1 DEF IInv, LockInv, LockShared
<1>5. ValueInv'
  BY <1>1 DEF IInv, ValueInv, LockShared
<1> QED
  BY <1>2, <1>3, <1>4, <1>5 DEF IInv

\* A reader takes a part of the value as the last writer left it, for a reader
\* excludes the writers.
LEMMA ReadStep ==
    ASSUME IInv, NEW t \in Threads, ReadOne(t) \/ ReadTwo(t)
    PROVE  IInv'
<1>1. /\ pc' \in [Threads -> Places] /\ At(t) \in {"read", "read one"}
      /\ At(t)' = IF At(t) = "read" THEN "read one" ELSE "read two"
      /\ \A u \in Threads \ {t} : At(u)' = At(u)
  <2>1. CASE ReadOne(t)
    BY <2>1, HandlerMoves DEF IInv, ReadOne, queueVars, Calling, Inside, Places, MayCall
  <2>2. CASE ReadTwo(t)
    BY <2>2, HandlerMoves DEF IInv, ReadTwo, queueVars, Calling, Inside, Places, MayCall
  <2> QED
    BY <2>1, <2>2
<1>2. data[1] = latest[1] /\ data[2] = latest[2]
  BY <1>1, NamesAssumption DEF IInv, LockInv, ValueInv
<1>3. /\ cell' \in [Threads -> Part \X Part]
      /\ At(t) = "read" => cell'[t][1] = latest[1]
      /\ At(t) = "read one" => cell'[t][1] = cell[t][1] /\ cell'[t][2] = latest[2]
      /\ \A u \in Threads \ {t} : cell'[u] = cell[u]
  <2>1. cell \in [Threads -> Part \X Part] /\ cell[t] \in Part \X Part /\ latest \in Part \X Part
    BY DEF IInv, TypeOK, Part
  <2>0. /\ cell[t][1] \in Part /\ cell[t][2] \in Part
        /\ latest[1] \in Part /\ latest[2] \in Part
    BY <2>1, PairEqual
  <2>2. CASE ReadOne(t)
    <3>1. At(t) = "read" /\ cell' = [cell EXCEPT ![t] = [cell[t] EXCEPT ![1] = latest[1]]]
      BY <1>2, <2>2 DEF ReadOne, At, Calling, Inside
    <3>2. [cell[t] EXCEPT ![1] = latest[1]] = <<latest[1], cell[t][2]>>
      BY <2>0, <2>1, PairExcept
    <3>3. cell' = [cell EXCEPT ![t] = <<latest[1], cell[t][2]>>]
      BY <3>1, <3>2
    <3> QED
      BY <2>0, <2>1, <3>1, <3>3
  <2>3. CASE ReadTwo(t)
    <3>1. At(t) = "read one" /\ cell' = [cell EXCEPT ![t] = [cell[t] EXCEPT ![2] = latest[2]]]
      BY <1>2, <2>3 DEF ReadTwo, At, Calling, Inside
    <3>2. [cell[t] EXCEPT ![2] = latest[2]] = <<cell[t][1], latest[2]>>
      BY <2>0, <2>1, PairExcept
    <3>3. cell' = [cell EXCEPT ![t] = <<cell[t][1], latest[2]>>]
      BY <3>1, <3>2
    <3>4. cell'[t] = <<cell[t][1], latest[2]>> /\ \A u \in Threads \ {t} : cell'[u] = cell[u]
      BY <2>1, <3>3
    <3>5. cell' \in [Threads -> Part \X Part]
      BY <2>0, <2>1, <3>3
    <3>6. cell'[t][1] = cell[t][1] /\ cell'[t][2] = latest[2]
      BY <3>4
    <3> QED
      BY <3>1, <3>4, <3>5, <3>6, Zenon
  <2> QED
    BY <2>2, <2>3
<1>4. TypeOK'
  BY <1>1, <1>3, ZenonT(40) DEF IInv, TypeOK, ReadOne, ReadTwo, queueVars, Part
<1>5. QueueInv'
  BY QueueKept DEF IInv, TypeOK, ReadOne, ReadTwo, Calling, Inside
<1>6. LockInv'
  BY <1>1 DEF IInv, LockInv, ReadOne, ReadTwo
<1>7. ValueInv'
  <2>1. UNCHANGED <<data, latest>>
    BY DEF ReadOne, ReadTwo
  <2> QED
    BY <1>1, <1>3, <2>1, ZenonT(40) DEF IInv, ValueInv
<1> QED
  BY <1>4, <1>5, <1>6, <1>7 DEF IInv

\* A reader returns or throws.
LEMMA EndOfSharedStep ==
    ASSUME IInv, NEW t \in Threads, UnlockShared(t) \/ ReadThrows(t)
    PROVE  IInv'
<1>1. /\ pc' \in [Threads -> Places] /\ At(t) \in {"read", "read one", "read two"} /\ At(t)' = "idle"
      /\ \A u \in Threads \ {t} : At(u)' = At(u)
  BY HandlerMoves DEF IInv, UnlockShared, ReadThrows, EndOfShared, queueVars, Calling, Inside, Places, MayCall
<1>2. TypeOK'
  <2>1. EndOfShared(t)
    BY DEF UnlockShared, ReadThrows
  <2> QED
    BY <1>1, <2>1 DEF IInv, TypeOK, EndOfShared, queueVars
<1>3. QueueInv'
  BY QueueKept DEF IInv, TypeOK, UnlockShared, ReadThrows, EndOfShared, Calling, Inside
<1>4. LockInv'
  BY <1>1 DEF IInv, LockInv, UnlockShared, ReadThrows, EndOfShared
<1>5. ValueInv'
  <2>1. \A u \in Threads \ {t} : cell'[u] = cell[u]
    BY DEF IInv, TypeOK, UnlockShared, ReadThrows, EndOfShared
  <2> QED
    BY <1>1, <2>1, ZenonT(40) DEF IInv, ValueInv, UnlockShared, ReadThrows, EndOfShared
<1> QED
  BY <1>2, <1>3, <1>4, <1>5 DEF IInv

-----------------------------------------------------------------------------
(* The theorems.                                                           *)

\* Every step keeps the invariant.
LEMMA InvStep == IInv /\ [Next]_vars => IInv'
<1> SUFFICES ASSUME IInv, [Next]_vars PROVE IInv'
  OBVIOUS
<1>1. CASE UNCHANGED vars
  <2>1. \A t \in Threads : At(t)' = At(t)
    BY <1>1 DEF vars, queueVars, At
  <2>2. LockInv' /\ ValueInv'
    BY <1>1, <2>1, ValueKept DEF IInv, vars
  <2>3. TypeOK' /\ QueueInv'
    BY <1>1 DEF IInv, TypeOK, QueueInv, vars, queueVars, dataVars
  <2> QED
    BY <2>2, <2>3 DEF IInv
<1>2. ASSUME NEW t \in Threads, CallPush(t) \/ CallPop(t) \/ CallSize(t)
      PROVE  IInv'
  BY <1>2, CallStep DEF CallPush, CallPop, CallSize
<1>3. ASSUME NEW t \in Threads, Body(t)
      PROVE  IInv'
  BY <1>3, SectionStep, WriteOneStep, WriteTwoStep, ReadStep, EndOfSharedStep DEF Body
<1> QED
  BY <1>1, <1>2, <1>3, LockQueueStep, LockExclusiveStep, LockSharedStep, WriteThrowsStep,
     EndOfSharedStep DEF Next

\* The invariant holds in every behaviour of the threads.
THEOREM Invariance == Spec => []IInv
BY InvInit, InvStep, PTL DEF Spec

\* The members of SynchronizedData keep their types: a pop() hands out an item
\* or std::nullopt, and only items are in queue_.
THEOREM TypeCorrect == Spec => []TypeOK
<1>1. IInv => TypeOK
  BY DEF IInv
<1> QED
  BY <1>1, Invariance, PTL

\* The guards of ThreadSafeQueue and of MutexSynchronize are held by exactly
\* the threads whose place says so, in every interleaving of their calls.
THEOREM LocksAreThePlaces == Spec => []LocksMatchPlaces
<1>1. IInv => LocksMatchPlaces
  <2> SUFFICES ASSUME IInv PROVE LocksMatchPlaces
    OBVIOUS
  <2>1. {t \in Threads : pc[t] \in {"pushing", "front", "sizing", "erase"}} = {mutex} \ {NoThread}
    BY NamesAssumption DEF IInv, TypeOK, QueueInv, Inside
  <2>2. {t \in Threads : At(t) \in {"write", "wrote one"}} = {writer} \ {NoThread}
    BY NamesAssumption DEF IInv, TypeOK, LockInv
  <2>3. {t \in Threads : At(t) \in {"read", "read one", "read two"}} = readers
    BY DEF IInv, TypeOK, LockInv
  <2> QED
    BY <2>1, <2>2, <2>3 DEF LocksMatchPlaces, At, Calling, Inside
<1> QED
  BY <1>1, Invariance, PTL

\* A handler of withReadLock() never sees a value that is being written: what
\* it reads is the value as one write section left it, the last.
THEOREM ReadsAreWhole == Spec => []ReadersSeeWhole
<1>1. IInv => ReadersSeeWhole
  <2> SUFFICES ASSUME IInv, NEW t \in Threads, pc[t] = "read two" PROVE cell[t] = latest
    BY DEF ReadersSeeWhole
  <2>1. cell[t][1] = latest[1] /\ cell[t][2] = latest[2]
    BY DEF IInv, ValueInv, At, Calling, Inside
  <2>2. cell[t] \in Part \X Part /\ latest \in Part \X Part
    BY DEF IInv, TypeOK, Part
  <2>3. cell[t] = <<cell[t][1], cell[t][2]>> /\ latest = <<latest[1], latest[2]>>
    BY <2>2, PairEqual
  <2> QED
    BY <2>1, <2>3, Zenon
<1> QED
  BY <1>1, Invariance, PTL

\* A handler that waits for the queue holds its lock on the value all the
\* time, and readers and a writer are never inside together.
THEOREM WriterIsAlone == Spec => [](\A t \in Threads : writer = t => readers = {})
<1>1. IInv => \A t \in Threads : writer = t => readers = {}
  BY NamesAssumption DEF IInv, LockInv
<1> QED
  BY <1>1, Invariance, PTL

\* A step of the threads is a step of the abstract queue, or nothing to it:
\* push() takes effect at emplace_back(), pop() at pop_front().
LEMMA RefinesStep == IInv /\ [Next]_vars => [Abstract!Next]_<<queue, popped>>
<1> SUFFICES ASSUME IInv, [Next]_vars PROVE [Abstract!Next]_<<queue, popped>>
  OBVIOUS
<1> USE DEF Abstract!Next, Abstract!Push, Abstract!Pop
<1>1. CASE UNCHANGED vars
  BY <1>1 DEF vars, queueVars
<1>2. ASSUME NEW t \in Threads, CallPush(t) \/ CallPop(t) \/ CallSize(t) \/ LockQueue(t)
      PROVE  UNCHANGED <<queue, popped>>
  BY <1>2 DEF CallPush, CallPop, CallSize, Call, LockQueue
<1>3. ASSUME NEW t \in Threads,
             \/ LockExclusive(t) \/ LockShared(t)
             \/ WriteOne(t) \/ WriteTwo(t) \/ ReadOne(t) \/ ReadTwo(t) \/ UnlockShared(t)
             \/ WriteThrows(t) \/ ReadThrows(t)
      PROVE  UNCHANGED <<queue, popped>>
  BY <1>3 DEF LockExclusive, LockShared, WriteOne, WriteTwo, ReadOne, ReadTwo, UnlockShared,
              WriteThrows, ReadThrows, EndOfShared, queueVars
<1>4. ASSUME NEW t \in Threads, Size(t) \/ PopEmpty(t) \/ MoveFront(t)
      PROVE  UNCHANGED <<queue, popped>>
  BY <1>4 DEF Size, PopEmpty, MoveFront
<1>5. ASSUME NEW t \in Threads, PushBack(t)
      PROVE  \E v \in Items : Abstract!Push(v)
  BY <1>5 DEF IInv, QueueInv, PushBack
<1>6. ASSUME NEW t \in Threads, PopFront(t)
      PROVE  Abstract!Pop
  BY <1>6 DEF IInv, QueueInv, PopFront
<1> QED
  BY <1>1, <1>2, <1>3, <1>4, <1>5, <1>6 DEF Next, Body

\* ThreadSafeQueue is linearizable: its calls implement the queue whose push
\* and pop happen at one moment.
THEOREM QueueIsAtomic == Spec => ImplementsAtomicQueue
<1>1. Init => Abstract!Init
  BY DEF Init, Abstract!Init
<1> QED
  BY <1>1, RefinesStep, Invariance, PTL DEF Spec, ImplementsAtomicQueue, Abstract!Spec

=============================================================================
