---------------------- MODULE ThreadPoolExecutor_proofs ----------------------
(***************************************************************************)
(* Proofs about ThreadPoolExecutor, for any set of workers, clients and    *)
(* callables.                                                              *)
(***************************************************************************)
EXTENDS ThreadPoolExecutor, FiniteSetTheorems, TLAPS

-----------------------------------------------------------------------------
(* Facts about sequences.                                                  *)

\* The elements of a sequence after an emplace.
LEMMA RangeAppend ==
    ASSUME NEW S, NEW s \in Seq(S), NEW e \in S
    PROVE  RangeOf(Append(s, e)) = RangeOf(s) \cup {e}
<1>1. Len(Append(s, e)) = Len(s) + 1 /\ Len(s) \in Nat
  OBVIOUS
<1>2. \A i \in 1 .. Len(s) : Append(s, e)[i] = s[i]
  OBVIOUS
<1>3. Append(s, e)[Len(s) + 1] = e
  OBVIOUS
<1>4. QED
  BY <1>1, <1>2, <1>3 DEF RangeOf

\* The elements of a concatenation.
LEMMA RangeConcat ==
    ASSUME NEW S, NEW s \in Seq(S), NEW q \in Seq(S)
    PROVE  RangeOf(s \o q) = RangeOf(s) \cup RangeOf(q)
<1>1. Len(s \o q) = Len(s) + Len(q) /\ Len(s) \in Nat /\ Len(q) \in Nat
  OBVIOUS
<1>2. \A i \in 1 .. Len(s) : (s \o q)[i] = s[i]
  OBVIOUS
<1>3. \A i \in 1 .. Len(q) : (s \o q)[Len(s) + i] = q[i]
  OBVIOUS
<1>4. \A i \in 1 .. Len(s \o q) : i \in 1 .. Len(s) \/ \E j \in 1 .. Len(q) : i = Len(s) + j
  <2> SUFFICES ASSUME NEW i \in 1 .. Len(s \o q), i \notin 1 .. Len(s)
               PROVE  \E j \in 1 .. Len(q) : i = Len(s) + j
    OBVIOUS
  <2> WITNESS i - Len(s) \in 1 .. Len(q)
  <2> QED
    BY <1>1
<1>5. RangeOf(s \o q) \subseteq RangeOf(s) \cup RangeOf(q)
  BY <1>2, <1>3, <1>4 DEF RangeOf
<1>6. RangeOf(s) \subseteq RangeOf(s \o q)
  BY <1>1, <1>2 DEF RangeOf
<1>7. RangeOf(q) \subseteq RangeOf(s \o q)
  <2>1. \A i \in 1 .. Len(q) : Len(s) + i \in 1 .. Len(s \o q)
    BY <1>1
  <2> QED
    BY <2>1, <1>3 DEF RangeOf
<1>8. QED
  BY <1>5, <1>6, <1>7

\* The elements of a queue are its front and the rest.
LEMMA RangeHeadTail ==
    ASSUME NEW S, NEW q \in Seq(S), q # <<>>
    PROVE  /\ Head(q) \in S /\ Tail(q) \in Seq(S)
           /\ RangeOf(q) = {Head(q)} \cup RangeOf(Tail(q))
<1>1. Len(q) \in Nat /\ Len(q) > 0 /\ Len(Tail(q)) = Len(q) - 1
  OBVIOUS
<1>2. Head(q) = q[1] /\ \A i \in 1 .. Len(Tail(q)) : Tail(q)[i] = q[i + 1]
  OBVIOUS
<1>3. \A i \in 1 .. Len(q) : i = 1 \/ ((i - 1) \in 1 .. Len(Tail(q)) /\ q[i] = Tail(q)[i - 1])
  <2> SUFFICES ASSUME NEW i \in 1 .. Len(q), i # 1
               PROVE  (i - 1) \in 1 .. Len(Tail(q)) /\ q[i] = Tail(q)[i - 1]
    OBVIOUS
  <2>1. (i - 1) \in 1 .. Len(Tail(q)) /\ (i - 1) + 1 = i
    BY <1>1
  <2> QED
    BY <2>1, <1>2
<1>4. RangeOf(q) \subseteq {Head(q)} \cup RangeOf(Tail(q))
  BY <1>2, <1>3 DEF RangeOf
<1>5. {Head(q)} \cup RangeOf(Tail(q)) \subseteq RangeOf(q)
  <2>1. 1 \in 1 .. Len(q) /\ \A i \in 1 .. Len(Tail(q)) : i + 1 \in 1 .. Len(q)
    BY <1>1
  <2> QED
    BY <2>1, <1>2 DEF RangeOf
<1>6. Head(q) \in S /\ Tail(q) \in Seq(S)
  OBVIOUS
<1>7. QED
  BY <1>4, <1>5, <1>6

\* Moving the head of q to the end of s leaves their concatenation as it was.
LEMMA MoveHead ==
    ASSUME NEW S, NEW s \in Seq(S), NEW q \in Seq(S), q # <<>>
    PROVE  Append(s, Head(q)) \o Tail(q) = s \o q
<1>1. Len(q) \in Nat \ {0} /\ Len(s) \in Nat
  OBVIOUS
<1>2. Len(Append(s, Head(q)) \o Tail(q)) = Len(s \o q)
  BY <1>1
<1>3. \A i \in 1 .. Len(s \o q) : (Append(s, Head(q)) \o Tail(q))[i] = (s \o q)[i]
  BY <1>1
<1>4. QED
  BY <1>2, <1>3, SMTT(30)

\* Appending to the right part appends to the concatenation.
LEMMA ConcatAppend ==
    ASSUME NEW S, NEW s \in Seq(S), NEW q \in Seq(S), NEW e \in S
    PROVE  s \o Append(q, e) = Append(s \o q, e)
OBVIOUS

-----------------------------------------------------------------------------
(* Type correctness.                                                       *)

\* The state after the constructor is well typed.
LEMMA TypeInit == Init => TypeOK
<1> SUFFICES ASSUME Init PROVE TypeOK
  OBVIOUS
<1>1. pc \in [Threads -> WorkerPc \cup CallPc \cup DtorPc \cup {"idle"}]
  BY DEF Init, WorkerPc
<1>2. work \in [Workers -> Tasks \cup {NoTask}] /\ arg \in [Threads -> Tasks \cup {NoTask}]
  BY DEF Init
<1>3. /\ \A w \in Workers : pc[w] = "lock" /\ work[w] = NoTask
      /\ \A c \in Clients : pc[c] = "idle"
      /\ \A t \in Threads : arg[t] = NoTask /\ pc[t] \notin {"submit", "push"}
  BY ThreadsAssumption DEF Init, Threads
<1>4. /\ queue_mutex \in Threads \cup {NoThread}
      /\ closers \subseteq Threads /\ finished \subseteq Tasks /\ late \subseteq Tasks
      /\ work_queue \in Seq(Tasks) /\ pushed \in Seq(Tasks) /\ started \in Seq(Tasks)
  BY DEF Init
<1>5. shutdown \in BOOLEAN
  BY DEF Init
<1>6. QED
  BY <1>1, <1>2, <1>3, <1>4, <1>5 DEF TypeOK, WorkerPc, CallPc, DtorPc

\* Every step preserves the type invariant.
LEMMA TypeStep == ASSUME TypeOK, [Next]_vars PROVE TypeOK'
<1> USE ThreadsAssumption DEF ThreadsAssumption, TypeOK, Threads, WorkerPc, CallPc, DtorPc
<1>1. ASSUME NEW t \in Threads, Acquire(t) PROVE TypeOK'
  BY <1>1 DEF Acquire, Locked, history
<1>2. ASSUME NEW w \in Workers, Wait(w) PROVE TypeOK'
  BY <1>2 DEF Wait, history
<1>3. ASSUME NEW w \in Workers, Return(w) PROVE TypeOK'
  BY <1>3 DEF Return, history
<1>4. ASSUME NEW w \in Workers, Take(w) PROVE TypeOK'
  BY <1>4 DEF Take
<1>5. ASSUME NEW w \in Workers, Finish(w) PROVE TypeOK'
  BY <1>5 DEF Finish
<1>6. ASSUME NEW t \in Threads, Push(t) PROVE TypeOK'
  BY <1>6 DEF Push
<1>7. ASSUME NEW t \in Threads, NotifyOne(t) PROVE TypeOK'
  <2>1. /\ pc[t] = "notify_one"
        /\ UNCHANGED <<queue_mutex, work_queue, shutdown, work, arg, closers, history>>
    BY <1>7 DEF NotifyOne
  <2>2. CASE pc' = [pc EXCEPT ![t] = Home(t)]
    BY <2>1, <2>2 DEF Home, history
  <2>3. ASSUME NEW w \in Waiting, pc' = [pc EXCEPT ![t] = Home(t), ![w] = "lock"]
        PROVE  TypeOK'
    <3>1. w \in Workers /\ pc[w] = "wait" /\ w # t
      BY <2>1, <2>3 DEF Waiting
    <3>2. /\ pc' \in [Threads -> WorkerPc \cup CallPc \cup DtorPc \cup {"idle"}]
          /\ pc'[w] = "lock" /\ pc'[t] = Home(t)
          /\ \A u \in Threads \ {t, w} : pc'[u] = pc[u]
      BY <2>3, <3>1 DEF Home
    <3>3. /\ \A v \in Workers : pc'[v] \in WorkerPc \cup CallPc
          /\ \A c \in Clients : pc'[c] \in {"idle"} \cup CallPc \cup DtorPc
      BY <3>1, <3>2 DEF Home
    <3>4. \A v \in Workers : work'[v] # NoTask <=> pc'[v] \in {"run"} \cup CallPc
      BY <2>1, <3>1, <3>2, SMTT(30) DEF Home
    <3>5. \A u \in Threads : arg'[u] # NoTask <=> pc'[u] \in {"submit", "push"}
      BY <2>1, <3>1, <3>2 DEF Home
    <3>6. QED
      BY <2>1, <3>2, <3>3, <3>4, <3>5 DEF history
  <2>4. QED
    BY <1>7, <2>2, <2>3 DEF NotifyOne
<1>8. ASSUME NEW t \in Threads, SetShutdown(t) PROVE TypeOK'
  BY <1>8 DEF SetShutdown, history
<1>9. ASSUME NEW t \in Threads, NotifyAll(t) PROVE TypeOK'
  BY <1>9, SMTT(30) DEF NotifyAll, Home, history
<1>10. ASSUME NEW c \in Clients, Join(c) PROVE TypeOK'
  BY <1>10 DEF Join, history
<1>11. ASSUME NEW t \in Threads, NEW k \in Tasks, CallSubmit(t, k) PROVE TypeOK'
  BY <1>11 DEF CallSubmit, MayCall, Home, history
<1>12. ASSUME NEW t \in Threads, CallShutdown(t) PROVE TypeOK'
  BY <1>12 DEF CallShutdown, MayCall, Home, history
<1>13. ASSUME NEW c \in Clients, CallDestructor(c) PROVE TypeOK'
  BY <1>13 DEF CallDestructor, history
<1>14. ASSUME NEW w \in Workers, SpuriousWakeup(w) PROVE TypeOK'
  BY <1>14 DEF SpuriousWakeup, history
<1>15. ASSUME UNCHANGED vars PROVE TypeOK'
  BY <1>15 DEF vars
<1>16. QED
  BY <1>1, <1>2, <1>3, <1>4, <1>5, <1>6, <1>7, <1>8, <1>9, <1>10, <1>11,
     <1>12, <1>13, <1>14, <1>15 DEF Next, Proceed, Call, Terminated

-----------------------------------------------------------------------------
(* Mutual exclusion.  Only Acquire takes the mutex and it finds it free;   *)
(* every step out of a locked position releases it.                        *)

\* Every step preserves mutual exclusion.
LEMMA MutexStep == ASSUME TypeOK, MutualExclusion, [Next]_vars PROVE MutualExclusion'
<1> USE ThreadsAssumption DEF TypeOK, Threads, MutualExclusion, LockedPc, WorkerPc, CallPc, DtorPc
<1>1. ASSUME NEW t \in Threads, Acquire(t) PROVE MutualExclusion'
  BY <1>1 DEF Acquire, Locked
<1>2. ASSUME NEW w \in Workers, Wait(w) PROVE MutualExclusion'
  BY <1>2 DEF Wait
<1>3. ASSUME NEW w \in Workers, Return(w) PROVE MutualExclusion'
  BY <1>3 DEF Return
<1>4. ASSUME NEW w \in Workers, Take(w) PROVE MutualExclusion'
  BY <1>4 DEF Take
<1>5. ASSUME NEW w \in Workers, Finish(w) PROVE MutualExclusion'
  BY <1>5 DEF Finish
<1>6. ASSUME NEW t \in Threads, Push(t) PROVE MutualExclusion'
  BY <1>6 DEF Push
<1>7. ASSUME NEW t \in Threads, NotifyOne(t) PROVE MutualExclusion'
  BY <1>7 DEF NotifyOne, Waiting, Home
<1>8. ASSUME NEW t \in Threads, SetShutdown(t) PROVE MutualExclusion'
  BY <1>8 DEF SetShutdown
<1>9. ASSUME NEW t \in Threads, NotifyAll(t) PROVE MutualExclusion'
  BY <1>9 DEF NotifyAll, Home
<1>10. ASSUME NEW c \in Clients, Join(c) PROVE MutualExclusion'
  BY <1>10 DEF Join
<1>11. ASSUME NEW t \in Threads, NEW k \in Tasks, CallSubmit(t, k) PROVE MutualExclusion'
  BY <1>11 DEF CallSubmit, MayCall, Home
<1>12. ASSUME NEW t \in Threads, CallShutdown(t) PROVE MutualExclusion'
  BY <1>12 DEF CallShutdown, MayCall, Home
<1>13. ASSUME NEW c \in Clients, CallDestructor(c) PROVE MutualExclusion'
  BY <1>13 DEF CallDestructor
<1>14. ASSUME NEW w \in Workers, SpuriousWakeup(w) PROVE MutualExclusion'
  BY <1>14 DEF SpuriousWakeup
<1>15. ASSUME UNCHANGED vars PROVE MutualExclusion'
  BY <1>15 DEF vars
<1>16. QED
  BY <1>1, <1>2, <1>3, <1>4, <1>5, <1>6, <1>7, <1>8, <1>9, <1>10, <1>11,
     <1>12, <1>13, <1>14, <1>15 DEF Next, Proceed, Call, Terminated

-----------------------------------------------------------------------------
(* The four actions that move callables, and the others.                   *)

MovesNothing == UNCHANGED <<work_queue, work, arg, pushed, started, finished>>

\* Which steps change the queue and its history, and which leave them alone.
LEMMA MoversOrNot ==
    ASSUME [Next]_vars
    PROVE  \/ \E w \in Workers : Take(w) \/ Finish(w)
           \/ \E t \in Threads : Push(t)
           \/ \E t \in Threads, k \in Tasks : CallSubmit(t, k)
           \/ MovesNothing
<1> USE DEF MovesNothing, history
<1>1. ASSUME NEW t \in Threads, Acquire(t) PROVE MovesNothing
  BY <1>1 DEF Acquire
<1>2. ASSUME NEW w \in Workers, Wait(w) \/ Return(w) \/ SpuriousWakeup(w) PROVE MovesNothing
  BY <1>2 DEF Wait, Return, SpuriousWakeup
<1>3. ASSUME NEW t \in Threads, NotifyOne(t) \/ SetShutdown(t) \/ NotifyAll(t) PROVE MovesNothing
  BY <1>3 DEF NotifyOne, SetShutdown, NotifyAll
<1>4. ASSUME NEW c \in Clients, Join(c) \/ CallDestructor(c) PROVE MovesNothing
  BY <1>4 DEF Join, CallDestructor
<1>5. ASSUME NEW t \in Threads, CallShutdown(t) PROVE MovesNothing
  BY <1>5 DEF CallShutdown
<1>6. ASSUME UNCHANGED vars PROVE MovesNothing
  BY <1>6 DEF vars
<1>7. QED
  BY <1>1, <1>2, <1>3, <1>4, <1>5, <1>6 DEF Next, Proceed, Call, Terminated

-----------------------------------------------------------------------------
(* No callable is lost, duplicated or overtaken.                           *)

\* The part of Coordination about the arguments of submit().
ArgumentsFresh ==
    /\ \A t \in Threads : arg[t] \notin RangeOf(pushed)
    /\ \A t, u \in Threads : t # u /\ arg[t] # NoTask => arg[t] # arg[u]

\* A callable inside submit() stays distinct from all that were queued.
LEMMA ArgumentsFreshStep ==
    ASSUME TypeOK, ArgumentsFresh, [Next]_vars
    PROVE  ArgumentsFresh'
<1> USE ThreadsAssumption DEF ArgumentsFresh
<1>0. NoTask \notin RangeOf(pushed)
  BY DEF TypeOK, RangeOf
<1>1. ASSUME NEW w \in Workers, Take(w) \/ Finish(w) PROVE ArgumentsFresh'
  BY <1>1 DEF Take, Finish
<1>2. ASSUME NEW t \in Threads, Push(t) PROVE ArgumentsFresh'
  <2>1. arg[t] \in Tasks
    BY <1>2 DEF Push, TypeOK
  <2>2. RangeOf(pushed') = RangeOf(pushed) \cup {arg[t]}
    BY <1>2, <2>1, RangeAppend DEF Push, TypeOK
  <2>3. arg' = [arg EXCEPT ![t] = NoTask] /\ arg \in [Threads -> Tasks \cup {NoTask}]
    BY <1>2 DEF Push, TypeOK
  <2>4. QED
    BY <1>0, <2>1, <2>2, <2>3
<1>3. ASSUME NEW t \in Threads, NEW k \in Tasks, CallSubmit(t, k) PROVE ArgumentsFresh'
  <2>1. k \notin RangeOf(pushed) /\ \A u \in Threads : k # arg[u]
    BY <1>3 DEF CallSubmit, Used
  <2>2. /\ arg' = [arg EXCEPT ![t] = k] /\ arg \in [Threads -> Tasks \cup {NoTask}]
        /\ pushed' = pushed
    BY <1>3 DEF CallSubmit, TypeOK, history
  <2>3. QED
    BY <2>1, <2>2
<1>4. ASSUME MovesNothing PROVE ArgumentsFresh'
  BY <1>4 DEF MovesNothing
<1>5. QED
  BY <1>1, <1>2, <1>3, <1>4, MoversOrNot

\* Every step keeps the order of the queue and loses and repeats nothing.
LEMMA FifoStep ==
    ASSUME TypeOK, ArgumentsFresh, FifoNoLossNoDuplicate, [Next]_vars
    PROVE  FifoNoLossNoDuplicate'
<1>1. ASSUME NEW w \in Workers, Take(w) PROVE FifoNoLossNoDuplicate'
  <2>1. started \in Seq(Tasks) /\ work_queue \in Seq(Tasks) /\ work_queue # <<>>
    BY <1>1 DEF Take, TypeOK
  <2>2. Append(started, Head(work_queue)) \o Tail(work_queue) = started \o work_queue
    BY <2>1, MoveHead
  <2>3. /\ started' = Append(started, Head(work_queue))
        /\ work_queue' = Tail(work_queue) /\ pushed' = pushed
    BY <1>1 DEF Take
  <2>4. QED
    BY <2>2, <2>3 DEF FifoNoLossNoDuplicate
<1>2. ASSUME NEW w \in Workers, Finish(w) PROVE FifoNoLossNoDuplicate'
  BY <1>2 DEF Finish, FifoNoLossNoDuplicate
<1>3. ASSUME NEW t \in Threads, Push(t) PROVE FifoNoLossNoDuplicate'
  <2>1. arg[t] \in Tasks
    BY <1>3 DEF Push, TypeOK
  <2>2. pushed' = started' \o work_queue'
    <3>1. started \in Seq(Tasks) /\ work_queue \in Seq(Tasks)
      BY DEF TypeOK
    <3>2. started \o Append(work_queue, arg[t]) = Append(started \o work_queue, arg[t])
      BY <2>1, <3>1, ConcatAppend
    <3>3. QED
      BY <1>3, <3>2 DEF Push, FifoNoLossNoDuplicate
  <2>3. \A i \in 1 .. Len(pushed) : pushed[i] # arg[t]
    BY DEF ArgumentsFresh, RangeOf
  <2>4. \A i, j \in 1 .. Len(pushed') : pushed'[i] = pushed'[j] => i = j
    <3>1. pushed' = Append(pushed, arg[t]) /\ pushed \in Seq(Tasks)
      BY <1>3 DEF Push, TypeOK
    <3>2. /\ Len(pushed') = Len(pushed) + 1 /\ Len(pushed) \in Nat
          /\ \A i \in 1 .. Len(pushed) : pushed'[i] = pushed[i]
          /\ pushed'[Len(pushed) + 1] = arg[t]
      BY <3>1
    <3>3. \A i, j \in 1 .. Len(pushed) : pushed[i] = pushed[j] => i = j
      BY DEF FifoNoLossNoDuplicate
    <3>4. \A i \in 1 .. Len(pushed') : i \in 1 .. Len(pushed) \/ i = Len(pushed) + 1
      BY <3>2
    <3>5. QED
      BY <2>3, <3>2, <3>3, <3>4
  <2>5. QED
    BY <2>2, <2>4 DEF FifoNoLossNoDuplicate
<1>4. ASSUME NEW t \in Threads, NEW k \in Tasks, CallSubmit(t, k) PROVE FifoNoLossNoDuplicate'
  BY <1>4 DEF CallSubmit, FifoNoLossNoDuplicate, history
<1>5. ASSUME MovesNothing PROVE FifoNoLossNoDuplicate'
  BY <1>5 DEF MovesNothing, FifoNoLossNoDuplicate
<1>6. QED
  BY <1>1, <1>2, <1>3, <1>4, <1>5, MoversOrNot

\* The next callable to be popped was not popped before.
LEMMA HeadIsNew ==
    ASSUME TypeOK, FifoNoLossNoDuplicate, work_queue # <<>>
    PROVE  Head(work_queue) \in Tasks \ RangeOf(started)
<1>1. /\ Len(started) \in Nat /\ Len(work_queue) \in Nat \ {0}
      /\ Len(pushed) = Len(started) + Len(work_queue)
  BY DEF TypeOK, FifoNoLossNoDuplicate
<1>2. pushed[Len(started) + 1] = Head(work_queue) /\ Head(work_queue) \in Tasks
  BY <1>1 DEF TypeOK, FifoNoLossNoDuplicate
<1>3. \A i \in 1 .. Len(started) : pushed[i] = started[i]
  BY DEF TypeOK, FifoNoLossNoDuplicate
<1>4. \A i \in 1 .. Len(started) : started[i] # Head(work_queue)
  BY <1>1, <1>2, <1>3 DEF FifoNoLossNoDuplicate
<1>5. QED
  BY <1>2, <1>4 DEF RangeOf

\* Every step keeps popped callables with one worker, or finished.
LEMMA OneWorkerStep ==
    ASSUME TypeOK, FifoNoLossNoDuplicate, OneWorkerPerTask, [Next]_vars
    PROVE  OneWorkerPerTask'
<1> USE ThreadsAssumption
<1>1. ASSUME NEW w \in Workers, Take(w) PROVE OneWorkerPerTask'
  <2> DEFINE h == Head(work_queue)
  <2>1. h \in Tasks \ RangeOf(started)
    BY <1>1, HeadIsNew DEF Take
  <2>2. RangeOf(started') = RangeOf(started) \cup {h}
    BY <1>1, <2>1, RangeAppend DEF Take, TypeOK
  <2>3. /\ work' = [work EXCEPT ![w] = h] /\ work \in [Workers -> Tasks \cup {NoTask}]
        /\ finished' = finished
    BY <1>1 DEF Take, TypeOK
  <2>4. work[w] = NoTask
    BY <1>1 DEF Take, TypeOK, CallPc
  <2> HIDE DEF h
  <2>5. \A v \in Workers : work'[v] = IF v = w THEN h ELSE work[v]
    BY <2>3
  <2>6. h \notin finished /\ \A v \in Workers : work[v] # h
    BY <2>1 DEF OneWorkerPerTask
  <2>7. {work'[v] : v \in Workers} \ {NoTask} = ({work[v] : v \in Workers} \ {NoTask}) \cup {h}
    BY <2>1, <2>4, <2>5
  <2>8. QED
    BY <2>2, <2>3, <2>5, <2>6, <2>7 DEF OneWorkerPerTask
<1>2. ASSUME NEW w \in Workers, Finish(w) PROVE OneWorkerPerTask'
  <2>1. work[w] \in Tasks
    BY <1>2 DEF Finish, TypeOK
  <2>2. /\ work' = [work EXCEPT ![w] = NoTask] /\ work \in [Workers -> Tasks \cup {NoTask}]
        /\ finished' = finished \cup {work[w]} /\ started' = started /\ finished \subseteq Tasks
    BY <1>2 DEF Finish, TypeOK
  <2>3. \A v \in Workers : work'[v] = IF v = w THEN NoTask ELSE work[v]
    BY <2>2
  <2>4. {work'[v] : v \in Workers} \ {NoTask} = ({work[v] : v \in Workers} \ {NoTask}) \ {work[w]}
    BY <2>1, <2>3 DEF OneWorkerPerTask
  <2>5. RangeOf(started') = finished' \cup ({work'[v] : v \in Workers} \ {NoTask})
    BY <2>1, <2>2, <2>4 DEF OneWorkerPerTask
  <2>6. QED
    BY <2>1, <2>2, <2>3, <2>5 DEF OneWorkerPerTask
<1>3. ASSUME NEW t \in Threads, Push(t) PROVE OneWorkerPerTask'
  BY <1>3 DEF Push, OneWorkerPerTask
<1>4. ASSUME NEW t \in Threads, NEW k \in Tasks, CallSubmit(t, k) PROVE OneWorkerPerTask'
  BY <1>4 DEF CallSubmit, OneWorkerPerTask, history
<1>5. ASSUME MovesNothing PROVE OneWorkerPerTask'
  BY <1>5 DEF MovesNothing, OneWorkerPerTask
<1>6. QED
  BY <1>1, <1>2, <1>3, <1>4, <1>5, MoversOrNot

-----------------------------------------------------------------------------
(* Shutdown.                                                               *)

\* The part of Coordination about returning workers.
Drained ==
    /\ \A w \in Workers : pc[w] = "done" => shutdown
    /\ (\A w \in Workers : pc[w] = "done") => RangeOf(work_queue) \subseteq late

\* Workers return only after shutdown_, and the last one leaves an empty queue.
LEMMA DrainedStep == ASSUME TypeOK, Drained, [Next]_vars PROVE Drained'
<1> USE ThreadsAssumption DEF TypeOK, Threads, Drained, WorkerPc, CallPc, DtorPc
<1>1. ASSUME NEW w \in Workers, Take(w) PROVE Drained'
  BY <1>1 DEF Take
<1>2. ASSUME NEW w \in Workers, Return(w) PROVE Drained'
  <2>1. work_queue' = <<>> /\ RangeOf(<<>>) = {}
    BY <1>2 DEF Return, RangeOf
  <2>2. QED
    BY <1>2, <2>1 DEF Return
<1>3. ASSUME NEW t \in Threads, Push(t) PROVE Drained'
  <2>1. CASE t \in Workers
    BY <1>3, <2>1 DEF Push
  <2>2. CASE t \in Clients /\ ~ shutdown
    BY <1>3, <2>2 DEF Push
  <2>3. CASE t \in Clients /\ shutdown
    <3>1. arg[t] \in Tasks
      BY <1>3 DEF Push
    <3>2. RangeOf(work_queue') = RangeOf(work_queue) \cup {arg[t]}
      BY <1>3, <3>1, RangeAppend DEF Push
    <3>3. late' = late \cup {arg[t]} /\ shutdown' = shutdown
      BY <1>3, <2>3 DEF Push
    <3>4. \A w \in Workers : pc'[w] = pc[w]
      BY <1>3, <2>3 DEF Push
    <3>5. QED
      BY <3>2, <3>3, <3>4, <2>3
  <2>4. QED
    BY <2>1, <2>2, <2>3
<1>4. ASSUME NEW t \in Threads, Acquire(t) PROVE Drained'
  BY <1>4 DEF Acquire, Locked, history
<1>5. ASSUME NEW w \in Workers, Wait(w) PROVE Drained'
  BY <1>5 DEF Wait, history
<1>6. ASSUME NEW w \in Workers, Finish(w) PROVE Drained'
  BY <1>6 DEF Finish, history
<1>7. ASSUME NEW t \in Threads, NotifyOne(t) PROVE Drained'
  BY <1>7 DEF NotifyOne, Waiting, Home, history
<1>8. ASSUME NEW t \in Threads, SetShutdown(t) PROVE Drained'
  BY <1>8 DEF SetShutdown, history
<1>9. ASSUME NEW t \in Threads, NotifyAll(t) PROVE Drained'
  BY <1>9 DEF NotifyAll, Home, history
<1>10. ASSUME NEW c \in Clients, Join(c) PROVE Drained'
  BY <1>10 DEF Join, history
<1>11. ASSUME NEW t \in Threads, NEW k \in Tasks, CallSubmit(t, k) PROVE Drained'
  BY <1>11 DEF CallSubmit, MayCall, Home, history
<1>12. ASSUME NEW t \in Threads, CallShutdown(t) PROVE Drained'
  BY <1>12 DEF CallShutdown, MayCall, Home, history
<1>13. ASSUME NEW c \in Clients, CallDestructor(c) PROVE Drained'
  BY <1>13 DEF CallDestructor, history
<1>14. ASSUME NEW w \in Workers, SpuriousWakeup(w) PROVE Drained'
  BY <1>14 DEF SpuriousWakeup, history
<1>15. ASSUME UNCHANGED vars PROVE Drained'
  BY <1>15 DEF vars
<1>16. QED
  BY <1>1, <1>2, <1>3, <1>4, <1>5, <1>6, <1>7, <1>8, <1>9, <1>10, <1>11, <1>12,
     <1>13, <1>14, <1>15
     DEF Next, Proceed, Call, Terminated

\* The part of Coordination about the destructor.
DestructorAlone ==
    /\ \A c, d \in Clients : c # d /\ pc[c] \in DtorPc => pc[d] = "idle"
    /\ \A c \in Clients : pc[c] = "destroyed" => \A w \in Workers : pc[w] = "done"

\* The destructor stays alone, and joins before it ends.
LEMMA DestructorStep == ASSUME TypeOK, DestructorAlone, [Next]_vars PROVE DestructorAlone'
<1> USE ThreadsAssumption DEF TypeOK, Threads, DestructorAlone, WorkerPc, CallPc, DtorPc
<1>1. ASSUME NEW w \in Workers, Take(w) PROVE DestructorAlone'
  BY <1>1 DEF Take
<1>2. ASSUME NEW w \in Workers, Return(w) PROVE DestructorAlone'
  BY <1>2 DEF Return
<1>3. ASSUME NEW t \in Threads, Push(t) PROVE DestructorAlone'
  BY <1>3 DEF Push
<1>4. ASSUME NEW t \in Threads, Acquire(t) PROVE DestructorAlone'
  BY <1>4 DEF Acquire, Locked, history
<1>5. ASSUME NEW w \in Workers, Wait(w) PROVE DestructorAlone'
  BY <1>5 DEF Wait, history
<1>6. ASSUME NEW w \in Workers, Finish(w) PROVE DestructorAlone'
  BY <1>6 DEF Finish, history
<1>7. ASSUME NEW t \in Threads, NotifyOne(t) PROVE DestructorAlone'
  BY <1>7 DEF NotifyOne, Waiting, Home, history
<1>8. ASSUME NEW t \in Threads, SetShutdown(t) PROVE DestructorAlone'
  BY <1>8 DEF SetShutdown, history
<1>9. ASSUME NEW t \in Threads, NotifyAll(t) PROVE DestructorAlone'
  BY <1>9 DEF NotifyAll, Home, history
<1>10. ASSUME NEW c \in Clients, Join(c) PROVE DestructorAlone'
  BY <1>10 DEF Join, history
<1>11. ASSUME NEW t \in Threads, NEW k \in Tasks, CallSubmit(t, k) PROVE DestructorAlone'
  BY <1>11 DEF CallSubmit, MayCall, Home, Alive, history
<1>12. ASSUME NEW t \in Threads, CallShutdown(t) PROVE DestructorAlone'
  BY <1>12 DEF CallShutdown, MayCall, Home, Alive, history
<1>13. ASSUME NEW c \in Clients, CallDestructor(c) PROVE DestructorAlone'
  BY <1>13 DEF CallDestructor, history
<1>14. ASSUME NEW w \in Workers, SpuriousWakeup(w) PROVE DestructorAlone'
  BY <1>14 DEF SpuriousWakeup, history
<1>15. ASSUME UNCHANGED vars PROVE DestructorAlone'
  BY <1>15 DEF vars
<1>16. QED
  BY <1>1, <1>2, <1>3, <1>4, <1>5, <1>6, <1>7, <1>8, <1>9, <1>10, <1>11, <1>12,
     <1>13, <1>14, <1>15
     DEF Next, Proceed, Call, Terminated

-----------------------------------------------------------------------------
(* The inductive invariant and what follows from it.                       *)

IInv ==
    /\ TypeOK
    /\ MutualExclusion
    /\ FifoNoLossNoDuplicate
    /\ OneWorkerPerTask
    /\ Coordination

\* Coordination is the conjunction of the three facts the steps preserve.
LEMMA CoordinationParts ==
    /\ Coordination <=> ArgumentsFresh /\ Drained /\ DestructorAlone
    /\ Coordination' <=> ArgumentsFresh' /\ Drained' /\ DestructorAlone'
<1>1. Coordination <=> ArgumentsFresh /\ Drained /\ DestructorAlone
  BY DEF Coordination, ArgumentsFresh, Drained, DestructorAlone
<1>2. Coordination' <=> ArgumentsFresh' /\ Drained' /\ DestructorAlone'
  BY DEF Coordination, ArgumentsFresh, Drained, DestructorAlone
<1>3. QED
  BY <1>1, <1>2

\* The state after the constructor satisfies the inductive invariant.
LEMMA InvInit == Init => IInv
<1> SUFFICES ASSUME Init PROVE IInv
  OBVIOUS
<1>1. TypeOK
  BY TypeInit
<1>2. RangeOf(<<>>) = {}
  BY DEF RangeOf
<1>3. /\ \A w \in Workers : pc[w] = "lock" /\ work[w] = NoTask
      /\ \A c \in Clients : pc[c] = "idle"
      /\ \A t \in Threads : arg[t] = NoTask
  BY ThreadsAssumption DEF Init, Threads
<1>4. MutualExclusion
  BY <1>3, ThreadsAssumption DEF Init, MutualExclusion, Threads, LockedPc
<1>5. FifoNoLossNoDuplicate
  BY DEF Init, FifoNoLossNoDuplicate
<1>6. OneWorkerPerTask
  BY <1>2, <1>3 DEF Init, OneWorkerPerTask
<1>7. Coordination
  BY <1>2, <1>3, ThreadsAssumption DEF Init, Coordination, DtorPc
<1>8. QED
  BY <1>1, <1>4, <1>5, <1>6, <1>7 DEF IInv

\* Every step preserves the inductive invariant.
LEMMA InvStep == IInv /\ [Next]_vars => IInv'
<1> SUFFICES ASSUME IInv, [Next]_vars PROVE IInv'
  OBVIOUS
<1>1. TypeOK /\ MutualExclusion /\ FifoNoLossNoDuplicate /\ OneWorkerPerTask /\ Coordination
  BY DEF IInv
<1>2. ArgumentsFresh /\ Drained /\ DestructorAlone
  BY <1>1, CoordinationParts
<1>3. TypeOK'
  BY <1>1, TypeStep
<1>4. MutualExclusion'
  BY <1>1, MutexStep
<1>5. FifoNoLossNoDuplicate'
  BY <1>1, <1>2, FifoStep
<1>6. OneWorkerPerTask'
  BY <1>1, OneWorkerStep
<1>7. ArgumentsFresh'
  BY <1>1, <1>2, ArgumentsFreshStep
<1>8. Drained'
  BY <1>1, <1>2, DrainedStep
<1>9. DestructorAlone'
  BY <1>1, <1>2, DestructorStep
<1>10. QED
  BY <1>3, <1>4, <1>5, <1>6, <1>7, <1>8, <1>9, CoordinationParts DEF IInv

\* The inductive invariant holds in every reachable state: the safety
\* properties, strengthened by what Coordination says of callables in submit()
\* and of returning workers.
THEOREM Invariance == Spec => []IInv
<1>1. QED
  BY InvInit, InvStep, PTL DEF Spec

\* Every behaviour of the pool keeps the types of its variables; a worker
\* holds a callable exactly while it executes one.
THEOREM TypeCorrect == Spec => []TypeOK
<1>1. IInv => TypeOK
  BY DEF IInv
<1>2. QED
  BY <1>1, Invariance, PTL

\* queue_mutex_ excludes: at most one thread is in a critical section.
THEOREM Exclusive == Spec => []MutualExclusion
<1>1. IInv => MutualExclusion
  BY DEF IInv
<1>2. QED
  BY <1>1, Invariance, PTL

\* Callables are popped in the order of submit(), none lost, none twice.
THEOREM FifoDelivery == Spec => []FifoNoLossNoDuplicate
<1>1. IInv => FifoNoLossNoDuplicate
  BY DEF IInv
<1>2. QED
  BY <1>1, Invariance, PTL

\* A popped callable is executed by one worker, once.
THEOREM ExecutedOnce == Spec => []OneWorkerPerTask
<1>1. IInv => OneWorkerPerTask
  BY DEF IInv
<1>2. QED
  BY <1>1, Invariance, PTL

\* submit(), shutdown(), the destructor and the workers keep to their parts:
\* what ties a thread's place to shutdown_, to the queue and to the others.
THEOREM Coordinated == Spec => []Coordination
<1>1. IInv => Coordination
  BY DEF IInv
<1>2. QED
  BY <1>1, Invariance, PTL

\* What was queued has been popped or is still in the queue.
LEMMA PushedIsStartedOrQueued ==
    ASSUME IInv
    PROVE  RangeOf(pushed) = RangeOf(started) \cup RangeOf(work_queue)
<1>1. started \in Seq(Tasks) /\ work_queue \in Seq(Tasks)
  BY DEF IInv, TypeOK
<1>2. RangeOf(started \o work_queue) = RangeOf(started) \cup RangeOf(work_queue)
  BY <1>1, RangeConcat
<1>3. QED
  BY <1>2 DEF IInv, FifoNoLossNoDuplicate

\* The shutdown is graceful: once all workers have returned, everything that
\* was queued before shutdown_ was set has been executed.
THEOREM Graceful == Spec => []GracefulShutdown
<1>1. ASSUME IInv PROVE GracefulShutdown
  <2> SUFFICES ASSUME \A w \in Workers : pc[w] = "done"
               PROVE  RangeOf(pushed) \ late \subseteq finished
    BY DEF GracefulShutdown
  <2>1. RangeOf(work_queue) \subseteq late
    BY <1>1 DEF IInv, Coordination
  <2>2. \A w \in Workers : work[w] = NoTask
    BY <1>1 DEF IInv, TypeOK, CallPc
  <2>3. RangeOf(started) \subseteq finished
    BY <1>1, <2>2 DEF IInv, OneWorkerPerTask
  <2>4. QED
    BY <1>1, <2>1, <2>3, PushedIsStartedOrQueued
<1>2. QED
  BY <1>1, Invariance, PTL

\* When the destructor returns, the pool is quiet.
THEOREM QuietDestruction == Spec => []QuietAfterDestructor
<1>1. ASSUME IInv PROVE QuietAfterDestructor
  <2> SUFFICES ASSUME NEW c \in Clients, pc[c] = "destroyed"
               PROVE  /\ \A w \in Workers : pc[w] = "done"
                      /\ \A d \in Clients : pc[d] \in {"idle", "destroyed"}
                      /\ queue_mutex = NoThread
                      /\ RangeOf(work_queue) \subseteq late
    BY DEF QuietAfterDestructor
  <2>1. \A w \in Workers : pc[w] = "done"
    BY <1>1 DEF IInv, Coordination
  <2>2. \A d \in Clients : pc[d] \in {"idle", "destroyed"}
    BY <1>1 DEF IInv, Coordination, DtorPc
  <2>3. queue_mutex = NoThread
    BY <1>1, <2>1, <2>2 DEF IInv, TypeOK, MutualExclusion, Threads, LockedPc
  <2>4. RangeOf(work_queue) \subseteq late
    BY <1>1, <2>1 DEF IInv, Coordination
  <2>5. QED
    BY <2>1, <2>2, <2>3, <2>4
<1>2. QED
  BY <1>1, Invariance, PTL

-----------------------------------------------------------------------------
(* Refinement of GracefulExecutor.                                         *)

Live == {w \in Workers : pc[w] # "done"}

\* The steps the abstract executor does not see.
Invisible == UNCHANGED <<work_queue, work, finished, shutdown, Live>>

\* The constructor leaves the abstract executor in its initial state.
LEMMA InitRefines == Init => Abstract!Init
<1> SUFFICES ASSUME Init PROVE Abstract!Init
  OBVIOUS
<1>1. \A w \in Workers : pc[w] = "lock"
  BY DEF Init, Threads
<1>2. Live = Workers
  BY <1>1 DEF Live
<1>3. QED
  BY <1>2 DEF Init, Abstract!Init, Live

\* Every step of the pool is an abstract step or leaves the abstract state alone.
LEMMA StepRefines ==
    ASSUME IInv, [Next]_vars
    PROVE  [Abstract!Next]_(Abstract!vars)
<1>0. TypeOK /\ FifoNoLossNoDuplicate /\ OneWorkerPerTask /\ Coordination
  BY DEF IInv
<1> USE ThreadsAssumption DEF Live
<1>1. ASSUME NEW w \in Workers, Take(w) PROVE Abstract!Dispatch(w)
  <2>1. pc[w] = "check" /\ pc' = [pc EXCEPT ![w] = "run"] /\ pc \in [Threads -> WorkerPc \cup CallPc \cup DtorPc \cup {"idle"}]
    BY <1>0, <1>1 DEF Take, TypeOK
  <2>2. Live' = Live /\ w \in Live
    BY <2>1 DEF Threads
  <2>3. work[w] = NoTask
    BY <1>0, <2>1 DEF TypeOK, CallPc
  <2>4. QED
    BY <1>1, <2>2, <2>3 DEF Take, Abstract!Dispatch
<1>2. ASSUME NEW w \in Workers, Finish(w) PROVE Abstract!Complete(w)
  <2>1. pc[w] = "run" /\ pc' = [pc EXCEPT ![w] = "lock"] /\ pc \in [Threads -> WorkerPc \cup CallPc \cup DtorPc \cup {"idle"}]
    BY <1>0, <1>2 DEF Finish, TypeOK
  <2>2. Live' = Live
    BY <2>1 DEF Threads
  <2>3. work[w] # NoTask
    BY <1>0, <2>1 DEF TypeOK
  <2>4. QED
    BY <1>2, <2>2, <2>3 DEF Finish, Abstract!Complete
<1>3. ASSUME NEW w \in Workers, Return(w) PROVE Abstract!Retire(w)
  <2>1. pc[w] = "check" /\ pc' = [pc EXCEPT ![w] = "done"] /\ pc \in [Threads -> WorkerPc \cup CallPc \cup DtorPc \cup {"idle"}]
    BY <1>0, <1>3 DEF Return, TypeOK
  <2>2. Live' = Live \ {w} /\ w \in Live
    BY <2>1 DEF Threads
  <2>3. work[w] = NoTask
    BY <1>0, <2>1 DEF TypeOK, CallPc
  <2>4. QED
    BY <1>3, <2>2, <2>3 DEF Return, Abstract!Retire, history
<1>4. ASSUME NEW t \in Threads, Push(t) PROVE Abstract!Accept(arg[t])
  <2>1. pc[t] = "push" /\ pc' = [pc EXCEPT ![t] = "notify_one"] /\ pc \in [Threads -> WorkerPc \cup CallPc \cup DtorPc \cup {"idle"}]
    BY <1>0, <1>4 DEF Push, TypeOK
  <2>2. Live' = Live
    BY <2>1 DEF Threads
  <2>3. arg[t] \in Tasks
    BY <1>0, <2>1 DEF TypeOK
  <2>4. arg[t] \notin RangeOf(started) \cup RangeOf(work_queue)
    BY <1>0, PushedIsStartedOrQueued DEF Coordination
  <2>5. arg[t] \notin Abstract!Known
    BY <1>0, <2>4 DEF Abstract!Known, Abstract!QueuedTasks, Abstract!RunningTasks,
                     OneWorkerPerTask, RangeOf
  <2>6. QED
    BY <1>4, <2>2, <2>3, <2>5 DEF Push, Abstract!Accept
<1>5. ASSUME NEW t \in Threads, SetShutdown(t) PROVE Abstract!Close
  <2>1. \A w \in Workers : pc'[w] = "done" <=> pc[w] = "done"
    BY <1>0, <1>5 DEF SetShutdown, TypeOK, Threads
  <2>2. QED
    BY <1>5, <2>1 DEF SetShutdown, Abstract!Close, history
<1>6. ASSUME NEW t \in Threads, Acquire(t) \/ NotifyOne(t) \/ NotifyAll(t) PROVE Invisible
  <2>1. CASE Acquire(t)
    <3>1. \A w \in Workers : pc'[w] = "done" <=> pc[w] = "done"
      BY <1>0, <2>1 DEF Acquire, Locked, TypeOK, Threads
    <3>2. QED
      BY <2>1, <3>1 DEF Acquire, Invisible, history
  <2>2. CASE NotifyOne(t)
    <3>1. \A w \in Workers : pc'[w] = "done" <=> pc[w] = "done"
      BY <1>0, <2>2 DEF NotifyOne, Waiting, Home, TypeOK, Threads
    <3>2. QED
      BY <2>2, <3>1 DEF NotifyOne, Invisible, history
  <2>3. CASE NotifyAll(t)
    <3>1. \A w \in Workers : pc'[w] = "done" <=> pc[w] = "done"
      BY <1>0, <2>3 DEF NotifyAll, Home, TypeOK, Threads
    <3>2. QED
      BY <2>3, <3>1 DEF NotifyAll, Invisible, history
  <2>4. QED
    BY <1>6, <2>1, <2>2, <2>3
<1>7. ASSUME NEW t \in Threads, NEW k \in Tasks, CallSubmit(t, k) PROVE Invisible
  <2>1. \A w \in Workers : pc'[w] = "done" <=> pc[w] = "done"
    BY <1>0, <1>7 DEF CallSubmit, MayCall, Home, TypeOK, Threads
  <2>2. QED
    BY <1>7, <2>1 DEF CallSubmit, Invisible, history
<1>8. ASSUME NEW t \in Threads, CallShutdown(t) PROVE Invisible
  <2>1. \A w \in Workers : pc'[w] = "done" <=> pc[w] = "done"
    BY <1>0, <1>8 DEF CallShutdown, MayCall, Home, TypeOK, Threads
  <2>2. QED
    BY <1>8, <2>1 DEF CallShutdown, Invisible, history
<1>9. ASSUME NEW c \in Clients, CallDestructor(c) \/ Join(c) PROVE Invisible
  <2>1. \A w \in Workers : pc'[w] = "done" <=> pc[w] = "done"
    BY <1>0, <1>9 DEF CallDestructor, Join, TypeOK, Threads
  <2>2. QED
    BY <1>9, <2>1 DEF CallDestructor, Join, Invisible, history
<1>10. ASSUME NEW w \in Workers, Wait(w) \/ SpuriousWakeup(w) PROVE Invisible
  <2>1. \A v \in Workers : pc'[v] = "done" <=> pc[v] = "done"
    BY <1>0, <1>10 DEF Wait, SpuriousWakeup, TypeOK, Threads
  <2>2. QED
    BY <1>10, <2>1 DEF Wait, SpuriousWakeup, Invisible, history
<1>11. ASSUME UNCHANGED vars PROVE Invisible
  BY <1>11 DEF vars, Invisible
<1>12. Invisible => UNCHANGED Abstract!vars
  BY DEF Invisible, Abstract!vars
<1>13. \A t \in Threads : Push(t) => arg[t] \in Tasks
  BY <1>0 DEF Push, TypeOK
<1>14. QED
  BY <1>1, <1>2, <1>3, <1>4, <1>5, <1>6, <1>7, <1>8, <1>9, <1>10, <1>11, <1>12, <1>13
     DEF Next, Proceed, Call, Terminated, Abstract!Next

\* The pool implements the abstract executor: work is dispatched in order and
\* once, and workers retire only when the pool is closed and drained.
THEOREM Refinement == Spec => ImplementsGracefulExecutor
<1>1. IInv /\ [Next]_vars => [Abstract!Next]_(Abstract!vars)
  BY StepRefines
<1>2. QED
  BY <1>1, InitRefines, Invariance, PTL DEF Spec, Abstract!Spec, ImplementsGracefulExecutor

-----------------------------------------------------------------------------
(* No wakeup is lost.  Counting: a queued callable that no worker seeks    *)
(* and no submit() is about to announce cannot exist while a worker sleeps.*)

Enough(q, seek, note) == Len(q) <= Cardinality(seek) + Cardinality(note)

\* The sets of threads that NoLostWakeup counts are finite.
LEMMA FiniteThreads ==
    /\ IsFiniteSet(Seeking) /\ IsFiniteSet(Notifying)
    /\ Cardinality(Seeking) \in Nat /\ Cardinality(Notifying) \in Nat
    /\ Cardinality(Seeking') \in Nat /\ Cardinality(Notifying') \in Nat
<1>1. IsFiniteSet(Threads)
  BY ThreadsAssumption, FS_Union DEF Threads
<1>2. /\ Seeking \in SUBSET Workers /\ Notifying \in SUBSET Threads
      /\ Seeking' \in SUBSET Workers /\ Notifying' \in SUBSET Threads
  BY DEF Seeking, Notifying
<1>3. /\ IsFiniteSet(Seeking) /\ IsFiniteSet(Notifying)
      /\ IsFiniteSet(Seeking') /\ IsFiniteSet(Notifying')
  BY <1>1, <1>2, ThreadsAssumption, FS_Subset
<1>4. QED
  BY <1>3, FS_CardinalityType

\* Every step keeps a wake-up under way for each queued callable.
LEMMA NoLostWakeupStep == ASSUME TypeOK, NoLostWakeup, [Next]_vars PROVE NoLostWakeup'
<1> DEFINE Announced == \E t \in Threads : pc[t] \in {"notify_all", "dtor_notify_all"}
           Goal == Waiting' # {} => Enough(work_queue', Seeking', Notifying') /\ (shutdown' => Announced')
<1>0. SUFFICES Goal
  BY DEF NoLostWakeup, Enough
<1>00. /\ Waiting # {} => Enough(work_queue, Seeking, Notifying) /\ (shutdown => Announced)
       /\ Len(work_queue) \in Nat
  BY DEF NoLostWakeup, Enough, TypeOK
<1> USE ThreadsAssumption DEF TypeOK, Threads, WorkerPc, CallPc, DtorPc
<1>1. ASSUME NEW t \in Threads, Acquire(t) PROVE Goal
  <2>1. Waiting' = Waiting /\ Seeking' = Seeking /\ Notifying' = Notifying
    BY <1>1 DEF Acquire, Locked, Waiting, Seeking, Notifying
  <2>2. Announced => Announced'
    BY <1>1 DEF Acquire, Locked
  <2>3. QED
    BY <1>00, <1>1, <2>1, <2>2 DEF Acquire
<1>2. ASSUME NEW w \in Workers, Wait(w) PROVE Goal
  <2>1. Len(work_queue') = 0 /\ ~ shutdown'
    BY <1>2 DEF Wait, WaitPredicate
  <2>2. Cardinality(Seeking') \in Nat /\ Cardinality(Notifying') \in Nat
    BY FiniteThreads
  <2>3. QED
    BY <2>1, <2>2 DEF Enough
<1>3. ASSUME NEW w \in Workers, Return(w) PROVE Goal
  <2>1. Len(work_queue') = 0 /\ Waiting' = Waiting /\ (Announced => Announced') /\ shutdown' = shutdown
    BY <1>3 DEF Return, Waiting
  <2>2. Cardinality(Seeking') \in Nat /\ Cardinality(Notifying') \in Nat
    BY FiniteThreads
  <2>3. QED
    BY <1>00, <2>1, <2>2 DEF Enough
<1>4. ASSUME NEW w \in Workers, Take(w) PROVE Goal
  <2>1. Waiting' = Waiting /\ Seeking' = Seeking \ {w} /\ w \in Seeking /\ Notifying' = Notifying
    BY <1>4 DEF Take, Waiting, Seeking, Notifying
  <2>2. Cardinality(Seeking') = Cardinality(Seeking) - 1
    BY <2>1, FiniteThreads, FS_RemoveElement
  <2>3. Len(work_queue') = Len(work_queue) - 1 /\ (Announced => Announced') /\ shutdown' = shutdown
    BY <1>4 DEF Take
  <2>4. QED
    BY <1>00, <2>1, <2>2, <2>3, FiniteThreads DEF Enough
<1>5. ASSUME NEW w \in Workers, Finish(w) \/ SpuriousWakeup(w) PROVE Goal
  <2>1. Waiting' \subseteq Waiting /\ Seeking' = Seeking \cup {w} /\ w \notin Seeking /\ Notifying' = Notifying
    BY <1>5 DEF Finish, SpuriousWakeup, Waiting, Seeking, Notifying
  <2>2. Cardinality(Seeking') = Cardinality(Seeking) + 1
    BY <2>1, FiniteThreads, FS_AddElement
  <2>3. work_queue' = work_queue /\ (Announced => Announced') /\ shutdown' = shutdown
    BY <1>5 DEF Finish, SpuriousWakeup
  <2>4. QED
    BY <1>00, <2>1, <2>2, <2>3, FiniteThreads DEF Enough
<1>6. ASSUME NEW t \in Threads, Push(t) PROVE Goal
  <2>1. Waiting' = Waiting /\ Seeking' = Seeking /\ t \notin Notifying /\ Notifying' = Notifying \cup {t}
    BY <1>6 DEF Push, Waiting, Seeking, Notifying
  <2>2. Cardinality(Notifying') = Cardinality(Notifying) + 1
    BY <2>1, FiniteThreads, FS_AddElement
  <2>3. Len(work_queue') = Len(work_queue) + 1 /\ (Announced => Announced') /\ shutdown' = shutdown
    BY <1>6 DEF Push
  <2>4. QED
    BY <1>00, <2>1, <2>2, <2>3, FiniteThreads DEF Enough
<1>7. ASSUME NEW t \in Threads, NotifyOne(t) PROVE Goal
  <2>1. CASE Waiting = {}
    BY <1>7, <2>1 DEF NotifyOne, Waiting, Home
  <2>2. ASSUME NEW w \in Waiting, pc' = [pc EXCEPT ![t] = Home(t), ![w] = "lock"] PROVE Goal
    <3>1. /\ Seeking' = Seeking \cup {w} /\ w \notin Seeking
          /\ Notifying' = Notifying \ {t} /\ t \in Notifying
      BY <1>7, <2>2 DEF NotifyOne, Waiting, Seeking, Notifying, Home
    <3>2. /\ Cardinality(Seeking') = Cardinality(Seeking) + 1
          /\ Cardinality(Notifying') = Cardinality(Notifying) - 1
      BY <3>1, FiniteThreads, FS_AddElement, FS_RemoveElement
    <3>3. work_queue' = work_queue /\ (Announced => Announced') /\ shutdown' = shutdown
      BY <1>7, <2>2 DEF NotifyOne, Waiting, Home
    <3>4. Enough(work_queue, Seeking, Notifying) /\ (shutdown => Announced)
      BY <1>00, <2>2
    <3> HIDE DEF Announced
    <3>5. Enough(work_queue', Seeking', Notifying')
      BY <1>00, <3>2, <3>3, <3>4, FiniteThreads DEF Enough
    <3>6. QED
      BY <3>3, <3>4, <3>5
  <2>3. QED
    BY <1>7, <2>1, <2>2 DEF NotifyOne
<1>8. ASSUME NEW t \in Threads, SetShutdown(t) PROVE Goal
  <2>1. Waiting' = Waiting /\ Seeking' = Seeking /\ Notifying' = Notifying /\ Announced'
    BY <1>8 DEF SetShutdown, Waiting, Seeking, Notifying
  <2>2. QED
    BY <1>00, <1>8, <2>1 DEF SetShutdown
<1>9. ASSUME NEW t \in Threads, NotifyAll(t) PROVE Goal
  BY <1>9 DEF NotifyAll, Waiting, Home
<1>10. ASSUME NEW t \in Threads, NEW k \in Tasks, CallSubmit(t, k) PROVE Goal
  <2>1. Waiting' = Waiting /\ Seeking' = Seeking /\ Notifying' = Notifying /\ (Announced => Announced')
    BY <1>10 DEF CallSubmit, MayCall, Home, Waiting, Seeking, Notifying
  <2>2. QED
    BY <1>00, <1>10, <2>1 DEF CallSubmit
<1>11. ASSUME NEW t \in Threads, CallShutdown(t) PROVE Goal
  <2>1. Waiting' = Waiting /\ Seeking' = Seeking /\ Notifying' = Notifying /\ (Announced => Announced')
    BY <1>11 DEF CallShutdown, MayCall, Home, Waiting, Seeking, Notifying
  <2>2. QED
    BY <1>00, <1>11, <2>1 DEF CallShutdown
<1>12. ASSUME NEW c \in Clients, CallDestructor(c) \/ Join(c) PROVE Goal
  <2>1. Waiting' = Waiting /\ Seeking' = Seeking /\ Notifying' = Notifying /\ (Announced => Announced')
    BY <1>12 DEF CallDestructor, Join, Waiting, Seeking, Notifying
  <2>2. QED
    BY <1>00, <1>12, <2>1 DEF CallDestructor, Join
<1>13. ASSUME UNCHANGED vars PROVE Goal
  BY <1>00, <1>13 DEF vars, Waiting, Seeking, Notifying
<1> HIDE DEF Goal
<1>14. QED
  BY <1>1, <1>2, <1>3, <1>4, <1>5, <1>6, <1>7, <1>8, <1>9, <1>10, <1>11, <1>12, <1>13
     DEF Next, Proceed, Call, Terminated

\* While a worker sleeps, every queued callable has a worker or a pending
\* notification of its own, and a shutdown still has its notify_all to come.
THEOREM WakeupsAreKept == Spec => []NoLostWakeup
<1>1. Init => NoLostWakeup
  BY DEF Init, NoLostWakeup, Waiting, Threads
<1>2. TypeOK /\ NoLostWakeup /\ [Next]_vars => NoLostWakeup'
  BY NoLostWakeupStep
<1>3. QED
  BY <1>1, <1>2, TypeCorrect, PTL DEF Spec
=============================================================================
