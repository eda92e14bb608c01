--------------------------- MODULE SchedulerProofs ---------------------------
(* Theorems about Scheduler, for every set of threads and jobs.            *)
EXTENDS Scheduler, SequencesExt, SequenceTheorems, FiniteSetTheorems, TLAPS

\* The list left by erase(it), m_fibers', is the rest of it, in order.
LEMMA RemoveAtProperties ==
    ASSUME NEW S, NEW s \in Seq(S), NEW i \in 1 .. Len(s)
    PROVE  /\ RemoveAt(s, i) \in Seq(S)
           /\ Len(RemoveAt(s, i)) = Len(s) - 1
           /\ \A k \in 1 .. Len(s) - 1 :
                 RemoveAt(s, i)[k] = IF k < i THEN s[k] ELSE s[k + 1]
<1> DEFINE a == SubSeq(s, 1, i - 1)
           b == SubSeq(s, i + 1, Len(s))
<1>0. Len(s) \in Nat /\ i \in Nat /\ \A k \in 1 .. Len(s) : s[k] \in S
  BY LenProperties, ElementOfSeq
<1>1. /\ a \in Seq(S)
      /\ Len(a) = i - 1
      /\ \A k \in 1 .. i - 1 : a[k] = s[k]
  <2>1. \A k \in 1 .. i - 1 : s[k] \in S
    BY <1>0
  <2>2. /\ a \in Seq(S)
        /\ Len(a) = IF 1 <= i - 1 THEN i - 1 - 1 + 1 ELSE 0
        /\ \A k \in 1 .. i - 1 - 1 + 1 : a[k] = s[1 + k - 1]
    BY <2>1, <1>0, SubSeqProperties
  <2> QED BY <2>2, <1>0
<1>2. /\ b \in Seq(S)
      /\ Len(b) = Len(s) - i
      /\ \A k \in 1 .. Len(s) - i : b[k] = s[i + k]
  <2>1. \A k \in i + 1 .. Len(s) : s[k] \in S
    BY <1>0
  <2>2. /\ b \in Seq(S)
        /\ Len(b) = IF i + 1 <= Len(s) THEN Len(s) - (i + 1) + 1 ELSE 0
        /\ \A k \in 1 .. Len(s) - (i + 1) + 1 : b[k] = s[(i + 1) + k - 1]
    BY <2>1, <1>0, SubSeqProperties
  <2> QED BY <2>2, <1>0
<1> HIDE DEF a, b
<1>3. /\ a \o b \in Seq(S)
      /\ Len(a \o b) = Len(a) + Len(b)
      /\ \A k \in 1 .. Len(a) + Len(b) :
            (a \o b)[k] = IF k <= Len(a) THEN a[k] ELSE b[k - Len(a)]
  BY <1>1, <1>2, ConcatProperties
<1>4. RemoveAt(s, i) = a \o b
  BY DEF RemoveAt, a, b
<1>5. Len(a) + Len(b) = Len(s) - 1
  BY <1>0, <1>1, <1>2
<1>6. ASSUME NEW k \in 1 .. Len(s) - 1
      PROVE  (a \o b)[k] = IF k < i THEN s[k] ELSE s[k + 1]
  <2>1. CASE k < i
    <3>1. k \in 1 .. i - 1 /\ k <= Len(a) /\ k \in 1 .. Len(a) + Len(b)
      BY <2>1, <1>0, <1>1, <1>5
    <3> QED BY <3>1, <2>1, <1>1, <1>3
  <2>2. CASE ~(k < i)
    <3>1. /\ k - Len(a) \in 1 .. Len(s) - i /\ ~(k <= Len(a))
          /\ k \in 1 .. Len(a) + Len(b) /\ i + (k - Len(a)) = k + 1
      BY <2>2, <1>0, <1>1, <1>5
    <3> QED BY <3>1, <2>2, <1>2, <1>3
  <2> QED BY <2>1, <2>2
<1> QED BY <1>3, <1>4, <1>5, <1>6

-----------------------------------------------------------------------------
(* Type correctness and the counters.                                      *)

\* Every entry of m_fibers carries a fiber or a callback, as the assertion in
\* run()'s scan says.
QueueReal ==
    \A i \in 1 .. Len(m_fibers) : m_fibers[i].fiber # None \/ m_fibers[i].cb # None

\* A thread between swapIn() and the settling of the fiber has a fiber.
HoldsFiber == \A t \in Pool : pc[t] \in Holding => Current(t) # None

\* While the owner is between its calls with the pool stopped no thread runs,
\* and run() is on the caller's thread only while stop() waits for it.
OwnerPhase ==
    /\ owner \in {"idle", "returned"} => \A t \in Pool : pc[t] = "off"
    /\ UseCaller /\ owner # "join" => pc[Caller] = "off"
    /\ owner = "stopCheck" => Worker = {}

\* run()'s ft is reset whenever the thread is not dispatching an entry.
FtEmpty == \A t \in Pool : pc[t] \in {"off", "scan", "idle", "exit"} => ft[t] = NoTask

\* TypeOK without the counters, and the four facts above.
Basic ==
    /\ TypeQueue /\ TypeThreads /\ TypeFibers /\ TypeStop /\ TypeWaits /\ TypeGhosts
    /\ QueueReal /\ HoldsFiber /\ OwnerPhase /\ FtEmpty

(* The pool and the jobs are finite, so their cardinalities are numbers. *)
LEMMA PoolFinite == IsFiniteSet(Pool) /\ IsFiniteSet(Job) /\ Cardinality(Job) \in Nat
<1>1. IsFiniteSet({Caller}) /\ IsFiniteSet({})
  BY FS_Singleton, FS_EmptySet
<1>2. IsFiniteSet(Worker \cup {Caller}) /\ IsFiniteSet(Worker \cup {})
  BY <1>1, FS_Union, ConstantsAssumption
<1> QED BY <1>2, FS_CardinalityType, ConstantsAssumption DEF Pool

(* None is neither a fiber nor a job; fibers are numbers, given out in order. *)
LEMMA NoneNotFiber == None \notin Fiber /\ None \notin Job /\ Fiber \subseteq Nat
  BY PoolFinite, ConstantsAssumption DEF Fiber

(* Before start() nobody is counted and no fiber exists. *)
LEMMA BasicInit == Init => Basic
<1> SUFFICES ASSUME Init PROVE Basic
  OBVIOUS
<1>1. m_fibers \in Seq(Task) /\ Len(m_fibers) = 0
  BY EmptySeq DEF Init
<1>2. TypeStop
  BY DEF Init, TypeStop, FiberState, Owner
<1>3. TypeFibers
  BY PoolFinite DEF Init, TypeFibers
<1>4. TypeThreads
  <2>1. ft \in [Pool -> Task]
    BY DEF Init, Task, NoTask
  <2> QED BY <2>1 DEF Init, TypeThreads, Pc, FiberState
<1>5. TypeWaits /\ TypeGhosts
  BY DEF Init, TypeWaits, TypeGhosts
<1>6. QueueReal
  BY <1>1 DEF QueueReal
<1>7. HoldsFiber
  BY DEF Init, HoldsFiber, Holding, OnStack, Running
<1>8. OwnerPhase
  BY DEF Init, OwnerPhase, Pool
<1>9. FtEmpty
  BY DEF Init, FtEmpty
<1> QED BY <1>1, <1>2, <1>3, <1>4, <1>5, <1>6, <1>7, <1>8, <1>9 DEF Basic, TypeQueue
\* What schedule() appends is a task.
LEMMA TaskTypes ==
    /\ NoTask \in Task
    /\ \A f \in Fiber, thr \in Pool \cup {None} : FiberTask(f, thr) \in Task
    /\ \A j \in Job, thr \in Pool \cup {None} : CbTask(j, thr) \in Task
  BY DEF Task, NoTask, FiberTask, CbTask

\* The fiber a thread holds is a fiber.
LEMMA CurrentType ==
    ASSUME TypeThreads, HoldsFiber, NEW t \in Pool, pc[t] \in Holding
    PROVE  Current(t) \in Fiber
  BY DEF TypeThreads, HoldsFiber, Current, Task

\* Appending real tasks keeps the list a list of real tasks.
LEMMA AppendTask ==
    ASSUME TypeQueue, QueueReal, NEW e \in Task, e.fiber # None \/ e.cb # None,
           m_fibers' = Append(m_fibers, e)
    PROVE  TypeQueue' /\ QueueReal'
<1>1. /\ m_fibers' \in Seq(Task)
      /\ Len(m_fibers') = Len(m_fibers) + 1
      /\ \A i \in 1 .. Len(m_fibers) : m_fibers'[i] = m_fibers[i]
      /\ m_fibers'[Len(m_fibers) + 1] = e
  BY AppendProperties DEF TypeQueue
<1>2. Len(m_fibers) \in Nat
  BY LenProperties DEF TypeQueue
<1>3. QueueReal'
  <2> SUFFICES ASSUME NEW i \in 1 .. Len(m_fibers')
               PROVE  m_fibers'[i].fiber # None \/ m_fibers'[i].cb # None
    BY DEF QueueReal
  <2>1. CASE i = Len(m_fibers) + 1
    BY <2>1, <1>1
  <2>2. CASE i \in 1 .. Len(m_fibers)
    BY <2>2, <1>1 DEF QueueReal
  <2> QED BY <2>1, <2>2, <1>1, <1>2
<1> QED BY <1>1, <1>3 DEF TypeQueue

\* schedule() with new work keeps the types of what it touches.
LEMMA SubmitTypes ==
    ASSUME TypeQueue, QueueReal, TypeFibers, TypeGhosts,
           \/ \E j \in Job, thr \in Pool \cup {None} : SubmitCb(j, thr) \/ SubmitFiber(j, thr)
           \/ \E i, j \in Job : SubmitBatch(i, j)
    PROVE  /\ TypeQueue' /\ QueueReal' /\ TypeFibers' /\ submitted' \subseteq Job
           /\ pin' \in [Job -> Pool \cup {None}]
<1>1. ASSUME NEW j \in Job, NEW thr \in Pool \cup {None}, SubmitCb(j, thr)
      PROVE  /\ TypeQueue' /\ QueueReal' /\ TypeFibers' /\ submitted' \subseteq Job
             /\ pin' \in [Job -> Pool \cup {None}]
  <2>1. CbTask(j, thr) \in Task /\ CbTask(j, thr).cb # None
    BY TaskTypes, NoneNotFiber DEF CbTask
  <2>2. TypeQueue' /\ QueueReal'
    BY <1>1, <2>1, AppendTask DEF SubmitCb
  <2> QED BY <1>1, <2>2 DEF SubmitCb, TypeFibers, TypeGhosts, fiberVars
<1>2. ASSUME NEW j \in Job, NEW thr \in Pool \cup {None}, SubmitFiber(j, thr)
      PROVE  /\ TypeQueue' /\ QueueReal' /\ TypeFibers' /\ submitted' \subseteq Job
             /\ pin' \in [Job -> Pool \cup {None}]
  <2>1. /\ s_fiber_id + 1 \in Fiber
        /\ FiberTask(s_fiber_id + 1, thr) \in Task
        /\ FiberTask(s_fiber_id + 1, thr).fiber # None
    BY <1>2, TaskTypes, NoneNotFiber DEF SubmitFiber, FiberTask
  <2>2. TypeQueue' /\ QueueReal'
    BY <1>2, <2>1, AppendTask DEF SubmitFiber
  <2>3. TypeFibers'
    BY <1>2, <2>1, PoolFinite DEF SubmitFiber, TypeFibers, FiberState, Fiber
  <2> QED BY <1>2, <2>2, <2>3 DEF SubmitFiber, TypeGhosts
<1>3. ASSUME NEW i \in Job, NEW j \in Job, SubmitBatch(i, j)
      PROVE  /\ TypeQueue' /\ QueueReal' /\ TypeFibers' /\ submitted' \subseteq Job
             /\ pin' \in [Job -> Pool \cup {None}]
  <2> DEFINE b == <<CbTask(i, None), CbTask(j, None)>>
  <2>1. /\ CbTask(i, None) \in Task /\ CbTask(i, None).cb # None
        /\ CbTask(j, None) \in Task /\ CbTask(j, None).cb # None
    BY TaskTypes, NoneNotFiber DEF CbTask
  <2>2. b \in Seq(Task) /\ Len(b) = 2 /\ b[1] = CbTask(i, None) /\ b[2] = CbTask(j, None)
    BY <2>1
  <2>3. m_fibers' = m_fibers \o b
    BY <1>3 DEF SubmitBatch
  <2> HIDE DEF b
  <2>0. /\ m_fibers' \in Seq(Task)
        /\ Len(m_fibers') = Len(m_fibers) + Len(b)
        /\ \A k \in 1 .. Len(m_fibers) + Len(b) :
              m_fibers'[k] = IF k <= Len(m_fibers) THEN m_fibers[k] ELSE b[k - Len(m_fibers)]
    BY <2>2, <2>3, ConcatProperties, Zenon DEF TypeQueue
  <2>4. /\ m_fibers' \in Seq(Task)
        /\ Len(m_fibers') = Len(m_fibers) + 2
        /\ \A k \in 1 .. Len(m_fibers) + 2 :
              m_fibers'[k] = IF k <= Len(m_fibers) THEN m_fibers[k] ELSE b[k - Len(m_fibers)]
    BY <2>2, <2>0
  <2>5. Len(m_fibers) \in Nat
    BY LenProperties DEF TypeQueue
  <2>6. QueueReal'
    <3> SUFFICES ASSUME NEW k \in 1 .. Len(m_fibers) + 2
                 PROVE  m_fibers'[k].fiber # None \/ m_fibers'[k].cb # None
      BY <2>4 DEF QueueReal
    <3>1. CASE k <= Len(m_fibers)
      <4>1. k \in 1 .. Len(m_fibers)
        BY <3>1, <2>5
      <4> QED BY <4>1, <3>1, <2>4 DEF QueueReal
    <3>2. CASE ~(k <= Len(m_fibers))
      <4>1. k - Len(m_fibers) \in {1, 2}
        BY <3>2, <2>5
      <4> QED BY <4>1, <3>2, <2>4, <2>2, <2>1
    <3> QED BY <3>1, <3>2
  <2> QED BY <1>3, <2>4, <2>6 DEF SubmitBatch, TypeQueue, TypeFibers, TypeGhosts, fiberVars
<1> QED BY <1>1, <1>2, <1>3

\* Every action keeps the types.
LEMMA BasicNext == Basic /\ [Next]_vars => Basic'
<1> SUFFICES ASSUME Basic, [Next]_vars PROVE Basic'
  OBVIOUS
<1> USE DEF Basic
<1>1. ASSUME NEW t \in Pool, Take(t) PROVE Basic'
  <2>1. PICK i \in 1 .. Len(m_fibers) :
               ft' = [ft EXCEPT ![t] = m_fibers[i]] /\ m_fibers' = RemoveAt(m_fibers, i)
    BY <1>1 DEF Take, Popped
  <2>a. Len(m_fibers) \in Nat /\ m_fibers[i] \in Task
    BY LenProperties, ElementOfSeq DEF TypeQueue
  <2>b. /\ m_fibers' \in Seq(Task) /\ Len(m_fibers') = Len(m_fibers) - 1
        /\ \A k \in 1 .. Len(m_fibers) - 1 :
              m_fibers'[k] = IF k < i THEN m_fibers[k] ELSE m_fibers[k + 1]
    BY <2>1, RemoveAtProperties DEF TypeQueue
  <2>c. TypeQueue' /\ QueueReal'
    <3> SUFFICES ASSUME NEW k \in 1 .. Len(m_fibers) - 1
                 PROVE  m_fibers'[k].fiber # None \/ m_fibers'[k].cb # None
      BY <2>b DEF TypeQueue, QueueReal
    <3>1. k \in 1 .. Len(m_fibers) /\ k + 1 \in 1 .. Len(m_fibers)
      BY <2>a
    <3> QED BY <3>1, <2>b DEF QueueReal
  <2>d. TypeThreads'
    BY <1>1, <2>1, <2>a DEF Take, TypeThreads, Pc
  <2>e. HoldsFiber'
    BY <1>1, <2>1 DEF Take, HoldsFiber, Current, Holding, OnStack, Running, TypeThreads
  <2>2. OwnerPhase'
    BY <1>1 DEF Take, OwnerPhase, TypeThreads, Pool, stopVars
  <2>3. FtEmpty'
    BY <1>1 DEF Take, FtEmpty, TypeThreads, Holding, OnStack, Running
  <2>4. TypeFibers' /\ TypeStop' /\ TypeWaits' /\ TypeGhosts'
    BY <1>1 DEF Take, TypeFibers, TypeStop, TypeWaits, TypeGhosts, threadVars, fiberVars, stopVars, countVars, ghostVars
  <2> QED BY <2>c, <2>d, <2>e, <2>2, <2>3, <2>4
<1>2. ASSUME NEW t \in Pool, TakeNothing(t) PROVE Basic'
  <2>1. TypeThreads'
    BY <1>2 DEF TakeNothing, TypeThreads, Pc
  <2>2. HoldsFiber'
    BY <1>2 DEF TakeNothing, HoldsFiber, Current, Holding, OnStack, Running, TypeThreads
  <2>3. OwnerPhase'
    BY <1>2 DEF TakeNothing, OwnerPhase, Pool, TypeThreads, stopVars, threadVars
  <2>4. FtEmpty'
    BY <1>2 DEF TakeNothing, FtEmpty, TypeThreads, Holding, OnStack, Running
  <2>5. TypeQueue' /\ TypeFibers' /\ TypeStop' /\ TypeWaits' /\ TypeGhosts' /\ QueueReal'
    BY <1>2 DEF TakeNothing, TypeQueue, TypeFibers, TypeStop, TypeWaits, TypeGhosts, QueueReal, threadVars, fiberVars, stopVars, countVars, ghostVars
  <2> QED BY <2>1, <2>2, <2>3, <2>4, <2>5
<1>3. ASSUME NEW t \in Pool, SwapInFiber(t) PROVE Basic'
  <2>1. TypeThreads'
    BY <1>3 DEF SwapInFiber, TypeThreads, Pc, Holding, OnStack, Running
  <2>2. TypeFibers'
    BY <1>3 DEF SwapInFiber, TypeFibers, FiberState
  <2>3. TypeGhosts'
    BY <1>3 DEF SwapInFiber, TypeGhosts, TypeFibers, TypeThreads, Task
  <2>4. HoldsFiber'
    BY <1>3 DEF SwapInFiber, HoldsFiber, Current, Holding, OnStack, Running, TypeThreads
  <2>5. OwnerPhase'
    BY <1>3 DEF SwapInFiber, OwnerPhase, Pool, TypeThreads, stopVars, threadVars
  <2>6. FtEmpty'
    BY <1>3 DEF SwapInFiber, FtEmpty, TypeThreads, Holding, OnStack, Running
  <2>7. TypeQueue' /\ TypeStop' /\ TypeWaits' /\ QueueReal'
    BY <1>3 DEF SwapInFiber, TypeQueue, TypeStop, TypeWaits, QueueReal, threadVars, fiberVars, stopVars, countVars, ghostVars
  <2> QED BY <2>1, <2>2, <2>3, <2>4, <2>5, <2>6, <2>7
<1>4. ASSUME NEW t \in Pool, SwapInNewCb(t) PROVE Basic'
  <2>1. TypeThreads'
    BY <1>4, TaskTypes DEF SwapInNewCb, TypeThreads, Pc, Holding, OnStack, Running
  <2>2. TypeFibers'
    BY <1>4, PoolFinite DEF SwapInNewCb, TypeFibers, TypeThreads, Task, FiberState, Fiber
  <2>3. TypeGhosts'
    BY <1>4 DEF SwapInNewCb, TypeGhosts, TypeThreads, Task
  <2>4. HoldsFiber'
    BY <1>4, NoneNotFiber DEF SwapInNewCb, HoldsFiber, Current, Holding, OnStack, Running, TypeThreads, NoTask
  <2>5. OwnerPhase'
    BY <1>4 DEF SwapInNewCb, OwnerPhase, Pool, TypeThreads, stopVars, threadVars
  <2>6. FtEmpty'
    BY <1>4 DEF SwapInNewCb, FtEmpty, TypeThreads, Holding, OnStack, Running
  <2>7. TypeQueue' /\ TypeStop' /\ TypeWaits' /\ QueueReal'
    BY <1>4 DEF SwapInNewCb, TypeQueue, TypeStop, TypeWaits, QueueReal, threadVars, fiberVars, stopVars, countVars, ghostVars
  <2> QED BY <2>1, <2>2, <2>3, <2>4, <2>5, <2>6, <2>7
<1>5. ASSUME NEW t \in Pool, SwapInOldCb(t) PROVE Basic'
  <2>1. TypeThreads'
    BY <1>5, TaskTypes DEF SwapInOldCb, TypeThreads, Pc, Holding, OnStack, Running
  <2>2. TypeFibers'
    BY <1>5 DEF SwapInOldCb, TypeFibers, TypeThreads, Task, FiberState
  <2>3. TypeGhosts'
    BY <1>5 DEF SwapInOldCb, TypeGhosts, TypeThreads, Task
  <2>4. HoldsFiber'
    BY <1>5 DEF SwapInOldCb, HoldsFiber, Current, Holding, OnStack, Running, TypeThreads, NoTask
  <2>5. OwnerPhase'
    BY <1>5 DEF SwapInOldCb, OwnerPhase, Pool, TypeThreads, stopVars, threadVars
  <2>6. FtEmpty'
    BY <1>5 DEF SwapInOldCb, FtEmpty, TypeThreads, Holding, OnStack, Running
  <2>7. TypeQueue' /\ TypeStop' /\ TypeWaits' /\ QueueReal'
    BY <1>5 DEF SwapInOldCb, TypeQueue, TypeStop, TypeWaits, QueueReal, threadVars, fiberVars, stopVars, countVars, ghostVars
  <2> QED BY <2>1, <2>2, <2>3, <2>4, <2>5, <2>6, <2>7
<1>6. ASSUME NEW t \in Pool, DropEnded(t) PROVE Basic'
  <2>1. TypeThreads'
    BY <1>6, TaskTypes DEF DropEnded, TypeThreads, Pc
  <2>2. HoldsFiber'
    BY <1>6 DEF DropEnded, HoldsFiber, Current, Holding, OnStack, Running, TypeThreads
  <2>3. OwnerPhase'
    BY <1>6 DEF DropEnded, OwnerPhase, Pool, TypeThreads, stopVars, threadVars
  <2>4. FtEmpty'
    BY <1>6 DEF DropEnded, FtEmpty, TypeThreads, Holding, OnStack, Running
  <2>5. TypeQueue' /\ TypeFibers' /\ TypeStop' /\ TypeWaits' /\ TypeGhosts' /\ QueueReal'
    BY <1>6 DEF DropEnded, TypeQueue, TypeFibers, TypeStop, TypeWaits, TypeGhosts, QueueReal, threadVars, fiberVars, stopVars, countVars, ghostVars
  <2> QED BY <2>1, <2>2, <2>3, <2>4, <2>5
<1>7. ASSUME NEW t \in Pool, EnterIdle(t) PROVE Basic'
  <2>1. TypeThreads'
    BY <1>7 DEF EnterIdle, TypeThreads, Pc, FiberState
  <2>2. HoldsFiber'
    BY <1>7 DEF EnterIdle, HoldsFiber, Current, Holding, OnStack, Running, TypeThreads
  <2>3. OwnerPhase'
    BY <1>7 DEF EnterIdle, OwnerPhase, Pool, TypeThreads, stopVars, threadVars
  <2>4. FtEmpty'
    BY <1>7 DEF EnterIdle, FtEmpty, TypeThreads, Holding, OnStack, Running
  <2>5. TypeQueue' /\ TypeFibers' /\ TypeStop' /\ TypeWaits' /\ TypeGhosts' /\ QueueReal'
    BY <1>7 DEF EnterIdle, TypeQueue, TypeFibers, TypeStop, TypeWaits, TypeGhosts, QueueReal, threadVars, fiberVars, stopVars, countVars, ghostVars
  <2> QED BY <2>1, <2>2, <2>3, <2>4, <2>5
<1>8. ASSUME NEW t \in Pool, LeaveIdle(t) PROVE Basic'
  <2>1. TypeThreads'
    BY <1>8 DEF LeaveIdle, TypeThreads, Pc, FiberState
  <2>2. HoldsFiber'
    BY <1>8 DEF LeaveIdle, HoldsFiber, Current, Holding, OnStack, Running, TypeThreads
  <2>3. OwnerPhase'
    BY <1>8 DEF LeaveIdle, OwnerPhase, Pool, TypeThreads, stopVars, threadVars
  <2>4. FtEmpty'
    BY <1>8 DEF LeaveIdle, FtEmpty, TypeThreads, Holding, OnStack, Running
  <2>5. TypeQueue' /\ TypeFibers' /\ TypeStop' /\ TypeWaits' /\ TypeGhosts' /\ QueueReal'
    BY <1>8 DEF LeaveIdle, TypeQueue, TypeFibers, TypeStop, TypeWaits, TypeGhosts, QueueReal, threadVars, fiberVars, stopVars, countVars, ghostVars
  <2> QED BY <2>1, <2>2, <2>3, <2>4, <2>5
<1>9. ASSUME NEW t \in Pool, Exit(t) PROVE Basic'
  <2>1. TypeThreads'
    BY <1>9 DEF Exit, TypeThreads, Pc
  <2>2. TypeStop'
    BY <1>9 DEF Exit, TypeStop, FiberState
  <2>3. HoldsFiber'
    BY <1>9 DEF Exit, HoldsFiber, Current, Holding, OnStack, Running, TypeThreads
  <2>4. OwnerPhase'
    BY <1>9 DEF Exit, OwnerPhase, Pool, TypeThreads, stopVars, threadVars
  <2>5. FtEmpty'
    BY <1>9 DEF Exit, FtEmpty, TypeThreads, Holding, OnStack, Running
  <2>6. TypeQueue' /\ TypeFibers' /\ TypeWaits' /\ TypeGhosts' /\ QueueReal'
    BY <1>9 DEF Exit, TypeQueue, TypeFibers, TypeWaits, TypeGhosts, QueueReal, threadVars, fiberVars, stopVars, countVars, ghostVars
  <2> QED BY <2>1, <2>2, <2>3, <2>4, <2>5, <2>6
<1>10. ASSUME NEW t \in Pool, SwapOut(t) PROVE Basic'
  <2>1. TypeThreads'
    BY <1>10 DEF SwapOut, TypeThreads, Pc, Holding, OnStack
  <2>2. HoldsFiber'
    BY <1>10 DEF SwapOut, HoldsFiber, Current, Holding, OnStack, Running, TypeThreads
  <2>3. OwnerPhase'
    BY <1>10 DEF SwapOut, OwnerPhase, Pool, TypeThreads, stopVars, threadVars
  <2>4. FtEmpty'
    BY <1>10 DEF SwapOut, FtEmpty, TypeThreads, Holding, OnStack, Running
  <2>5. TypeQueue' /\ TypeFibers' /\ TypeStop' /\ TypeWaits' /\ TypeGhosts' /\ QueueReal'
    BY <1>10 DEF SwapOut, TypeQueue, TypeFibers, TypeStop, TypeWaits, TypeGhosts, QueueReal, threadVars, fiberVars, stopVars, countVars, ghostVars
  <2> QED BY <2>1, <2>2, <2>3, <2>4, <2>5
<1>11. ASSUME NEW t \in Pool, SettleReady(t) PROVE Basic'
  <2>1. TypeThreads'
    BY <1>11, TaskTypes DEF SettleReady, TypeThreads, CbFiberReleased, Pc
  <2>2. HoldsFiber'
    BY <1>11 DEF SettleReady, HoldsFiber, Current, Holding, OnStack, Running, TypeThreads, CbFiberReleased
  <2>c. Current(t) \in Fiber
    BY <1>11, CurrentType DEF SettleReady, Holding
  <2>a. m_fibers' = Append(m_fibers, FiberTask(Current(t), None)) /\ FiberTask(Current(t), None) \in Task
    BY <1>11, <2>c, TaskTypes DEF SettleReady, Requeued
  <2>b. FiberTask(Current(t), None).fiber # None
    BY <1>11, <2>c, NoneNotFiber DEF FiberTask
  <2>3. TypeQueue' /\ QueueReal'
    BY <2>a, <2>b, AppendTask
  <2>4. OwnerPhase'
    BY <1>11 DEF SettleReady, OwnerPhase, Pool, TypeThreads, stopVars, threadVars
  <2>5. FtEmpty'
    BY <1>11 DEF SettleReady, FtEmpty, TypeThreads, Holding, OnStack, Running
  <2>6. TypeFibers' /\ TypeStop' /\ TypeWaits' /\ TypeGhosts'
    BY <1>11 DEF SettleReady, TypeFibers, TypeStop, TypeWaits, TypeGhosts, threadVars, fiberVars, stopVars, countVars, ghostVars
  <2> QED BY <2>1, <2>2, <2>3, <2>4, <2>5, <2>6
<1>12. ASSUME NEW t \in Pool, SettleEnded(t) PROVE Basic'
  <2>1. TypeThreads'
    BY <1>12, TaskTypes DEF SettleEnded, TypeThreads, Pc
  <2>2. TypeFibers'
    BY <1>12 DEF SettleEnded, TypeFibers, FiberState
  <2>3. HoldsFiber'
    BY <1>12 DEF SettleEnded, HoldsFiber, Current, Holding, OnStack, Running, TypeThreads
  <2>4. OwnerPhase'
    BY <1>12 DEF SettleEnded, OwnerPhase, Pool, TypeThreads, stopVars, threadVars
  <2>5. FtEmpty'
    BY <1>12 DEF SettleEnded, FtEmpty, TypeThreads, Holding, OnStack, Running
  <2>6. TypeQueue' /\ TypeStop' /\ TypeWaits' /\ TypeGhosts' /\ QueueReal'
    BY <1>12 DEF SettleEnded, TypeQueue, TypeStop, TypeWaits, TypeGhosts, QueueReal, threadVars, fiberVars, stopVars, countVars, ghostVars
  <2> QED BY <2>1, <2>2, <2>3, <2>4, <2>5, <2>6
<1>13. ASSUME NEW t \in Pool, SettleHold(t) PROVE Basic'
  <2>1. TypeThreads'
    BY <1>13, TaskTypes DEF SettleHold, TypeThreads, CbFiberReleased, Pc
  <2>2. TypeFibers'
    BY <1>13 DEF SettleHold, TypeFibers, FiberState
  <2>3. HoldsFiber'
    BY <1>13 DEF SettleHold, HoldsFiber, Current, Holding, OnStack, Running, TypeThreads, CbFiberReleased
  <2>4. OwnerPhase'
    BY <1>13 DEF SettleHold, OwnerPhase, Pool, TypeThreads, stopVars, threadVars
  <2>5. FtEmpty'
    BY <1>13 DEF SettleHold, FtEmpty, TypeThreads, Holding, OnStack, Running
  <2>6. TypeQueue' /\ TypeStop' /\ TypeWaits' /\ TypeGhosts' /\ QueueReal'
    BY <1>13 DEF SettleHold, TypeQueue, TypeStop, TypeWaits, TypeGhosts, QueueReal, threadVars, fiberVars, stopVars, countVars, ghostVars
  <2> QED BY <2>1, <2>2, <2>3, <2>4, <2>5, <2>6
<1>14. ASSUME NEW t \in Pool, FiberSchedule(t) PROVE Basic'
  <2>1. \E j \in Job, thr \in Pool \cup {None} : SubmitCb(j, thr) \/ SubmitFiber(j, thr)
    BY <1>14 DEF FiberSchedule
  <2>2. TypeQueue' /\ QueueReal' /\ TypeFibers' /\ submitted' \subseteq Job
        /\ pin' \in [Job -> Pool \cup {None}]
    BY <2>1, SubmitTypes
  <2>3. TypeGhosts'
    BY <1>14, <2>2 DEF FiberSchedule, TypeGhosts
  <2>4. TypeThreads' /\ TypeStop' /\ TypeWaits' /\ HoldsFiber' /\ OwnerPhase' /\ FtEmpty'
    BY <1>14 DEF FiberSchedule, TypeThreads, TypeStop, TypeWaits, HoldsFiber, OwnerPhase, FtEmpty, Current, threadVars, fiberVars, stopVars, countVars, ghostVars
  <2> QED BY <2>2, <2>3, <2>4
<1>15. ASSUME NEW t \in Pool, YieldToReady(t) PROVE Basic'
  <2>1. TypeThreads'
    BY <1>15 DEF YieldToReady, TypeThreads, Pc, Holding, OnStack
  <2>2. TypeFibers'
    BY <1>15 DEF YieldToReady, TypeFibers, FiberState
  <2>3. TypeGhosts'
    <3> DEFINE j == m_cb[Current(t)]
    <3>1. j \in Job \cup {None}
      BY <1>15, CurrentType DEF YieldToReady, TypeFibers, Holding, OnStack, Running
    <3>2. yields' = IF j = None THEN yields ELSE [yields EXCEPT ![j] = @ + 1]
      BY <1>15 DEF YieldToReady, MayYield
    <3> HIDE DEF j
    <3>3. yields' \in [Job -> Nat]
      BY <3>1, <3>2 DEF TypeGhosts
    <3> QED BY <1>15, <3>3 DEF YieldToReady, TypeGhosts
  <2>4. HoldsFiber'
    BY <1>15 DEF YieldToReady, HoldsFiber, Current, Holding, OnStack, Running, TypeThreads
  <2>5. OwnerPhase'
    BY <1>15 DEF YieldToReady, OwnerPhase, Pool, TypeThreads, stopVars, threadVars
  <2>6. FtEmpty'
    BY <1>15 DEF YieldToReady, FtEmpty, TypeThreads, Holding, OnStack, Running
  <2>7. TypeQueue' /\ TypeStop' /\ TypeWaits' /\ QueueReal'
    BY <1>15 DEF YieldToReady, TypeQueue, TypeStop, TypeWaits, QueueReal, threadVars, fiberVars, stopVars, countVars, ghostVars
  <2> QED BY <2>1, <2>2, <2>3, <2>4, <2>5, <2>6, <2>7
<1>16. ASSUME NEW t \in Pool, Register(t) PROVE Basic'
  <2>1. TypeThreads'
    BY <1>16 DEF Register, TypeThreads, Pc, Holding, OnStack, Running
  <2>2. TypeWaits'
    BY <1>16, CurrentType DEF Register, TypeWaits, Holding, OnStack, Running
  <2>3. TypeGhosts'
    <3> DEFINE j == m_cb[Current(t)]
    <3>1. j \in Job \cup {None}
      BY <1>16, CurrentType DEF Register, TypeFibers, Holding, OnStack, Running
    <3>2. yields' = IF j = None THEN yields ELSE [yields EXCEPT ![j] = @ + 1]
      BY <1>16 DEF Register, MayYield
    <3> HIDE DEF j
    <3>3. yields' \in [Job -> Nat]
      BY <3>1, <3>2 DEF TypeGhosts
    <3> QED BY <1>16, <3>3 DEF Register, TypeGhosts
  <2>4. HoldsFiber'
    BY <1>16 DEF Register, HoldsFiber, Current, Holding, OnStack, Running, TypeThreads
  <2>5. OwnerPhase'
    BY <1>16 DEF Register, OwnerPhase, Pool, TypeThreads, stopVars, threadVars
  <2>6. FtEmpty'
    BY <1>16 DEF Register, FtEmpty, TypeThreads, Holding, OnStack, Running
  <2>7. TypeQueue' /\ TypeFibers' /\ TypeStop' /\ QueueReal'
    BY <1>16 DEF Register, TypeQueue, TypeFibers, TypeStop, QueueReal, threadVars, fiberVars, stopVars, countVars, ghostVars
  <2> QED BY <2>1, <2>2, <2>3, <2>4, <2>5, <2>6, <2>7
<1>17. ASSUME NEW t \in Pool, YieldToHold(t) PROVE Basic'
  <2>1. TypeThreads'
    BY <1>17 DEF YieldToHold, TypeThreads, Pc, Holding, OnStack
  <2>2. TypeFibers'
    BY <1>17 DEF YieldToHold, TypeFibers, FiberState
  <2>3. HoldsFiber'
    BY <1>17 DEF YieldToHold, HoldsFiber, Current, Holding, OnStack, Running, TypeThreads
  <2>4. OwnerPhase'
    BY <1>17 DEF YieldToHold, OwnerPhase, Pool, TypeThreads, stopVars, threadVars
  <2>5. FtEmpty'
    BY <1>17 DEF YieldToHold, FtEmpty, TypeThreads, Holding, OnStack, Running
  <2>6. TypeQueue' /\ TypeStop' /\ TypeWaits' /\ TypeGhosts' /\ QueueReal'
    BY <1>17 DEF YieldToHold, TypeQueue, TypeStop, TypeWaits, TypeGhosts, QueueReal, threadVars, fiberVars, stopVars, countVars, ghostVars
  <2> QED BY <2>1, <2>2, <2>3, <2>4, <2>5, <2>6
<1>18. ASSUME NEW t \in Pool, Finish(t) PROVE Basic'
  <2>1. TypeThreads'
    BY <1>18 DEF Finish, TypeThreads, Pc, Holding, OnStack
  <2>2. TypeFibers'
    BY <1>18 DEF Finish, TypeFibers, FiberState
  <2>3. HoldsFiber'
    BY <1>18 DEF Finish, HoldsFiber, Current, Holding, OnStack, Running, TypeThreads
  <2>4. OwnerPhase'
    BY <1>18 DEF Finish, OwnerPhase, Pool, TypeThreads, stopVars, threadVars
  <2>5. FtEmpty'
    BY <1>18 DEF Finish, FtEmpty, TypeThreads, Holding, OnStack, Running
  <2>6. TypeQueue' /\ TypeStop' /\ TypeWaits' /\ TypeGhosts' /\ QueueReal'
    BY <1>18 DEF Finish, TypeQueue, TypeStop, TypeWaits, TypeGhosts, QueueReal, threadVars, fiberVars, stopVars, countVars, ghostVars
  <2> QED BY <2>1, <2>2, <2>3, <2>4, <2>5, <2>6
<1>19. ASSUME NEW f \in Fiber, Wake(f) PROVE Basic'
  <2>a. m_fibers' = Append(m_fibers, FiberTask(f, None)) /\ FiberTask(f, None) \in Task
    BY <1>19, TaskTypes DEF Wake
  <2>b. FiberTask(f, None).fiber # None
    BY <1>19, NoneNotFiber DEF FiberTask
  <2>1. TypeQueue' /\ QueueReal'
    BY <2>a, <2>b, AppendTask
  <2>2. TypeWaits'
    BY <1>19 DEF Wake, TypeWaits
  <2>3. TypeThreads' /\ TypeFibers' /\ TypeStop' /\ TypeGhosts' /\ HoldsFiber' /\ OwnerPhase' /\ FtEmpty'
    BY <1>19 DEF Wake, TypeThreads, TypeFibers, TypeStop, TypeGhosts, HoldsFiber, OwnerPhase, FtEmpty, Current, threadVars, fiberVars, stopVars, countVars, ghostVars
  <2> QED BY <2>1, <2>2, <2>3
<1>20. ASSUME NEW f \in Fiber, OwnerReschedule(f) PROVE Basic'
  <2>a. m_fibers' = Append(m_fibers, FiberTask(f, None)) /\ FiberTask(f, None) \in Task
    BY <1>20, TaskTypes DEF OwnerReschedule
  <2>b. FiberTask(f, None).fiber # None
    BY <1>20, NoneNotFiber DEF FiberTask
  <2>1. TypeQueue' /\ QueueReal'
    BY <2>a, <2>b, AppendTask
  <2>2. TypeWaits'
    BY <1>20 DEF OwnerReschedule, TypeWaits
  <2>3. TypeThreads' /\ TypeFibers' /\ TypeStop' /\ TypeGhosts' /\ HoldsFiber' /\ OwnerPhase' /\ FtEmpty'
    BY <1>20 DEF OwnerReschedule, TypeThreads, TypeFibers, TypeStop, TypeGhosts, HoldsFiber, OwnerPhase, FtEmpty, Current, threadVars, fiberVars, stopVars, countVars, ghostVars
  <2> QED BY <2>1, <2>2, <2>3
<1>21. ASSUME OwnerSchedule PROVE Basic'
  <2>1. \/ \E j \in Job, thr \in Pool \cup {None} : SubmitCb(j, thr) \/ SubmitFiber(j, thr)
        \/ \E i, j \in Job : SubmitBatch(i, j)
    BY <1>21 DEF OwnerSchedule
  <2>2. TypeQueue' /\ QueueReal' /\ TypeFibers' /\ submitted' \subseteq Job
        /\ pin' \in [Job -> Pool \cup {None}]
    BY <2>1, SubmitTypes
  <2>3. TypeGhosts'
    BY <1>21, <2>2 DEF OwnerSchedule, TypeGhosts
  <2>4. TypeWaits'
    BY <1>21, <2>2, PoolFinite DEF OwnerSchedule, SubmitFiber, TypeWaits
  <2>5. TypeThreads' /\ TypeStop' /\ HoldsFiber' /\ OwnerPhase' /\ FtEmpty'
    BY <1>21 DEF OwnerSchedule, TypeThreads, TypeStop, HoldsFiber, OwnerPhase, FtEmpty, Current, threadVars, fiberVars, stopVars, countVars, ghostVars
  <2> QED BY <2>2, <2>3, <2>4, <2>5
<1>22. ASSUME Start PROVE Basic'
  <2>1. TypeThreads'
    BY <1>22 DEF Start, TypeThreads, Pc, FiberState
  <2>2. TypeStop'
    <3>1. m_stopping' \in BOOLEAN /\ m_autostop' \in BOOLEAN
      BY <1>22, Zenon DEF Start, TypeStop
    <3>2. /\ m_rootFiber' \in FiberState \cup {"none"} /\ owner' \in Owner
          /\ starts' \in Nat /\ stops' \in Nat
      BY <1>22 DEF Start, TypeStop, Owner
    <3> QED BY <3>1, <3>2 DEF TypeStop
  <2>3. HoldsFiber'
    BY <1>22 DEF Start, HoldsFiber, Current, Holding, OnStack, Running, TypeThreads
  <2>4. OwnerPhase'
    BY <1>22, ConstantsAssumption DEF Start, OwnerPhase, Pool, TypeThreads, stopVars, threadVars
  <2>5. FtEmpty'
    BY <1>22 DEF Start, FtEmpty, TypeThreads, OwnerPhase, Pool
  <2>6. TypeQueue' /\ TypeFibers' /\ TypeWaits' /\ TypeGhosts' /\ QueueReal'
    BY <1>22 DEF Start, TypeQueue, TypeFibers, TypeWaits, TypeGhosts, QueueReal, threadVars, fiberVars, stopVars, countVars, ghostVars
  <2> QED BY <2>1, <2>2, <2>3, <2>4, <2>5, <2>6
<1>23. ASSUME StopBegin PROVE Basic'
  <2>1. TypeStop'
    <3>1. m_stopping' \in BOOLEAN /\ m_autostop' \in BOOLEAN
      BY <1>23, Zenon DEF StopBegin, TypeStop
    <3>2. /\ m_rootFiber' \in FiberState \cup {"none"} /\ owner' \in Owner
          /\ starts' \in Nat /\ stops' \in Nat
      BY <1>23 DEF StopBegin, TypeStop, Owner
    <3> QED BY <3>1, <3>2 DEF TypeStop
  <2>2. OwnerPhase'
    BY <1>23 DEF StopBegin, OwnerPhase, Pool, TypeThreads, stopVars, threadVars
  <2>3. TypeQueue' /\ TypeThreads' /\ TypeFibers' /\ TypeWaits' /\ TypeGhosts' /\ QueueReal' /\ HoldsFiber' /\ FtEmpty'
    BY <1>23 DEF StopBegin, TypeQueue, TypeThreads, TypeFibers, TypeWaits, TypeGhosts, QueueReal, HoldsFiber, FtEmpty, Current, threadVars, fiberVars, stopVars, countVars, ghostVars
  <2> QED BY <2>1, <2>2, <2>3
<1>24. ASSUME StopCheck PROVE Basic'
  <2>1. TypeStop'
    BY <1>24 DEF StopCheck, TypeStop, Owner
  <2>2. OwnerPhase'
    BY <1>24 DEF StopCheck, OwnerPhase, Pool, TypeThreads, stopVars, threadVars
  <2>3. TypeQueue' /\ TypeThreads' /\ TypeFibers' /\ TypeWaits' /\ TypeGhosts' /\ QueueReal' /\ HoldsFiber' /\ FtEmpty'
    BY <1>24 DEF StopCheck, TypeQueue, TypeThreads, TypeFibers, TypeWaits, TypeGhosts, QueueReal, HoldsFiber, FtEmpty, Current, threadVars, fiberVars, stopVars, countVars, ghostVars
  <2> QED BY <2>1, <2>2, <2>3
<1>25. ASSUME StopFlag PROVE Basic'
  <2>1. TypeStop'
    BY <1>25 DEF StopFlag, TypeStop, Owner
  <2>2. OwnerPhase'
    BY <1>25 DEF StopFlag, OwnerPhase, Pool, TypeThreads, stopVars, threadVars
  <2>3. TypeQueue' /\ TypeThreads' /\ TypeFibers' /\ TypeWaits' /\ TypeGhosts' /\ QueueReal' /\ HoldsFiber' /\ FtEmpty'
    BY <1>25 DEF StopFlag, TypeQueue, TypeThreads, TypeFibers, TypeWaits, TypeGhosts, QueueReal, HoldsFiber, FtEmpty, Current, threadVars, fiberVars, stopVars, countVars, ghostVars
  <2> QED BY <2>1, <2>2, <2>3
<1>26. ASSUME StopRoot PROVE Basic'
  <2>1. TypeThreads'
    BY <1>26 DEF StopRoot, TypeThreads, Pc, Pool
  <2>2. TypeStop'
    BY <1>26 DEF StopRoot, TypeStop, Owner, FiberState
  <2>3. HoldsFiber'
    BY <1>26 DEF StopRoot, HoldsFiber, Current, Holding, OnStack, Running, TypeThreads
  <2>4. OwnerPhase'
    BY <1>26 DEF StopRoot, OwnerPhase, Pool, TypeThreads, stopVars, threadVars
  <2>5. FtEmpty'
    BY <1>26 DEF StopRoot, FtEmpty, TypeThreads, OwnerPhase, Pool
  <2>6. TypeQueue' /\ TypeFibers' /\ TypeWaits' /\ TypeGhosts' /\ QueueReal'
    BY <1>26 DEF StopRoot, TypeQueue, TypeFibers, TypeWaits, TypeGhosts, QueueReal, threadVars, fiberVars, stopVars, countVars, ghostVars
  <2> QED BY <2>1, <2>2, <2>3, <2>4, <2>5, <2>6
<1>27. ASSUME Join PROVE Basic'
  <2>1. TypeThreads'
    BY <1>27 DEF Join, TypeThreads, Pc
  <2>2. TypeStop'
    BY <1>27 DEF Join, TypeStop, Owner
  <2>3. HoldsFiber'
    BY <1>27 DEF Join, HoldsFiber, Current, Holding, OnStack, Running, TypeThreads
  <2>4. OwnerPhase'
    BY <1>27 DEF Join, OwnerPhase, Pool, TypeThreads, stopVars, threadVars
  <2>5. FtEmpty'
    BY <1>27 DEF Join, FtEmpty, TypeThreads, Holding, OnStack, Running
  <2>6. TypeQueue' /\ TypeFibers' /\ TypeWaits' /\ TypeGhosts' /\ QueueReal'
    BY <1>27 DEF Join, TypeQueue, TypeFibers, TypeWaits, TypeGhosts, QueueReal, threadVars, fiberVars, stopVars, countVars, ghostVars
  <2> QED BY <2>1, <2>2, <2>3, <2>4, <2>5, <2>6
<1>28. ASSUME OwnerElsewhere PROVE Basic'
  <2>1. TypeQueue' /\ TypeThreads' /\ TypeFibers' /\ TypeStop' /\ TypeWaits' /\ TypeGhosts' /\ QueueReal' /\ HoldsFiber' /\ OwnerPhase' /\ FtEmpty'
    BY <1>28 DEF OwnerElsewhere, vars, TypeQueue, TypeThreads, TypeFibers, TypeStop, TypeWaits, TypeGhosts, QueueReal, HoldsFiber, OwnerPhase, FtEmpty, Current, threadVars, fiberVars, stopVars, countVars, ghostVars
  <2> QED BY <2>1
<1>29. CASE UNCHANGED vars
  BY <1>29 DEF vars, TypeQueue, TypeThreads, TypeFibers, TypeStop, TypeWaits, TypeGhosts, QueueReal, HoldsFiber, OwnerPhase, FtEmpty, Current, threadVars, fiberVars, stopVars, countVars, ghostVars
<1>30. ASSUME NEW t \in Pool, AssertFails(t) PROVE Basic'
  <2>1. TypeThreads'
    BY <1>30 DEF AssertFails, TypeThreads, Pc
  <2>2. HoldsFiber' /\ FtEmpty'
    BY <1>30 DEF AssertFails, HoldsFiber, FtEmpty, Current, Holding, OnStack, Running, TypeThreads
  <2>3. OwnerPhase'
    BY <1>30 DEF AssertFails, OwnerPhase, Pool, TypeThreads, stopVars
  <2>4. TypeQueue' /\ TypeFibers' /\ TypeStop' /\ TypeWaits' /\ TypeGhosts' /\ QueueReal'
    BY <1>30 DEF AssertFails, TypeQueue, TypeFibers, TypeStop, TypeWaits, TypeGhosts, QueueReal, fiberVars, stopVars, ghostVars
  <2> QED BY <2>1, <2>2, <2>3, <2>4
<1> QED
  BY <1>1, <1>2, <1>3, <1>4, <1>5, <1>6, <1>7, <1>8, <1>9, <1>10, <1>11, <1>12, <1>13, <1>14, <1>15, <1>16, <1>17, <1>18, <1>19, <1>20, <1>21, <1>22, <1>23, <1>24, <1>25, <1>26, <1>27, <1>28, <1>29, <1>30
     DEF Next, Thread, InRun, InFiber, Stopping
\* One thread more or less in a set of threads changes its cardinality by one.
LEMMA ThreadSets ==
    ASSUME NEW A \in SUBSET Pool, NEW t \in Pool
    PROVE  /\ IsFiniteSet(A) /\ Cardinality(A) \in Nat
           /\ t \notin A => Cardinality(A \cup {t}) = Cardinality(A) + 1
           /\ t \in A => Cardinality(A \ {t}) = Cardinality(A) - 1
<1>1. IsFiniteSet(A) /\ Cardinality(A) \in Nat
  BY PoolFinite, FS_Subset, FS_CardinalityType
<1>2. Cardinality(A \cup {t}) = IF t \in A THEN Cardinality(A) ELSE Cardinality(A) + 1
  BY <1>1, FS_AddElement
<1>3. Cardinality(A \ {t}) = IF t \in A THEN Cardinality(A) - 1 ELSE Cardinality(A)
  BY <1>1, FS_RemoveElement
<1> QED BY <1>1, <1>2, <1>3

\* Every action that moves a thread into or out of Active or Idling counts it.
LEMMA CountersNext == Basic /\ CountersExact /\ [Next]_vars => CountersExact'
<1> SUFFICES ASSUME Basic, CountersExact, [Next]_vars PROVE CountersExact'
  OBVIOUS
<1>0. Active \in SUBSET Pool /\ Idling \in SUBSET Pool
  BY DEF Active, Idling
<1>1. ASSUME NEW t \in Pool, Take(t) PROVE CountersExact'
  <2>0. ft'[t] # NoTask
    BY <1>1 DEF Take, Basic, TypeThreads, QueueReal, NoTask
  <2>1. Active' = Active \cup {t} /\ t \notin Active
    BY <1>1, <2>0 DEF Take, Active, OnStack, Running, TypeThreads, Basic
  <2>2. Idling' = Idling
    BY <1>1 DEF Take, Idling, TypeThreads, Basic
  <2>3. /\ m_activeThreadCount' = m_activeThreadCount + 1
        /\ m_idleThreadCount' = m_idleThreadCount
    BY <1>1 DEF Take, Deactivate, countVars
  <2> QED BY <1>0, <2>1, <2>2, <2>3, ThreadSets DEF CountersExact
<1>2. ASSUME NEW t \in Pool, TakeNothing(t) PROVE CountersExact'
  <2>1. Active' = Active
    BY <1>2 DEF TakeNothing, Active, OnStack, Running, TypeThreads, Basic, FtEmpty, NoTask
  <2>2. Idling' = Idling
    BY <1>2 DEF TakeNothing, Idling, TypeThreads, Basic
  <2>3. m_activeThreadCount' = m_activeThreadCount /\ m_idleThreadCount' = m_idleThreadCount
    BY <1>2 DEF TakeNothing, countVars
  <2> QED BY <2>1, <2>2, <2>3 DEF CountersExact
<1>3. ASSUME NEW t \in Pool, SwapInFiber(t) PROVE CountersExact'
  <2>1. Active' = Active
    BY <1>3 DEF SwapInFiber, Active, OnStack, Running, TypeThreads, Basic, FtEmpty, NoTask
  <2>2. Idling' = Idling
    BY <1>3 DEF SwapInFiber, Idling, TypeThreads, Basic
  <2>3. m_activeThreadCount' = m_activeThreadCount /\ m_idleThreadCount' = m_idleThreadCount
    BY <1>3 DEF SwapInFiber, countVars
  <2> QED BY <2>1, <2>2, <2>3 DEF CountersExact
<1>4. ASSUME NEW t \in Pool, SwapInNewCb(t) PROVE CountersExact'
  <2>1. Active' = Active
    BY <1>4 DEF SwapInNewCb, Active, OnStack, Running, TypeThreads, Basic, FtEmpty, NoTask
  <2>2. Idling' = Idling
    BY <1>4 DEF SwapInNewCb, Idling, TypeThreads, Basic
  <2>3. m_activeThreadCount' = m_activeThreadCount /\ m_idleThreadCount' = m_idleThreadCount
    BY <1>4 DEF SwapInNewCb, countVars
  <2> QED BY <2>1, <2>2, <2>3 DEF CountersExact
<1>5. ASSUME NEW t \in Pool, SwapInOldCb(t) PROVE CountersExact'
  <2>1. Active' = Active
    BY <1>5 DEF SwapInOldCb, Active, OnStack, Running, TypeThreads, Basic, FtEmpty, NoTask
  <2>2. Idling' = Idling
    BY <1>5 DEF SwapInOldCb, Idling, TypeThreads, Basic
  <2>3. m_activeThreadCount' = m_activeThreadCount /\ m_idleThreadCount' = m_idleThreadCount
    BY <1>5 DEF SwapInOldCb, countVars
  <2> QED BY <2>1, <2>2, <2>3 DEF CountersExact
<1>6. ASSUME NEW t \in Pool, DropEnded(t) PROVE CountersExact'
  <2>1. Active' = Active \ {t} /\ t \in Active
    BY <1>6 DEF DropEnded, Active, OnStack, Running, TypeThreads, Basic, NoTask
  <2>2. Idling' = Idling
    BY <1>6 DEF DropEnded, Idling, TypeThreads, Basic
  <2>3. /\ m_activeThreadCount' = m_activeThreadCount - 1
        /\ m_idleThreadCount' = m_idleThreadCount
    BY <1>6 DEF DropEnded, Deactivate, countVars
  <2> QED BY <1>0, <2>1, <2>2, <2>3, ThreadSets DEF CountersExact
<1>7. ASSUME NEW t \in Pool, EnterIdle(t) PROVE CountersExact'
  <2>1. Active' = Active
    BY <1>7 DEF EnterIdle, Active, OnStack, Running, TypeThreads, Basic
  <2>2. Idling' = Idling \cup {t} /\ t \notin Idling
    BY <1>7 DEF EnterIdle, Idling, TypeThreads, Basic
  <2>3. /\ m_activeThreadCount' = m_activeThreadCount
        /\ m_idleThreadCount' = m_idleThreadCount + 1
    BY <1>7 DEF EnterIdle, Deactivate, countVars
  <2> QED BY <1>0, <2>1, <2>2, <2>3, ThreadSets DEF CountersExact
<1>8. ASSUME NEW t \in Pool, LeaveIdle(t) PROVE CountersExact'
  <2>1. Active' = Active
    BY <1>8 DEF LeaveIdle, Active, OnStack, Running, TypeThreads, Basic
  <2>2. Idling' = Idling \ {t} /\ t \in Idling
    BY <1>8 DEF LeaveIdle, Idling, TypeThreads, Basic
  <2>3. /\ m_activeThreadCount' = m_activeThreadCount
        /\ m_idleThreadCount' = m_idleThreadCount - 1
    BY <1>8 DEF LeaveIdle, Deactivate, countVars
  <2> QED BY <1>0, <2>1, <2>2, <2>3, ThreadSets DEF CountersExact
<1>9. ASSUME NEW t \in Pool, Exit(t) PROVE CountersExact'
  <2>1. Active' = Active
    BY <1>9 DEF Exit, Active, OnStack, Running, TypeThreads, Basic, FtEmpty, NoTask
  <2>2. Idling' = Idling
    BY <1>9 DEF Exit, Idling, TypeThreads, Basic
  <2>3. m_activeThreadCount' = m_activeThreadCount /\ m_idleThreadCount' = m_idleThreadCount
    BY <1>9 DEF Exit, countVars
  <2> QED BY <2>1, <2>2, <2>3 DEF CountersExact
<1>10. ASSUME NEW t \in Pool, SwapOut(t) PROVE CountersExact'
  <2>1. Active' = Active \ {t} /\ t \in Active
    BY <1>10 DEF SwapOut, Active, OnStack, Running, TypeThreads, Basic
  <2>2. Idling' = Idling
    BY <1>10 DEF SwapOut, Idling, TypeThreads, Basic
  <2>3. /\ m_activeThreadCount' = m_activeThreadCount - 1
        /\ m_idleThreadCount' = m_idleThreadCount
    BY <1>10 DEF SwapOut, Deactivate, countVars
  <2> QED BY <1>0, <2>1, <2>2, <2>3, ThreadSets DEF CountersExact
<1>11. ASSUME NEW t \in Pool, SettleReady(t) PROVE CountersExact'
  <2>1. Active' = Active
    BY <1>11 DEF SettleReady, Active, OnStack, Running, TypeThreads, Basic, FtEmpty, NoTask
  <2>2. Idling' = Idling
    BY <1>11 DEF SettleReady, Idling, TypeThreads, Basic
  <2>3. m_activeThreadCount' = m_activeThreadCount /\ m_idleThreadCount' = m_idleThreadCount
    BY <1>11 DEF SettleReady, countVars
  <2> QED BY <2>1, <2>2, <2>3 DEF CountersExact
<1>12. ASSUME NEW t \in Pool, SettleEnded(t) PROVE CountersExact'
  <2>1. Active' = Active
    BY <1>12 DEF SettleEnded, Active, OnStack, Running, TypeThreads, Basic, FtEmpty, NoTask
  <2>2. Idling' = Idling
    BY <1>12 DEF SettleEnded, Idling, TypeThreads, Basic
  <2>3. m_activeThreadCount' = m_activeThreadCount /\ m_idleThreadCount' = m_idleThreadCount
    BY <1>12 DEF SettleEnded, countVars
  <2> QED BY <2>1, <2>2, <2>3 DEF CountersExact
<1>13. ASSUME NEW t \in Pool, SettleHold(t) PROVE CountersExact'
  <2>1. Active' = Active
    BY <1>13 DEF SettleHold, Active, OnStack, Running, TypeThreads, Basic, FtEmpty, NoTask
  <2>2. Idling' = Idling
    BY <1>13 DEF SettleHold, Idling, TypeThreads, Basic
  <2>3. m_activeThreadCount' = m_activeThreadCount /\ m_idleThreadCount' = m_idleThreadCount
    BY <1>13 DEF SettleHold, countVars
  <2> QED BY <2>1, <2>2, <2>3 DEF CountersExact
<1>14. ASSUME NEW t \in Pool, FiberSchedule(t) PROVE CountersExact'
  BY <1>14 DEF FiberSchedule, CountersExact, Active, Idling, threadVars, countVars
<1>15. ASSUME NEW t \in Pool, YieldToReady(t) PROVE CountersExact'
  <2>1. Active' = Active
    BY <1>15 DEF YieldToReady, Active, OnStack, Running, TypeThreads, Basic, FtEmpty, NoTask
  <2>2. Idling' = Idling
    BY <1>15 DEF YieldToReady, Idling, TypeThreads, Basic
  <2>3. m_activeThreadCount' = m_activeThreadCount /\ m_idleThreadCount' = m_idleThreadCount
    BY <1>15 DEF YieldToReady, countVars
  <2> QED BY <2>1, <2>2, <2>3 DEF CountersExact
<1>16. ASSUME NEW t \in Pool, Register(t) PROVE CountersExact'
  <2>1. Active' = Active
    BY <1>16 DEF Register, Active, OnStack, Running, TypeThreads, Basic, FtEmpty, NoTask
  <2>2. Idling' = Idling
    BY <1>16 DEF Register, Idling, TypeThreads, Basic
  <2>3. m_activeThreadCount' = m_activeThreadCount /\ m_idleThreadCount' = m_idleThreadCount
    BY <1>16 DEF Register, countVars
  <2> QED BY <2>1, <2>2, <2>3 DEF CountersExact
<1>17. ASSUME NEW t \in Pool, YieldToHold(t) PROVE CountersExact'
  <2>1. Active' = Active
    BY <1>17 DEF YieldToHold, Active, OnStack, Running, TypeThreads, Basic, FtEmpty, NoTask
  <2>2. Idling' = Idling
    BY <1>17 DEF YieldToHold, Idling, TypeThreads, Basic
  <2>3. m_activeThreadCount' = m_activeThreadCount /\ m_idleThreadCount' = m_idleThreadCount
    BY <1>17 DEF YieldToHold, countVars
  <2> QED BY <2>1, <2>2, <2>3 DEF CountersExact
<1>18. ASSUME NEW t \in Pool, Finish(t) PROVE CountersExact'
  <2>1. Active' = Active
    BY <1>18 DEF Finish, Active, OnStack, Running, TypeThreads, Basic, FtEmpty, NoTask
  <2>2. Idling' = Idling
    BY <1>18 DEF Finish, Idling, TypeThreads, Basic
  <2>3. m_activeThreadCount' = m_activeThreadCount /\ m_idleThreadCount' = m_idleThreadCount
    BY <1>18 DEF Finish, countVars
  <2> QED BY <2>1, <2>2, <2>3 DEF CountersExact
<1>19. ASSUME NEW f \in Fiber, Wake(f) PROVE CountersExact'
  BY <1>19 DEF Wake, CountersExact, Active, Idling, threadVars, countVars
<1>20. ASSUME NEW f \in Fiber, OwnerReschedule(f) PROVE CountersExact'
  BY <1>20 DEF OwnerReschedule, CountersExact, Active, Idling, threadVars, countVars
<1>21. ASSUME OwnerSchedule PROVE CountersExact'
  BY <1>21 DEF OwnerSchedule, CountersExact, Active, Idling, threadVars, countVars
<1>22. ASSUME Start PROVE CountersExact'
  <2>1. Active' = Active
    BY <1>22 DEF Start, Active, OnStack, Running, TypeThreads, Basic, FtEmpty, NoTask, OwnerPhase
  <2>2. Idling' = Idling
    BY <1>22 DEF Start, Idling, TypeThreads, Basic, OwnerPhase
  <2>3. m_activeThreadCount' = m_activeThreadCount /\ m_idleThreadCount' = m_idleThreadCount
    BY <1>22 DEF Start, countVars
  <2> QED BY <2>1, <2>2, <2>3 DEF CountersExact
<1>23. ASSUME StopBegin PROVE CountersExact'
  BY <1>23 DEF StopBegin, CountersExact, Active, Idling, threadVars, countVars
<1>24. ASSUME StopCheck PROVE CountersExact'
  BY <1>24 DEF StopCheck, CountersExact, Active, Idling, threadVars, countVars
<1>25. ASSUME StopFlag PROVE CountersExact'
  BY <1>25 DEF StopFlag, CountersExact, Active, Idling, threadVars, countVars
<1>26. ASSUME StopRoot PROVE CountersExact'
  <2>1. Active' = Active
    BY <1>26 DEF StopRoot, Active, OnStack, Running, TypeThreads, Basic, FtEmpty, NoTask, OwnerPhase, Pool
  <2>2. Idling' = Idling
    BY <1>26 DEF StopRoot, Idling, TypeThreads, Basic, OwnerPhase, Pool
  <2>3. m_activeThreadCount' = m_activeThreadCount /\ m_idleThreadCount' = m_idleThreadCount
    BY <1>26 DEF StopRoot, countVars
  <2> QED BY <2>1, <2>2, <2>3 DEF CountersExact
<1>27. ASSUME Join PROVE CountersExact'
  <2>1. Active' = Active
    BY <1>27 DEF Join, Active, OnStack, Running, TypeThreads, Basic, FtEmpty, NoTask
  <2>2. Idling' = Idling
    BY <1>27 DEF Join, Idling, TypeThreads, Basic
  <2>3. m_activeThreadCount' = m_activeThreadCount /\ m_idleThreadCount' = m_idleThreadCount
    BY <1>27 DEF Join, countVars
  <2> QED BY <2>1, <2>2, <2>3 DEF CountersExact
<1>28. ASSUME OwnerElsewhere PROVE CountersExact'
  BY <1>28 DEF OwnerElsewhere, CountersExact, Active, Idling, threadVars, countVars, vars
<1>29. CASE UNCHANGED vars
  BY <1>29 DEF vars, CountersExact, Active, Idling, threadVars, countVars
<1>30. ASSUME NEW t \in Pool, AssertFails(t) PROVE CountersExact'
  <2>1. Active' = Active
    BY <1>30, NoneNotFiber DEF AssertFails, Active, OnStack, Running, TypeThreads, Basic, NoTask
  <2>2. Idling' = Idling
    BY <1>30 DEF AssertFails, Idling, TypeThreads, Basic
  <2> QED BY <1>30, <2>1, <2>2 DEF CountersExact, AssertFails, countVars
<1> QED
  BY <1>1, <1>2, <1>3, <1>4, <1>5, <1>6, <1>7, <1>8, <1>9, <1>10, <1>11, <1>12, <1>13, <1>14, <1>15, <1>16, <1>17, <1>18, <1>19, <1>20, <1>21, <1>22, <1>23, <1>24, <1>25, <1>26, <1>27, <1>28, <1>29, <1>30
     DEF Next, Thread, InRun, InFiber, Stopping
\* Whatever the constants are, run(), schedule(), start(), stop() and the
\* fibers keep every variable in its type, and the counters of active and idle
\* threads are exact: m_activeThreadCount is the number of threads between the
\* pop of a task and the decrement that follows its switch, on every branch.
THEOREM TypesAndCounters == Spec => [](TypeOK /\ CountersExact)
<1>1. Init => Basic /\ CountersExact
  <2> SUFFICES ASSUME Init PROVE CountersExact
    BY BasicInit
  <2>1. Active = {} /\ Idling = {}
    BY DEF Init, Active, Idling, OnStack, Running
  <2> QED BY <2>1, FS_EmptySet DEF Init, CountersExact
<1>2. Basic /\ CountersExact /\ [Next]_vars => (Basic /\ CountersExact)'
  BY BasicNext, CountersNext
<1>3. Basic /\ CountersExact => TypeOK /\ CountersExact
  <2> SUFFICES ASSUME Basic, CountersExact PROVE TypeCounters
    BY DEF Basic, TypeOK
  <2>1. IsFiniteSet(Active) /\ IsFiniteSet(Idling)
    BY PoolFinite, FS_Subset DEF Active, Idling
  <2> QED BY <2>1, FS_CardinalityType DEF CountersExact, TypeCounters
<1> QED BY <1>1, <1>2, <1>3, PTL DEF Spec
-----------------------------------------------------------------------------
(* One user per fiber.  A fiber is in at most one place: in one entry of   *)
(* m_fibers, in one thread's ft or cb_fiber, or waiting for its wake-up.   *)
(* Its m_state tells where.  All this is said of the fibers that were not   *)
(* scheduled while they were in use; the others do not disturb it.          *)

QueueApart ==
    \A i \in 1 .. Len(m_fibers) : m_fibers[i].fiber \notin overlapped \cup {None} =>
        /\ \A k \in 1 .. Len(m_fibers) : k # i => m_fibers[k].fiber # m_fibers[i].fiber
        /\ \A t \in Pool : m_fibers[i].fiber \notin {ft[t].fiber, cb_fiber[t]}
        /\ m_fibers[i].fiber \notin waiting

ThreadsApart ==
    \A s, t \in Pool :
        /\ ft[s].fiber \notin overlapped \cup {None} => ft[s].fiber # cb_fiber[t]
        /\ s # t /\ ft[s].fiber \notin overlapped \cup {None} => ft[s].fiber # ft[t].fiber
        /\ s # t /\ cb_fiber[s] \notin overlapped \cup {None} => cb_fiber[s] # cb_fiber[t]

\* A waiting fiber is held only by the thread on its way to settle it.
WaitsHeld ==
    \A f \in waiting, t \in Pool :
        f \notin overlapped /\ f \in {ft[t].fiber, cb_fiber[t]} =>
            Current(t) = f /\ pc[t] \in {"armed", "swapOut", "settle"}

\* It is in HOLD from the moment it has yielded.
WaitsHold ==
    \A f \in waiting : f \notin overlapped =>
        m_state[f] = "HOLD" \/ \E t \in Pool : pc[t] = "armed" /\ Current(t) = f

\* Fibers that do not exist yet are nowhere.
Allocated ==
    /\ \A i \in 1 .. Len(m_fibers) : m_fibers[i].fiber # None => m_fibers[i].fiber <= s_fiber_id
    /\ \A t \in Pool :
          /\ ft[t].fiber # None => ft[t].fiber <= s_fiber_id
          /\ cb_fiber[t] # None => cb_fiber[t] <= s_fiber_id
    /\ \A f \in waiting \cup handles : f <= s_fiber_id

\* m_state as the scan finds it in the list.
StatesQueue ==
    \A i \in 1 .. Len(m_fibers) : m_fibers[i].fiber \notin overlapped \cup {None} =>
        m_state[m_fibers[i].fiber] \in {"INIT", "HOLD", "READY"}

\* m_state as run() finds it before swapIn().
StatesDispatch ==
    \A t \in Pool : pc[t] = "dispatch" /\ ft[t].fiber \notin overlapped \cup {None} =>
        m_state[ft[t].fiber] \in {"INIT", "HOLD", "READY"}

StatesRunning ==
    \A t \in Pool : pc[t] \in Running /\ Current(t) \notin overlapped =>
        m_state[Current(t)] = "EXEC"

\* m_state as run() finds it after the fiber has switched back.
StatesOut ==
    \A t \in Pool : pc[t] \in {"swapOut", "settle"} /\ Current(t) \notin overlapped =>
        m_state[Current(t)] \in {"READY", "HOLD", "TERM", "EXCEPT"}

\* A cb_fiber kept for the next callback has been reset.
StatesRecycled ==
    \A t \in Pool :
        cb_fiber[t] \notin overlapped \cup {None} /\ (pc[t] \notin Holding \/ ft[t].fiber # None) =>
        m_state[cb_fiber[t]] = "INIT"

ExecRuns ==
    \A f \in Fiber :
        m_state[f] = "EXEC" /\ f \notin overlapped => \E t \in Pool : pc[t] \in Running /\ Current(t) = f

\* m_rootFiber has not been called before the first stop() calls it.
RootFresh ==
    /\ owner \in {"stopCheck", "stopFlag", "stopRoot", "join", "returned"} => stops >= 1
    /\ UseCaller /\ (stops = 0 \/ (stops = 1 /\ owner \in {"stopCheck", "stopFlag", "stopRoot"})) =>
          m_rootFiber = "INIT"
    /\ stops <= MaxStops

\* What Append does to the list, element by element.
LEMMA AppendFacts ==
    ASSUME TypeQueue, NEW e \in Task, m_fibers' = Append(m_fibers, e)
    PROVE  /\ Len(m_fibers) \in Nat /\ Len(m_fibers') = Len(m_fibers) + 1
           /\ \A i \in 1 .. Len(m_fibers) : m_fibers'[i] = m_fibers[i]
           /\ m_fibers'[Len(m_fibers) + 1] = e
  BY AppendProperties, LenProperties DEF TypeQueue

\* Every fiber object is in one place: queued, held by one thread, waiting, or put away.
Places ==
    /\ QueueApart /\ ThreadsApart /\ WaitsHeld /\ WaitsHold /\ Allocated
    /\ StatesQueue /\ StatesDispatch /\ StatesRunning /\ StatesOut /\ StatesRecycled
    /\ ExecRuns

\* schedule() with new work puts it in a place of its own.
LEMMA SubmitPlaces ==
    ASSUME Basic, Places, UNCHANGED <<waiting, overlapped, pc, ft, cb_fiber>>,
           \A f \in handles' : f \in handles \/ f = s_fiber_id',
           \/ \E j \in Job, thr \in Pool \cup {None} : SubmitCb(j, thr) \/ SubmitFiber(j, thr)
           \/ \E i, j \in Job : SubmitBatch(i, j)
    PROVE  Places'
<1> USE NoneNotFiber DEF Basic, Places
<1>1. ASSUME NEW j \in Job, NEW thr \in Pool \cup {None}, SubmitCb(j, thr) PROVE Places'
  <2>0. CbTask(j, thr) \in Task /\ CbTask(j, thr).fiber = None
    BY TaskTypes DEF CbTask
  <2>a. m_fibers' = Append(m_fibers, CbTask(j, thr)) /\ UNCHANGED <<m_state, s_fiber_id>>
    BY <1>1 DEF SubmitCb, fiberVars
  <2>b. /\ Len(m_fibers) \in Nat /\ Len(m_fibers') = Len(m_fibers) + 1
        /\ \A i \in 1 .. Len(m_fibers) : m_fibers'[i] = m_fibers[i]
        /\ m_fibers'[Len(m_fibers) + 1].fiber = None
    BY <2>0, <2>a, AppendFacts
  <2>1. QueueApart'
    <3>1. \A i \in 1 .. Len(m_fibers') : i # Len(m_fibers) + 1 => i \in 1 .. Len(m_fibers)
      BY <2>b
    <3> QED BY <3>1, <2>a, <2>b DEF QueueApart, TypeThreads
  <2>2. Allocated'
    <3>1. \A i \in 1 .. Len(m_fibers') : i # Len(m_fibers) + 1 => i \in 1 .. Len(m_fibers)
      BY <2>b
    <3>2. \A g \in waiting' \cup handles' : g <= s_fiber_id'
      BY <2>a, PoolFinite DEF Allocated, TypeFibers
    <3> QED BY <3>1, <3>2, <2>a, <2>b DEF Allocated
  <2>3. StatesQueue'
    <3>1. \A i \in 1 .. Len(m_fibers') : i # Len(m_fibers) + 1 => i \in 1 .. Len(m_fibers)
      BY <2>b
    <3> QED BY <3>1, <2>a, <2>b DEF StatesQueue
  <2> QED
    BY <2>1, <2>2, <2>3, <2>a DEF ThreadsApart, WaitsHeld, WaitsHold, StatesDispatch,
       StatesRunning, StatesOut, StatesRecycled, ExecRuns, Current
<1>2. ASSUME NEW j \in Job, NEW thr \in Pool \cup {None}, SubmitFiber(j, thr) PROVE Places'
  <2> DEFINE f == s_fiber_id + 1
  <2>0. f \in Fiber /\ FiberTask(f, thr) \in Task /\ FiberTask(f, thr).fiber = f
    BY <1>2, TaskTypes DEF SubmitFiber, FiberTask
  <2>a. /\ m_fibers' = Append(m_fibers, FiberTask(f, thr))
        /\ m_state' = [m_state EXCEPT ![f] = "INIT"] /\ s_fiber_id' = f
    BY <1>2 DEF SubmitFiber
  <2>b. /\ Len(m_fibers) \in Nat /\ Len(m_fibers') = Len(m_fibers) + 1
        /\ \A i \in 1 .. Len(m_fibers) : m_fibers'[i] = m_fibers[i]
        /\ m_fibers'[Len(m_fibers) + 1].fiber = f
    BY <2>0, <2>a, AppendFacts
  <2>d. \A i \in 1 .. Len(m_fibers) : m_fibers[i] \in Task
    BY ElementOfSeq DEF TypeQueue
  <2>e. s_fiber_id \in Nat /\ f \in Nat /\ ~(f <= s_fiber_id) /\ s_fiber_id <= f
        /\ \A g \in Fiber : g <= s_fiber_id => g <= f
    BY <2>0, PoolFinite, SMTT(30) DEF TypeFibers
  <2> HIDE DEF f
  <2>c. /\ \A t \in Pool : f \notin {ft[t].fiber, cb_fiber[t]}
        /\ \A i \in 1 .. Len(m_fibers) : m_fibers[i].fiber # f
        /\ f \notin waiting
    BY <2>0, <2>e DEF Allocated
  <2>g. \A t \in Pool : pc[t] \in Holding => Current(t) # f
    BY <2>0, <2>c DEF Current
  <2>1. QueueApart'
    <3>1. \A i \in 1 .. Len(m_fibers') : i # Len(m_fibers) + 1 => i \in 1 .. Len(m_fibers)
      BY <2>b
    <3> QED BY <3>1, <2>b, <2>c DEF QueueApart
  <2>2. Allocated'
    <3>1. \A i \in 1 .. Len(m_fibers') : i # Len(m_fibers) + 1 => i \in 1 .. Len(m_fibers)
      BY <2>b
    <3>2. \A i \in 1 .. Len(m_fibers) : m_fibers[i].fiber # None => m_fibers[i].fiber <= f
      BY <2>d, <2>e DEF Allocated, Task
    <3>3. f <= f
      BY <2>e
    <3>4. \A t \in Pool : /\ ft[t].fiber # None => ft[t].fiber <= f
                          /\ cb_fiber[t] # None => cb_fiber[t] <= f
      BY <2>e DEF Allocated, TypeThreads, Task
    <3>5. \A g \in waiting' \cup handles' : g <= f
      BY <2>a, <2>e, <3>3 DEF Allocated, TypeWaits
    <3> QED BY <3>1, <3>2, <3>3, <3>4, <3>5, <2>a, <2>b DEF Allocated
  <2>3. StatesQueue'
    <3>1. \A i \in 1 .. Len(m_fibers') : i # Len(m_fibers) + 1 => i \in 1 .. Len(m_fibers)
      BY <2>b
    <3> QED BY <3>1, <2>0, <2>a, <2>b, <2>c DEF StatesQueue, TypeFibers
  <2>4. ThreadsApart' /\ WaitsHeld'
    BY DEF ThreadsApart, WaitsHeld, Current
  <2>5. WaitsHold'
    BY <2>a, <2>c DEF WaitsHold, Current, TypeFibers
  <2>6. StatesDispatch' /\ StatesRecycled'
    BY <2>a, <2>c DEF StatesDispatch, StatesRecycled, TypeFibers
  <2>7. StatesRunning' /\ StatesOut'
    BY <2>a, <2>g DEF StatesRunning, StatesOut, Current, TypeFibers, Holding, OnStack, Running
  <2>8. ExecRuns'
    BY <2>a DEF ExecRuns, Current, TypeFibers
  <2> QED BY <2>1, <2>2, <2>3, <2>4, <2>5, <2>6, <2>7, <2>8
<1>3. ASSUME NEW i \in Job, NEW j \in Job, SubmitBatch(i, j) PROVE Places'
  <2> DEFINE b == <<CbTask(i, None), CbTask(j, None)>>
  <2>1. /\ CbTask(i, None) \in Task /\ CbTask(i, None).fiber = None
        /\ CbTask(j, None) \in Task /\ CbTask(j, None).fiber = None
    BY TaskTypes DEF CbTask
  <2>2. b \in Seq(Task) /\ Len(b) = 2 /\ b[1] = CbTask(i, None) /\ b[2] = CbTask(j, None)
    BY <2>1
  <2>3. m_fibers' = m_fibers \o b /\ UNCHANGED <<m_state, s_fiber_id>>
    BY <1>3 DEF SubmitBatch, fiberVars
  <2> HIDE DEF b
  <2>4. /\ Len(m_fibers') = Len(m_fibers) + Len(b)
        /\ \A k \in 1 .. Len(m_fibers) + Len(b) :
              m_fibers'[k] = IF k <= Len(m_fibers) THEN m_fibers[k] ELSE b[k - Len(m_fibers)]
    BY <2>2, <2>3, ConcatProperties, Zenon DEF TypeQueue
  <2>5. Len(m_fibers) \in Nat
    BY LenProperties DEF TypeQueue
  <2>6. \A k \in 1 .. Len(m_fibers') : m_fibers'[k].fiber # None =>
           k \in 1 .. Len(m_fibers) /\ m_fibers'[k] = m_fibers[k]
    <3> SUFFICES ASSUME NEW k \in 1 .. Len(m_fibers) + 2, ~(k <= Len(m_fibers))
                 PROVE  m_fibers'[k].fiber = None
      BY <2>2, <2>4, <2>5
    <3>1. k - Len(m_fibers) \in {1, 2}
      BY <2>5
    <3> QED BY <3>1, <2>1, <2>2, <2>4
  <2>7. QueueApart'
    BY <2>6 DEF QueueApart
  <2>8. Allocated' /\ StatesQueue'
    <3>1. \A g \in waiting' \cup handles' : g <= s_fiber_id'
      BY <2>3, PoolFinite DEF Allocated, TypeFibers
    <3> QED BY <2>6, <2>3, <3>1 DEF Allocated, StatesQueue
  <2> QED
    BY <2>7, <2>8, <2>3 DEF ThreadsApart, WaitsHeld, WaitsHold, StatesDispatch,
       StatesRunning, StatesOut, StatesRecycled, ExecRuns, Current
<1> QED BY <1>1, <1>2, <1>3

\* Every action keeps every fiber in one place.
LEMMA PlacesNext == Basic /\ Places /\ [Next]_vars => Places'
<1> SUFFICES ASSUME Basic, Places, [Next]_vars PROVE Places'
  OBVIOUS
<1> USE NoneNotFiber DEF Basic, Places
<1>0. \A i \in 1 .. Len(m_fibers) : m_fibers[i] \in Task
  BY ElementOfSeq DEF TypeQueue
<1>1. ASSUME NEW t \in Pool, TakeNothing(t) PROVE Places'
  <2>1. QueueApart'
    BY <1>1 DEF TakeNothing, QueueApart, ThreadsApart, WaitsHeld, Allocated, TypeThreads, TypeFibers, Current, Holding, OnStack, Running, threadVars, fiberVars, stopVars, countVars, ghostVars, NoTask, FtEmpty
  <2>2. ThreadsApart'
    BY <1>1 DEF TakeNothing, QueueApart, ThreadsApart, WaitsHeld, Allocated, TypeThreads, TypeFibers, Current, Holding, OnStack, Running, threadVars, fiberVars, stopVars, countVars, ghostVars, NoTask, FtEmpty
  <2>3. WaitsHeld'
    BY <1>1 DEF TakeNothing, QueueApart, ThreadsApart, WaitsHeld, Allocated, StatesOut, WaitsHold, TypeWaits, TypeThreads, TypeFibers, Current, Holding, OnStack, Running, threadVars, fiberVars, stopVars, countVars, ghostVars, NoTask, FtEmpty
  <2>4. WaitsHold'
    BY <1>1 DEF TakeNothing, QueueApart, ThreadsApart, WaitsHeld, StatesOut, StatesRunning, StatesRecycled, StatesDispatch, Allocated, WaitsHold, TypeThreads, TypeFibers, Current, Holding, OnStack, Running, threadVars, fiberVars, stopVars, countVars, ghostVars, NoTask, FtEmpty
  <2>5. Allocated'
    BY <1>1 DEF TakeNothing, QueueApart, ThreadsApart, WaitsHeld, Allocated, TypeThreads, TypeFibers, Current, Holding, OnStack, Running, threadVars, fiberVars, stopVars, countVars, ghostVars, NoTask, FtEmpty
  <2>6. StatesQueue'
    BY <1>1 DEF TakeNothing, QueueApart, ThreadsApart, WaitsHeld, Allocated, WaitsHold, StatesQueue, TypeThreads, TypeFibers, Current, Holding, OnStack, Running, threadVars, fiberVars, stopVars, countVars, ghostVars, NoTask, FtEmpty
  <2>7. StatesDispatch'
    BY <1>1 DEF TakeNothing, QueueApart, ThreadsApart, WaitsHeld, StatesQueue, Allocated, StatesDispatch, TypeThreads, TypeFibers, Current, Holding, OnStack, Running, threadVars, fiberVars, stopVars, countVars, ghostVars, NoTask, FtEmpty
  <2>8. StatesRunning'
    BY <1>1 DEF TakeNothing, QueueApart, ThreadsApart, WaitsHeld, Allocated, StatesRunning, TypeThreads, TypeFibers, Current, Holding, OnStack, Running, threadVars, fiberVars, stopVars, countVars, ghostVars, NoTask, FtEmpty
  <2>9. StatesOut'
    BY <1>1 DEF TakeNothing, QueueApart, ThreadsApart, WaitsHeld, Allocated, StatesOut, TypeThreads, TypeFibers, Current, Holding, OnStack, Running, threadVars, fiberVars, stopVars, countVars, ghostVars, NoTask, FtEmpty
  <2>10. StatesRecycled'
    BY <1>1 DEF TakeNothing, QueueApart, ThreadsApart, WaitsHeld, Allocated, StatesOut, StatesRecycled, TypeThreads, TypeFibers, Current, Holding, OnStack, Running, threadVars, fiberVars, stopVars, countVars, ghostVars, NoTask, FtEmpty
  <2>11. ExecRuns'
    BY <1>1 DEF TakeNothing, QueueApart, ThreadsApart, WaitsHeld, StatesRunning, StatesOut, StatesRecycled, ExecRuns, TypeThreads, TypeFibers, Current, Holding, OnStack, Running, threadVars, fiberVars, stopVars, countVars, ghostVars, NoTask, FtEmpty
  <2> QED BY <2>1, <2>2, <2>3, <2>4, <2>5, <2>6, <2>7, <2>8, <2>9, <2>10, <2>11
<1>2. ASSUME NEW t \in Pool, SwapInFiber(t) PROVE Places'
  <2>1. QueueApart'
    BY <1>2 DEF SwapInFiber, QueueApart, ThreadsApart, WaitsHeld, Allocated, TypeThreads, TypeFibers, Current, Holding, OnStack, Running, threadVars, fiberVars, stopVars, countVars, ghostVars, Task
  <2>2. ThreadsApart'
    BY <1>2 DEF SwapInFiber, QueueApart, ThreadsApart, WaitsHeld, Allocated, TypeThreads, TypeFibers, Current, Holding, OnStack, Running, threadVars, fiberVars, stopVars, countVars, ghostVars, Task
  <2>3. WaitsHeld'
    BY <1>2 DEF SwapInFiber, QueueApart, ThreadsApart, WaitsHeld, Allocated, StatesOut, WaitsHold, TypeWaits, TypeThreads, TypeFibers, Current, Holding, OnStack, Running, threadVars, fiberVars, stopVars, countVars, ghostVars, Task
  <2>4. WaitsHold'
    BY <1>2 DEF SwapInFiber, QueueApart, ThreadsApart, WaitsHeld, StatesOut, StatesRunning, StatesRecycled, StatesDispatch, Allocated, WaitsHold, TypeThreads, TypeFibers, Current, Holding, OnStack, Running, threadVars, fiberVars, stopVars, countVars, ghostVars, Task
  <2>5. Allocated'
    BY <1>2 DEF SwapInFiber, QueueApart, ThreadsApart, WaitsHeld, Allocated, TypeThreads, TypeFibers, Current, Holding, OnStack, Running, threadVars, fiberVars, stopVars, countVars, ghostVars, Task
  <2>6. StatesQueue'
    BY <1>2 DEF SwapInFiber, QueueApart, ThreadsApart, WaitsHeld, Allocated, WaitsHold, StatesQueue, TypeThreads, TypeFibers, Current, Holding, OnStack, Running, threadVars, fiberVars, stopVars, countVars, ghostVars, Task
  <2>7. StatesDispatch'
    BY <1>2 DEF SwapInFiber, QueueApart, ThreadsApart, WaitsHeld, StatesQueue, Allocated, StatesDispatch, TypeThreads, TypeFibers, Current, Holding, OnStack, Running, threadVars, fiberVars, stopVars, countVars, ghostVars, Task
  <2>8. StatesRunning'
    BY <1>2 DEF SwapInFiber, QueueApart, ThreadsApart, WaitsHeld, Allocated, StatesRunning, TypeThreads, TypeFibers, Current, Holding, OnStack, Running, threadVars, fiberVars, stopVars, countVars, ghostVars, Task
  <2>9. StatesOut'
    BY <1>2 DEF SwapInFiber, QueueApart, ThreadsApart, WaitsHeld, Allocated, StatesOut, TypeThreads, TypeFibers, Current, Holding, OnStack, Running, threadVars, fiberVars, stopVars, countVars, ghostVars, Task
  <2>10. StatesRecycled'
    BY <1>2 DEF SwapInFiber, QueueApart, ThreadsApart, WaitsHeld, Allocated, StatesOut, StatesRecycled, TypeThreads, TypeFibers, Current, Holding, OnStack, Running, threadVars, fiberVars, stopVars, countVars, ghostVars, Task
  <2>11. ExecRuns'
    BY <1>2 DEF SwapInFiber, QueueApart, ThreadsApart, WaitsHeld, StatesRunning, StatesOut, StatesRecycled, ExecRuns, TypeThreads, TypeFibers, Current, Holding, OnStack, Running, threadVars, fiberVars, stopVars, countVars, ghostVars, Task
  <2> QED BY <2>1, <2>2, <2>3, <2>4, <2>5, <2>6, <2>7, <2>8, <2>9, <2>10, <2>11
<1>3. ASSUME NEW t \in Pool, SwapInNewCb(t) PROVE Places'
  <2>1. QueueApart'
    BY <1>3, <1>0, PoolFinite DEF SwapInNewCb, QueueApart, ThreadsApart, WaitsHeld, Allocated, TypeThreads, TypeFibers, Current, Holding, OnStack, Running, threadVars, fiberVars, stopVars, countVars, ghostVars, NoTask, TypeWaits, Task, Fiber
  <2>2. ThreadsApart'
    BY <1>3, <1>0, PoolFinite DEF SwapInNewCb, QueueApart, ThreadsApart, WaitsHeld, Allocated, TypeThreads, TypeFibers, Current, Holding, OnStack, Running, threadVars, fiberVars, stopVars, countVars, ghostVars, NoTask, TypeWaits, Task, Fiber
  <2>3. WaitsHeld'
    BY <1>3, <1>0, PoolFinite DEF SwapInNewCb, QueueApart, ThreadsApart, WaitsHeld, Allocated, StatesOut, WaitsHold, TypeWaits, TypeThreads, TypeFibers, Current, Holding, OnStack, Running, threadVars, fiberVars, stopVars, countVars, ghostVars, NoTask, TypeWaits, Task, Fiber
  <2>4. WaitsHold'
    BY <1>3, <1>0, PoolFinite DEF SwapInNewCb, QueueApart, ThreadsApart, WaitsHeld, StatesOut, StatesRunning, StatesRecycled, StatesDispatch, Allocated, WaitsHold, TypeThreads, TypeFibers, Current, Holding, OnStack, Running, threadVars, fiberVars, stopVars, countVars, ghostVars, NoTask, TypeWaits, Task, Fiber
  <2>5. Allocated'
    BY <1>3, <1>0, PoolFinite DEF SwapInNewCb, QueueApart, ThreadsApart, WaitsHeld, Allocated, TypeThreads, TypeFibers, Current, Holding, OnStack, Running, threadVars, fiberVars, stopVars, countVars, ghostVars, NoTask, TypeWaits, Task, Fiber
  <2>6. StatesQueue'
    BY <1>3, <1>0, PoolFinite DEF SwapInNewCb, QueueApart, ThreadsApart, WaitsHeld, Allocated, WaitsHold, StatesQueue, TypeThreads, TypeFibers, Current, Holding, OnStack, Running, threadVars, fiberVars, stopVars, countVars, ghostVars, NoTask, TypeWaits, Task, Fiber
  <2>7. StatesDispatch'
    BY <1>3, <1>0, PoolFinite DEF SwapInNewCb, QueueApart, ThreadsApart, WaitsHeld, StatesQueue, Allocated, StatesDispatch, TypeThreads, TypeFibers, Current, Holding, OnStack, Running, threadVars, fiberVars, stopVars, countVars, ghostVars, NoTask, TypeWaits, Task, Fiber
  <2>8. StatesRunning'
    BY <1>3, <1>0, PoolFinite DEF SwapInNewCb, QueueApart, ThreadsApart, WaitsHeld, Allocated, StatesRunning, TypeThreads, TypeFibers, Current, Holding, OnStack, Running, threadVars, fiberVars, stopVars, countVars, ghostVars, NoTask, TypeWaits, Task, Fiber
  <2>9. StatesOut'
    BY <1>3, <1>0, PoolFinite DEF SwapInNewCb, QueueApart, ThreadsApart, WaitsHeld, Allocated, StatesOut, TypeThreads, TypeFibers, Current, Holding, OnStack, Running, threadVars, fiberVars, stopVars, countVars, ghostVars, NoTask, TypeWaits, Task, Fiber
  <2>10. StatesRecycled'
    BY <1>3, <1>0, PoolFinite DEF SwapInNewCb, QueueApart, ThreadsApart, WaitsHeld, Allocated, StatesOut, StatesRecycled, TypeThreads, TypeFibers, Current, Holding, OnStack, Running, threadVars, fiberVars, stopVars, countVars, ghostVars, NoTask, TypeWaits, Task, Fiber
  <2>11. ExecRuns'
    <3> DEFINE f == s_fiber_id + 1
    <3>1. /\ pc[t] = "dispatch" /\ pc' = [pc EXCEPT ![t] = "user"] /\ f \in Fiber
          /\ m_state' = [m_state EXCEPT ![f] = "EXEC"]
          /\ ft' = [ft EXCEPT ![t] = NoTask] /\ NoTask.fiber = None
          /\ cb_fiber' = [cb_fiber EXCEPT ![t] = f] /\ overlapped' = overlapped
      BY <1>3 DEF SwapInNewCb, StatesRecycled, TypeThreads, Holding, OnStack, Running, NoTask
    <3> HIDE DEF f
    <3> SUFFICES ASSUME NEW g \in Fiber, m_state'[g] = "EXEC", g \notin overlapped'
                 PROVE  \E s \in Pool : pc'[s] \in Running /\ Current(s)' = g
      BY DEF ExecRuns
    <3>2. CASE g = f
      BY <3>1, <3>2 DEF TypeThreads, Current, Running
    <3>3. CASE g # f
      <4>1. PICK s \in Pool : pc[s] \in Running /\ Current(s) = g
        BY <3>1, <3>3 DEF ExecRuns, TypeFibers
      <4>2. s # t
        BY <3>1, <4>1 DEF Running
      <4> QED BY <3>1, <4>1, <4>2 DEF TypeThreads, Current
    <3> QED BY <3>2, <3>3
  <2> QED BY <2>1, <2>2, <2>3, <2>4, <2>5, <2>6, <2>7, <2>8, <2>9, <2>10, <2>11
<1>4. ASSUME NEW t \in Pool, SwapInOldCb(t) PROVE Places'
  <2>1. QueueApart'
    BY <1>4 DEF SwapInOldCb, QueueApart, ThreadsApart, WaitsHeld, Allocated, TypeThreads, TypeFibers, Current, Holding, OnStack, Running, threadVars, fiberVars, stopVars, countVars, ghostVars, NoTask, Task
  <2>2. ThreadsApart'
    BY <1>4 DEF SwapInOldCb, QueueApart, ThreadsApart, WaitsHeld, Allocated, TypeThreads, TypeFibers, Current, Holding, OnStack, Running, threadVars, fiberVars, stopVars, countVars, ghostVars, NoTask, Task
  <2>3. WaitsHeld'
    BY <1>4 DEF SwapInOldCb, QueueApart, ThreadsApart, WaitsHeld, Allocated, StatesOut, WaitsHold, TypeWaits, TypeThreads, TypeFibers, Current, Holding, OnStack, Running, threadVars, fiberVars, stopVars, countVars, ghostVars, NoTask, Task
  <2>4. WaitsHold'
    <3>1. /\ pc[t] = "dispatch" /\ pc' = [pc EXCEPT ![t] = "user"]
          /\ m_state' = [m_state EXCEPT ![cb_fiber[t]] = "EXEC"]
          /\ ft' = [ft EXCEPT ![t] = NoTask] /\ cb_fiber' = cb_fiber
          /\ UNCHANGED <<waiting, idle_fiber, overlapped>>
          /\ cb_fiber[t] \notin overlapped => m_state[cb_fiber[t]] = "INIT"
      BY <1>4 DEF SwapInOldCb, StatesRecycled, TypeThreads, Holding, OnStack, Running, NoTask
    <3> SUFFICES ASSUME NEW f \in waiting, f \notin overlapped
                 PROVE  m_state'[f] = "HOLD" \/ \E s \in Pool : pc'[s] = "armed" /\ Current(s)' = f
      BY <3>1 DEF WaitsHold
    <3>2. CASE m_state[f] = "HOLD"
      BY <3>1, <3>2 DEF TypeFibers, TypeWaits
    <3>3. CASE \E s \in Pool : pc[s] = "armed" /\ Current(s) = f
      <4>1. PICK s \in Pool : pc[s] = "armed" /\ Current(s) = f
        BY <3>3
      <4>2. s # t
        BY <3>1, <4>1
      <4> QED BY <3>1, <4>1, <4>2 DEF TypeThreads, Current
    <3> QED BY <3>2, <3>3 DEF WaitsHold
  <2>5. Allocated'
    BY <1>4 DEF SwapInOldCb, QueueApart, ThreadsApart, WaitsHeld, Allocated, TypeThreads, TypeFibers, Current, Holding, OnStack, Running, threadVars, fiberVars, stopVars, countVars, ghostVars, NoTask, Task
  <2>6. StatesQueue'
    BY <1>4 DEF SwapInOldCb, QueueApart, ThreadsApart, WaitsHeld, Allocated, WaitsHold, StatesQueue, TypeThreads, TypeFibers, Current, Holding, OnStack, Running, threadVars, fiberVars, stopVars, countVars, ghostVars, NoTask, Task
  <2>7. StatesDispatch'
    BY <1>4 DEF SwapInOldCb, QueueApart, ThreadsApart, WaitsHeld, StatesQueue, Allocated, StatesDispatch, TypeThreads, TypeFibers, Current, Holding, OnStack, Running, threadVars, fiberVars, stopVars, countVars, ghostVars, NoTask, Task
  <2>8. StatesRunning'
    BY <1>4 DEF SwapInOldCb, QueueApart, ThreadsApart, WaitsHeld, Allocated, StatesRunning, TypeThreads, TypeFibers, Current, Holding, OnStack, Running, threadVars, fiberVars, stopVars, countVars, ghostVars, NoTask, Task
  <2>9. StatesOut'
    BY <1>4 DEF SwapInOldCb, QueueApart, ThreadsApart, WaitsHeld, Allocated, StatesOut, TypeThreads, TypeFibers, Current, Holding, OnStack, Running, threadVars, fiberVars, stopVars, countVars, ghostVars, NoTask, Task
  <2>10. StatesRecycled'
    BY <1>4 DEF SwapInOldCb, QueueApart, ThreadsApart, WaitsHeld, Allocated, StatesOut, StatesRecycled, TypeThreads, TypeFibers, Current, Holding, OnStack, Running, threadVars, fiberVars, stopVars, countVars, ghostVars, NoTask, Task
  <2>11. ExecRuns'
    <3> DEFINE f == cb_fiber[t]
    <3>1. /\ pc[t] = "dispatch" /\ pc' = [pc EXCEPT ![t] = "user"] /\ f \in Fiber
          /\ m_state' = [m_state EXCEPT ![f] = "EXEC"]
          /\ ft' = [ft EXCEPT ![t] = NoTask] /\ NoTask.fiber = None
          /\ cb_fiber' = [cb_fiber EXCEPT ![t] = f] /\ overlapped' = overlapped
      BY <1>4 DEF SwapInOldCb, StatesRecycled, TypeThreads, Holding, OnStack, Running, NoTask
    <3> HIDE DEF f
    <3> SUFFICES ASSUME NEW g \in Fiber, m_state'[g] = "EXEC", g \notin overlapped'
                 PROVE  \E s \in Pool : pc'[s] \in Running /\ Current(s)' = g
      BY DEF ExecRuns
    <3>2. CASE g = f
      BY <3>1, <3>2 DEF TypeThreads, Current, Running
    <3>3. CASE g # f
      <4>1. PICK s \in Pool : pc[s] \in Running /\ Current(s) = g
        BY <3>1, <3>3 DEF ExecRuns, TypeFibers
      <4>2. s # t
        BY <3>1, <4>1 DEF Running
      <4> QED BY <3>1, <4>1, <4>2 DEF TypeThreads, Current
    <3> QED BY <3>2, <3>3
  <2> QED BY <2>1, <2>2, <2>3, <2>4, <2>5, <2>6, <2>7, <2>8, <2>9, <2>10, <2>11
<1>5. ASSUME NEW t \in Pool, DropEnded(t) PROVE Places'
  <2>1. QueueApart'
    BY <1>5 DEF DropEnded, QueueApart, ThreadsApart, WaitsHeld, Allocated, TypeThreads, TypeFibers, Current, Holding, OnStack, Running, threadVars, fiberVars, stopVars, countVars, ghostVars, NoTask
  <2>2. ThreadsApart'
    BY <1>5 DEF DropEnded, QueueApart, ThreadsApart, WaitsHeld, Allocated, TypeThreads, TypeFibers, Current, Holding, OnStack, Running, threadVars, fiberVars, stopVars, countVars, ghostVars, NoTask
  <2>3. WaitsHeld'
    BY <1>5 DEF DropEnded, QueueApart, ThreadsApart, WaitsHeld, Allocated, StatesOut, WaitsHold, TypeWaits, TypeThreads, TypeFibers, Current, Holding, OnStack, Running, threadVars, fiberVars, stopVars, countVars, ghostVars, NoTask
  <2>4. WaitsHold'
    BY <1>5 DEF DropEnded, QueueApart, ThreadsApart, WaitsHeld, StatesOut, StatesRunning, StatesRecycled, StatesDispatch, Allocated, WaitsHold, TypeThreads, TypeFibers, Current, Holding, OnStack, Running, threadVars, fiberVars, stopVars, countVars, ghostVars, NoTask
  <2>5. Allocated'
    BY <1>5 DEF DropEnded, QueueApart, ThreadsApart, WaitsHeld, Allocated, TypeThreads, TypeFibers, Current, Holding, OnStack, Running, threadVars, fiberVars, stopVars, countVars, ghostVars, NoTask
  <2>6. StatesQueue'
    BY <1>5 DEF DropEnded, QueueApart, ThreadsApart, WaitsHeld, Allocated, WaitsHold, StatesQueue, TypeThreads, TypeFibers, Current, Holding, OnStack, Running, threadVars, fiberVars, stopVars, countVars, ghostVars, NoTask
  <2>7. StatesDispatch'
    BY <1>5 DEF DropEnded, QueueApart, ThreadsApart, WaitsHeld, StatesQueue, Allocated, StatesDispatch, TypeThreads, TypeFibers, Current, Holding, OnStack, Running, threadVars, fiberVars, stopVars, countVars, ghostVars, NoTask
  <2>8. StatesRunning'
    BY <1>5 DEF DropEnded, QueueApart, ThreadsApart, WaitsHeld, Allocated, StatesRunning, TypeThreads, TypeFibers, Current, Holding, OnStack, Running, threadVars, fiberVars, stopVars, countVars, ghostVars, NoTask
  <2>9. StatesOut'
    BY <1>5 DEF DropEnded, QueueApart, ThreadsApart, WaitsHeld, Allocated, StatesOut, TypeThreads, TypeFibers, Current, Holding, OnStack, Running, threadVars, fiberVars, stopVars, countVars, ghostVars, NoTask
  <2>10. StatesRecycled'
    BY <1>5 DEF DropEnded, QueueApart, ThreadsApart, WaitsHeld, Allocated, StatesOut, StatesRecycled, TypeThreads, TypeFibers, Current, Holding, OnStack, Running, threadVars, fiberVars, stopVars, countVars, ghostVars, NoTask
  <2>11. ExecRuns'
    BY <1>5 DEF DropEnded, QueueApart, ThreadsApart, WaitsHeld, StatesRunning, StatesOut, StatesRecycled, ExecRuns, TypeThreads, TypeFibers, Current, Holding, OnStack, Running, threadVars, fiberVars, stopVars, countVars, ghostVars, NoTask
  <2> QED BY <2>1, <2>2, <2>3, <2>4, <2>5, <2>6, <2>7, <2>8, <2>9, <2>10, <2>11
<1>6. ASSUME NEW t \in Pool, EnterIdle(t) PROVE Places'
  <2>1. QueueApart'
    BY <1>6 DEF EnterIdle, QueueApart, ThreadsApart, WaitsHeld, Allocated, TypeThreads, TypeFibers, Current, Holding, OnStack, Running, threadVars, fiberVars, stopVars, countVars, ghostVars, NoTask
  <2>2. ThreadsApart'
    BY <1>6 DEF EnterIdle, QueueApart, ThreadsApart, WaitsHeld, Allocated, TypeThreads, TypeFibers, Current, Holding, OnStack, Running, threadVars, fiberVars, stopVars, countVars, ghostVars, NoTask
  <2>3. WaitsHeld'
    BY <1>6 DEF EnterIdle, QueueApart, ThreadsApart, WaitsHeld, Allocated, StatesOut, WaitsHold, TypeWaits, TypeThreads, TypeFibers, Current, Holding, OnStack, Running, threadVars, fiberVars, stopVars, countVars, ghostVars, NoTask
  <2>4. WaitsHold'
    BY <1>6 DEF EnterIdle, QueueApart, ThreadsApart, WaitsHeld, StatesOut, StatesRunning, StatesRecycled, StatesDispatch, Allocated, WaitsHold, TypeThreads, TypeFibers, Current, Holding, OnStack, Running, threadVars, fiberVars, stopVars, countVars, ghostVars, NoTask
  <2>5. Allocated'
    BY <1>6 DEF EnterIdle, QueueApart, ThreadsApart, WaitsHeld, Allocated, TypeThreads, TypeFibers, Current, Holding, OnStack, Running, threadVars, fiberVars, stopVars, countVars, ghostVars, NoTask
  <2>6. StatesQueue'
    BY <1>6 DEF EnterIdle, QueueApart, ThreadsApart, WaitsHeld, Allocated, WaitsHold, StatesQueue, TypeThreads, TypeFibers, Current, Holding, OnStack, Running, threadVars, fiberVars, stopVars, countVars, ghostVars, NoTask
  <2>7. StatesDispatch'
    BY <1>6 DEF EnterIdle, QueueApart, ThreadsApart, WaitsHeld, StatesQueue, Allocated, StatesDispatch, TypeThreads, TypeFibers, Current, Holding, OnStack, Running, threadVars, fiberVars, stopVars, countVars, ghostVars, NoTask
  <2>8. StatesRunning'
    BY <1>6 DEF EnterIdle, QueueApart, ThreadsApart, WaitsHeld, Allocated, StatesRunning, TypeThreads, TypeFibers, Current, Holding, OnStack, Running, threadVars, fiberVars, stopVars, countVars, ghostVars, NoTask
  <2>9. StatesOut'
    BY <1>6 DEF EnterIdle, QueueApart, ThreadsApart, WaitsHeld, Allocated, StatesOut, TypeThreads, TypeFibers, Current, Holding, OnStack, Running, threadVars, fiberVars, stopVars, countVars, ghostVars, NoTask
  <2>10. StatesRecycled'
    BY <1>6 DEF EnterIdle, QueueApart, ThreadsApart, WaitsHeld, Allocated, StatesOut, StatesRecycled, TypeThreads, TypeFibers, Current, Holding, OnStack, Running, threadVars, fiberVars, stopVars, countVars, ghostVars, NoTask
  <2>11. ExecRuns'
    BY <1>6 DEF EnterIdle, QueueApart, ThreadsApart, WaitsHeld, StatesRunning, StatesOut, StatesRecycled, ExecRuns, TypeThreads, TypeFibers, Current, Holding, OnStack, Running, threadVars, fiberVars, stopVars, countVars, ghostVars, NoTask
  <2> QED BY <2>1, <2>2, <2>3, <2>4, <2>5, <2>6, <2>7, <2>8, <2>9, <2>10, <2>11
<1>7. ASSUME NEW t \in Pool, LeaveIdle(t) PROVE Places'
  <2>1. QueueApart'
    BY <1>7 DEF LeaveIdle, QueueApart, ThreadsApart, WaitsHeld, Allocated, TypeThreads, TypeFibers, Current, Holding, OnStack, Running, threadVars, fiberVars, stopVars, countVars, ghostVars, FtEmpty, NoTask
  <2>2. ThreadsApart'
    BY <1>7 DEF LeaveIdle, QueueApart, ThreadsApart, WaitsHeld, Allocated, TypeThreads, TypeFibers, Current, Holding, OnStack, Running, threadVars, fiberVars, stopVars, countVars, ghostVars, FtEmpty, NoTask
  <2>3. WaitsHeld'
    BY <1>7 DEF LeaveIdle, QueueApart, ThreadsApart, WaitsHeld, Allocated, StatesOut, WaitsHold, TypeWaits, TypeThreads, TypeFibers, Current, Holding, OnStack, Running, threadVars, fiberVars, stopVars, countVars, ghostVars, FtEmpty, NoTask
  <2>4. WaitsHold'
    BY <1>7 DEF LeaveIdle, QueueApart, ThreadsApart, WaitsHeld, StatesOut, StatesRunning, StatesRecycled, StatesDispatch, Allocated, WaitsHold, TypeThreads, TypeFibers, Current, Holding, OnStack, Running, threadVars, fiberVars, stopVars, countVars, ghostVars, FtEmpty, NoTask
  <2>5. Allocated'
    BY <1>7 DEF LeaveIdle, QueueApart, ThreadsApart, WaitsHeld, Allocated, TypeThreads, TypeFibers, Current, Holding, OnStack, Running, threadVars, fiberVars, stopVars, countVars, ghostVars, FtEmpty, NoTask
  <2>6. StatesQueue'
    BY <1>7 DEF LeaveIdle, QueueApart, ThreadsApart, WaitsHeld, Allocated, WaitsHold, StatesQueue, TypeThreads, TypeFibers, Current, Holding, OnStack, Running, threadVars, fiberVars, stopVars, countVars, ghostVars, FtEmpty, NoTask
  <2>7. StatesDispatch'
    BY <1>7 DEF LeaveIdle, QueueApart, ThreadsApart, WaitsHeld, StatesQueue, Allocated, StatesDispatch, TypeThreads, TypeFibers, Current, Holding, OnStack, Running, threadVars, fiberVars, stopVars, countVars, ghostVars, FtEmpty, NoTask
  <2>8. StatesRunning'
    BY <1>7 DEF LeaveIdle, QueueApart, ThreadsApart, WaitsHeld, Allocated, StatesRunning, TypeThreads, TypeFibers, Current, Holding, OnStack, Running, threadVars, fiberVars, stopVars, countVars, ghostVars, FtEmpty, NoTask
  <2>9. StatesOut'
    BY <1>7 DEF LeaveIdle, QueueApart, ThreadsApart, WaitsHeld, Allocated, StatesOut, TypeThreads, TypeFibers, Current, Holding, OnStack, Running, threadVars, fiberVars, stopVars, countVars, ghostVars, FtEmpty, NoTask
  <2>10. StatesRecycled'
    BY <1>7 DEF LeaveIdle, QueueApart, ThreadsApart, WaitsHeld, Allocated, StatesOut, StatesRecycled, TypeThreads, TypeFibers, Current, Holding, OnStack, Running, threadVars, fiberVars, stopVars, countVars, ghostVars, FtEmpty, NoTask
  <2>11. ExecRuns'
    BY <1>7 DEF LeaveIdle, QueueApart, ThreadsApart, WaitsHeld, StatesRunning, StatesOut, StatesRecycled, ExecRuns, TypeThreads, TypeFibers, Current, Holding, OnStack, Running, threadVars, fiberVars, stopVars, countVars, ghostVars, FtEmpty, NoTask
  <2> QED BY <2>1, <2>2, <2>3, <2>4, <2>5, <2>6, <2>7, <2>8, <2>9, <2>10, <2>11
<1>8. ASSUME NEW t \in Pool, Exit(t) PROVE Places'
  <2>1. QueueApart'
    BY <1>8 DEF Exit, QueueApart, ThreadsApart, WaitsHeld, Allocated, TypeThreads, TypeFibers, Current, Holding, OnStack, Running, threadVars, fiberVars, stopVars, countVars, ghostVars, NoTask
  <2>2. ThreadsApart'
    BY <1>8 DEF Exit, QueueApart, ThreadsApart, WaitsHeld, Allocated, TypeThreads, TypeFibers, Current, Holding, OnStack, Running, threadVars, fiberVars, stopVars, countVars, ghostVars, NoTask
  <2>3. WaitsHeld'
    BY <1>8 DEF Exit, QueueApart, ThreadsApart, WaitsHeld, Allocated, StatesOut, WaitsHold, TypeWaits, TypeThreads, TypeFibers, Current, Holding, OnStack, Running, threadVars, fiberVars, stopVars, countVars, ghostVars, NoTask
  <2>4. WaitsHold'
    BY <1>8 DEF Exit, QueueApart, ThreadsApart, WaitsHeld, StatesOut, StatesRunning, StatesRecycled, StatesDispatch, Allocated, WaitsHold, TypeThreads, TypeFibers, Current, Holding, OnStack, Running, threadVars, fiberVars, stopVars, countVars, ghostVars, NoTask
  <2>5. Allocated'
    BY <1>8 DEF Exit, QueueApart, ThreadsApart, WaitsHeld, Allocated, TypeThreads, TypeFibers, Current, Holding, OnStack, Running, threadVars, fiberVars, stopVars, countVars, ghostVars, NoTask
  <2>6. StatesQueue'
    BY <1>8 DEF Exit, QueueApart, ThreadsApart, WaitsHeld, Allocated, WaitsHold, StatesQueue, TypeThreads, TypeFibers, Current, Holding, OnStack, Running, threadVars, fiberVars, stopVars, countVars, ghostVars, NoTask
  <2>7. StatesDispatch'
    BY <1>8 DEF Exit, QueueApart, ThreadsApart, WaitsHeld, StatesQueue, Allocated, StatesDispatch, TypeThreads, TypeFibers, Current, Holding, OnStack, Running, threadVars, fiberVars, stopVars, countVars, ghostVars, NoTask
  <2>8. StatesRunning'
    BY <1>8 DEF Exit, QueueApart, ThreadsApart, WaitsHeld, Allocated, StatesRunning, TypeThreads, TypeFibers, Current, Holding, OnStack, Running, threadVars, fiberVars, stopVars, countVars, ghostVars, NoTask
  <2>9. StatesOut'
    BY <1>8 DEF Exit, QueueApart, ThreadsApart, WaitsHeld, Allocated, StatesOut, TypeThreads, TypeFibers, Current, Holding, OnStack, Running, threadVars, fiberVars, stopVars, countVars, ghostVars, NoTask
  <2>10. StatesRecycled'
    BY <1>8 DEF Exit, QueueApart, ThreadsApart, WaitsHeld, Allocated, StatesOut, StatesRecycled, TypeThreads, TypeFibers, Current, Holding, OnStack, Running, threadVars, fiberVars, stopVars, countVars, ghostVars, NoTask
  <2>11. ExecRuns'
    BY <1>8 DEF Exit, QueueApart, ThreadsApart, WaitsHeld, StatesRunning, StatesOut, StatesRecycled, ExecRuns, TypeThreads, TypeFibers, Current, Holding, OnStack, Running, threadVars, fiberVars, stopVars, countVars, ghostVars, NoTask
  <2> QED BY <2>1, <2>2, <2>3, <2>4, <2>5, <2>6, <2>7, <2>8, <2>9, <2>10, <2>11
<1>9. ASSUME NEW t \in Pool, SwapOut(t) PROVE Places'
  <2>0. Current(t) \in Fiber
    BY <1>9, CurrentType DEF SwapOut, Holding, OnStack, Running
  <2>1. QueueApart'
    BY <1>9, <2>0 DEF SwapOut, QueueApart, ThreadsApart, WaitsHeld, Allocated, TypeThreads, TypeFibers, Current, Holding, OnStack, Running, threadVars, fiberVars, stopVars, countVars, ghostVars
  <2>2. ThreadsApart'
    BY <1>9, <2>0 DEF SwapOut, QueueApart, ThreadsApart, WaitsHeld, Allocated, TypeThreads, TypeFibers, Current, Holding, OnStack, Running, threadVars, fiberVars, stopVars, countVars, ghostVars
  <2>3. WaitsHeld'
    BY <1>9, <2>0 DEF SwapOut, QueueApart, ThreadsApart, WaitsHeld, Allocated, StatesOut, WaitsHold, TypeWaits, TypeThreads, TypeFibers, Current, Holding, OnStack, Running, threadVars, fiberVars, stopVars, countVars, ghostVars
  <2>4. WaitsHold'
    BY <1>9, <2>0 DEF SwapOut, QueueApart, ThreadsApart, WaitsHeld, StatesOut, StatesRunning, StatesRecycled, StatesDispatch, Allocated, WaitsHold, TypeThreads, TypeFibers, Current, Holding, OnStack, Running, threadVars, fiberVars, stopVars, countVars, ghostVars
  <2>5. Allocated'
    BY <1>9, <2>0 DEF SwapOut, QueueApart, ThreadsApart, WaitsHeld, Allocated, TypeThreads, TypeFibers, Current, Holding, OnStack, Running, threadVars, fiberVars, stopVars, countVars, ghostVars
  <2>6. StatesQueue'
    BY <1>9, <2>0 DEF SwapOut, QueueApart, ThreadsApart, WaitsHeld, Allocated, WaitsHold, StatesQueue, TypeThreads, TypeFibers, Current, Holding, OnStack, Running, threadVars, fiberVars, stopVars, countVars, ghostVars
  <2>7. StatesDispatch'
    BY <1>9, <2>0 DEF SwapOut, QueueApart, ThreadsApart, WaitsHeld, StatesQueue, Allocated, StatesDispatch, TypeThreads, TypeFibers, Current, Holding, OnStack, Running, threadVars, fiberVars, stopVars, countVars, ghostVars
  <2>8. StatesRunning'
    BY <1>9, <2>0 DEF SwapOut, QueueApart, ThreadsApart, WaitsHeld, Allocated, StatesRunning, TypeThreads, TypeFibers, Current, Holding, OnStack, Running, threadVars, fiberVars, stopVars, countVars, ghostVars
  <2>9. StatesOut'
    BY <1>9, <2>0 DEF SwapOut, QueueApart, ThreadsApart, WaitsHeld, Allocated, StatesOut, TypeThreads, TypeFibers, Current, Holding, OnStack, Running, threadVars, fiberVars, stopVars, countVars, ghostVars
  <2>10. StatesRecycled'
    BY <1>9, <2>0 DEF SwapOut, QueueApart, ThreadsApart, WaitsHeld, Allocated, StatesOut, StatesRecycled, TypeThreads, TypeFibers, Current, Holding, OnStack, Running, threadVars, fiberVars, stopVars, countVars, ghostVars
  <2>11. ExecRuns'
    BY <1>9, <2>0 DEF SwapOut, QueueApart, ThreadsApart, WaitsHeld, StatesRunning, StatesOut, StatesRecycled, ExecRuns, TypeThreads, TypeFibers, Current, Holding, OnStack, Running, threadVars, fiberVars, stopVars, countVars, ghostVars
  <2> QED BY <2>1, <2>2, <2>3, <2>4, <2>5, <2>6, <2>7, <2>8, <2>9, <2>10, <2>11
<1>10. ASSUME NEW t \in Pool, SettleEnded(t) PROVE Places'
  <2>0. Current(t) \in Fiber
    BY <1>10, CurrentType DEF SettleEnded, Holding, OnStack, Running
  <2>a. m_state' = IF ft[t].fiber = None THEN [m_state EXCEPT ![Current(t)] = "INIT"]
                                         ELSE m_state
    BY <1>10 DEF SettleEnded
  <2>b. /\ pc[t] = "settle" /\ pc' = [pc EXCEPT ![t] = "scan"]
        /\ m_state[Current(t)] \in {"TERM", "EXCEPT"}
        /\ ft' = [ft EXCEPT ![t] = NoTask] /\ NoTask.fiber = None
        /\ UNCHANGED <<m_fibers, waiting, handles, cb_fiber, s_fiber_id, overlapped>>
    BY <1>10 DEF SettleEnded, NoTask
  <2>1. QueueApart'
    BY <2>0, <2>a, <2>b DEF QueueApart, ThreadsApart, WaitsHeld, Allocated, TypeThreads, TypeFibers, Current, Holding, OnStack, Running
  <2>2. ThreadsApart'
    BY <2>0, <2>a, <2>b DEF QueueApart, ThreadsApart, WaitsHeld, Allocated, TypeThreads, TypeFibers, Current, Holding, OnStack, Running
  <2>3. WaitsHeld'
    BY <2>0, <2>a, <2>b DEF QueueApart, ThreadsApart, WaitsHeld, Allocated, StatesOut, WaitsHold, TypeWaits, TypeThreads, TypeFibers, Current, Holding, OnStack, Running
  <2>4. WaitsHold'
    BY <2>0, <2>a, <2>b DEF QueueApart, ThreadsApart, WaitsHeld, StatesOut, StatesRunning, StatesRecycled, StatesDispatch, Allocated, WaitsHold, TypeThreads, TypeFibers, Current, Holding, OnStack, Running
  <2>5. Allocated'
    BY <2>0, <2>a, <2>b DEF QueueApart, ThreadsApart, WaitsHeld, Allocated, TypeThreads, TypeFibers, Current, Holding, OnStack, Running
  <2>6. StatesQueue'
    BY <2>0, <2>a, <2>b DEF QueueApart, ThreadsApart, WaitsHeld, Allocated, WaitsHold, StatesQueue, TypeThreads, TypeFibers, Current, Holding, OnStack, Running
  <2>7. StatesDispatch'
    BY <2>0, <2>a, <2>b DEF QueueApart, ThreadsApart, WaitsHeld, StatesQueue, Allocated, StatesDispatch, TypeThreads, TypeFibers, Current, Holding, OnStack, Running
  <2>8. StatesRunning'
    BY <2>0, <2>a, <2>b DEF QueueApart, ThreadsApart, WaitsHeld, Allocated, StatesRunning, TypeThreads, TypeFibers, Current, Holding, OnStack, Running
  <2>9. StatesOut'
    BY <2>0, <2>a, <2>b DEF QueueApart, ThreadsApart, WaitsHeld, Allocated, StatesOut, TypeThreads, TypeFibers, Current, Holding, OnStack, Running
  <2>10. StatesRecycled'
    BY <2>0, <2>a, <2>b DEF QueueApart, ThreadsApart, WaitsHeld, Allocated, StatesOut, StatesRecycled, TypeThreads, TypeFibers, Current, Holding, OnStack, Running
  <2>11. ExecRuns'
    BY <2>0, <2>a, <2>b DEF QueueApart, ThreadsApart, WaitsHeld, StatesRunning, StatesOut, StatesRecycled, ExecRuns, TypeThreads, TypeFibers, Current, Holding, OnStack, Running
  <2> QED BY <2>1, <2>2, <2>3, <2>4, <2>5, <2>6, <2>7, <2>8, <2>9, <2>10, <2>11
<1>11. ASSUME NEW t \in Pool, SettleHold(t) PROVE Places'
  <2>0. Current(t) \in Fiber
    BY <1>11, CurrentType DEF SettleHold, Holding, OnStack, Running
  <2>1. QueueApart'
    BY <1>11, <2>0 DEF SettleHold, QueueApart, ThreadsApart, WaitsHeld, Allocated, TypeThreads, TypeFibers, Current, Holding, OnStack, Running, threadVars, fiberVars, stopVars, countVars, ghostVars, CbFiberReleased, NoTask
  <2>2. ThreadsApart'
    BY <1>11, <2>0 DEF SettleHold, QueueApart, ThreadsApart, WaitsHeld, Allocated, TypeThreads, TypeFibers, Current, Holding, OnStack, Running, threadVars, fiberVars, stopVars, countVars, ghostVars, CbFiberReleased, NoTask
  <2>3. WaitsHeld'
    BY <1>11, <2>0 DEF SettleHold, QueueApart, ThreadsApart, WaitsHeld, Allocated, StatesOut, WaitsHold, TypeWaits, TypeThreads, TypeFibers, Current, Holding, OnStack, Running, threadVars, fiberVars, stopVars, countVars, ghostVars, CbFiberReleased, NoTask
  <2>4. WaitsHold'
    BY <1>11, <2>0 DEF SettleHold, QueueApart, ThreadsApart, WaitsHeld, StatesOut, StatesRunning, StatesRecycled, StatesDispatch, Allocated, WaitsHold, TypeThreads, TypeFibers, Current, Holding, OnStack, Running, threadVars, fiberVars, stopVars, countVars, ghostVars, CbFiberReleased, NoTask
  <2>5. Allocated'
    BY <1>11, <2>0 DEF SettleHold, QueueApart, ThreadsApart, WaitsHeld, Allocated, TypeThreads, TypeFibers, Current, Holding, OnStack, Running, threadVars, fiberVars, stopVars, countVars, ghostVars, CbFiberReleased, NoTask
  <2>6. StatesQueue'
    BY <1>11, <2>0 DEF SettleHold, QueueApart, ThreadsApart, WaitsHeld, Allocated, WaitsHold, StatesQueue, TypeThreads, TypeFibers, Current, Holding, OnStack, Running, threadVars, fiberVars, stopVars, countVars, ghostVars, CbFiberReleased, NoTask
  <2>7. StatesDispatch'
    BY <1>11, <2>0 DEF SettleHold, QueueApart, ThreadsApart, WaitsHeld, StatesQueue, Allocated, StatesDispatch, TypeThreads, TypeFibers, Current, Holding, OnStack, Running, threadVars, fiberVars, stopVars, countVars, ghostVars, CbFiberReleased, NoTask
  <2>8. StatesRunning'
    BY <1>11, <2>0 DEF SettleHold, QueueApart, ThreadsApart, WaitsHeld, Allocated, StatesRunning, TypeThreads, TypeFibers, Current, Holding, OnStack, Running, threadVars, fiberVars, stopVars, countVars, ghostVars, CbFiberReleased, NoTask
  <2>9. StatesOut'
    BY <1>11, <2>0 DEF SettleHold, QueueApart, ThreadsApart, WaitsHeld, Allocated, StatesOut, TypeThreads, TypeFibers, Current, Holding, OnStack, Running, threadVars, fiberVars, stopVars, countVars, ghostVars, CbFiberReleased, NoTask
  <2>10. StatesRecycled'
    BY <1>11, <2>0 DEF SettleHold, QueueApart, ThreadsApart, WaitsHeld, Allocated, StatesOut, StatesRecycled, TypeThreads, TypeFibers, Current, Holding, OnStack, Running, threadVars, fiberVars, stopVars, countVars, ghostVars, CbFiberReleased, NoTask
  <2>11. ExecRuns'
    BY <1>11, <2>0 DEF SettleHold, QueueApart, ThreadsApart, WaitsHeld, StatesRunning, StatesOut, StatesRecycled, ExecRuns, TypeThreads, TypeFibers, Current, Holding, OnStack, Running, threadVars, fiberVars, stopVars, countVars, ghostVars, CbFiberReleased, NoTask
  <2> QED BY <2>1, <2>2, <2>3, <2>4, <2>5, <2>6, <2>7, <2>8, <2>9, <2>10, <2>11
<1>12. ASSUME NEW t \in Pool, YieldToReady(t) PROVE Places'
  <2>0. Current(t) \in Fiber
    BY <1>12, CurrentType DEF YieldToReady, Holding, OnStack, Running
  <2>1. QueueApart'
    BY <1>12, <2>0 DEF YieldToReady, QueueApart, ThreadsApart, WaitsHeld, Allocated, TypeThreads, TypeFibers, Current, Holding, OnStack, Running, threadVars, fiberVars, stopVars, countVars, ghostVars
  <2>2. ThreadsApart'
    BY <1>12, <2>0 DEF YieldToReady, QueueApart, ThreadsApart, WaitsHeld, Allocated, TypeThreads, TypeFibers, Current, Holding, OnStack, Running, threadVars, fiberVars, stopVars, countVars, ghostVars
  <2>3. WaitsHeld'
    BY <1>12, <2>0 DEF YieldToReady, QueueApart, ThreadsApart, WaitsHeld, Allocated, StatesOut, WaitsHold, TypeWaits, TypeThreads, TypeFibers, Current, Holding, OnStack, Running, threadVars, fiberVars, stopVars, countVars, ghostVars
  <2>4. WaitsHold'
    BY <1>12, <2>0 DEF YieldToReady, QueueApart, ThreadsApart, WaitsHeld, StatesOut, StatesRunning, StatesRecycled, StatesDispatch, Allocated, WaitsHold, TypeThreads, TypeFibers, Current, Holding, OnStack, Running, threadVars, fiberVars, stopVars, countVars, ghostVars
  <2>5. Allocated'
    BY <1>12, <2>0 DEF YieldToReady, QueueApart, ThreadsApart, WaitsHeld, Allocated, TypeThreads, TypeFibers, Current, Holding, OnStack, Running, threadVars, fiberVars, stopVars, countVars, ghostVars
  <2>6. StatesQueue'
    BY <1>12, <2>0 DEF YieldToReady, QueueApart, ThreadsApart, WaitsHeld, Allocated, WaitsHold, StatesQueue, TypeThreads, TypeFibers, Current, Holding, OnStack, Running, threadVars, fiberVars, stopVars, countVars, ghostVars
  <2>7. StatesDispatch'
    BY <1>12, <2>0 DEF YieldToReady, QueueApart, ThreadsApart, WaitsHeld, StatesQueue, Allocated, StatesDispatch, TypeThreads, TypeFibers, Current, Holding, OnStack, Running, threadVars, fiberVars, stopVars, countVars, ghostVars
  <2>8. StatesRunning'
    BY <1>12, <2>0 DEF YieldToReady, QueueApart, ThreadsApart, WaitsHeld, Allocated, StatesRunning, TypeThreads, TypeFibers, Current, Holding, OnStack, Running, threadVars, fiberVars, stopVars, countVars, ghostVars
  <2>9. StatesOut'
    BY <1>12, <2>0 DEF YieldToReady, QueueApart, ThreadsApart, WaitsHeld, Allocated, StatesOut, TypeThreads, TypeFibers, Current, Holding, OnStack, Running, threadVars, fiberVars, stopVars, countVars, ghostVars
  <2>10. StatesRecycled'
    BY <1>12, <2>0 DEF YieldToReady, QueueApart, ThreadsApart, WaitsHeld, Allocated, StatesOut, StatesRecycled, TypeThreads, TypeFibers, Current, Holding, OnStack, Running, threadVars, fiberVars, stopVars, countVars, ghostVars
  <2>11. ExecRuns'
    BY <1>12, <2>0 DEF YieldToReady, QueueApart, ThreadsApart, WaitsHeld, StatesRunning, StatesOut, StatesRecycled, ExecRuns, TypeThreads, TypeFibers, Current, Holding, OnStack, Running, threadVars, fiberVars, stopVars, countVars, ghostVars
  <2> QED BY <2>1, <2>2, <2>3, <2>4, <2>5, <2>6, <2>7, <2>8, <2>9, <2>10, <2>11
<1>13. ASSUME NEW t \in Pool, Register(t) PROVE Places'
  <2>0. Current(t) \in Fiber
    BY <1>13, CurrentType DEF Register, Holding, OnStack, Running
  <2>1. QueueApart'
    BY <1>13, <2>0 DEF Register, QueueApart, ThreadsApart, WaitsHeld, Allocated, TypeThreads, TypeFibers, Current, Holding, OnStack, Running, threadVars, fiberVars, stopVars, countVars, ghostVars
  <2>2. ThreadsApart'
    BY <1>13, <2>0 DEF Register, QueueApart, ThreadsApart, WaitsHeld, Allocated, TypeThreads, TypeFibers, Current, Holding, OnStack, Running, threadVars, fiberVars, stopVars, countVars, ghostVars
  <2>a. /\ pc[t] = "user" /\ pc' = [pc EXCEPT ![t] = "armed"]
        /\ waiting' = waiting \cup {Current(t)} /\ UNCHANGED <<ft, cb_fiber, overlapped>>
    BY <1>13 DEF Register
  <2>3. WaitsHeld'
    <3> SUFFICES ASSUME NEW g \in waiting', NEW s \in Pool, g \in {ft[s].fiber, cb_fiber[s]},
                        g \notin overlapped
                 PROVE  Current(s) = g /\ pc'[s] \in {"armed", "swapOut", "settle"}
      BY <2>a DEF WaitsHeld, Current
    <3>1. CASE g = Current(t)
      <4>1. s = t
        BY <3>1, <2>0 DEF ThreadsApart, Current
      <4> QED BY <4>1, <3>1, <2>a DEF TypeThreads
    <3>2. CASE g \in waiting
      BY <3>2, <2>a DEF WaitsHeld, TypeThreads
    <3> QED BY <3>1, <3>2, <2>a
  <2>4. WaitsHold'
    BY <1>13, <2>0 DEF Register, QueueApart, ThreadsApart, WaitsHeld, StatesOut, StatesRunning, StatesRecycled, StatesDispatch, Allocated, WaitsHold, TypeThreads, TypeFibers, Current, Holding, OnStack, Running, threadVars, fiberVars, stopVars, countVars, ghostVars
  <2>5. Allocated'
    BY <1>13, <2>0 DEF Register, QueueApart, ThreadsApart, WaitsHeld, Allocated, TypeThreads, TypeFibers, Current, Holding, OnStack, Running, threadVars, fiberVars, stopVars, countVars, ghostVars
  <2>6. StatesQueue'
    BY <1>13, <2>0 DEF Register, QueueApart, ThreadsApart, WaitsHeld, Allocated, WaitsHold, StatesQueue, TypeThreads, TypeFibers, Current, Holding, OnStack, Running, threadVars, fiberVars, stopVars, countVars, ghostVars
  <2>7. StatesDispatch'
    BY <1>13, <2>0 DEF Register, QueueApart, ThreadsApart, WaitsHeld, StatesQueue, Allocated, StatesDispatch, TypeThreads, TypeFibers, Current, Holding, OnStack, Running, threadVars, fiberVars, stopVars, countVars, ghostVars
  <2>8. StatesRunning'
    BY <1>13, <2>0 DEF Register, QueueApart, ThreadsApart, WaitsHeld, Allocated, StatesRunning, TypeThreads, TypeFibers, Current, Holding, OnStack, Running, threadVars, fiberVars, stopVars, countVars, ghostVars
  <2>9. StatesOut'
    BY <1>13, <2>0 DEF Register, QueueApart, ThreadsApart, WaitsHeld, Allocated, StatesOut, TypeThreads, TypeFibers, Current, Holding, OnStack, Running, threadVars, fiberVars, stopVars, countVars, ghostVars
  <2>10. StatesRecycled'
    BY <1>13, <2>0 DEF Register, QueueApart, ThreadsApart, WaitsHeld, Allocated, StatesOut, StatesRecycled, TypeThreads, TypeFibers, Current, Holding, OnStack, Running, threadVars, fiberVars, stopVars, countVars, ghostVars
  <2>11. ExecRuns'
    BY <1>13, <2>0 DEF Register, QueueApart, ThreadsApart, WaitsHeld, StatesRunning, StatesOut, StatesRecycled, ExecRuns, TypeThreads, TypeFibers, Current, Holding, OnStack, Running, threadVars, fiberVars, stopVars, countVars, ghostVars
  <2> QED BY <2>1, <2>2, <2>3, <2>4, <2>5, <2>6, <2>7, <2>8, <2>9, <2>10, <2>11
<1>14. ASSUME NEW t \in Pool, YieldToHold(t) PROVE Places'
  <2>0. Current(t) \in Fiber
    BY <1>14, CurrentType DEF YieldToHold, Holding, OnStack, Running
  <2>1. QueueApart'
    BY <1>14, <2>0 DEF YieldToHold, QueueApart, ThreadsApart, WaitsHeld, Allocated, TypeThreads, TypeFibers, Current, Holding, OnStack, Running, threadVars, fiberVars, stopVars, countVars, ghostVars
  <2>2. ThreadsApart'
    BY <1>14, <2>0 DEF YieldToHold, QueueApart, ThreadsApart, WaitsHeld, Allocated, TypeThreads, TypeFibers, Current, Holding, OnStack, Running, threadVars, fiberVars, stopVars, countVars, ghostVars
  <2>3. WaitsHeld'
    BY <1>14, <2>0 DEF YieldToHold, QueueApart, ThreadsApart, WaitsHeld, Allocated, StatesOut, WaitsHold, TypeWaits, TypeThreads, TypeFibers, Current, Holding, OnStack, Running, threadVars, fiberVars, stopVars, countVars, ghostVars
  <2>4. WaitsHold'
    BY <1>14, <2>0 DEF YieldToHold, QueueApart, ThreadsApart, WaitsHeld, StatesOut, StatesRunning, StatesRecycled, StatesDispatch, Allocated, WaitsHold, TypeThreads, TypeFibers, Current, Holding, OnStack, Running, threadVars, fiberVars, stopVars, countVars, ghostVars
  <2>5. Allocated'
    BY <1>14, <2>0 DEF YieldToHold, QueueApart, ThreadsApart, WaitsHeld, Allocated, TypeThreads, TypeFibers, Current, Holding, OnStack, Running, threadVars, fiberVars, stopVars, countVars, ghostVars
  <2>6. StatesQueue'
    BY <1>14, <2>0 DEF YieldToHold, QueueApart, ThreadsApart, WaitsHeld, Allocated, WaitsHold, StatesQueue, TypeThreads, TypeFibers, Current, Holding, OnStack, Running, threadVars, fiberVars, stopVars, countVars, ghostVars
  <2>7. StatesDispatch'
    BY <1>14, <2>0 DEF YieldToHold, QueueApart, ThreadsApart, WaitsHeld, StatesQueue, Allocated, StatesDispatch, TypeThreads, TypeFibers, Current, Holding, OnStack, Running, threadVars, fiberVars, stopVars, countVars, ghostVars
  <2>8. StatesRunning'
    BY <1>14, <2>0 DEF YieldToHold, QueueApart, ThreadsApart, WaitsHeld, Allocated, StatesRunning, TypeThreads, TypeFibers, Current, Holding, OnStack, Running, threadVars, fiberVars, stopVars, countVars, ghostVars
  <2>9. StatesOut'
    BY <1>14, <2>0 DEF YieldToHold, QueueApart, ThreadsApart, WaitsHeld, Allocated, StatesOut, TypeThreads, TypeFibers, Current, Holding, OnStack, Running, threadVars, fiberVars, stopVars, countVars, ghostVars
  <2>10. StatesRecycled'
    BY <1>14, <2>0 DEF YieldToHold, QueueApart, ThreadsApart, WaitsHeld, Allocated, StatesOut, StatesRecycled, TypeThreads, TypeFibers, Current, Holding, OnStack, Running, threadVars, fiberVars, stopVars, countVars, ghostVars
  <2>11. ExecRuns'
    BY <1>14, <2>0 DEF YieldToHold, QueueApart, ThreadsApart, WaitsHeld, StatesRunning, StatesOut, StatesRecycled, ExecRuns, TypeThreads, TypeFibers, Current, Holding, OnStack, Running, threadVars, fiberVars, stopVars, countVars, ghostVars
  <2> QED BY <2>1, <2>2, <2>3, <2>4, <2>5, <2>6, <2>7, <2>8, <2>9, <2>10, <2>11
<1>15. ASSUME NEW t \in Pool, Finish(t) PROVE Places'
  <2>0. Current(t) \in Fiber
    BY <1>15, CurrentType DEF Finish, Holding, OnStack, Running
  <2>a. PICK st \in {"TERM", "EXCEPT"} : m_state' = [m_state EXCEPT ![Current(t)] = st]
    BY <1>15 DEF Finish
  <2>b. /\ pc[t] = "user" /\ pc' = [pc EXCEPT ![t] = "swapOut"]
        /\ UNCHANGED <<m_fibers, waiting, handles, ft, cb_fiber, s_fiber_id, overlapped>>
    BY <1>15 DEF Finish
  <2>1. QueueApart'
    BY <2>0, <2>a, <2>b DEF QueueApart, ThreadsApart, WaitsHeld, Allocated, TypeThreads, TypeFibers, Current, Holding, OnStack, Running
  <2>2. ThreadsApart'
    BY <2>0, <2>a, <2>b DEF QueueApart, ThreadsApart, WaitsHeld, Allocated, TypeThreads, TypeFibers, Current, Holding, OnStack, Running
  <2>3. WaitsHeld'
    BY <2>0, <2>a, <2>b DEF QueueApart, ThreadsApart, WaitsHeld, Allocated, StatesOut, WaitsHold, TypeWaits, TypeThreads, TypeFibers, Current, Holding, OnStack, Running
  <2>4. WaitsHold'
    BY <2>0, <2>a, <2>b DEF QueueApart, ThreadsApart, WaitsHeld, StatesOut, StatesRunning, StatesRecycled, StatesDispatch, Allocated, WaitsHold, TypeThreads, TypeFibers, Current, Holding, OnStack, Running
  <2>5. Allocated'
    BY <2>0, <2>a, <2>b DEF QueueApart, ThreadsApart, WaitsHeld, Allocated, TypeThreads, TypeFibers, Current, Holding, OnStack, Running
  <2>6. StatesQueue'
    BY <2>0, <2>a, <2>b DEF QueueApart, ThreadsApart, WaitsHeld, Allocated, WaitsHold, StatesQueue, TypeThreads, TypeFibers, Current, Holding, OnStack, Running
  <2>7. StatesDispatch'
    BY <2>0, <2>a, <2>b DEF QueueApart, ThreadsApart, WaitsHeld, StatesQueue, Allocated, StatesDispatch, TypeThreads, TypeFibers, Current, Holding, OnStack, Running
  <2>8. StatesRunning'
    BY <2>0, <2>a, <2>b DEF QueueApart, ThreadsApart, WaitsHeld, Allocated, StatesRunning, TypeThreads, TypeFibers, Current, Holding, OnStack, Running
  <2>9. StatesOut'
    BY <2>0, <2>a, <2>b DEF QueueApart, ThreadsApart, WaitsHeld, Allocated, StatesOut, TypeThreads, TypeFibers, Current, Holding, OnStack, Running
  <2>10. StatesRecycled'
    BY <2>0, <2>a, <2>b DEF QueueApart, ThreadsApart, WaitsHeld, Allocated, StatesOut, StatesRecycled, TypeThreads, TypeFibers, Current, Holding, OnStack, Running
  <2>11. ExecRuns'
    BY <2>0, <2>a, <2>b DEF QueueApart, ThreadsApart, WaitsHeld, StatesRunning, StatesOut, StatesRecycled, ExecRuns, TypeThreads, TypeFibers, Current, Holding, OnStack, Running
  <2> QED BY <2>1, <2>2, <2>3, <2>4, <2>5, <2>6, <2>7, <2>8, <2>9, <2>10, <2>11
<1>16. ASSUME Start PROVE Places'
  <2>1. QueueApart'
    BY <1>16 DEF Start, QueueApart, ThreadsApart, WaitsHeld, Allocated, TypeThreads, TypeFibers, Current, Holding, OnStack, Running, threadVars, fiberVars, stopVars, countVars, ghostVars, OwnerPhase, FtEmpty, NoTask
  <2>2. ThreadsApart'
    BY <1>16 DEF Start, QueueApart, ThreadsApart, WaitsHeld, Allocated, TypeThreads, TypeFibers, Current, Holding, OnStack, Running, threadVars, fiberVars, stopVars, countVars, ghostVars, OwnerPhase, FtEmpty, NoTask
  <2>3. WaitsHeld'
    BY <1>16 DEF Start, QueueApart, ThreadsApart, WaitsHeld, Allocated, StatesOut, WaitsHold, TypeWaits, TypeThreads, TypeFibers, Current, Holding, OnStack, Running, threadVars, fiberVars, stopVars, countVars, ghostVars, OwnerPhase, FtEmpty, NoTask
  <2>4. WaitsHold'
    BY <1>16 DEF Start, QueueApart, ThreadsApart, WaitsHeld, StatesOut, StatesRunning, StatesRecycled, StatesDispatch, Allocated, WaitsHold, TypeThreads, TypeFibers, Current, Holding, OnStack, Running, threadVars, fiberVars, stopVars, countVars, ghostVars, OwnerPhase, FtEmpty, NoTask
  <2>5. Allocated'
    BY <1>16 DEF Start, QueueApart, ThreadsApart, WaitsHeld, Allocated, TypeThreads, TypeFibers, Current, Holding, OnStack, Running, threadVars, fiberVars, stopVars, countVars, ghostVars, OwnerPhase, FtEmpty, NoTask
  <2>6. StatesQueue'
    BY <1>16 DEF Start, QueueApart, ThreadsApart, WaitsHeld, Allocated, WaitsHold, StatesQueue, TypeThreads, TypeFibers, Current, Holding, OnStack, Running, threadVars, fiberVars, stopVars, countVars, ghostVars, OwnerPhase, FtEmpty, NoTask
  <2>7. StatesDispatch'
    BY <1>16 DEF Start, QueueApart, ThreadsApart, WaitsHeld, StatesQueue, Allocated, StatesDispatch, TypeThreads, TypeFibers, Current, Holding, OnStack, Running, threadVars, fiberVars, stopVars, countVars, ghostVars, OwnerPhase, FtEmpty, NoTask
  <2>8. StatesRunning'
    BY <1>16 DEF Start, QueueApart, ThreadsApart, WaitsHeld, Allocated, StatesRunning, TypeThreads, TypeFibers, Current, Holding, OnStack, Running, threadVars, fiberVars, stopVars, countVars, ghostVars, OwnerPhase, FtEmpty, NoTask
  <2>9. StatesOut'
    BY <1>16 DEF Start, QueueApart, ThreadsApart, WaitsHeld, Allocated, StatesOut, TypeThreads, TypeFibers, Current, Holding, OnStack, Running, threadVars, fiberVars, stopVars, countVars, ghostVars, OwnerPhase, FtEmpty, NoTask
  <2>10. StatesRecycled'
    BY <1>16 DEF Start, QueueApart, ThreadsApart, WaitsHeld, Allocated, StatesOut, StatesRecycled, TypeThreads, TypeFibers, Current, Holding, OnStack, Running, threadVars, fiberVars, stopVars, countVars, ghostVars, OwnerPhase, FtEmpty, NoTask
  <2>11. ExecRuns'
    BY <1>16 DEF Start, QueueApart, ThreadsApart, WaitsHeld, StatesRunning, StatesOut, StatesRecycled, ExecRuns, TypeThreads, TypeFibers, Current, Holding, OnStack, Running, threadVars, fiberVars, stopVars, countVars, ghostVars, OwnerPhase, FtEmpty, NoTask
  <2> QED BY <2>1, <2>2, <2>3, <2>4, <2>5, <2>6, <2>7, <2>8, <2>9, <2>10, <2>11
<1>17. ASSUME StopBegin PROVE Places'
  BY <1>17 DEF StopBegin, QueueApart, ThreadsApart, WaitsHeld, WaitsHold, Allocated, StatesQueue, StatesDispatch, StatesRunning, StatesOut, StatesRecycled, ExecRuns, Current, threadVars, fiberVars, stopVars, countVars, ghostVars
<1>18. ASSUME StopCheck PROVE Places'
  BY <1>18 DEF StopCheck, QueueApart, ThreadsApart, WaitsHeld, WaitsHold, Allocated, StatesQueue, StatesDispatch, StatesRunning, StatesOut, StatesRecycled, ExecRuns, Current, threadVars, fiberVars, stopVars, countVars, ghostVars
<1>19. ASSUME StopFlag PROVE Places'
  BY <1>19 DEF StopFlag, QueueApart, ThreadsApart, WaitsHeld, WaitsHold, Allocated, StatesQueue, StatesDispatch, StatesRunning, StatesOut, StatesRecycled, ExecRuns, Current, threadVars, fiberVars, stopVars, countVars, ghostVars
<1>20. ASSUME StopRoot PROVE Places'
  <2>1. QueueApart'
    BY <1>20 DEF StopRoot, QueueApart, ThreadsApart, WaitsHeld, Allocated, TypeThreads, TypeFibers, Current, Holding, OnStack, Running, threadVars, fiberVars, stopVars, countVars, ghostVars, OwnerPhase, Pool, FtEmpty, NoTask
  <2>2. ThreadsApart'
    BY <1>20 DEF StopRoot, QueueApart, ThreadsApart, WaitsHeld, Allocated, TypeThreads, TypeFibers, Current, Holding, OnStack, Running, threadVars, fiberVars, stopVars, countVars, ghostVars, OwnerPhase, Pool, FtEmpty, NoTask
  <2>3. WaitsHeld'
    BY <1>20 DEF StopRoot, QueueApart, ThreadsApart, WaitsHeld, Allocated, StatesOut, WaitsHold, TypeWaits, TypeThreads, TypeFibers, Current, Holding, OnStack, Running, threadVars, fiberVars, stopVars, countVars, ghostVars, OwnerPhase, Pool, FtEmpty, NoTask
  <2>4. WaitsHold'
    BY <1>20 DEF StopRoot, QueueApart, ThreadsApart, WaitsHeld, StatesOut, StatesRunning, StatesRecycled, StatesDispatch, Allocated, WaitsHold, TypeThreads, TypeFibers, Current, Holding, OnStack, Running, threadVars, fiberVars, stopVars, countVars, ghostVars, OwnerPhase, Pool, FtEmpty, NoTask
  <2>5. Allocated'
    BY <1>20 DEF StopRoot, QueueApart, ThreadsApart, WaitsHeld, Allocated, TypeThreads, TypeFibers, Current, Holding, OnStack, Running, threadVars, fiberVars, stopVars, countVars, ghostVars, OwnerPhase, Pool, FtEmpty, NoTask
  <2>6. StatesQueue'
    BY <1>20 DEF StopRoot, QueueApart, ThreadsApart, WaitsHeld, Allocated, WaitsHold, StatesQueue, TypeThreads, TypeFibers, Current, Holding, OnStack, Running, threadVars, fiberVars, stopVars, countVars, ghostVars, OwnerPhase, Pool, FtEmpty, NoTask
  <2>7. StatesDispatch'
    BY <1>20 DEF StopRoot, QueueApart, ThreadsApart, WaitsHeld, StatesQueue, Allocated, StatesDispatch, TypeThreads, TypeFibers, Current, Holding, OnStack, Running, threadVars, fiberVars, stopVars, countVars, ghostVars, OwnerPhase, Pool, FtEmpty, NoTask
  <2>8. StatesRunning'
    BY <1>20 DEF StopRoot, QueueApart, ThreadsApart, WaitsHeld, Allocated, StatesRunning, TypeThreads, TypeFibers, Current, Holding, OnStack, Running, threadVars, fiberVars, stopVars, countVars, ghostVars, OwnerPhase, Pool, FtEmpty, NoTask
  <2>9. StatesOut'
    BY <1>20 DEF StopRoot, QueueApart, ThreadsApart, WaitsHeld, Allocated, StatesOut, TypeThreads, TypeFibers, Current, Holding, OnStack, Running, threadVars, fiberVars, stopVars, countVars, ghostVars, OwnerPhase, Pool, FtEmpty, NoTask
  <2>10. StatesRecycled'
    BY <1>20 DEF StopRoot, QueueApart, ThreadsApart, WaitsHeld, Allocated, StatesOut, StatesRecycled, TypeThreads, TypeFibers, Current, Holding, OnStack, Running, threadVars, fiberVars, stopVars, countVars, ghostVars, OwnerPhase, Pool, FtEmpty, NoTask
  <2>11. ExecRuns'
    BY <1>20 DEF StopRoot, QueueApart, ThreadsApart, WaitsHeld, StatesRunning, StatesOut, StatesRecycled, ExecRuns, TypeThreads, TypeFibers, Current, Holding, OnStack, Running, threadVars, fiberVars, stopVars, countVars, ghostVars, OwnerPhase, Pool, FtEmpty, NoTask
  <2> QED BY <2>1, <2>2, <2>3, <2>4, <2>5, <2>6, <2>7, <2>8, <2>9, <2>10, <2>11
<1>21. ASSUME Join PROVE Places'
  <2>1. QueueApart'
    BY <1>21 DEF Join, QueueApart, ThreadsApart, WaitsHeld, Allocated, TypeThreads, TypeFibers, Current, Holding, OnStack, Running, threadVars, fiberVars, stopVars, countVars, ghostVars
  <2>2. ThreadsApart'
    BY <1>21 DEF Join, QueueApart, ThreadsApart, WaitsHeld, Allocated, TypeThreads, TypeFibers, Current, Holding, OnStack, Running, threadVars, fiberVars, stopVars, countVars, ghostVars
  <2>3. WaitsHeld'
    BY <1>21 DEF Join, QueueApart, ThreadsApart, WaitsHeld, Allocated, StatesOut, WaitsHold, TypeWaits, TypeThreads, TypeFibers, Current, Holding, OnStack, Running, threadVars, fiberVars, stopVars, countVars, ghostVars
  <2>4. WaitsHold'
    BY <1>21 DEF Join, QueueApart, ThreadsApart, WaitsHeld, StatesOut, StatesRunning, StatesRecycled, StatesDispatch, Allocated, WaitsHold, TypeThreads, TypeFibers, Current, Holding, OnStack, Running, threadVars, fiberVars, stopVars, countVars, ghostVars
  <2>5. Allocated'
    BY <1>21 DEF Join, QueueApart, ThreadsApart, WaitsHeld, Allocated, TypeThreads, TypeFibers, Current, Holding, OnStack, Running, threadVars, fiberVars, stopVars, countVars, ghostVars
  <2>6. StatesQueue'
    BY <1>21 DEF Join, QueueApart, ThreadsApart, WaitsHeld, Allocated, WaitsHold, StatesQueue, TypeThreads, TypeFibers, Current, Holding, OnStack, Running, threadVars, fiberVars, stopVars, countVars, ghostVars
  <2>7. StatesDispatch'
    BY <1>21 DEF Join, QueueApart, ThreadsApart, WaitsHeld, StatesQueue, Allocated, StatesDispatch, TypeThreads, TypeFibers, Current, Holding, OnStack, Running, threadVars, fiberVars, stopVars, countVars, ghostVars
  <2>8. StatesRunning'
    BY <1>21 DEF Join, QueueApart, ThreadsApart, WaitsHeld, Allocated, StatesRunning, TypeThreads, TypeFibers, Current, Holding, OnStack, Running, threadVars, fiberVars, stopVars, countVars, ghostVars
  <2>9. StatesOut'
    BY <1>21 DEF Join, QueueApart, ThreadsApart, WaitsHeld, Allocated, StatesOut, TypeThreads, TypeFibers, Current, Holding, OnStack, Running, threadVars, fiberVars, stopVars, countVars, ghostVars
  <2>10. StatesRecycled'
    BY <1>21 DEF Join, QueueApart, ThreadsApart, WaitsHeld, Allocated, StatesOut, StatesRecycled, TypeThreads, TypeFibers, Current, Holding, OnStack, Running, threadVars, fiberVars, stopVars, countVars, ghostVars
  <2>11. ExecRuns'
    BY <1>21 DEF Join, QueueApart, ThreadsApart, WaitsHeld, StatesRunning, StatesOut, StatesRecycled, ExecRuns, TypeThreads, TypeFibers, Current, Holding, OnStack, Running, threadVars, fiberVars, stopVars, countVars, ghostVars
  <2> QED BY <2>1, <2>2, <2>3, <2>4, <2>5, <2>6, <2>7, <2>8, <2>9, <2>10, <2>11
<1>22. ASSUME OwnerElsewhere PROVE Places'
  BY <1>22 DEF OwnerElsewhere, QueueApart, ThreadsApart, WaitsHeld, WaitsHold, Allocated, StatesQueue, StatesDispatch, StatesRunning, StatesOut, StatesRecycled, ExecRuns, Current, threadVars, fiberVars, stopVars, countVars, ghostVars, vars
<1>23. ASSUME NEW t \in Pool, SettleReady(t) PROVE Places'
  <2> DEFINE f == Current(t)
  <2>0. f \in Fiber /\ FiberTask(f, None) \in Task /\ FiberTask(f, None).fiber = f
    BY <1>23, CurrentType, TaskTypes DEF SettleReady, Holding, FiberTask
  <2>a. /\ pc[t] = "settle" /\ pc' = [pc EXCEPT ![t] = "scan"] /\ m_state[f] = "READY"
        /\ ft' = [ft EXCEPT ![t] = NoTask] /\ NoTask.fiber = None
        /\ cb_fiber' = [cb_fiber EXCEPT ![t] = IF ft[t].fiber = None THEN None ELSE @]
        /\ m_fibers' = Append(m_fibers, FiberTask(f, None))
        /\ UNCHANGED <<waiting, handles, m_state, s_fiber_id, overlapped>>
    BY <1>23 DEF SettleReady, Requeued, CbFiberReleased, NoTask, fiberVars
  <2>b. /\ Len(m_fibers) \in Nat /\ Len(m_fibers') = Len(m_fibers) + 1
        /\ \A i \in 1 .. Len(m_fibers) : m_fibers'[i] = m_fibers[i]
        /\ m_fibers'[Len(m_fibers) + 1].fiber = f
    BY <2>0, <2>a, AppendFacts
  <2>c. f \notin overlapped => \A s \in Pool : f \notin {ft'[s].fiber, cb_fiber'[s]}
    BY <2>0, <2>a DEF ThreadsApart, Current, TypeThreads
  <2>d. f \notin overlapped => f \notin waiting
    <3>1. f \notin overlapped => \A s \in Pool : ~(pc[s] = "armed" /\ Current(s) = f)
      BY <2>0, <2>a DEF ThreadsApart, Current, TypeThreads
    <3> QED BY <3>1, <2>a DEF WaitsHold
  <2>e. f \notin overlapped => \A i \in 1 .. Len(m_fibers) : m_fibers[i].fiber # f
    BY <2>0, <2>a DEF QueueApart, Current
  <2>f. f <= s_fiber_id
    BY <2>0 DEF Allocated, Current
  <2>g. Current(t) = f
    OBVIOUS
  <2> HIDE DEF f
  <2>1. QueueApart'
    <3>1. \A i \in 1 .. Len(m_fibers') : i # Len(m_fibers) + 1 => i \in 1 .. Len(m_fibers)
      BY <2>b
    <3>2. \A i \in 1 .. Len(m_fibers), s \in Pool : m_fibers[i].fiber \notin overlapped \cup {None} =>
             m_fibers[i].fiber \notin {ft'[s].fiber, cb_fiber'[s]}
      BY <2>a DEF QueueApart, TypeThreads
    <3> QED BY <3>1, <3>2, <2>a, <2>b, <2>c, <2>d, <2>e DEF QueueApart
  <2>2. Allocated'
    <3>1. \A i \in 1 .. Len(m_fibers') : i # Len(m_fibers) + 1 => i \in 1 .. Len(m_fibers)
      BY <2>b
    <3> QED BY <3>1, <2>a, <2>b, <2>f DEF Allocated, TypeThreads
  <2>3. StatesQueue'
    <3>1. \A i \in 1 .. Len(m_fibers') : i # Len(m_fibers) + 1 => i \in 1 .. Len(m_fibers)
      BY <2>b
    <3> QED BY <3>1, <2>a, <2>b DEF StatesQueue
  <2>4. ThreadsApart'
    BY <2>a DEF ThreadsApart, TypeThreads
  <2>5. WaitsHeld'
    BY <2>a, <2>d, <2>g DEF WaitsHeld, Current, TypeThreads, TypeWaits
  <2>6. WaitsHold'
    BY <2>a DEF WaitsHold, Current, TypeThreads
  <2>7. StatesDispatch' /\ StatesOut' /\ StatesRunning'
    BY <2>a DEF StatesDispatch, StatesOut, StatesRunning, Current, TypeThreads, Running
  <2>8. StatesRecycled'
    BY <2>a DEF StatesRecycled, TypeThreads
  <2>9. ExecRuns'
    BY <2>a DEF ExecRuns, Current, TypeThreads, Running
  <2> QED BY <2>1, <2>2, <2>3, <2>4, <2>5, <2>6, <2>7, <2>8, <2>9, <2>a
<1>24. ASSUME NEW f \in Fiber, Wake(f) \/ OwnerReschedule(f) PROVE Places'
  <2>0. FiberTask(f, None) \in Task /\ FiberTask(f, None).fiber = f
    BY TaskTypes DEF FiberTask
  <2>a. /\ m_fibers' = Append(m_fibers, FiberTask(f, None))
        /\ f \in waiting \cup handles
        /\ waiting' \subseteq waiting /\ handles' \subseteq handles
        /\ overlapped \subseteq overlapped' /\ overlapped' \subseteq overlapped \cup {f}
        /\ f \notin overlapped' => /\ f \in waiting /\ f \notin waiting'
                                  /\ \A t \in Pool : Current(t) # f
        /\ UNCHANGED <<pc, ft, cb_fiber, m_state, s_fiber_id>>
    BY <1>24 DEF Wake, OwnerReschedule, threadVars, fiberVars
  <2>b. /\ Len(m_fibers) \in Nat /\ Len(m_fibers') = Len(m_fibers) + 1
        /\ \A i \in 1 .. Len(m_fibers) : m_fibers'[i] = m_fibers[i]
        /\ m_fibers'[Len(m_fibers) + 1].fiber = f
    BY <2>0, <2>a, AppendFacts
  <2>c. f \notin overlapped' =>
          /\ \A t \in Pool : f \notin {ft[t].fiber, cb_fiber[t]}
          /\ \A i \in 1 .. Len(m_fibers) : m_fibers[i].fiber # f
          /\ m_state[f] = "HOLD"
    BY <2>a DEF WaitsHeld, WaitsHold, QueueApart
  <2>d. f <= s_fiber_id
    BY <2>a DEF Allocated
  <2>1. QueueApart'
    <3>1. \A i \in 1 .. Len(m_fibers') : i # Len(m_fibers) + 1 => i \in 1 .. Len(m_fibers)
      BY <2>b
    <3>2. \A i \in 1 .. Len(m_fibers) : m_fibers[i].fiber \notin overlapped' \cup {None} =>
            /\ \A k \in 1 .. Len(m_fibers) : k # i => m_fibers[k].fiber # m_fibers[i].fiber
            /\ \A t \in Pool : m_fibers[i].fiber \notin {ft[t].fiber, cb_fiber[t]}
            /\ m_fibers[i].fiber \notin waiting
            /\ m_fibers[i].fiber # f
      BY <2>a, <2>c DEF QueueApart
    <3> SUFFICES ASSUME NEW i \in 1 .. Len(m_fibers'),
                        m_fibers'[i].fiber \notin overlapped' \cup {None}
                 PROVE  /\ \A k \in 1 .. Len(m_fibers') : k # i => m_fibers'[k].fiber # m_fibers'[i].fiber
                        /\ \A t \in Pool : m_fibers'[i].fiber \notin {ft'[t].fiber, cb_fiber'[t]}
                        /\ m_fibers'[i].fiber \notin waiting'
      BY DEF QueueApart
    <3>3. CASE i = Len(m_fibers) + 1
      <4>1. m_fibers'[i].fiber = f /\ f \notin overlapped'
        BY <3>3, <2>b
      <4>2. \A t \in Pool : f \notin {ft'[t].fiber, cb_fiber'[t]}
        BY <4>1, <2>a, <2>c
      <4>3. f \notin waiting'
        BY <4>1, <2>a
      <4>4. \A k \in 1 .. Len(m_fibers') : k # i => m_fibers'[k].fiber # f
        BY <3>1, <3>3, <4>1, <2>b, <2>c
      <4> QED BY <4>1, <4>2, <4>3, <4>4
    <3>4. CASE i \in 1 .. Len(m_fibers)
      <4>1. m_fibers'[i] = m_fibers[i] /\ m_fibers[i].fiber \notin overlapped' \cup {None}
        BY <3>4, <2>b
      <4>2. /\ \A t \in Pool : m_fibers[i].fiber \notin {ft'[t].fiber, cb_fiber'[t]}
            /\ m_fibers[i].fiber \notin waiting'
        BY <3>2, <3>4, <4>1, <2>a
      <4>3. \A k \in 1 .. Len(m_fibers') : k # i => m_fibers'[k].fiber # m_fibers[i].fiber
        BY <3>1, <3>2, <3>4, <4>1, <2>b
      <4> QED BY <4>1, <4>2, <4>3
    <3> QED BY <3>1, <3>3, <3>4
  <2>2. Allocated'
    <3>1. \A i \in 1 .. Len(m_fibers') : i # Len(m_fibers) + 1 => i \in 1 .. Len(m_fibers)
      BY <2>b
    <3> QED BY <3>1, <2>a, <2>b, <2>d DEF Allocated
  <2>3. StatesQueue'
    <3>1. \A i \in 1 .. Len(m_fibers') : i # Len(m_fibers) + 1 => i \in 1 .. Len(m_fibers)
      BY <2>b
    <3> QED BY <3>1, <2>a, <2>b, <2>c DEF StatesQueue
  <2>4. ThreadsApart' /\ WaitsHeld' /\ WaitsHold'
    BY <2>a DEF ThreadsApart, WaitsHeld, WaitsHold, Current
  <2>5. StatesDispatch' /\ StatesRunning' /\ StatesOut' /\ StatesRecycled' /\ ExecRuns'
    BY <2>a DEF StatesDispatch, StatesRunning, StatesOut, StatesRecycled, ExecRuns, Current
  <2> QED BY <2>1, <2>2, <2>3, <2>4, <2>5
<1>26. ASSUME NEW t \in Pool, Take(t) PROVE Places'
  <2>1. PICK i \in 1 .. Len(m_fibers) :
             /\ FirstTakeable(t, i)
             /\ ft' = [ft EXCEPT ![t] = m_fibers[i]] /\ m_fibers' = RemoveAt(m_fibers, i)
    BY <1>26 DEF Take, Popped
  <2> DEFINE at(k) == IF k < i THEN k ELSE k + 1
  <2>a. Len(m_fibers) \in Nat /\ m_fibers[i] \in Task
    BY <1>0, LenProperties DEF TypeQueue
  <2>0. /\ Len(m_fibers') = Len(m_fibers) - 1
        /\ \A k \in 1 .. Len(m_fibers) - 1 :
              m_fibers'[k] = IF k < i THEN m_fibers[k] ELSE m_fibers[k + 1]
    BY <2>1, RemoveAtProperties DEF TypeQueue
  <2>b. /\ Len(m_fibers') = Len(m_fibers) - 1
        /\ \A k \in 1 .. Len(m_fibers') :
              m_fibers'[k] = m_fibers[at(k)] /\ at(k) \in 1 .. Len(m_fibers) /\ at(k) # i
    BY <2>0, <2>a
  <2>c. \A k, l \in 1 .. Len(m_fibers') : k # l => at(k) # at(l)
    BY <2>a, <2>b
  <2> HIDE DEF at
  <2>d. /\ pc[t] = "scan" /\ pc' = [pc EXCEPT ![t] = "dispatch"] /\ ft[t] = NoTask
        /\ UNCHANGED <<waiting, handles, cb_fiber, m_state, m_cb, s_fiber_id, overlapped>>
    BY <1>26 DEF Take, FtEmpty, fiberVars
  <2>e. /\ m_fibers[i].fiber # None => m_fibers[i].fiber <= s_fiber_id
        /\ m_fibers[i].fiber \notin overlapped \cup {None} =>
              /\ \A s \in Pool : m_fibers[i].fiber \notin {ft[s].fiber, cb_fiber[s]}
              /\ m_fibers[i].fiber \notin waiting
              /\ m_state[m_fibers[i].fiber] \in {"INIT", "HOLD", "READY"}
    BY DEF QueueApart, Allocated, StatesQueue
  <2>2. QueueApart'
    <3> SUFFICES ASSUME NEW k \in 1 .. Len(m_fibers'),
                        m_fibers'[k].fiber \notin overlapped \cup {None}
                 PROVE  /\ \A l \in 1 .. Len(m_fibers') : l # k => m_fibers'[l].fiber # m_fibers'[k].fiber
                        /\ \A s \in Pool : m_fibers'[k].fiber \notin {ft'[s].fiber, cb_fiber'[s]}
                        /\ m_fibers'[k].fiber \notin waiting'
      BY <2>d DEF QueueApart
    <3>1. \A l \in 1 .. Len(m_fibers') : l # k => m_fibers'[l].fiber # m_fibers'[k].fiber
      BY <2>b, <2>c DEF QueueApart
    <3>2. m_fibers'[k].fiber # m_fibers[i].fiber
      BY <2>b DEF QueueApart
    <3>3. \A s \in Pool : m_fibers'[k].fiber \notin {ft'[s].fiber, cb_fiber'[s]}
      BY <3>2, <2>1, <2>b, <2>d DEF QueueApart, TypeThreads
    <3>4. m_fibers'[k].fiber \notin waiting'
      BY <2>b, <2>d DEF QueueApart
    <3> QED BY <3>1, <3>3, <3>4
  <2>3. Allocated'
    BY <2>1, <2>b, <2>d, <2>e DEF Allocated, TypeThreads
  <2>4. StatesQueue'
    BY <2>b, <2>d DEF StatesQueue
  <2>5. ThreadsApart'
    BY <2>1, <2>d, <2>e DEF ThreadsApart, TypeThreads
  <2>6. WaitsHeld'
    BY <2>1, <2>d, <2>e DEF WaitsHeld, Current, TypeThreads, TypeWaits
  <2>7. WaitsHold'
    BY <2>1, <2>d DEF WaitsHold, Current, TypeThreads
  <2>8. StatesDispatch'
    BY <2>1, <2>d, <2>e DEF StatesDispatch, TypeThreads
  <2>9. StatesRunning' /\ StatesOut'
    BY <2>1, <2>d DEF StatesRunning, StatesOut, Current, TypeThreads, Running
  <2>10. StatesRecycled'
    BY <2>1, <2>d DEF StatesRecycled, TypeThreads, Holding, OnStack, Running
  <2>11. ExecRuns'
    BY <2>1, <2>d DEF ExecRuns, Current, TypeThreads, Running
  <2> QED BY <2>2, <2>3, <2>4, <2>5, <2>6, <2>7, <2>8, <2>9, <2>10, <2>11, <2>d
<1>27. ASSUME NEW t \in Pool, FiberSchedule(t) PROVE Places'
  <2>1. \E j \in Job, thr \in Pool \cup {None} : SubmitCb(j, thr) \/ SubmitFiber(j, thr)
    BY <1>27 DEF FiberSchedule
  <2>2. /\ UNCHANGED <<waiting, overlapped, pc, ft, cb_fiber>>
        /\ \A f \in handles' : f \in handles \/ f = s_fiber_id'
    BY <1>27 DEF FiberSchedule, threadVars
  <2> QED BY <2>1, <2>2, SubmitPlaces
<1>28. ASSUME OwnerSchedule PROVE Places'
  <2>1. \/ \E j \in Job, thr \in Pool \cup {None} : SubmitCb(j, thr) \/ SubmitFiber(j, thr)
        \/ \E i, j \in Job : SubmitBatch(i, j)
    BY <1>28 DEF OwnerSchedule
  <2>2. /\ UNCHANGED <<waiting, overlapped, pc, ft, cb_fiber>>
        /\ \A f \in handles' : f \in handles \/ f = s_fiber_id'
    BY <1>28 DEF OwnerSchedule, threadVars
  <2> QED BY <2>1, <2>2, SubmitPlaces
<1>29. CASE UNCHANGED vars
  BY <1>29 DEF vars, QueueApart, ThreadsApart, WaitsHeld, WaitsHold, Allocated, StatesQueue, StatesDispatch, StatesRunning, StatesOut, StatesRecycled, ExecRuns, Current, threadVars, fiberVars, stopVars, countVars, ghostVars
<1>30. ASSUME NEW t \in Pool, AssertFails(t) PROVE Places'
  <2>1. /\ pc[t] = "dispatch" /\ pc' = [pc EXCEPT ![t] = "abort"]
        /\ UNCHANGED <<m_fibers, waiting, handles, ft, cb_fiber, m_state, s_fiber_id, overlapped>>
    BY <1>30 DEF AssertFails, fiberVars
  <2>2. QueueApart' /\ ThreadsApart' /\ Allocated' /\ StatesQueue'
    BY <2>1 DEF QueueApart, ThreadsApart, Allocated, StatesQueue
  <2>3. WaitsHeld' /\ WaitsHold'
    BY <2>1 DEF WaitsHeld, WaitsHold, Current, TypeThreads
  <2>4. StatesDispatch' /\ StatesRunning' /\ StatesOut'
    BY <2>1 DEF StatesDispatch, StatesRunning, StatesOut, Current, TypeThreads, Running
  <2>5. StatesRecycled' /\ ExecRuns'
    BY <2>1 DEF StatesRecycled, ExecRuns, Current, TypeThreads, Holding, OnStack, Running
  <2> QED BY <2>2, <2>3, <2>4, <2>5
<1> QED
  BY <1>1, <1>2, <1>3, <1>4, <1>5, <1>6, <1>7, <1>8, <1>9, <1>10, <1>11, <1>12, <1>13, <1>14, <1>15, <1>16, <1>17, <1>18, <1>19, <1>20, <1>21, <1>22, <1>23, <1>24, <1>26, <1>27, <1>28, <1>29, <1>30
     DEF Next, Thread, InRun, InFiber, Stopping
\* No assertion of swapIn() or reset() fails while every fiber is in its place, and
\* m_rootFiber is called at most once.
LEMMA NoAbortNext ==
    ASSUME ~UseCaller \/ MaxStops <= 1
    PROVE  Basic /\ Places /\ RootFresh /\ NoAbort /\ [Next]_vars => NoAbort'
<1> SUFFICES ASSUME Basic, Places, RootFresh, NoAbort, [Next]_vars PROVE NoAbort'
  OBVIOUS
<1> USE DEF Basic, TypeThreads
<1>0. CASE UNCHANGED vars
  BY <1>0 DEF vars, threadVars, NoAbort, Current
<1> SUFFICES ASSUME ~Aborted, Next PROVE NoAbort'
  BY <1>0 DEF Next
<1> USE DEF NoAbort, Aborted
<1>1. ASSUME OwnerSchedule PROVE NoAbort'
  BY <1>1 DEF OwnerSchedule, threadVars
<1>2. ASSUME NEW t \in Pool, Take(t) PROVE NoAbort'
  BY <1>2 DEF Take, threadVars
<1>3. ASSUME NEW t \in Pool, TakeNothing(t) PROVE NoAbort'
  BY <1>3 DEF TakeNothing, threadVars
<1>4. ASSUME NEW t \in Pool, SwapInFiber(t) PROVE NoAbort'
  BY <1>4 DEF SwapInFiber, threadVars, Places, StatesDispatch
<1>5. ASSUME NEW t \in Pool, SwapInNewCb(t) PROVE NoAbort'
  BY <1>5 DEF SwapInNewCb, threadVars
<1>6. ASSUME NEW t \in Pool, SwapInOldCb(t) PROVE NoAbort'
  BY <1>6 DEF SwapInOldCb, threadVars, Places, StatesRecycled, Holding, OnStack, Running
<1>7. ASSUME NEW t \in Pool, DropEnded(t) PROVE NoAbort'
  BY <1>7 DEF DropEnded, threadVars
<1>8. ASSUME NEW t \in Pool, EnterIdle(t) PROVE NoAbort'
  BY <1>8 DEF EnterIdle, threadVars
<1>9. ASSUME NEW t \in Pool, LeaveIdle(t) PROVE NoAbort'
  BY <1>9 DEF LeaveIdle, threadVars
<1>10. ASSUME NEW t \in Pool, Exit(t) PROVE NoAbort'
  BY <1>10 DEF Exit, threadVars
<1>11. ASSUME NEW t \in Pool, SwapOut(t) PROVE NoAbort'
  BY <1>11 DEF SwapOut, threadVars
<1>12. ASSUME NEW t \in Pool, SettleReady(t) PROVE NoAbort'
  BY <1>12 DEF SettleReady, threadVars
<1>13. ASSUME NEW t \in Pool, SettleEnded(t) PROVE NoAbort'
  BY <1>13 DEF SettleEnded, threadVars
<1>14. ASSUME NEW t \in Pool, SettleHold(t) PROVE NoAbort'
  BY <1>14 DEF SettleHold, threadVars
<1>15. ASSUME NEW t \in Pool, FiberSchedule(t) PROVE NoAbort'
  BY <1>15 DEF FiberSchedule, threadVars
<1>16. ASSUME NEW t \in Pool, YieldToReady(t) PROVE NoAbort'
  BY <1>16 DEF YieldToReady, threadVars
<1>17. ASSUME NEW t \in Pool, Register(t) PROVE NoAbort'
  BY <1>17 DEF Register, threadVars
<1>18. ASSUME NEW t \in Pool, YieldToHold(t) PROVE NoAbort'
  BY <1>18 DEF YieldToHold, threadVars
<1>19. ASSUME NEW t \in Pool, Finish(t) PROVE NoAbort'
  BY <1>19 DEF Finish, threadVars
<1>20. ASSUME NEW f \in Fiber, Wake(f) PROVE NoAbort'
  BY <1>20 DEF Wake, threadVars
<1>21. ASSUME NEW f \in Fiber, OwnerReschedule(f) PROVE NoAbort'
  BY <1>21 DEF OwnerReschedule, threadVars
<1>22. ASSUME Start PROVE NoAbort'
  BY <1>22 DEF Start, threadVars
<1>23. ASSUME StopBegin PROVE NoAbort'
  BY <1>23 DEF StopBegin, threadVars
<1>24. ASSUME StopCheck PROVE NoAbort'
  BY <1>24 DEF StopCheck, threadVars
<1>25. ASSUME StopFlag PROVE NoAbort'
  BY <1>25 DEF StopFlag, threadVars
<1>26. ASSUME StopRoot PROVE NoAbort'
  <2>1. CASE UseCaller /\ ~stopping
    <3>1. stops \in Nat /\ stops >= 1 /\ stops <= MaxStops /\ MaxStops <= 1 /\ MaxStops \in Nat
      BY <1>26, <2>1, ConstantsAssumption DEF StopRoot, RootFresh, TypeStop
    <3>2. stops = 1
      BY <3>1
    <3>3. m_rootFiber = "INIT"
      BY <1>26, <2>1, <3>2 DEF StopRoot, RootFresh
    <3>4. pc' = [pc EXCEPT ![Caller] = "scan"]
      BY <1>26, <2>1, <3>3 DEF StopRoot
    <3> QED
      BY <3>4 DEF NoAbort
  <2>2. CASE ~(UseCaller /\ ~stopping)
    BY <1>26, <2>2 DEF StopRoot
  <2> QED
    BY <2>1, <2>2
<1>27. ASSUME Join PROVE NoAbort'
  BY <1>27 DEF Join, threadVars
<1>28. ASSUME OwnerElsewhere PROVE NoAbort'
  BY <1>28 DEF OwnerElsewhere, threadVars, vars
<1>30. ASSUME NEW t \in Pool, AssertFails(t) PROVE NoAbort'
  <2>1. Current(t) \in overlapped
    BY <1>30, NoneNotFiber DEF AssertFails, Current, Places, StatesDispatch, StatesRecycled, Holding, OnStack, Running
  <2> QED BY <1>30, <2>1 DEF AssertFails, Current
<1> QED
  BY <1>1, <1>2, <1>3, <1>4, <1>5, <1>6, <1>7, <1>8, <1>9, <1>10, <1>11, <1>12, <1>13, <1>14, <1>15, <1>16, <1>17, <1>18, <1>19, <1>20, <1>21, <1>22, <1>23, <1>24, <1>25, <1>26, <1>27, <1>28, <1>30
     DEF Next, Thread, InRun, InFiber, Stopping

\* The first stop() is the one that calls m_rootFiber.
LEMMA RootFreshNext == Basic /\ RootFresh /\ [Next]_vars => RootFresh'
<1> SUFFICES ASSUME Basic, RootFresh, [Next]_vars PROVE RootFresh'
  OBVIOUS
<1> USE ConstantsAssumption DEF Basic, RootFresh, TypeStop
<1>1. ASSUME OwnerSchedule PROVE RootFresh'
  BY <1>1 DEF OwnerSchedule, stopVars
<1>2. ASSUME NEW t \in Pool, Take(t) PROVE RootFresh'
  BY <1>2 DEF Take, stopVars
<1>3. ASSUME NEW t \in Pool, TakeNothing(t) PROVE RootFresh'
  BY <1>3 DEF TakeNothing, stopVars
<1>4. ASSUME NEW t \in Pool, SwapInFiber(t) PROVE RootFresh'
  BY <1>4 DEF SwapInFiber, stopVars
<1>5. ASSUME NEW t \in Pool, SwapInNewCb(t) PROVE RootFresh'
  BY <1>5 DEF SwapInNewCb, stopVars
<1>6. ASSUME NEW t \in Pool, SwapInOldCb(t) PROVE RootFresh'
  BY <1>6 DEF SwapInOldCb, stopVars
<1>7. ASSUME NEW t \in Pool, DropEnded(t) PROVE RootFresh'
  BY <1>7 DEF DropEnded, stopVars
<1>8. ASSUME NEW t \in Pool, EnterIdle(t) PROVE RootFresh'
  BY <1>8 DEF EnterIdle, stopVars
<1>9. ASSUME NEW t \in Pool, LeaveIdle(t) PROVE RootFresh'
  BY <1>9 DEF LeaveIdle, stopVars
<1>10. ASSUME NEW t \in Pool, Exit(t) PROVE RootFresh'
  BY <1>10 DEF Exit, stopVars, OwnerPhase, Pool
<1>11. ASSUME NEW t \in Pool, SwapOut(t) PROVE RootFresh'
  BY <1>11 DEF SwapOut, stopVars
<1>12. ASSUME NEW t \in Pool, SettleReady(t) PROVE RootFresh'
  BY <1>12 DEF SettleReady, stopVars
<1>13. ASSUME NEW t \in Pool, SettleEnded(t) PROVE RootFresh'
  BY <1>13 DEF SettleEnded, stopVars
<1>14. ASSUME NEW t \in Pool, SettleHold(t) PROVE RootFresh'
  BY <1>14 DEF SettleHold, stopVars
<1>15. ASSUME NEW t \in Pool, FiberSchedule(t) PROVE RootFresh'
  BY <1>15 DEF FiberSchedule, stopVars
<1>16. ASSUME NEW t \in Pool, YieldToReady(t) PROVE RootFresh'
  BY <1>16 DEF YieldToReady, stopVars
<1>17. ASSUME NEW t \in Pool, Register(t) PROVE RootFresh'
  BY <1>17 DEF Register, stopVars
<1>18. ASSUME NEW t \in Pool, YieldToHold(t) PROVE RootFresh'
  BY <1>18 DEF YieldToHold, stopVars
<1>19. ASSUME NEW t \in Pool, Finish(t) PROVE RootFresh'
  BY <1>19 DEF Finish, stopVars
<1>20. ASSUME NEW f \in Fiber, Wake(f) PROVE RootFresh'
  BY <1>20 DEF Wake, stopVars
<1>21. ASSUME NEW f \in Fiber, OwnerReschedule(f) PROVE RootFresh'
  BY <1>21 DEF OwnerReschedule, stopVars
<1>22. ASSUME Start PROVE RootFresh'
  BY <1>22 DEF Start, stopVars
<1>23. ASSUME StopBegin PROVE RootFresh'
  BY <1>23 DEF StopBegin, stopVars
<1>24. ASSUME StopCheck PROVE RootFresh'
  BY <1>24 DEF StopCheck, stopVars
<1>25. ASSUME StopFlag PROVE RootFresh'
  BY <1>25 DEF StopFlag, stopVars
<1>26. ASSUME StopRoot PROVE RootFresh'
  BY <1>26 DEF StopRoot, stopVars
<1>27. ASSUME Join PROVE RootFresh'
  BY <1>27 DEF Join, stopVars
<1>28. ASSUME OwnerElsewhere PROVE RootFresh'
  BY <1>28 DEF OwnerElsewhere, stopVars, vars
<1>29. CASE UNCHANGED vars
  BY <1>29 DEF vars, stopVars
<1>30. ASSUME NEW t \in Pool, AssertFails(t) PROVE RootFresh'
  BY <1>30 DEF AssertFails, stopVars
<1> QED
  BY <1>1, <1>2, <1>3, <1>4, <1>5, <1>6, <1>7, <1>8, <1>9, <1>10, <1>11, <1>12, <1>13, <1>14, <1>15, <1>16, <1>17, <1>18, <1>19, <1>20, <1>21, <1>22, <1>23, <1>24, <1>25, <1>26, <1>27, <1>28, <1>29, <1>30
     DEF Next, Thread, InRun, InFiber, Stopping

\* Only a fiber that was scheduled while it was still in use is ever held by two
\* threads, in EXEC without running, or the one an assertion of swapIn() or reset()
\* fails on: for every number of threads, jobs and yields, with wake-ups that come
\* before the fiber has yielded and fibers scheduled twice; with use_caller,
\* provided stop() is called once.
THEOREM FibersExclusive ==
    ASSUME ~UseCaller \/ MaxStops <= 1
    PROVE  Spec => [](ExclusiveRun /\ ExecIsRunning /\ NoAbort)
<1> DEFINE Inv == Basic /\ Places /\ RootFresh /\ NoAbort
<1>1. Init => Inv
  <2> SUFFICES ASSUME Init PROVE Inv
    OBVIOUS
  <2>1. Basic
    BY BasicInit
  <2>2. Len(m_fibers) = 0
    BY EmptySeq DEF Init
  <2>3. QueueApart /\ StatesQueue
    BY <2>2 DEF QueueApart, StatesQueue
  <2>4. /\ ThreadsApart /\ WaitsHeld /\ WaitsHold /\ StatesDispatch /\ StatesRunning
        /\ StatesOut /\ StatesRecycled /\ ExecRuns /\ NoAbort
    BY DEF Init, ThreadsApart, WaitsHeld, WaitsHold, StatesDispatch, StatesRunning, StatesOut,
           StatesRecycled, ExecRuns, NoAbort, NoTask, Running
  <2>5. Allocated
    BY <2>2 DEF Init, Allocated, NoTask
  <2>6. RootFresh
    BY ConstantsAssumption DEF Init, RootFresh
  <2> QED BY <2>1, <2>3, <2>4, <2>5, <2>6 DEF Places
<1>2. Inv /\ [Next]_vars => Inv'
  BY BasicNext, PlacesNext, RootFreshNext, NoAbortNext
<1>3. Inv => ExclusiveRun /\ ExecIsRunning /\ NoAbort
  <2> SUFFICES ASSUME Inv PROVE ExclusiveRun /\ ExecIsRunning
    OBVIOUS
  <2>1. ExclusiveRun
    BY DEF Basic, Places, ExclusiveRun, ThreadsApart, HoldsFiber, Current
  <2>2. ExecIsRunning
    BY DEF Places, ExecIsRunning, ExecRuns, StatesRunning
  <2> QED BY <2>1, <2>2
<1> QED BY <1>1, <1>2, <1>3, PTL DEF Spec

-----------------------------------------------------------------------------
(* Once at most.  A job that was not entered yet waits in one spot: in one *)
(* entry of m_fibers, in one thread's ft, or as the function of one fiber  *)
(* that was never run.  Entering it takes it from there.                   *)

Fresh(f) == m_state[f] = "INIT" /\ m_cb[f] # None

SpotsQueue ==
    \A i \in 1 .. Len(m_fibers) : m_fibers[i].cb # None =>
        /\ m_fibers[i].cb \in submitted /\ runs[m_fibers[i].cb] = 0
        /\ \A k \in 1 .. Len(m_fibers) : m_fibers[k].cb = m_fibers[i].cb => k = i
        /\ \A t \in Pool : ft[t].cb # m_fibers[i].cb
        /\ \A f \in Fiber : Fresh(f) => m_cb[f] # m_fibers[i].cb

SpotsThreads ==
    \A t \in Pool : ft[t].cb # None =>
        /\ ft[t].cb \in submitted /\ runs[ft[t].cb] = 0
        /\ \A s \in Pool : ft[s].cb = ft[t].cb => s = t
        /\ \A f \in Fiber : Fresh(f) => m_cb[f] # ft[t].cb

SpotsFibers ==
    \A f \in Fiber : Fresh(f) =>
        /\ m_cb[f] \in submitted /\ runs[m_cb[f]] = 0
        /\ \A g \in Fiber : Fresh(g) /\ m_cb[g] = m_cb[f] => g = f

EnteredOnce == \A j \in Job : runs[j] <= 1 /\ (j \notin submitted => runs[j] = 0)

Spots == SpotsQueue /\ SpotsThreads /\ SpotsFibers /\ EnteredOnce

\* A step that enters and submits no job, and at most puts a fiber back in the list.
LEMMA SpotsQuiet ==
    ASSUME Basic, Spots, UNCHANGED <<runs, submitted>>,
           \A f \in Fiber : Fresh(f)' => Fresh(f) /\ m_cb'[f] = m_cb[f],
           \A t \in Pool : ft'[t].cb \in {None, ft[t].cb},
           \/ m_fibers' = m_fibers
           \/ \E f \in Fiber : m_fibers' = Append(m_fibers, FiberTask(f, None))
    PROVE  Spots'
<1> USE DEF Spots
<1>1. \A i \in 1 .. Len(m_fibers') : m_fibers'[i].cb # None =>
         i \in 1 .. Len(m_fibers) /\ m_fibers'[i] = m_fibers[i]
  <2>1. CASE m_fibers' = m_fibers
    BY <2>1
  <2>2. ASSUME NEW f \in Fiber, m_fibers' = Append(m_fibers, FiberTask(f, None))
        PROVE  \A i \in 1 .. Len(m_fibers') : m_fibers'[i].cb # None =>
                  i \in 1 .. Len(m_fibers) /\ m_fibers'[i] = m_fibers[i]
    <3>1. FiberTask(f, None) \in Task /\ FiberTask(f, None).cb = None
      BY TaskTypes DEF FiberTask
    <3>2. /\ Len(m_fibers) \in Nat /\ Len(m_fibers') = Len(m_fibers) + 1
          /\ \A i \in 1 .. Len(m_fibers) : m_fibers'[i] = m_fibers[i]
          /\ m_fibers'[Len(m_fibers) + 1].cb = None
      BY <2>2, <3>1, AppendFacts DEF Basic
    <3> QED BY <3>2
  <2> QED BY <2>1, <2>2
<1>2. SpotsQueue'
  <2> SUFFICES ASSUME NEW i \in 1 .. Len(m_fibers'), m_fibers'[i].cb # None
               PROVE  /\ m_fibers'[i].cb \in submitted' /\ runs'[m_fibers'[i].cb] = 0
                      /\ \A k \in 1 .. Len(m_fibers') : m_fibers'[k].cb = m_fibers'[i].cb => k = i
                      /\ \A t \in Pool : ft'[t].cb # m_fibers'[i].cb
                      /\ \A f \in Fiber : Fresh(f)' => m_cb'[f] # m_fibers'[i].cb
    BY DEF SpotsQueue
  <2>1. i \in 1 .. Len(m_fibers) /\ m_fibers'[i] = m_fibers[i] /\ m_fibers[i].cb # None
    BY <1>1
  <2>2. \A k \in 1 .. Len(m_fibers') : m_fibers'[k].cb = m_fibers'[i].cb => k = i
    BY <1>1, <2>1 DEF SpotsQueue
  <2>3. \A t \in Pool : ft'[t].cb # m_fibers'[i].cb
    BY <2>1 DEF SpotsQueue
  <2> QED BY <2>1, <2>2, <2>3 DEF SpotsQueue
<1>3. SpotsThreads'
  BY DEF SpotsThreads
<1>4. SpotsFibers'
  BY DEF SpotsFibers
<1>5. EnteredOnce'
  BY DEF EnteredOnce
<1> QED BY <1>2, <1>3, <1>4, <1>5

\* A job is entered by run(): it leaves the spot where it waited.
LEMMA SpotsEnter ==
    ASSUME Basic, Spots, NEW j \in Job, j \in submitted, runs[j] = 0,
           runs' = [runs EXCEPT ![j] = @ + 1], UNCHANGED <<m_fibers, submitted>>,
           \A f \in Fiber : Fresh(f)' => Fresh(f) /\ m_cb'[f] = m_cb[f] /\ m_cb[f] # j,
           \A t \in Pool : ft'[t].cb \in {None, ft[t].cb} /\ ft'[t].cb # j,
           \A i \in 1 .. Len(m_fibers) : m_fibers[i].cb # j
    PROVE  Spots'
<1> USE DEF Spots, Basic
<1>0. /\ runs'[j] = 1 /\ \A k \in Job : k # j => runs'[k] = runs[k]
      /\ submitted \subseteq Job
  BY DEF TypeGhosts
<1>1. SpotsQueue'
  BY <1>0 DEF SpotsQueue
<1>2. SpotsThreads'
  <2> SUFFICES ASSUME NEW t \in Pool, ft'[t].cb # None
               PROVE  /\ ft'[t].cb \in submitted' /\ runs'[ft'[t].cb] = 0
                      /\ \A s \in Pool : ft'[s].cb = ft'[t].cb => s = t
                      /\ \A f \in Fiber : Fresh(f)' => m_cb'[f] # ft'[t].cb
    BY DEF SpotsThreads
  <2>1. ft'[t].cb = ft[t].cb /\ ft[t].cb # j
    OBVIOUS
  <2>2. ft[t].cb \in submitted /\ runs[ft[t].cb] = 0
    BY <2>1 DEF SpotsThreads
  <2>3. \A s \in Pool : ft'[s].cb = ft'[t].cb => s = t
    BY <2>1 DEF SpotsThreads
  <2>4. \A f \in Fiber : Fresh(f)' => m_cb'[f] # ft'[t].cb
    BY <2>1 DEF SpotsThreads
  <2> QED BY <1>0, <2>1, <2>2, <2>3, <2>4
<1>3. SpotsFibers'
  BY <1>0 DEF SpotsFibers
<1>4. EnteredOnce'
  BY <1>0 DEF EnteredOnce
<1> QED BY <1>1, <1>2, <1>3, <1>4

\* schedule() with new work gives each job one spot.
LEMMA SpotsSubmit ==
    ASSUME Basic, Spots, UNCHANGED <<ft, runs>>,
           \/ \E j \in Job, thr \in Pool \cup {None} : SubmitCb(j, thr) \/ SubmitFiber(j, thr)
           \/ \E i, j \in Job : SubmitBatch(i, j)
    PROVE  Spots'
<1> USE NoneNotFiber DEF Basic, Spots
<1>1. ASSUME NEW j \in Job, NEW thr \in Pool \cup {None}, SubmitCb(j, thr) PROVE Spots'
  <2>1. CbTask(j, thr) \in Task /\ CbTask(j, thr).cb = j
    BY TaskTypes DEF CbTask
  <2>2. /\ m_fibers' = Append(m_fibers, CbTask(j, thr)) /\ UNCHANGED <<m_state, m_cb>>
        /\ j \notin submitted /\ submitted' = submitted \cup {j}
    BY <1>1 DEF SubmitCb, fiberVars
  <2>3. /\ Len(m_fibers) \in Nat /\ Len(m_fibers') = Len(m_fibers) + 1
        /\ \A i \in 1 .. Len(m_fibers) : m_fibers'[i] = m_fibers[i]
        /\ m_fibers'[Len(m_fibers) + 1].cb = j
    BY <2>1, <2>2, AppendFacts
  <2>4. \A i \in 1 .. Len(m_fibers') : i # Len(m_fibers) + 1 => i \in 1 .. Len(m_fibers)
    BY <2>3
  <2>5. SpotsQueue'
    <3>1. /\ \A i \in 1 .. Len(m_fibers) : m_fibers[i].cb # j
          /\ \A t \in Pool : ft[t].cb # j
          /\ \A f \in Fiber : Fresh(f) => m_cb[f] # j
          /\ runs[j] = 0
      BY <2>2 DEF SpotsQueue, SpotsThreads, SpotsFibers, EnteredOnce
    <3> QED BY <2>2, <2>3, <2>4, <3>1 DEF SpotsQueue, Fresh
  <2>6. SpotsThreads' /\ SpotsFibers' /\ EnteredOnce'
    BY <2>2 DEF SpotsThreads, SpotsFibers, EnteredOnce, Fresh
  <2> QED BY <2>5, <2>6
<1>2. ASSUME NEW j \in Job, NEW thr \in Pool \cup {None}, SubmitFiber(j, thr) PROVE Spots'
  <2> DEFINE f == s_fiber_id + 1
  <2>1. f \in Fiber /\ FiberTask(f, thr) \in Task /\ FiberTask(f, thr).cb = None
    BY <1>2, TaskTypes DEF SubmitFiber, FiberTask
  <2>2. /\ m_fibers' = Append(m_fibers, FiberTask(f, thr))
        /\ m_state' = [m_state EXCEPT ![f] = "INIT"] /\ m_cb' = [m_cb EXCEPT ![f] = j]
        /\ j \notin submitted /\ submitted' = submitted \cup {j}
    BY <1>2 DEF SubmitFiber
  <2> HIDE DEF f
  <2>3. /\ Len(m_fibers) \in Nat /\ Len(m_fibers') = Len(m_fibers) + 1
        /\ \A i \in 1 .. Len(m_fibers) : m_fibers'[i] = m_fibers[i]
        /\ m_fibers'[Len(m_fibers) + 1].cb = None
    BY <2>1, <2>2, AppendFacts
  <2>4. \A i \in 1 .. Len(m_fibers') : m_fibers'[i].cb # None =>
           i \in 1 .. Len(m_fibers) /\ m_fibers'[i] = m_fibers[i]
    BY <2>3
  <2>5. /\ \A i \in 1 .. Len(m_fibers) : m_fibers[i].cb # j
        /\ \A t \in Pool : ft[t].cb # j
        /\ \A g \in Fiber : Fresh(g) => m_cb[g] # j
        /\ runs[j] = 0
    BY <2>2 DEF SpotsQueue, SpotsThreads, SpotsFibers, EnteredOnce
  <2>6. \A g \in Fiber : Fresh(g)' => \/ g # f /\ Fresh(g) /\ m_cb'[g] = m_cb[g]
                                      \/ g = f /\ m_cb'[g] = j
    BY <2>1, <2>2 DEF Fresh, TypeFibers
  <2>7. SpotsQueue'
    <3> SUFFICES ASSUME NEW i \in 1 .. Len(m_fibers'), m_fibers'[i].cb # None
                 PROVE  /\ m_fibers'[i].cb \in submitted' /\ runs'[m_fibers'[i].cb] = 0
                        /\ \A k \in 1 .. Len(m_fibers') : m_fibers'[k].cb = m_fibers'[i].cb => k = i
                        /\ \A t \in Pool : ft'[t].cb # m_fibers'[i].cb
                        /\ \A g \in Fiber : Fresh(g)' => m_cb'[g] # m_fibers'[i].cb
      BY DEF SpotsQueue
    <3>1. i \in 1 .. Len(m_fibers) /\ m_fibers'[i] = m_fibers[i] /\ m_fibers[i].cb # None
      BY <2>4
    <3>2. \A k \in 1 .. Len(m_fibers') : m_fibers'[k].cb = m_fibers'[i].cb => k = i
      BY <2>4, <3>1 DEF SpotsQueue
    <3>3. \A g \in Fiber : Fresh(g)' => m_cb'[g] # m_fibers'[i].cb
      BY <2>5, <2>6, <3>1 DEF SpotsQueue
    <3> QED BY <2>2, <3>1, <3>2, <3>3 DEF SpotsQueue
  <2>8. SpotsThreads'
    BY <2>2, <2>5, <2>6 DEF SpotsThreads
  <2>9. SpotsFibers'
    BY <2>2, <2>5, <2>6 DEF SpotsFibers
  <2>10. EnteredOnce'
    BY <2>2 DEF EnteredOnce
  <2> QED BY <2>7, <2>8, <2>9, <2>10
<1>3. ASSUME NEW i \in Job, NEW j \in Job, SubmitBatch(i, j) PROVE Spots'
  <2> DEFINE b == <<CbTask(i, None), CbTask(j, None)>>
             n == Len(m_fibers)
  <2>1. /\ CbTask(i, None) \in Task /\ CbTask(i, None).cb = i
        /\ CbTask(j, None) \in Task /\ CbTask(j, None).cb = j
    BY TaskTypes DEF CbTask
  <2>2. b \in Seq(Task) /\ Len(b) = 2 /\ b[1] = CbTask(i, None) /\ b[2] = CbTask(j, None)
    BY <2>1
  <2>3. /\ m_fibers' = m_fibers \o b /\ UNCHANGED <<m_state, m_cb>>
        /\ i # j /\ i \notin submitted /\ j \notin submitted
        /\ submitted' = submitted \cup {i, j}
    BY <1>3 DEF SubmitBatch, fiberVars
  <2> HIDE DEF b
  <2>4. /\ Len(m_fibers') = Len(m_fibers) + Len(b)
        /\ \A k \in 1 .. Len(m_fibers) + Len(b) :
              m_fibers'[k] = IF k <= Len(m_fibers) THEN m_fibers[k] ELSE b[k - Len(m_fibers)]
    BY <2>2, <2>3, ConcatProperties, Zenon DEF TypeQueue
  <2>5. n \in Nat
    BY LenProperties DEF TypeQueue
  <2>6. /\ \A k \in 1 .. Len(m_fibers') : k \in 1 .. n \/ k = n + 1 \/ k = n + 2
        /\ \A k \in 1 .. n : m_fibers'[k] = m_fibers[k]
        /\ m_fibers'[n + 1].cb = i /\ m_fibers'[n + 2].cb = j
        /\ n + 1 # n + 2
    BY <2>1, <2>2, <2>4, <2>5
  <2>7. \A c \in {i, j} : /\ \A k \in 1 .. n : m_fibers[k].cb # c
                          /\ \A t \in Pool : ft[t].cb # c
                          /\ \A f \in Fiber : Fresh(f) => m_cb[f] # c
                          /\ runs[c] = 0 /\ c \in submitted'
    BY <2>3 DEF SpotsQueue, SpotsThreads, SpotsFibers, EnteredOnce
  <2>n. \A k \in 1 .. n : k # n + 1 /\ k # n + 2
    BY <2>5
  <2> HIDE DEF n
  <2>8. SpotsQueue'
    <3> SUFFICES ASSUME NEW q \in 1 .. Len(m_fibers'), m_fibers'[q].cb # None
                 PROVE  /\ m_fibers'[q].cb \in submitted' /\ runs'[m_fibers'[q].cb] = 0
                        /\ \A k \in 1 .. Len(m_fibers') : m_fibers'[k].cb = m_fibers'[q].cb => k = q
                        /\ \A t \in Pool : ft'[t].cb # m_fibers'[q].cb
                        /\ \A g \in Fiber : Fresh(g)' => m_cb'[g] # m_fibers'[q].cb
      BY DEF SpotsQueue
    <3>0. \A g \in Fiber : Fresh(g)' => Fresh(g) /\ m_cb'[g] = m_cb[g]
      BY <2>3 DEF Fresh
    <3>1. CASE q \in 1 .. n
      <4>1. /\ m_fibers'[q] = m_fibers[q] /\ m_fibers[q].cb # None
            /\ m_fibers[q].cb \in submitted /\ runs[m_fibers[q].cb] = 0
            /\ \A t \in Pool : ft[t].cb # m_fibers[q].cb
            /\ \A f \in Fiber : Fresh(f) => m_cb[f] # m_fibers[q].cb
            /\ \A k \in 1 .. n : m_fibers[k].cb = m_fibers[q].cb => k = q
        BY <2>6, <3>1 DEF SpotsQueue, n
      <4>2. m_fibers[q].cb # i /\ m_fibers[q].cb # j
        BY <2>7, <3>1
      <4>3. \A k \in 1 .. Len(m_fibers') : m_fibers'[k].cb = m_fibers'[q].cb => k = q
        BY <2>6, <4>1, <4>2
      <4> QED BY <2>3, <3>0, <4>1, <4>3
    <3>2. CASE q = n + 1
      BY <2>3, <2>6, <2>7, <3>0, <3>2
    <3>3. CASE q = n + 2
      BY <2>3, <2>6, <2>7, <3>0, <3>3, SMTT(30)
    <3> QED BY <2>6, <3>1, <3>2, <3>3
  <2>9. SpotsThreads' /\ SpotsFibers' /\ EnteredOnce'
    BY <2>3 DEF SpotsThreads, SpotsFibers, EnteredOnce, Fresh
  <2> QED BY <2>8, <2>9
<1> QED BY <1>1, <1>2, <1>3

\* Every action leaves each job that waits to be entered in one spot.
LEMMA SpotsNext == Basic /\ Spots /\ [Next]_vars => Spots'
<1> SUFFICES ASSUME Basic, Spots, [Next]_vars PROVE Spots'
  OBVIOUS
<1> USE NoneNotFiber
<1> USE DEF Basic, threadVars, fiberVars, stopVars, countVars, ghostVars
<1>1. ASSUME NEW t \in Pool, TakeNothing(t) PROVE Spots'
  <2>1. /\ UNCHANGED <<m_fibers, runs, submitted>>
        /\ \A g \in Fiber : Fresh(g)' => Fresh(g) /\ m_cb'[g] = m_cb[g]
        /\ \A s \in Pool : ft'[s].cb \in {None, ft[s].cb}
    BY <1>1 DEF TakeNothing, Fresh, TypeThreads, TypeFibers
  <2> QED BY <2>1, SpotsQuiet
<1>2. ASSUME NEW t \in Pool, DropEnded(t) PROVE Spots'
  <2>1. /\ UNCHANGED <<m_fibers, runs, submitted>>
        /\ \A g \in Fiber : Fresh(g)' => Fresh(g) /\ m_cb'[g] = m_cb[g]
        /\ \A s \in Pool : ft'[s].cb \in {None, ft[s].cb}
    BY <1>2 DEF DropEnded, Fresh, TypeThreads, TypeFibers, NoTask
  <2> QED BY <2>1, SpotsQuiet
<1>3. ASSUME NEW t \in Pool, EnterIdle(t) PROVE Spots'
  <2>1. /\ UNCHANGED <<m_fibers, runs, submitted>>
        /\ \A g \in Fiber : Fresh(g)' => Fresh(g) /\ m_cb'[g] = m_cb[g]
        /\ \A s \in Pool : ft'[s].cb \in {None, ft[s].cb}
    BY <1>3 DEF EnterIdle, Fresh, TypeThreads, TypeFibers
  <2> QED BY <2>1, SpotsQuiet
<1>4. ASSUME NEW t \in Pool, LeaveIdle(t) PROVE Spots'
  <2>1. /\ UNCHANGED <<m_fibers, runs, submitted>>
        /\ \A g \in Fiber : Fresh(g)' => Fresh(g) /\ m_cb'[g] = m_cb[g]
        /\ \A s \in Pool : ft'[s].cb \in {None, ft[s].cb}
    BY <1>4 DEF LeaveIdle, Fresh, TypeThreads, TypeFibers
  <2> QED BY <2>1, SpotsQuiet
<1>5. ASSUME NEW t \in Pool, Exit(t) PROVE Spots'
  <2>1. /\ UNCHANGED <<m_fibers, runs, submitted>>
        /\ \A g \in Fiber : Fresh(g)' => Fresh(g) /\ m_cb'[g] = m_cb[g]
        /\ \A s \in Pool : ft'[s].cb \in {None, ft[s].cb}
    BY <1>5 DEF Exit, Fresh, TypeThreads, TypeFibers
  <2> QED BY <2>1, SpotsQuiet
<1>6. ASSUME NEW t \in Pool, SwapOut(t) PROVE Spots'
  <2>1. /\ UNCHANGED <<m_fibers, runs, submitted>>
        /\ \A g \in Fiber : Fresh(g)' => Fresh(g) /\ m_cb'[g] = m_cb[g]
        /\ \A s \in Pool : ft'[s].cb \in {None, ft[s].cb}
    BY <1>6 DEF SwapOut, Fresh, TypeThreads, TypeFibers
  <2> QED BY <2>1, SpotsQuiet
<1>7. ASSUME NEW t \in Pool, SettleHold(t) PROVE Spots'
  <2>1. /\ UNCHANGED <<m_fibers, runs, submitted>>
        /\ \A g \in Fiber : Fresh(g)' => Fresh(g) /\ m_cb'[g] = m_cb[g]
        /\ \A s \in Pool : ft'[s].cb \in {None, ft[s].cb}
    BY <1>7, CurrentType DEF SettleHold, Fresh, TypeThreads, TypeFibers, NoTask, Holding, OnStack, Running
  <2> QED BY <2>1, SpotsQuiet
<1>8. ASSUME NEW t \in Pool, YieldToReady(t) PROVE Spots'
  <2>1. /\ UNCHANGED <<m_fibers, runs, submitted>>
        /\ \A g \in Fiber : Fresh(g)' => Fresh(g) /\ m_cb'[g] = m_cb[g]
        /\ \A s \in Pool : ft'[s].cb \in {None, ft[s].cb}
    BY <1>8, CurrentType DEF YieldToReady, Fresh, TypeThreads, TypeFibers, Holding, OnStack, Running
  <2> QED BY <2>1, SpotsQuiet
<1>9. ASSUME NEW t \in Pool, Register(t) PROVE Spots'
  <2>1. /\ UNCHANGED <<m_fibers, runs, submitted>>
        /\ \A g \in Fiber : Fresh(g)' => Fresh(g) /\ m_cb'[g] = m_cb[g]
        /\ \A s \in Pool : ft'[s].cb \in {None, ft[s].cb}
    BY <1>9 DEF Register, Fresh, TypeThreads, TypeFibers
  <2> QED BY <2>1, SpotsQuiet
<1>10. ASSUME NEW t \in Pool, YieldToHold(t) PROVE Spots'
  <2>1. /\ UNCHANGED <<m_fibers, runs, submitted>>
        /\ \A g \in Fiber : Fresh(g)' => Fresh(g) /\ m_cb'[g] = m_cb[g]
        /\ \A s \in Pool : ft'[s].cb \in {None, ft[s].cb}
    BY <1>10, CurrentType DEF YieldToHold, Fresh, TypeThreads, TypeFibers, Holding, OnStack, Running
  <2> QED BY <2>1, SpotsQuiet
<1>11. ASSUME Start PROVE Spots'
  <2>1. /\ UNCHANGED <<m_fibers, runs, submitted>>
        /\ \A g \in Fiber : Fresh(g)' => Fresh(g) /\ m_cb'[g] = m_cb[g]
        /\ \A s \in Pool : ft'[s].cb \in {None, ft[s].cb}
    BY <1>11 DEF Start, Fresh, TypeThreads, TypeFibers
  <2> QED BY <2>1, SpotsQuiet
<1>12. ASSUME StopBegin PROVE Spots'
  <2>1. /\ UNCHANGED <<m_fibers, runs, submitted>>
        /\ \A g \in Fiber : Fresh(g)' => Fresh(g) /\ m_cb'[g] = m_cb[g]
        /\ \A s \in Pool : ft'[s].cb \in {None, ft[s].cb}
    BY <1>12 DEF StopBegin, Fresh, TypeThreads, TypeFibers
  <2> QED BY <2>1, SpotsQuiet
<1>13. ASSUME StopCheck PROVE Spots'
  <2>1. /\ UNCHANGED <<m_fibers, runs, submitted>>
        /\ \A g \in Fiber : Fresh(g)' => Fresh(g) /\ m_cb'[g] = m_cb[g]
        /\ \A s \in Pool : ft'[s].cb \in {None, ft[s].cb}
    BY <1>13 DEF StopCheck, Fresh, TypeThreads, TypeFibers
  <2> QED BY <2>1, SpotsQuiet
<1>14. ASSUME StopFlag PROVE Spots'
  <2>1. /\ UNCHANGED <<m_fibers, runs, submitted>>
        /\ \A g \in Fiber : Fresh(g)' => Fresh(g) /\ m_cb'[g] = m_cb[g]
        /\ \A s \in Pool : ft'[s].cb \in {None, ft[s].cb}
    BY <1>14 DEF StopFlag, Fresh, TypeThreads, TypeFibers
  <2> QED BY <2>1, SpotsQuiet
<1>15. ASSUME StopRoot PROVE Spots'
  <2>1. /\ UNCHANGED <<m_fibers, runs, submitted>>
        /\ \A g \in Fiber : Fresh(g)' => Fresh(g) /\ m_cb'[g] = m_cb[g]
        /\ \A s \in Pool : ft'[s].cb \in {None, ft[s].cb}
    BY <1>15 DEF StopRoot, Fresh, TypeThreads, TypeFibers
  <2> QED BY <2>1, SpotsQuiet
<1>16. ASSUME Join PROVE Spots'
  <2>1. /\ UNCHANGED <<m_fibers, runs, submitted>>
        /\ \A g \in Fiber : Fresh(g)' => Fresh(g) /\ m_cb'[g] = m_cb[g]
        /\ \A s \in Pool : ft'[s].cb \in {None, ft[s].cb}
    BY <1>16 DEF Join, Fresh, TypeThreads, TypeFibers
  <2> QED BY <2>1, SpotsQuiet
<1>17. ASSUME OwnerElsewhere PROVE Spots'
  <2>1. /\ UNCHANGED <<m_fibers, runs, submitted>>
        /\ \A g \in Fiber : Fresh(g)' => Fresh(g) /\ m_cb'[g] = m_cb[g]
        /\ \A s \in Pool : ft'[s].cb \in {None, ft[s].cb}
    BY <1>17 DEF OwnerElsewhere, Fresh, TypeThreads, TypeFibers, vars
  <2> QED BY <2>1, SpotsQuiet
<1>18. ASSUME NEW t \in Pool, Finish(t) PROVE Spots'
  <2>1. Current(t) \in Fiber
    BY <1>18, CurrentType DEF Finish, Holding, OnStack, Running
  <2>2. /\ UNCHANGED <<m_fibers, runs, submitted, ft>>
        /\ \A g \in Fiber : Fresh(g)' => Fresh(g) /\ m_cb'[g] = m_cb[g]
    BY <1>18, <2>1 DEF Finish, Fresh, TypeFibers
  <2> QED BY <2>2, SpotsQuiet
<1>19. ASSUME NEW t \in Pool, SettleEnded(t) PROVE Spots'
  <2>1. Current(t) \in Fiber
    BY <1>19, CurrentType DEF SettleEnded, Holding
  <2>2. UNCHANGED <<m_fibers, runs, submitted>>
    BY <1>19 DEF SettleEnded
  <2>3. \A g \in Fiber : Fresh(g)' => Fresh(g) /\ m_cb'[g] = m_cb[g]
    BY <1>19, <2>1 DEF SettleEnded, Fresh, TypeFibers
  <2>4. \A s \in Pool : ft'[s].cb \in {None, ft[s].cb}
    BY <1>19 DEF SettleEnded, NoTask, TypeThreads
  <2> QED BY <2>2, <2>3, <2>4, SpotsQuiet
<1>20. ASSUME NEW t \in Pool, SettleReady(t) PROVE Spots'
  <2>1. Current(t) \in Fiber
    BY <1>20, CurrentType DEF SettleReady, Holding
  <2>2. UNCHANGED <<runs, submitted>> /\ m_fibers' = Append(m_fibers, FiberTask(Current(t), None))
    BY <1>20 DEF SettleReady, Requeued
  <2>3. \A g \in Fiber : Fresh(g)' => Fresh(g) /\ m_cb'[g] = m_cb[g]
    BY <1>20 DEF SettleReady, Fresh
  <2>4. \A s \in Pool : ft'[s].cb \in {None, ft[s].cb}
    BY <1>20 DEF SettleReady, NoTask, TypeThreads
  <2> QED BY <2>1, <2>2, <2>3, <2>4, SpotsQuiet
<1>21. ASSUME NEW f \in Fiber, Wake(f) \/ OwnerReschedule(f) PROVE Spots'
  <2>1. /\ UNCHANGED <<runs, submitted, ft, m_state, m_cb>>
        /\ m_fibers' = Append(m_fibers, FiberTask(f, None))
    BY <1>21 DEF Wake, OwnerReschedule
  <2>2. \A g \in Fiber : Fresh(g)' => Fresh(g) /\ m_cb'[g] = m_cb[g]
    BY <2>1 DEF Fresh
  <2> QED BY <2>1, <2>2, SpotsQuiet
<1>22. ASSUME NEW t \in Pool, FiberSchedule(t) PROVE Spots'
  <2>1. /\ \E j \in Job, thr \in Pool \cup {None} : SubmitCb(j, thr) \/ SubmitFiber(j, thr)
        /\ UNCHANGED <<ft, runs>>
    BY <1>22 DEF FiberSchedule
  <2> QED BY <2>1, SpotsSubmit
<1>23. ASSUME OwnerSchedule PROVE Spots'
  <2>1. /\ \/ \E j \in Job, thr \in Pool \cup {None} : SubmitCb(j, thr) \/ SubmitFiber(j, thr)
           \/ \E i, j \in Job : SubmitBatch(i, j)
        /\ UNCHANGED <<ft, runs>>
    BY <1>23 DEF OwnerSchedule
  <2> QED BY <2>1, SpotsSubmit
<1>24. ASSUME NEW t \in Pool, Take(t) PROVE Spots'
  <2>1. PICK i \in 1 .. Len(m_fibers) :
             ft' = [ft EXCEPT ![t] = m_fibers[i]] /\ m_fibers' = RemoveAt(m_fibers, i)
    BY <1>24 DEF Take, Popped
  <2> DEFINE at(k) == IF k < i THEN k ELSE k + 1
  <2>2. /\ Len(m_fibers) \in Nat /\ Len(m_fibers') = Len(m_fibers) - 1
        /\ \A k \in 1 .. Len(m_fibers) - 1 :
              m_fibers'[k] = IF k < i THEN m_fibers[k] ELSE m_fibers[k + 1]
    BY <2>1, RemoveAtProperties, LenProperties DEF TypeQueue
  <2>3. \A k \in 1 .. Len(m_fibers') :
           m_fibers'[k] = m_fibers[at(k)] /\ at(k) \in 1 .. Len(m_fibers) /\ at(k) # i
    BY <2>2
  <2>4. \A k, l \in 1 .. Len(m_fibers') : at(k) = at(l) => k = l
    BY <2>2
  <2> HIDE DEF at
  <2>5. /\ UNCHANGED <<m_state, m_cb, runs, submitted>>
        /\ ft'[t] = m_fibers[i] /\ \A s \in Pool : s # t => ft'[s] = ft[s]
    BY <1>24, <2>1 DEF Take, TypeThreads
  <2>6. SpotsQueue'
    <3> SUFFICES ASSUME NEW q \in 1 .. Len(m_fibers'), m_fibers'[q].cb # None
                 PROVE  /\ m_fibers'[q].cb \in submitted' /\ runs'[m_fibers'[q].cb] = 0
                        /\ \A k \in 1 .. Len(m_fibers') : m_fibers'[k].cb = m_fibers'[q].cb => k = q
                        /\ \A s \in Pool : ft'[s].cb # m_fibers'[q].cb
                        /\ \A g \in Fiber : Fresh(g)' => m_cb'[g] # m_fibers'[q].cb
      BY DEF SpotsQueue
    <3>1. \A k \in 1 .. Len(m_fibers') : m_fibers'[k].cb = m_fibers'[q].cb => at(k) = at(q)
      BY <2>3 DEF Spots, SpotsQueue
    <3>2. m_fibers[i].cb # m_fibers[at(q)].cb
      BY <2>3 DEF Spots, SpotsQueue
    <3>3. \A k \in 1 .. Len(m_fibers') : m_fibers'[k].cb = m_fibers'[q].cb => k = q
      BY <2>4, <3>1
    <3>4. \A g \in Fiber : Fresh(g)' => Fresh(g) /\ m_cb'[g] = m_cb[g]
      BY <2>5 DEF Fresh
    <3>5. /\ m_fibers[at(q)].cb \in submitted /\ runs[m_fibers[at(q)].cb] = 0
          /\ \A s \in Pool : ft[s].cb # m_fibers[at(q)].cb
          /\ \A g \in Fiber : Fresh(g) => m_cb[g] # m_fibers[at(q)].cb
      BY <2>3 DEF Spots, SpotsQueue
    <3>6. \A s \in Pool : ft'[s].cb # m_fibers[at(q)].cb
      BY <2>5, <3>2, <3>5
    <3> QED BY <2>3, <2>5, <3>3, <3>4, <3>5, <3>6
  <2>7. SpotsThreads'
    <3> SUFFICES ASSUME NEW s \in Pool, ft'[s].cb # None
                 PROVE  /\ ft'[s].cb \in submitted' /\ runs'[ft'[s].cb] = 0
                        /\ \A r \in Pool : ft'[r].cb = ft'[s].cb => r = s
                        /\ \A f \in Fiber : Fresh(f)' => m_cb'[f] # ft'[s].cb
      BY DEF SpotsThreads
    <3>1. CASE s = t
      BY <2>5, <3>1 DEF Spots, SpotsQueue, Fresh
    <3>2. CASE s # t
      <4>1. m_fibers[i].cb # ft[s].cb
        BY <2>5, <3>2 DEF Spots, SpotsQueue
      <4> QED BY <2>5, <3>2, <4>1 DEF Spots, SpotsThreads, Fresh
    <3> QED BY <3>1, <3>2
  <2>8. SpotsFibers' /\ EnteredOnce'
    BY <2>5 DEF Spots, SpotsFibers, EnteredOnce, Fresh
  <2> QED BY <2>6, <2>7, <2>8 DEF Spots
<1>25. ASSUME NEW t \in Pool, SwapInFiber(t) PROVE Spots'
  <2> DEFINE f == ft[t].fiber
             j == m_cb[f]
  <2>1. /\ f \in Fiber /\ m_state' = [m_state EXCEPT ![f] = "EXEC"]
        /\ UNCHANGED <<m_fibers, ft, m_cb, submitted>>
        /\ runs' = IF Fresh(f) THEN [runs EXCEPT ![j] = @ + 1] ELSE runs
    BY <1>25 DEF SwapInFiber, TypeThreads, Task, Fresh
  <2>2. \A g \in Fiber : Fresh(g)' => g # f /\ Fresh(g) /\ m_cb'[g] = m_cb[g]
    BY <2>1 DEF Fresh, TypeFibers
  <2>3. CASE Fresh(f)
    <3>1. /\ j \in Job /\ j \in submitted /\ runs[j] = 0
          /\ \A g \in Fiber : Fresh(g) /\ g # f => m_cb[g] # j
          /\ \A s \in Pool : ft[s].cb # j
          /\ \A i \in 1 .. Len(m_fibers) : m_fibers[i].cb # j
      <4>1. j # None
        BY <2>3 DEF Fresh
      <4>2. /\ j \in Job /\ j \in submitted /\ runs[j] = 0
            /\ \A g \in Fiber : Fresh(g) /\ g # f => m_cb[g] # j
        BY <2>1, <2>3 DEF Spots, SpotsFibers, TypeGhosts
      <4>3. \A s \in Pool : ft[s].cb # j
        BY <2>1, <2>3, <4>1 DEF Spots, SpotsThreads
      <4>4. \A i \in 1 .. Len(m_fibers) : m_fibers[i].cb # j
        BY <2>1, <2>3, <4>1 DEF Spots, SpotsQueue
      <4> QED BY <4>2, <4>3, <4>4
    <3>2. runs' = [runs EXCEPT ![j] = @ + 1]
      BY <2>1, <2>3
    <3> HIDE DEF f, j
    <3> QED BY <2>1, <2>2, <3>1, <3>2, SpotsEnter
  <2>4. CASE ~Fresh(f)
    BY <2>1, <2>2, <2>4, SpotsQuiet
  <2> QED BY <2>3, <2>4
<1>26. ASSUME NEW t \in Pool, SwapInNewCb(t) \/ SwapInOldCb(t) PROVE Spots'
  <2> DEFINE j == ft[t].cb
  <2>1. PICK f \in Fiber : /\ m_state' = [m_state EXCEPT ![f] = "EXEC"]
                           /\ m_cb' = [m_cb EXCEPT ![f] = j]
    BY <1>26 DEF SwapInNewCb, SwapInOldCb, TypeThreads
  <2>2. /\ j \in Job /\ UNCHANGED <<m_fibers, submitted>>
        /\ runs' = [runs EXCEPT ![j] = @ + 1]
        /\ ft' = [ft EXCEPT ![t] = NoTask]
    BY <1>26 DEF SwapInNewCb, SwapInOldCb, TypeThreads, Task
  <2>3. /\ j \in submitted /\ runs[j] = 0
        /\ \A g \in Fiber : Fresh(g) => m_cb[g] # j
        /\ \A s \in Pool : s # t => ft[s].cb # j
        /\ \A i \in 1 .. Len(m_fibers) : m_fibers[i].cb # j
    BY <2>2 DEF Spots, SpotsThreads, SpotsQueue
  <2>4. \A g \in Fiber : Fresh(g)' => Fresh(g) /\ m_cb'[g] = m_cb[g]
    BY <2>1 DEF Fresh, TypeFibers
  <2>5. \A s \in Pool : ft'[s].cb \in {None, ft[s].cb} /\ ft'[s].cb # j
    BY <2>2, <2>3 DEF TypeThreads, NoTask
  <2> HIDE DEF j
  <2> QED BY <2>2, <2>3, <2>4, <2>5, SpotsEnter
<1>27. CASE UNCHANGED vars
  <2>1. UNCHANGED <<m_fibers, runs, submitted, ft, m_state, m_cb>>
    BY <1>27 DEF vars
  <2>2. \A g \in Fiber : Fresh(g)' => Fresh(g) /\ m_cb'[g] = m_cb[g]
    BY <2>1 DEF Fresh
  <2> QED BY <2>1, <2>2, SpotsQuiet
<1>30. ASSUME NEW t \in Pool, AssertFails(t) PROVE Spots'
  <2>1. UNCHANGED <<m_fibers, runs, submitted, ft, m_state, m_cb>>
    BY <1>30 DEF AssertFails
  <2>2. \A g \in Fiber : Fresh(g)' => Fresh(g) /\ m_cb'[g] = m_cb[g]
    BY <2>1 DEF Fresh
  <2> QED BY <2>1, <2>2, SpotsQuiet
<1> HIDE DEF Basic
<1> QED
  BY <1>1, <1>2, <1>3, <1>4, <1>5, <1>6, <1>7, <1>8, <1>9, <1>10, <1>11, <1>12, <1>13, <1>14, <1>15, <1>16, <1>17, <1>18, <1>19, <1>20, <1>21, <1>22, <1>23, <1>24, <1>25, <1>26, <1>27, <1>30
     DEF Next, Thread, InRun, InFiber, Stopping

(* Before the first schedule() no fiber is anywhere. *)
LEMMA SpotsInit == Init => Spots
<1> SUFFICES ASSUME Init PROVE Spots
  OBVIOUS
<1>1. Len(m_fibers) = 0
  BY EmptySeq DEF Init
<1> QED BY <1>1 DEF Init, Spots, SpotsQueue, SpotsThreads, SpotsFibers, EnteredOnce, Fresh, NoTask

\* A submitted callback is entered at most once: for every number of threads, with
\* early wake-ups and rescheduled fibers too.
THEOREM EnteredAtMostOnce == Spec => []AtMostOnce
<1>1. Spots => AtMostOnce
  BY DEF Spots, EnteredOnce, AtMostOnce
<1> QED BY <1>1, BasicInit, BasicNext, SpotsInit, SpotsNext, PTL DEF Spec

\* What the scheduler owes every job, under the conditions of FibersExclusive.
THEOREM JobsAreSound ==
    ASSUME ~UseCaller \/ MaxStops <= 1
    PROVE  Spec => []JobsSound
<1>1. TypeOK /\ CountersExact /\ ExclusiveRun /\ ExecIsRunning /\ NoAbort /\ AtMostOnce => JobsSound
  BY DEF JobsSound
<1> QED BY <1>1, TypesAndCounters, FibersExclusive, EnteredAtMostOnce, PTL

-----------------------------------------------------------------------------
(* Pinned work.  What waits in a spot still carries the thread it was      *)
(* submitted for; only a fiber that has run is handed on for any thread.   *)

PinsQueue ==
    \A i \in 1 .. Len(m_fibers) :
        /\ m_fibers[i].cb # None => m_fibers[i].thread = pin[m_fibers[i].cb]
        /\ \A f \in Fiber : m_fibers[i].fiber = f /\ Fresh(f) => m_fibers[i].thread = pin[m_cb[f]]

PinsThreads ==
    \A t \in Pool :
        /\ ft[t].cb # None => pin[ft[t].cb] \in {None, t}
        /\ \A f \in Fiber : ft[t].fiber = f /\ Fresh(f) => pin[m_cb[f]] \in {None, t}

PinsNew == \A j \in Job : j \notin submitted => pin[j] = None

Pins == PinsQueue /\ PinsThreads /\ PinsNew

\* A step that submits nothing and puts at most a fiber that has run back in the list.
LEMMA PinsQuiet ==
    ASSUME Basic, Pins, UNCHANGED <<pin, submitted>>,
           \A f \in Fiber : Fresh(f)' => Fresh(f) /\ m_cb'[f] = m_cb[f],
           \A t \in Pool : ft'[t] \in {NoTask, ft[t]},
           \/ m_fibers' = m_fibers
           \/ \E f \in Fiber : ~Fresh(f) /\ m_fibers' = Append(m_fibers, FiberTask(f, None))
    PROVE  Pins'
<1> USE NoneNotFiber DEF Pins
<1>0. \A i \in 1 .. Len(m_fibers) : m_fibers[i] \in Task
  BY ElementOfSeq DEF Basic, TypeQueue
<1>1. PinsQueue'
  <2>1. CASE m_fibers' = m_fibers
    BY <1>0, <2>1 DEF PinsQueue, Task
  <2>2. ASSUME NEW f \in Fiber, ~Fresh(f), m_fibers' = Append(m_fibers, FiberTask(f, None))
        PROVE  PinsQueue'
    <3>1. FiberTask(f, None) \in Task /\ FiberTask(f, None).cb = None /\ FiberTask(f, None).fiber = f
      BY TaskTypes DEF FiberTask
    <3>2. /\ Len(m_fibers) \in Nat /\ Len(m_fibers') = Len(m_fibers) + 1
          /\ \A i \in 1 .. Len(m_fibers) : m_fibers'[i] = m_fibers[i]
          /\ m_fibers'[Len(m_fibers) + 1].cb = None
          /\ m_fibers'[Len(m_fibers) + 1].fiber = f
      BY <2>2, <3>1, AppendFacts DEF Basic
    <3>3. \A i \in 1 .. Len(m_fibers') : i # Len(m_fibers) + 1 => i \in 1 .. Len(m_fibers)
      BY <3>2
    <3>4. ASSUME NEW i \in 1 .. Len(m_fibers')
          PROVE  /\ m_fibers'[i].cb # None => m_fibers'[i].thread = pin'[m_fibers'[i].cb]
                 /\ \A g \in Fiber : m_fibers'[i].fiber = g /\ Fresh(g)' =>
                        m_fibers'[i].thread = pin'[m_cb'[g]]
      <4>1. CASE i = Len(m_fibers) + 1
        BY <2>2, <3>2, <4>1
      <4>2. CASE i # Len(m_fibers) + 1
        BY <3>2, <3>3, <4>2 DEF PinsQueue
      <4> QED BY <4>1, <4>2
    <3> QED BY <3>4 DEF PinsQueue
  <2> QED BY <2>1, <2>2
<1>2. PinsThreads'
  <2>1. NoTask.cb = None /\ NoTask.fiber = None
    BY DEF NoTask
  <2> QED BY <2>1 DEF PinsThreads
<1>3. PinsNew'
  BY DEF PinsNew
<1> QED BY <1>1, <1>2, <1>3

\* schedule() with new work records the thread asked for in the entry.
LEMMA PinsSubmit ==
    ASSUME Basic, Places, Spots, Pins, UNCHANGED ft,
           \/ \E j \in Job, thr \in Pool \cup {None} : SubmitCb(j, thr) \/ SubmitFiber(j, thr)
           \/ \E i, j \in Job : SubmitBatch(i, j)
    PROVE  Pins'
<1> USE NoneNotFiber DEF Basic, Pins
<1>0. /\ \A i \in 1 .. Len(m_fibers) : m_fibers[i] \in Task
      /\ \A t \in Pool : ft[t] \in Task
  BY ElementOfSeq DEF TypeQueue, TypeThreads
<1>s. /\ \A i \in 1 .. Len(m_fibers) : m_fibers[i].cb # None => m_fibers[i].cb \in submitted
      /\ \A t \in Pool : ft[t].cb # None => ft[t].cb \in submitted
      /\ \A f \in Fiber : Fresh(f) => m_cb[f] \in submitted
      /\ submitted \subseteq Job
  BY DEF Spots, SpotsQueue, SpotsThreads, SpotsFibers, TypeGhosts
<1>1. ASSUME NEW j \in Job, NEW thr \in Pool \cup {None}, SubmitCb(j, thr) PROVE Pins'
  <2>1. /\ CbTask(j, thr) \in Task /\ CbTask(j, thr).cb = j
        /\ CbTask(j, thr).fiber = None /\ CbTask(j, thr).thread = thr
    BY TaskTypes DEF CbTask
  <2>2. /\ m_fibers' = Append(m_fibers, CbTask(j, thr)) /\ UNCHANGED <<m_state, m_cb>>
        /\ j \notin submitted /\ submitted' = submitted \cup {j}
        /\ pin'[j] = thr /\ \A k \in Job : k # j => pin'[k] = pin[k]
    BY <1>1 DEF SubmitCb, fiberVars, TypeGhosts
  <2>3. /\ Len(m_fibers) \in Nat /\ Len(m_fibers') = Len(m_fibers) + 1
        /\ \A i \in 1 .. Len(m_fibers) : m_fibers'[i] = m_fibers[i]
        /\ m_fibers'[Len(m_fibers) + 1] = CbTask(j, thr)
    BY <2>1, <2>2, AppendFacts
  <2>4. \A i \in 1 .. Len(m_fibers') : i # Len(m_fibers) + 1 => i \in 1 .. Len(m_fibers)
    BY <2>3
  <2>k. \A k \in submitted : k \in Job /\ pin'[k] = pin[k]
    BY <1>s, <2>2
  <2>5. PinsQueue'
    <3> SUFFICES ASSUME NEW i \in 1 .. Len(m_fibers')
                 PROVE  /\ m_fibers'[i].cb # None => m_fibers'[i].thread = pin'[m_fibers'[i].cb]
                        /\ \A g \in Fiber : m_fibers'[i].fiber = g /\ Fresh(g)' =>
                              m_fibers'[i].thread = pin'[m_cb'[g]]
      BY DEF PinsQueue
    <3>1. CASE i = Len(m_fibers) + 1
      BY <2>1, <2>2, <2>3, <3>1
    <3>2. CASE i # Len(m_fibers) + 1
      <4>1. i \in 1 .. Len(m_fibers) /\ m_fibers'[i] = m_fibers[i] /\ m_fibers[i] \in Task
        BY <1>0, <2>3, <2>4, <3>2
      <4>2. \A g \in Fiber : Fresh(g)' => Fresh(g) /\ m_cb'[g] = m_cb[g]
        BY <2>2 DEF Fresh
      <4> QED BY <1>s, <2>k, <4>1, <4>2 DEF PinsQueue
    <3> QED BY <3>1, <3>2
  <2>6. PinsThreads'
    BY <1>s, <2>2, <2>k DEF PinsThreads, Fresh
  <2>7. PinsNew'
    BY <2>2 DEF PinsNew
  <2> QED BY <2>5, <2>6, <2>7
<1>2. ASSUME NEW j \in Job, NEW thr \in Pool \cup {None}, SubmitFiber(j, thr) PROVE Pins'
  <2> DEFINE f == s_fiber_id + 1
  <2>1. /\ f \in Fiber /\ FiberTask(f, thr) \in Task /\ FiberTask(f, thr).cb = None
        /\ FiberTask(f, thr).fiber = f /\ FiberTask(f, thr).thread = thr
    BY <1>2, TaskTypes DEF SubmitFiber, FiberTask
  <2>2. /\ m_fibers' = Append(m_fibers, FiberTask(f, thr))
        /\ m_state' = [m_state EXCEPT ![f] = "INIT"] /\ m_cb' = [m_cb EXCEPT ![f] = j]
        /\ j \notin submitted /\ submitted' = submitted \cup {j}
        /\ pin'[j] = thr /\ \A k \in Job : k # j => pin'[k] = pin[k]
    BY <1>2 DEF SubmitFiber, TypeGhosts
  <2>e. s_fiber_id \in Nat /\ ~(f <= s_fiber_id)
    BY PoolFinite DEF TypeFibers
  <2> HIDE DEF f
  <2>c. /\ \A t \in Pool : f # ft[t].fiber
        /\ \A i \in 1 .. Len(m_fibers) : m_fibers[i].fiber # f
    BY <2>1, <2>e DEF Places, Allocated
  <2>3. /\ Len(m_fibers) \in Nat /\ Len(m_fibers') = Len(m_fibers) + 1
        /\ \A i \in 1 .. Len(m_fibers) : m_fibers'[i] = m_fibers[i]
        /\ m_fibers'[Len(m_fibers) + 1] = FiberTask(f, thr)
    BY <2>1, <2>2, AppendFacts
  <2>4. \A i \in 1 .. Len(m_fibers') : i # Len(m_fibers) + 1 => i \in 1 .. Len(m_fibers)
    BY <2>3
  <2>k. \A k \in submitted : k \in Job /\ pin'[k] = pin[k]
    BY <1>s, <2>2
  <2>g. /\ \A g \in Fiber : g # f => (Fresh(g)' <=> Fresh(g)) /\ m_cb'[g] = m_cb[g]
        /\ m_cb'[f] = j
    BY <2>1, <2>2 DEF Fresh, TypeFibers
  <2>5. PinsQueue'
    <3> SUFFICES ASSUME NEW i \in 1 .. Len(m_fibers')
                 PROVE  /\ m_fibers'[i].cb # None => m_fibers'[i].thread = pin'[m_fibers'[i].cb]
                        /\ \A g \in Fiber : m_fibers'[i].fiber = g /\ Fresh(g)' =>
                              m_fibers'[i].thread = pin'[m_cb'[g]]
      BY DEF PinsQueue
    <3>1. CASE i = Len(m_fibers) + 1
      BY <2>1, <2>2, <2>3, <2>g, <3>1
    <3>2. CASE i # Len(m_fibers) + 1
      <4>1. /\ i \in 1 .. Len(m_fibers) /\ m_fibers'[i] = m_fibers[i] /\ m_fibers[i] \in Task
            /\ m_fibers[i].fiber # f
        BY <1>0, <2>3, <2>4, <2>c, <3>2
      <4>2. m_fibers[i].cb # None => m_fibers'[i].thread = pin'[m_fibers'[i].cb]
        BY <1>s, <2>k, <4>1 DEF PinsQueue
      <4>3. ASSUME NEW g \in Fiber, m_fibers[i].fiber = g, Fresh(g)'
            PROVE  m_fibers[i].thread = pin'[m_cb'[g]]
        <5>1. g # f /\ Fresh(g) /\ m_cb'[g] = m_cb[g]
          BY <2>g, <4>1, <4>3
        <5> QED BY <1>s, <2>k, <4>1, <4>3, <5>1 DEF PinsQueue
      <4> QED BY <4>1, <4>2, <4>3
    <3> QED BY <3>1, <3>2
  <2>6. PinsThreads'
    <3>1. \A t \in Pool : ft[t].cb # None => pin'[ft[t].cb] \in {None, t}
      BY <1>s, <2>k DEF PinsThreads
    <3>2. ASSUME NEW t \in Pool, NEW g \in Fiber, ft[t].fiber = g, Fresh(g)'
          PROVE  pin'[m_cb'[g]] \in {None, t}
      <4>1. g # f /\ Fresh(g) /\ m_cb'[g] = m_cb[g]
        BY <2>c, <2>g, <3>2
      <4> QED BY <1>s, <2>k, <3>2, <4>1 DEF PinsThreads
    <3> QED BY <3>1, <3>2 DEF PinsThreads
  <2>7. PinsNew'
    BY <2>2 DEF PinsNew
  <2> QED BY <2>5, <2>6, <2>7
<1>3. ASSUME NEW i \in Job, NEW j \in Job, SubmitBatch(i, j) PROVE Pins'
  <2> DEFINE b == <<CbTask(i, None), CbTask(j, None)>>
             n == Len(m_fibers)
  <2>1. \A c \in {i, j} : /\ CbTask(c, None) \in Task /\ CbTask(c, None).cb = c
                          /\ CbTask(c, None).fiber = None /\ CbTask(c, None).thread = None
    BY TaskTypes DEF CbTask
  <2>2. b \in Seq(Task) /\ Len(b) = 2 /\ b[1] = CbTask(i, None) /\ b[2] = CbTask(j, None)
    BY <2>1
  <2>3. /\ m_fibers' = m_fibers \o b /\ UNCHANGED <<m_state, m_cb, pin>>
        /\ i \notin submitted /\ j \notin submitted
        /\ submitted' = submitted \cup {i, j}
    BY <1>3 DEF SubmitBatch, fiberVars
  <2> HIDE DEF b
  <2>4. /\ Len(m_fibers') = Len(m_fibers) + Len(b)
        /\ \A k \in 1 .. Len(m_fibers) + Len(b) :
              m_fibers'[k] = IF k <= Len(m_fibers) THEN m_fibers[k] ELSE b[k - Len(m_fibers)]
    BY <2>2, <2>3, ConcatProperties, Zenon DEF TypeQueue
  <2>5. n \in Nat
    BY LenProperties DEF TypeQueue
  <2>6. /\ \A k \in 1 .. Len(m_fibers') : k \in 1 .. n \/ k = n + 1 \/ k = n + 2
        /\ \A k \in 1 .. n : m_fibers'[k] = m_fibers[k]
        /\ m_fibers'[n + 1] = CbTask(i, None) /\ m_fibers'[n + 2] = CbTask(j, None)
    BY <2>2, <2>4, <2>5
  <2>7. pin[i] = None /\ pin[j] = None
    BY <2>3 DEF PinsNew
  <2> HIDE DEF n
  <2>8. PinsQueue'
    <3> SUFFICES ASSUME NEW q \in 1 .. Len(m_fibers')
                 PROVE  /\ m_fibers'[q].cb # None => m_fibers'[q].thread = pin'[m_fibers'[q].cb]
                        /\ \A g \in Fiber : m_fibers'[q].fiber = g /\ Fresh(g)' =>
                              m_fibers'[q].thread = pin'[m_cb'[g]]
      BY DEF PinsQueue
    <3>1. CASE q \in 1 .. n
      <4>1. m_fibers'[q] = m_fibers[q] /\ pin' = pin /\ q \in 1 .. Len(m_fibers)
        BY <2>3, <2>6, <3>1 DEF n
      <4>2. \A g \in Fiber : Fresh(g)' => Fresh(g) /\ m_cb'[g] = m_cb[g]
        BY <2>3 DEF Fresh
      <4> QED BY <4>1, <4>2 DEF PinsQueue
    <3>2. CASE q \notin 1 .. n
      BY <2>1, <2>3, <2>6, <2>7, <3>2
    <3> QED BY <3>1, <3>2
  <2>9. PinsThreads' /\ PinsNew'
    BY <2>3 DEF PinsThreads, PinsNew, Fresh
  <2> QED BY <2>8, <2>9
<1> QED BY <1>1, <1>2, <1>3

\* A fiber whose function was not entered yet is on no thread's stack and waits for
\* nothing: whatever wakes a fiber finds one that has run.
FreshAlone ==
    \A f \in Fiber : Fresh(f) =>
        f \notin waiting /\ \A t \in Pool : pc[t] \in Running => Current(t) # f

\* A step that makes no fiber new, registers only a fiber that runs, and puts no new one
\* on a stack.
LEMMA FreshAloneStep ==
    ASSUME FreshAlone, \A f \in Fiber : Fresh(f)' => Fresh(f),
           \A f \in waiting' : f \in waiting \/ \E t \in Pool : pc[t] \in Running /\ Current(t) = f,
           \A t \in Pool : pc'[t] \in Running =>
               \/ pc[t] \in Running /\ Current(t)' = Current(t)
               \/ m_state'[Current(t)'] = "EXEC"
    PROVE  FreshAlone'
  BY DEF FreshAlone, Fresh

\* A fiber that is made by schedule() is in no other place.
LEMMA FreshAloneSubmit ==
    ASSUME Basic, Allocated, FreshAlone, UNCHANGED <<waiting, pc, ft, cb_fiber>>,
           \/ \E j \in Job, thr \in Pool \cup {None} : SubmitCb(j, thr) \/ SubmitFiber(j, thr)
           \/ \E i, j \in Job : SubmitBatch(i, j)
    PROVE  FreshAlone'
<1> USE NoneNotFiber DEF Basic
<1>1. ASSUME UNCHANGED <<m_state, m_cb>> PROVE FreshAlone'
  BY <1>1 DEF FreshAlone, Fresh, Current
<1>2. ASSUME NEW j \in Job, NEW thr \in Pool \cup {None}, SubmitFiber(j, thr) PROVE FreshAlone'
  <2> DEFINE f == s_fiber_id + 1
  <2>1. /\ f \in Fiber /\ s_fiber_id \in Nat
        /\ m_state' = [m_state EXCEPT ![f] = "INIT"] /\ m_cb' = [m_cb EXCEPT ![f] = j]
    BY <1>2, PoolFinite DEF SubmitFiber, TypeFibers
  <2>2. ~(f <= s_fiber_id)
    BY <2>1
  <2>3. f \notin waiting /\ \A t \in Pool : f \notin {ft[t].fiber, cb_fiber[t]}
    BY <2>1, <2>2 DEF Allocated
  <2> HIDE DEF f
  <2>4. \A g \in Fiber : g # f => (Fresh(g)' => Fresh(g))
    BY <2>1 DEF Fresh, TypeFibers
  <2>5. \A t \in Pool : Current(t)' = Current(t) /\ Current(t) # f
    BY <2>3 DEF Current
  <2> QED BY <2>3, <2>4, <2>5 DEF FreshAlone
<1> QED BY <1>1, <1>2 DEF SubmitCb, SubmitBatch, fiberVars

\* Every action leaves the fibers that were not entered alone.
LEMMA FreshAloneNext == Basic /\ Places /\ FreshAlone /\ [Next]_vars => FreshAlone'
<1> SUFFICES ASSUME Basic, Places, FreshAlone, [Next]_vars PROVE FreshAlone'
  OBVIOUS
<1> USE NoneNotFiber
<1> USE DEF Basic, threadVars, fiberVars, stopVars, countVars, ghostVars
<1>1. ASSUME NEW t \in Pool, TakeNothing(t) PROVE FreshAlone'
  <2>1. \A g \in Fiber : Fresh(g)' => Fresh(g)
    BY <1>1 DEF TakeNothing, Fresh, TypeThreads, TypeFibers
  <2>2. \A g \in waiting' : g \in waiting \/ \E s \in Pool : pc[s] \in Running /\ Current(s) = g
    BY <1>1 DEF TakeNothing, Running
  <2>3. \A s \in Pool : pc'[s] \in Running =>
           \/ pc[s] \in Running /\ Current(s)' = Current(s)
           \/ m_state'[Current(s)'] = "EXEC"
    BY <1>1 DEF TakeNothing, Running, Current, TypeThreads, TypeFibers, NoTask, Task
  <2> QED BY <2>1, <2>2, <2>3, FreshAloneStep
<1>2. ASSUME NEW t \in Pool, Take(t) PROVE FreshAlone'
  <2>1. \A g \in Fiber : Fresh(g)' => Fresh(g)
    BY <1>2 DEF Take, Fresh, TypeThreads, TypeFibers
  <2>2. \A g \in waiting' : g \in waiting \/ \E s \in Pool : pc[s] \in Running /\ Current(s) = g
    BY <1>2 DEF Take, Running
  <2>3. \A s \in Pool : pc'[s] \in Running =>
           \/ pc[s] \in Running /\ Current(s)' = Current(s)
           \/ m_state'[Current(s)'] = "EXEC"
    BY <1>2 DEF Take, Running, Current, TypeThreads, TypeFibers, NoTask, Task
  <2> QED BY <2>1, <2>2, <2>3, FreshAloneStep
<1>3. ASSUME NEW t \in Pool, DropEnded(t) PROVE FreshAlone'
  <2>1. \A g \in Fiber : Fresh(g)' => Fresh(g)
    BY <1>3 DEF DropEnded, Fresh, TypeThreads, TypeFibers
  <2>2. \A g \in waiting' : g \in waiting \/ \E s \in Pool : pc[s] \in Running /\ Current(s) = g
    BY <1>3 DEF DropEnded, Running
  <2>3. \A s \in Pool : pc'[s] \in Running =>
           \/ pc[s] \in Running /\ Current(s)' = Current(s)
           \/ m_state'[Current(s)'] = "EXEC"
    BY <1>3 DEF DropEnded, Running, Current, TypeThreads, TypeFibers, NoTask, Task
  <2> QED BY <2>1, <2>2, <2>3, FreshAloneStep
<1>4. ASSUME NEW t \in Pool, EnterIdle(t) PROVE FreshAlone'
  <2>1. \A g \in Fiber : Fresh(g)' => Fresh(g)
    BY <1>4 DEF EnterIdle, Fresh, TypeThreads, TypeFibers
  <2>2. \A g \in waiting' : g \in waiting \/ \E s \in Pool : pc[s] \in Running /\ Current(s) = g
    BY <1>4 DEF EnterIdle, Running
  <2>3. \A s \in Pool : pc'[s] \in Running =>
           \/ pc[s] \in Running /\ Current(s)' = Current(s)
           \/ m_state'[Current(s)'] = "EXEC"
    BY <1>4 DEF EnterIdle, Running, Current, TypeThreads, TypeFibers, NoTask, Task
  <2> QED BY <2>1, <2>2, <2>3, FreshAloneStep
<1>5. ASSUME NEW t \in Pool, LeaveIdle(t) PROVE FreshAlone'
  <2>1. \A g \in Fiber : Fresh(g)' => Fresh(g)
    BY <1>5 DEF LeaveIdle, Fresh, TypeThreads, TypeFibers
  <2>2. \A g \in waiting' : g \in waiting \/ \E s \in Pool : pc[s] \in Running /\ Current(s) = g
    BY <1>5 DEF LeaveIdle, Running
  <2>3. \A s \in Pool : pc'[s] \in Running =>
           \/ pc[s] \in Running /\ Current(s)' = Current(s)
           \/ m_state'[Current(s)'] = "EXEC"
    BY <1>5 DEF LeaveIdle, Running, Current, TypeThreads, TypeFibers, NoTask, Task
  <2> QED BY <2>1, <2>2, <2>3, FreshAloneStep
<1>6. ASSUME NEW t \in Pool, Exit(t) PROVE FreshAlone'
  <2>1. \A g \in Fiber : Fresh(g)' => Fresh(g)
    BY <1>6 DEF Exit, Fresh, TypeThreads, TypeFibers
  <2>2. \A g \in waiting' : g \in waiting \/ \E s \in Pool : pc[s] \in Running /\ Current(s) = g
    BY <1>6 DEF Exit, Running
  <2>3. \A s \in Pool : pc'[s] \in Running =>
           \/ pc[s] \in Running /\ Current(s)' = Current(s)
           \/ m_state'[Current(s)'] = "EXEC"
    BY <1>6 DEF Exit, Running, Current, TypeThreads, TypeFibers, NoTask, Task
  <2> QED BY <2>1, <2>2, <2>3, FreshAloneStep
<1>7. ASSUME NEW t \in Pool, SwapOut(t) PROVE FreshAlone'
  <2>1. \A g \in Fiber : Fresh(g)' => Fresh(g)
    BY <1>7 DEF SwapOut, Fresh, TypeThreads, TypeFibers
  <2>2. \A g \in waiting' : g \in waiting \/ \E s \in Pool : pc[s] \in Running /\ Current(s) = g
    BY <1>7 DEF SwapOut, Running
  <2>3. \A s \in Pool : pc'[s] \in Running =>
           \/ pc[s] \in Running /\ Current(s)' = Current(s)
           \/ m_state'[Current(s)'] = "EXEC"
    BY <1>7 DEF SwapOut, Running, Current, TypeThreads, TypeFibers, NoTask, Task
  <2> QED BY <2>1, <2>2, <2>3, FreshAloneStep
<1>8. ASSUME NEW t \in Pool, SettleReady(t) PROVE FreshAlone'
  <2>1. \A g \in Fiber : Fresh(g)' => Fresh(g)
    BY <1>8 DEF SettleReady, Fresh, TypeThreads, TypeFibers
  <2>2. \A g \in waiting' : g \in waiting \/ \E s \in Pool : pc[s] \in Running /\ Current(s) = g
    BY <1>8 DEF SettleReady, Running
  <2>3. \A s \in Pool : pc'[s] \in Running =>
           \/ pc[s] \in Running /\ Current(s)' = Current(s)
           \/ m_state'[Current(s)'] = "EXEC"
    BY <1>8 DEF SettleReady, CbFiberReleased, Running, Current, TypeThreads, TypeFibers, NoTask, Task
  <2> QED BY <2>1, <2>2, <2>3, FreshAloneStep
<1>9. ASSUME NEW t \in Pool, SettleEnded(t) PROVE FreshAlone'
  <2>1. \A g \in Fiber : Fresh(g)' => Fresh(g)
    BY <1>9 DEF SettleEnded, Fresh, TypeThreads, TypeFibers
  <2>2. \A g \in waiting' : g \in waiting \/ \E s \in Pool : pc[s] \in Running /\ Current(s) = g
    BY <1>9 DEF SettleEnded, Running
  <2>3. \A s \in Pool : pc'[s] \in Running =>
           \/ pc[s] \in Running /\ Current(s)' = Current(s)
           \/ m_state'[Current(s)'] = "EXEC"
    BY <1>9 DEF SettleEnded, Running, Current, TypeThreads, TypeFibers, NoTask, Task
  <2> QED BY <2>1, <2>2, <2>3, FreshAloneStep
<1>10. ASSUME NEW t \in Pool, SettleHold(t) PROVE FreshAlone'
  <2>1. \A g \in Fiber : Fresh(g)' => Fresh(g)
    BY <1>10 DEF SettleHold, Fresh, TypeThreads, TypeFibers
  <2>2. \A g \in waiting' : g \in waiting \/ \E s \in Pool : pc[s] \in Running /\ Current(s) = g
    BY <1>10 DEF SettleHold, Running
  <2>3. \A s \in Pool : pc'[s] \in Running =>
           \/ pc[s] \in Running /\ Current(s)' = Current(s)
           \/ m_state'[Current(s)'] = "EXEC"
    BY <1>10 DEF SettleHold, CbFiberReleased, Running, Current, TypeThreads, TypeFibers, NoTask, Task
  <2> QED BY <2>1, <2>2, <2>3, FreshAloneStep
<1>11. ASSUME NEW t \in Pool, YieldToReady(t) PROVE FreshAlone'
  <2>1. \A g \in Fiber : Fresh(g)' => Fresh(g)
    BY <1>11 DEF YieldToReady, Fresh, TypeThreads, TypeFibers
  <2>2. \A g \in waiting' : g \in waiting \/ \E s \in Pool : pc[s] \in Running /\ Current(s) = g
    BY <1>11 DEF YieldToReady, Running
  <2>3. \A s \in Pool : pc'[s] \in Running =>
           \/ pc[s] \in Running /\ Current(s)' = Current(s)
           \/ m_state'[Current(s)'] = "EXEC"
    BY <1>11 DEF YieldToReady, Running, Current, TypeThreads, TypeFibers, NoTask, Task
  <2> QED BY <2>1, <2>2, <2>3, FreshAloneStep
<1>12. ASSUME NEW t \in Pool, Register(t) PROVE FreshAlone'
  <2>1. \A g \in Fiber : Fresh(g)' => Fresh(g)
    BY <1>12 DEF Register, Fresh, TypeThreads, TypeFibers
  <2>2. \A g \in waiting' : g \in waiting \/ \E s \in Pool : pc[s] \in Running /\ Current(s) = g
    BY <1>12 DEF Register, Running
  <2>3. \A s \in Pool : pc'[s] \in Running =>
           \/ pc[s] \in Running /\ Current(s)' = Current(s)
           \/ m_state'[Current(s)'] = "EXEC"
    BY <1>12 DEF Register, Running, Current, TypeThreads, TypeFibers, NoTask, Task
  <2> QED BY <2>1, <2>2, <2>3, FreshAloneStep
<1>13. ASSUME NEW t \in Pool, YieldToHold(t) PROVE FreshAlone'
  <2>1. \A g \in Fiber : Fresh(g)' => Fresh(g)
    BY <1>13 DEF YieldToHold, Fresh, TypeThreads, TypeFibers
  <2>2. \A g \in waiting' : g \in waiting \/ \E s \in Pool : pc[s] \in Running /\ Current(s) = g
    BY <1>13 DEF YieldToHold, Running
  <2>3. \A s \in Pool : pc'[s] \in Running =>
           \/ pc[s] \in Running /\ Current(s)' = Current(s)
           \/ m_state'[Current(s)'] = "EXEC"
    BY <1>13 DEF YieldToHold, Running, Current, TypeThreads, TypeFibers, NoTask, Task
  <2> QED BY <2>1, <2>2, <2>3, FreshAloneStep
<1>14. ASSUME NEW t \in Pool, Finish(t) PROVE FreshAlone'
  <2>1. \A g \in Fiber : Fresh(g)' => Fresh(g)
    BY <1>14 DEF Finish, Fresh, TypeThreads, TypeFibers
  <2>2. \A g \in waiting' : g \in waiting \/ \E s \in Pool : pc[s] \in Running /\ Current(s) = g
    BY <1>14 DEF Finish, Running
  <2>3. \A s \in Pool : pc'[s] \in Running =>
           \/ pc[s] \in Running /\ Current(s)' = Current(s)
           \/ m_state'[Current(s)'] = "EXEC"
    BY <1>14 DEF Finish, Running, Current, TypeThreads, TypeFibers, NoTask, Task
  <2> QED BY <2>1, <2>2, <2>3, FreshAloneStep
<1>15. ASSUME NEW t \in Pool, AssertFails(t) PROVE FreshAlone'
  <2>1. \A g \in Fiber : Fresh(g)' => Fresh(g)
    BY <1>15 DEF AssertFails, Fresh, TypeThreads, TypeFibers
  <2>2. \A g \in waiting' : g \in waiting \/ \E s \in Pool : pc[s] \in Running /\ Current(s) = g
    BY <1>15 DEF AssertFails, Running
  <2>3. \A s \in Pool : pc'[s] \in Running =>
           \/ pc[s] \in Running /\ Current(s)' = Current(s)
           \/ m_state'[Current(s)'] = "EXEC"
    BY <1>15 DEF AssertFails, Running, Current, TypeThreads, TypeFibers, NoTask, Task
  <2> QED BY <2>1, <2>2, <2>3, FreshAloneStep
<1>16. ASSUME NEW t \in Pool, SwapInFiber(t) PROVE FreshAlone'
  <2>1. \A g \in Fiber : Fresh(g)' => Fresh(g)
    BY <1>16 DEF SwapInFiber, Fresh, TypeThreads, TypeFibers
  <2>2. \A g \in waiting' : g \in waiting \/ \E s \in Pool : pc[s] \in Running /\ Current(s) = g
    BY <1>16 DEF SwapInFiber, Running
  <2>3. \A s \in Pool : pc'[s] \in Running =>
           \/ pc[s] \in Running /\ Current(s)' = Current(s)
           \/ m_state'[Current(s)'] = "EXEC"
    BY <1>16 DEF SwapInFiber, Running, Current, TypeThreads, TypeFibers, NoTask, Task
  <2> QED BY <2>1, <2>2, <2>3, FreshAloneStep
<1>17. ASSUME NEW t \in Pool, SwapInNewCb(t) PROVE FreshAlone'
  <2>1. \A g \in Fiber : Fresh(g)' => Fresh(g)
    BY <1>17 DEF SwapInNewCb, Fresh, TypeThreads, TypeFibers
  <2>2. \A g \in waiting' : g \in waiting \/ \E s \in Pool : pc[s] \in Running /\ Current(s) = g
    BY <1>17 DEF SwapInNewCb, Running
  <2>3. \A s \in Pool : pc'[s] \in Running =>
           \/ pc[s] \in Running /\ Current(s)' = Current(s)
           \/ m_state'[Current(s)'] = "EXEC"
    BY <1>17 DEF SwapInNewCb, Running, Current, TypeThreads, TypeFibers, NoTask, Task
  <2> QED BY <2>1, <2>2, <2>3, FreshAloneStep
<1>18. ASSUME NEW t \in Pool, SwapInOldCb(t) PROVE FreshAlone'
  <2>1. \A g \in Fiber : Fresh(g)' => Fresh(g)
    BY <1>18 DEF SwapInOldCb, Fresh, TypeThreads, TypeFibers
  <2>2. \A g \in waiting' : g \in waiting \/ \E s \in Pool : pc[s] \in Running /\ Current(s) = g
    BY <1>18 DEF SwapInOldCb, Running
  <2>3. \A s \in Pool : pc'[s] \in Running =>
           \/ pc[s] \in Running /\ Current(s)' = Current(s)
           \/ m_state'[Current(s)'] = "EXEC"
    BY <1>18 DEF SwapInOldCb, Running, Current, TypeThreads, TypeFibers, NoTask, Task
  <2> QED BY <2>1, <2>2, <2>3, FreshAloneStep
<1>19. ASSUME NEW f \in Fiber, Wake(f) PROVE FreshAlone'
  BY <1>19, FreshAloneStep DEF Wake, Fresh, Running, Current, TypeThreads, OwnerPhase, Pool, vars
<1>20. ASSUME NEW f \in Fiber, OwnerReschedule(f) PROVE FreshAlone'
  BY <1>20, FreshAloneStep DEF OwnerReschedule, Fresh, Running, Current, TypeThreads, OwnerPhase, Pool, vars
<1>21. ASSUME Start PROVE FreshAlone'
  BY <1>21, FreshAloneStep DEF Start, Fresh, Running, Current, TypeThreads, OwnerPhase, Pool, vars
<1>22. ASSUME StopBegin PROVE FreshAlone'
  BY <1>22, FreshAloneStep DEF StopBegin, Fresh, Running, Current, TypeThreads, OwnerPhase, Pool, vars
<1>23. ASSUME StopCheck PROVE FreshAlone'
  BY <1>23, FreshAloneStep DEF StopCheck, Fresh, Running, Current, TypeThreads, OwnerPhase, Pool, vars
<1>24. ASSUME StopFlag PROVE FreshAlone'
  BY <1>24, FreshAloneStep DEF StopFlag, Fresh, Running, Current, TypeThreads, OwnerPhase, Pool, vars
<1>25. ASSUME StopRoot PROVE FreshAlone'
  BY <1>25, FreshAloneStep DEF StopRoot, Fresh, Running, Current, TypeThreads, OwnerPhase, Pool, vars
<1>26. ASSUME Join PROVE FreshAlone'
  BY <1>26, FreshAloneStep DEF Join, Fresh, Running, Current, TypeThreads, OwnerPhase, Pool, vars
<1>27. ASSUME OwnerElsewhere PROVE FreshAlone'
  BY <1>27, FreshAloneStep DEF OwnerElsewhere, Fresh, Running, Current, TypeThreads, OwnerPhase, Pool, vars
<1>28. CASE UNCHANGED vars
  BY <1>28, FreshAloneStep DEF vars, Fresh, Current
<1>29. ASSUME OwnerSchedule PROVE FreshAlone'
  BY <1>29, FreshAloneSubmit DEF OwnerSchedule, Places
<1>30. ASSUME NEW t \in Pool, FiberSchedule(t) PROVE FreshAlone'
  BY <1>30, FreshAloneSubmit DEF FiberSchedule, Places
<1> HIDE DEF Basic
<1> QED
  BY <1>1, <1>2, <1>3, <1>4, <1>5, <1>6, <1>7, <1>8, <1>9, <1>10, <1>11, <1>12, <1>13, <1>14, <1>15, <1>16, <1>17, <1>18, <1>19, <1>20, <1>21, <1>22, <1>23, <1>24, <1>25, <1>26, <1>27, <1>28, <1>29, <1>30
     DEF Next, Thread, InRun, InFiber, Stopping

\* Every action keeps what waits to be entered for the thread it was submitted for.
LEMMA PinsNext ==
    ASSUME ~Reschedule
    PROVE  Basic /\ Places /\ Spots /\ Pins /\ FreshAlone /\ handles = {} /\ [Next]_vars => Pins'
<1> SUFFICES ASSUME Basic, Places, Spots, Pins, FreshAlone, handles = {}, [Next]_vars PROVE Pins'
  OBVIOUS
<1> USE NoneNotFiber
<1> USE DEF Basic, threadVars, fiberVars, stopVars, countVars, ghostVars
<1>1. ASSUME NEW t \in Pool, TakeNothing(t) PROVE Pins'
  <2>1. /\ UNCHANGED <<m_fibers, pin, submitted>>
        /\ \A g \in Fiber : Fresh(g)' => Fresh(g) /\ m_cb'[g] = m_cb[g]
        /\ \A s \in Pool : ft'[s] \in {NoTask, ft[s]}
    BY <1>1 DEF TakeNothing, Fresh, TypeThreads, TypeFibers
  <2> QED BY <2>1, PinsQuiet
<1>2. ASSUME NEW t \in Pool, DropEnded(t) PROVE Pins'
  <2>1. /\ UNCHANGED <<m_fibers, pin, submitted>>
        /\ \A g \in Fiber : Fresh(g)' => Fresh(g) /\ m_cb'[g] = m_cb[g]
        /\ \A s \in Pool : ft'[s] \in {NoTask, ft[s]}
    BY <1>2 DEF DropEnded, Fresh, TypeThreads, TypeFibers
  <2> QED BY <2>1, PinsQuiet
<1>3. ASSUME NEW t \in Pool, EnterIdle(t) PROVE Pins'
  <2>1. /\ UNCHANGED <<m_fibers, pin, submitted>>
        /\ \A g \in Fiber : Fresh(g)' => Fresh(g) /\ m_cb'[g] = m_cb[g]
        /\ \A s \in Pool : ft'[s] \in {NoTask, ft[s]}
    BY <1>3 DEF EnterIdle, Fresh, TypeThreads, TypeFibers
  <2> QED BY <2>1, PinsQuiet
<1>4. ASSUME NEW t \in Pool, LeaveIdle(t) PROVE Pins'
  <2>1. /\ UNCHANGED <<m_fibers, pin, submitted>>
        /\ \A g \in Fiber : Fresh(g)' => Fresh(g) /\ m_cb'[g] = m_cb[g]
        /\ \A s \in Pool : ft'[s] \in {NoTask, ft[s]}
    BY <1>4 DEF LeaveIdle, Fresh, TypeThreads, TypeFibers
  <2> QED BY <2>1, PinsQuiet
<1>5. ASSUME NEW t \in Pool, Exit(t) PROVE Pins'
  <2>1. /\ UNCHANGED <<m_fibers, pin, submitted>>
        /\ \A g \in Fiber : Fresh(g)' => Fresh(g) /\ m_cb'[g] = m_cb[g]
        /\ \A s \in Pool : ft'[s] \in {NoTask, ft[s]}
    BY <1>5 DEF Exit, Fresh, TypeThreads, TypeFibers
  <2> QED BY <2>1, PinsQuiet
<1>6. ASSUME NEW t \in Pool, SwapOut(t) PROVE Pins'
  <2>1. /\ UNCHANGED <<m_fibers, pin, submitted>>
        /\ \A g \in Fiber : Fresh(g)' => Fresh(g) /\ m_cb'[g] = m_cb[g]
        /\ \A s \in Pool : ft'[s] \in {NoTask, ft[s]}
    BY <1>6 DEF SwapOut, Fresh, TypeThreads, TypeFibers
  <2> QED BY <2>1, PinsQuiet
<1>7. ASSUME NEW t \in Pool, SettleHold(t) PROVE Pins'
  <2>1. /\ UNCHANGED <<m_fibers, pin, submitted>>
        /\ \A g \in Fiber : Fresh(g)' => Fresh(g) /\ m_cb'[g] = m_cb[g]
        /\ \A s \in Pool : ft'[s] \in {NoTask, ft[s]}
    BY <1>7, CurrentType DEF SettleHold, Fresh, TypeThreads, TypeFibers, Holding, OnStack, Running
  <2> QED BY <2>1, PinsQuiet
<1>8. ASSUME NEW t \in Pool, YieldToReady(t) PROVE Pins'
  <2>1. /\ UNCHANGED <<m_fibers, pin, submitted>>
        /\ \A g \in Fiber : Fresh(g)' => Fresh(g) /\ m_cb'[g] = m_cb[g]
        /\ \A s \in Pool : ft'[s] \in {NoTask, ft[s]}
    BY <1>8, CurrentType DEF YieldToReady, Fresh, TypeThreads, TypeFibers, Holding, OnStack, Running
  <2> QED BY <2>1, PinsQuiet
<1>9. ASSUME NEW t \in Pool, Register(t) PROVE Pins'
  <2>1. /\ UNCHANGED <<m_fibers, pin, submitted>>
        /\ \A g \in Fiber : Fresh(g)' => Fresh(g) /\ m_cb'[g] = m_cb[g]
        /\ \A s \in Pool : ft'[s] \in {NoTask, ft[s]}
    BY <1>9 DEF Register, Fresh, TypeThreads, TypeFibers
  <2> QED BY <2>1, PinsQuiet
<1>10. ASSUME NEW t \in Pool, YieldToHold(t) PROVE Pins'
  <2>1. /\ UNCHANGED <<m_fibers, pin, submitted>>
        /\ \A g \in Fiber : Fresh(g)' => Fresh(g) /\ m_cb'[g] = m_cb[g]
        /\ \A s \in Pool : ft'[s] \in {NoTask, ft[s]}
    BY <1>10, CurrentType DEF YieldToHold, Fresh, TypeThreads, TypeFibers, Holding, OnStack, Running
  <2> QED BY <2>1, PinsQuiet
<1>11. ASSUME Start PROVE Pins'
  <2>1. /\ UNCHANGED <<m_fibers, pin, submitted>>
        /\ \A g \in Fiber : Fresh(g)' => Fresh(g) /\ m_cb'[g] = m_cb[g]
        /\ \A s \in Pool : ft'[s] \in {NoTask, ft[s]}
    BY <1>11 DEF Start, Fresh, TypeThreads, TypeFibers
  <2> QED BY <2>1, PinsQuiet
<1>12. ASSUME StopBegin PROVE Pins'
  <2>1. /\ UNCHANGED <<m_fibers, pin, submitted>>
        /\ \A g \in Fiber : Fresh(g)' => Fresh(g) /\ m_cb'[g] = m_cb[g]
        /\ \A s \in Pool : ft'[s] \in {NoTask, ft[s]}
    BY <1>12 DEF StopBegin, Fresh, TypeThreads, TypeFibers
  <2> QED BY <2>1, PinsQuiet
<1>13. ASSUME StopCheck PROVE Pins'
  <2>1. /\ UNCHANGED <<m_fibers, pin, submitted>>
        /\ \A g \in Fiber : Fresh(g)' => Fresh(g) /\ m_cb'[g] = m_cb[g]
        /\ \A s \in Pool : ft'[s] \in {NoTask, ft[s]}
    BY <1>13 DEF StopCheck, Fresh, TypeThreads, TypeFibers
  <2> QED BY <2>1, PinsQuiet
<1>14. ASSUME StopFlag PROVE Pins'
  <2>1. /\ UNCHANGED <<m_fibers, pin, submitted>>
        /\ \A g \in Fiber : Fresh(g)' => Fresh(g) /\ m_cb'[g] = m_cb[g]
        /\ \A s \in Pool : ft'[s] \in {NoTask, ft[s]}
    BY <1>14 DEF StopFlag, Fresh, TypeThreads, TypeFibers
  <2> QED BY <2>1, PinsQuiet
<1>15. ASSUME StopRoot PROVE Pins'
  <2>1. /\ UNCHANGED <<m_fibers, pin, submitted>>
        /\ \A g \in Fiber : Fresh(g)' => Fresh(g) /\ m_cb'[g] = m_cb[g]
        /\ \A s \in Pool : ft'[s] \in {NoTask, ft[s]}
    BY <1>15 DEF StopRoot, Fresh, TypeThreads, TypeFibers
  <2> QED BY <2>1, PinsQuiet
<1>16. ASSUME Join PROVE Pins'
  <2>1. /\ UNCHANGED <<m_fibers, pin, submitted>>
        /\ \A g \in Fiber : Fresh(g)' => Fresh(g) /\ m_cb'[g] = m_cb[g]
        /\ \A s \in Pool : ft'[s] \in {NoTask, ft[s]}
    BY <1>16 DEF Join, Fresh, TypeThreads, TypeFibers
  <2> QED BY <2>1, PinsQuiet
<1>17. ASSUME OwnerElsewhere PROVE Pins'
  <2>1. /\ UNCHANGED <<m_fibers, pin, submitted>>
        /\ \A g \in Fiber : Fresh(g)' => Fresh(g) /\ m_cb'[g] = m_cb[g]
        /\ \A s \in Pool : ft'[s] \in {NoTask, ft[s]}
    BY <1>17 DEF OwnerElsewhere, Fresh, TypeThreads, TypeFibers, vars
  <2> QED BY <2>1, PinsQuiet
<1>18. ASSUME NEW t \in Pool, Finish(t) PROVE Pins'
  <2>1. Current(t) \in Fiber
    BY <1>18, CurrentType DEF Finish, Holding, OnStack, Running
  <2>2. /\ UNCHANGED <<m_fibers, pin, submitted, ft>>
        /\ \A g \in Fiber : Fresh(g)' => Fresh(g) /\ m_cb'[g] = m_cb[g]
    BY <1>18, <2>1 DEF Finish, Fresh, TypeFibers
  <2> QED BY <2>2, PinsQuiet
<1>19. ASSUME NEW t \in Pool, SettleEnded(t) PROVE Pins'
  <2>1. Current(t) \in Fiber
    BY <1>19, CurrentType DEF SettleEnded, Holding
  <2>2. UNCHANGED <<m_fibers, pin, submitted>>
    BY <1>19 DEF SettleEnded
  <2>3. \A g \in Fiber : Fresh(g)' => Fresh(g) /\ m_cb'[g] = m_cb[g]
    BY <1>19, <2>1 DEF SettleEnded, Fresh, TypeFibers
  <2>4. \A s \in Pool : ft'[s] \in {NoTask, ft[s]}
    BY <1>19 DEF SettleEnded, TypeThreads
  <2> QED BY <2>2, <2>3, <2>4, PinsQuiet
<1>20. ASSUME NEW t \in Pool, SettleReady(t) PROVE Pins'
  <2>1. Current(t) \in Fiber /\ ~Fresh(Current(t))
    BY <1>20, CurrentType DEF SettleReady, Holding, Fresh
  <2>2. UNCHANGED <<pin, submitted>> /\ m_fibers' = Append(m_fibers, FiberTask(Current(t), None))
    BY <1>20 DEF SettleReady, Requeued
  <2>3. \A g \in Fiber : Fresh(g)' => Fresh(g) /\ m_cb'[g] = m_cb[g]
    BY <1>20 DEF SettleReady, Fresh
  <2>4. \A s \in Pool : ft'[s] \in {NoTask, ft[s]}
    BY <1>20 DEF SettleReady, TypeThreads
  <2> QED BY <2>1, <2>2, <2>3, <2>4, PinsQuiet
<1>21. ASSUME NEW f \in Fiber, Wake(f) \/ OwnerReschedule(f) PROVE Pins'
  <2>1. /\ UNCHANGED <<pin, submitted, ft, m_state, m_cb>> /\ f \in waiting
        /\ m_fibers' = Append(m_fibers, FiberTask(f, None))
    BY <1>21 DEF Wake, OwnerReschedule
  <2>2. \A g \in Fiber : Fresh(g)' => Fresh(g) /\ m_cb'[g] = m_cb[g]
    BY <2>1 DEF Fresh
  <2>3. ~Fresh(f)
    BY <2>1 DEF FreshAlone
  <2> QED BY <2>1, <2>2, <2>3, PinsQuiet
<1>22. ASSUME NEW t \in Pool, FiberSchedule(t) PROVE Pins'
  <2>1. /\ \E j \in Job, thr \in Pool \cup {None} : SubmitCb(j, thr) \/ SubmitFiber(j, thr)
        /\ UNCHANGED ft
    BY <1>22 DEF FiberSchedule
  <2> QED BY <2>1, PinsSubmit
<1>23. ASSUME OwnerSchedule PROVE Pins'
  <2>1. /\ \/ \E j \in Job, thr \in Pool \cup {None} : SubmitCb(j, thr) \/ SubmitFiber(j, thr)
           \/ \E i, j \in Job : SubmitBatch(i, j)
        /\ UNCHANGED ft
    BY <1>23 DEF OwnerSchedule
  <2> QED BY <2>1, PinsSubmit
<1>24. ASSUME NEW t \in Pool, Take(t) PROVE Pins'
  <2>1. PICK i \in 1 .. Len(m_fibers) :
             /\ FirstTakeable(t, i)
             /\ ft' = [ft EXCEPT ![t] = m_fibers[i]] /\ m_fibers' = RemoveAt(m_fibers, i)
    BY <1>24 DEF Take, Popped
  <2>2. /\ Len(m_fibers) \in Nat /\ Len(m_fibers') = Len(m_fibers) - 1
        /\ \A k \in 1 .. Len(m_fibers) - 1 :
              m_fibers'[k] = IF k < i THEN m_fibers[k] ELSE m_fibers[k + 1]
    BY <2>1, RemoveAtProperties, LenProperties DEF TypeQueue
  <2>3. \A k \in 1 .. Len(m_fibers') : \E l \in 1 .. Len(m_fibers) : m_fibers'[k] = m_fibers[l]
    <3> SUFFICES ASSUME NEW k \in 1 .. Len(m_fibers')
                 PROVE  \E l \in 1 .. Len(m_fibers) : m_fibers'[k] = m_fibers[l]
      OBVIOUS
    <3>1. k \in 1 .. Len(m_fibers) /\ k + 1 \in 1 .. Len(m_fibers)
      BY <2>2
    <3> QED BY <2>2, <3>1
  <2>5. /\ UNCHANGED <<m_state, m_cb, pin, submitted>> /\ m_fibers[i].thread \in {None, t}
        /\ ft'[t] = m_fibers[i] /\ \A s \in Pool : s # t => ft'[s] = ft[s]
    <3>1. UNCHANGED <<m_state, m_cb, pin, submitted>>
      BY <1>24 DEF Take
    <3>2. m_fibers[i].thread \in {None, t}
      BY <2>1 DEF FirstTakeable, Candidates, Takeable
    <3>3. ft'[t] = m_fibers[i] /\ \A s \in Pool : s # t => ft'[s] = ft[s]
      BY <2>1 DEF TypeThreads
    <3> QED BY <3>1, <3>2, <3>3
  <2>6. PinsQueue'
    <3>1. \A g \in Fiber : Fresh(g)' <=> Fresh(g)
      BY <2>5 DEF Fresh
    <3> SUFFICES ASSUME NEW k \in 1 .. Len(m_fibers')
                 PROVE  /\ m_fibers'[k].cb # None => m_fibers'[k].thread = pin[m_fibers'[k].cb]
                        /\ \A g \in Fiber : m_fibers'[k].fiber = g /\ Fresh(g) =>
                              m_fibers'[k].thread = pin[m_cb[g]]
      BY <2>5, <3>1 DEF PinsQueue
    <3>2. PICK l \in 1 .. Len(m_fibers) : m_fibers'[k] = m_fibers[l]
      BY <2>3
    <3> QED BY <3>2 DEF Pins, PinsQueue
  <2>7. PinsThreads'
    BY <2>5 DEF Pins, PinsQueue, PinsThreads, Fresh
  <2>8. PinsNew'
    BY <2>5 DEF Pins, PinsNew
  <2> QED BY <2>6, <2>7, <2>8 DEF Pins
<1>25. ASSUME NEW t \in Pool, SwapInFiber(t) PROVE Pins'
  <2>1. /\ ft[t].fiber \in Fiber /\ m_state' = [m_state EXCEPT ![ft[t].fiber] = "EXEC"]
        /\ UNCHANGED <<m_fibers, ft, m_cb, submitted, pin>>
    BY <1>25 DEF SwapInFiber, TypeThreads, Task
  <2>2. \A g \in Fiber : Fresh(g)' => Fresh(g) /\ m_cb'[g] = m_cb[g]
    BY <2>1 DEF Fresh, TypeFibers
  <2> QED BY <2>1, <2>2, PinsQuiet
<1>26. ASSUME NEW t \in Pool, SwapInNewCb(t) \/ SwapInOldCb(t) PROVE Pins'
  <2>1. PICK f \in Fiber : /\ m_state' = [m_state EXCEPT ![f] = "EXEC"]
                           /\ m_cb' = [m_cb EXCEPT ![f] = ft[t].cb]
    BY <1>26 DEF SwapInNewCb, SwapInOldCb, TypeThreads
  <2>2. UNCHANGED <<m_fibers, submitted, pin>> /\ ft' = [ft EXCEPT ![t] = NoTask]
    BY <1>26 DEF SwapInNewCb, SwapInOldCb
  <2>3. \A g \in Fiber : Fresh(g)' => Fresh(g) /\ m_cb'[g] = m_cb[g]
    BY <2>1 DEF Fresh, TypeFibers
  <2>4. \A s \in Pool : ft'[s] \in {NoTask, ft[s]}
    BY <2>2 DEF TypeThreads
  <2> QED BY <2>2, <2>3, <2>4, PinsQuiet
<1>27. CASE UNCHANGED vars
  <2>1. UNCHANGED <<m_fibers, pin, submitted, ft, m_state, m_cb>>
    BY <1>27 DEF vars
  <2>2. \A g \in Fiber : Fresh(g)' => Fresh(g) /\ m_cb'[g] = m_cb[g]
    BY <2>1 DEF Fresh
  <2> QED BY <2>1, <2>2, PinsQuiet
<1>30. ASSUME NEW t \in Pool, AssertFails(t) PROVE Pins'
  <2>1. UNCHANGED <<m_fibers, pin, submitted, ft, m_state, m_cb>>
    BY <1>30 DEF AssertFails
  <2>2. \A g \in Fiber : Fresh(g)' => Fresh(g) /\ m_cb'[g] = m_cb[g]
    BY <2>1 DEF Fresh
  <2> QED BY <2>1, <2>2, PinsQuiet
<1> HIDE DEF Basic
<1> QED
  BY <1>1, <1>2, <1>3, <1>4, <1>5, <1>6, <1>7, <1>8, <1>9, <1>10, <1>11, <1>12, <1>13, <1>14, <1>15, <1>16, <1>17, <1>18, <1>19, <1>20, <1>21, <1>22, <1>23, <1>24, <1>25, <1>26, <1>27, <1>30
     DEF Next, Thread, InRun, InFiber, Stopping

(* Before the first schedule() nothing is pinned. *)
LEMMA PinsInit == Init => Pins
<1> SUFFICES ASSUME Init PROVE Pins
  OBVIOUS
<1>1. Len(m_fibers) = 0
  BY EmptySeq DEF Init
<1> QED BY <1>1 DEF Init, Pins, PinsQueue, PinsThreads, PinsNew, Fresh, NoTask

\* The initial state of PlacesNext.
LEMMA PlacesInit == Init => Places
<1> SUFFICES ASSUME Init PROVE Places
  OBVIOUS
<1>1. Len(m_fibers) = 0
  BY EmptySeq DEF Init
<1>2. QueueApart /\ StatesQueue
  BY <1>1 DEF QueueApart, StatesQueue
<1>3. /\ ThreadsApart /\ WaitsHeld /\ WaitsHold /\ StatesDispatch /\ StatesRunning
      /\ StatesOut /\ StatesRecycled /\ ExecRuns
  BY DEF Init, ThreadsApart, WaitsHeld, WaitsHold, StatesDispatch, StatesRunning, StatesOut,
         StatesRecycled, ExecRuns, NoTask, Running
<1>4. Allocated
  BY <1>1 DEF Init, Allocated, NoTask
<1> QED BY <1>2, <1>3, <1>4 DEF Places

\* Nobody keeps a fiber to schedule it again.
LEMMA NoHandles == ASSUME ~Reschedule PROVE handles = {} /\ [Next]_vars => handles' = {}
  BY DEF Next, Thread, InRun, InFiber, Stopping, vars, Take, TakeNothing, SwapInFiber,
         SwapInNewCb, SwapInOldCb, AssertFails, DropEnded, EnterIdle, LeaveIdle, Exit, SwapOut,
         SettleReady, SettleEnded, SettleHold, FiberSchedule, YieldToReady, Register, YieldToHold,
         Finish, Wake, OwnerReschedule, OwnerSchedule, Start, StopBegin, StopCheck, StopFlag,
         StopRoot, Join, OwnerElsewhere

\* A job pinned to a thread is entered by that thread, however many others scan the
\* list and however early its fiber is woken, while the owner does not schedule a fiber
\* again without the thread it gave it first.
THEOREM PinnedStartAtHome ==
    ASSUME ~Reschedule
    PROVE  Spec => StartsWherePinned
<1> DEFINE AtHome == \A j \in Job : runs'[j] > runs[j] /\ pin[j] # None =>
                         pc[pin[j]] = "dispatch" /\ pc'[pin[j]] = "user"
<1>1. ASSUME Basic, Places, Pins, [Next]_vars PROVE AtHome
  <2> SUFFICES ASSUME NEW j \in Job, runs'[j] > runs[j], pin[j] # None
               PROVE  pc[pin[j]] = "dispatch" /\ pc'[pin[j]] = "user"
    OBVIOUS
  <2> USE <1>1, NoneNotFiber DEF Basic, TypeThreads, TypeGhosts
  <2>0. runs[j] \in Nat
    OBVIOUS
  <2>1. ASSUME NEW t \in Pool, SwapInFiber(t)
        PROVE  pc[pin[j]] = "dispatch" /\ pc'[pin[j]] = "user"
    <3>1. /\ ft[t].fiber \in Fiber /\ Fresh(ft[t].fiber) /\ m_cb[ft[t].fiber] = j
          /\ pc[t] = "dispatch" /\ pc' = [pc EXCEPT ![t] = "user"]
      <4> DEFINE f == ft[t].fiber
      <4>1. /\ f \in Fiber /\ m_cb[f] \in Job \cup {None} /\ pc[t] = "dispatch"
            /\ pc' = [pc EXCEPT ![t] = "user"]
            /\ runs' = IF Fresh(f) THEN [runs EXCEPT ![m_cb[f]] = @ + 1] ELSE runs
        BY <2>1 DEF SwapInFiber, Task, Fresh, TypeFibers
      <4>2. Fresh(f)
        BY <2>0, <4>1
      <4>3. m_cb[f] \in Job /\ m_state[f] = "INIT"
        BY <4>1, <4>2 DEF Fresh
      <4>4. m_cb[f] = j
        BY <2>0, <4>1, <4>2, <4>3
      <4> QED BY <4>1, <4>2, <4>3, <4>4
    <3>2. pin[j] = t
      BY <3>1 DEF Pins, PinsThreads
    <3> QED BY <3>1, <3>2
  <2>2. ASSUME NEW t \in Pool, SwapInNewCb(t) \/ SwapInOldCb(t)
        PROVE  pc[pin[j]] = "dispatch" /\ pc'[pin[j]] = "user"
    <3>1. ft[t].cb = j /\ pc[t] = "dispatch"
      BY <2>0, <2>2 DEF SwapInNewCb, SwapInOldCb, Task
    <3>2. pin[j] = t
      BY <3>1 DEF Pins, PinsThreads
    <3>3. pc' = [pc EXCEPT ![t] = "user"]
      BY <2>2 DEF SwapInNewCb, SwapInOldCb
    <3> QED BY <3>1, <3>2, <3>3
  <2>3. CASE runs' = runs
    BY <2>0, <2>3
  <2>4. \/ \E t \in Pool : SwapInFiber(t) \/ SwapInNewCb(t) \/ SwapInOldCb(t)
        \/ runs' = runs
    BY DEF Next, Thread, InRun, InFiber, Stopping, vars, ghostVars, Take, TakeNothing, AssertFails, DropEnded,
           EnterIdle, LeaveIdle, Exit, SwapOut, SettleReady, SettleEnded, SettleHold, FiberSchedule,
           YieldToReady, Register, YieldToHold, Finish, Wake, OwnerReschedule, OwnerSchedule, Start,
           StopBegin, StopCheck, StopFlag, StopRoot, Join, OwnerElsewhere
  <2> QED BY <2>1, <2>2, <2>3, <2>4
<1>2. Basic /\ Places /\ Pins /\ [Next]_vars => [AtHome]_vars
  BY <1>1
<1> HIDE DEF AtHome
<1> DEFINE Inv == Basic /\ Places /\ Spots /\ Pins /\ FreshAlone /\ handles = {}
<1>4. Init => Inv
  BY BasicInit, PlacesInit, SpotsInit, PinsInit DEF Init, FreshAlone, Running
<1>5. Inv /\ [Next]_vars => Inv'
  BY BasicNext, PlacesNext, SpotsNext, PinsNext, FreshAloneNext, NoHandles
<1>6. Inv /\ [Next]_vars => [AtHome]_vars
  BY <1>2
<1> HIDE DEF Inv
<1>3. Spec => [][AtHome]_vars
  BY <1>4, <1>5, <1>6, PTL DEF Spec
<1> QED BY <1>3 DEF StartsWherePinned, AtHome

-----------------------------------------------------------------------------
(* What stop() leaves behind.  Work is never dropped: it is in an entry of *)
(* m_fibers, in the hands of a thread, or done.  And a thread ends only    *)
(* after it has seen, at one moment, the list empty and nobody active;     *)
(* whatever appears in the list later was put there by a thread that will  *)
(* scan the list again, or is a fiber that was waiting.                    *)

Entries == {m_fibers[i] : i \in 1 .. Len(m_fibers)}

\* An entry is a fiber or a callback, not both.
Pure ==
    /\ \A e \in Entries : e.fiber = None \/ e.cb = None
    /\ \A t \in Pool : ft[t].fiber = None \/ ft[t].cb = None

\* The entry will enter job j.
Carries(e, j) == e.cb = j \/ (e.fiber \in Fiber /\ Fresh(e.fiber) /\ m_cb[e.fiber] = j)

JobsKept ==
    \A j \in submitted :
        \/ runs[j] > 0
        \/ \E e \in Entries : Carries(e, j)
        \/ \E t \in Pool : pc[t] = "dispatch" /\ Carries(ft[t], j)

\* Thread t has fiber f and will swap it in, or put it back into the list.
Keeps(t, f) ==
    \/ pc[t] = "dispatch" /\ ft[t].fiber = f
    \/ pc[t] \in {"swapOut", "settle"} /\ Current(t) = f

ReadyKept ==
    \A f \in Fiber : m_state[f] = "READY" =>
        (\E e \in Entries : e.fiber = f) \/ (\E t \in Pool : Keeps(t, f))

\* The thread will scan the list (again) before it ends.
Scans(s) ==
    /\ pc[s] \notin {"off", "exit"}
    /\ ~(pc[s] = "dispatch" /\ ft[s] = NoTask /\ idle_fiber[s] = "TERM")

\* The thread has found stopping() true, and will end when a scan finds nothing.
Decided(t) == pc[t] \notin {"off", "neverReach"} /\ idle_fiber[t] = "TERM"

Deciding == \E t \in Pool : Decided(t)

\* Not merely a fiber that waited and has been woken.
Owed(e) == e.fiber = None \/ m_state[e.fiber] # "HOLD"

Drained ==
    Deciding => \A e \in Entries : Owed(e) => \E s \in Pool : e.thread \in {None, s} /\ Scans(s)

\* Threads decide to end only inside stop(), after it has set m_stopping.
DecidedLate ==
    /\ Deciding => owner \in {"stopRoot", "join"}
    /\ m_stopping /\ (\E t \in Pool : pc[t] # "off") => owner \in {"stopRoot", "join"}
    /\ \A t \in Pool : pc[t] = "exit" => idle_fiber[t] = "TERM"
    /\ UseCaller /\ m_rootFiber = "INIT" => pc[Caller] = "off" /\ idle_fiber[Caller] = "INIT"

Kept == Pure /\ JobsKept /\ ReadyKept

\* schedule() adds its entry to the others.
LEMMA EntriesAppend ==
    ASSUME TypeQueue, NEW e \in Task, m_fibers' = Append(m_fibers, e)
    PROVE  Entries' = Entries \cup {e}
<1>1. /\ Len(m_fibers) \in Nat /\ Len(m_fibers') = Len(m_fibers) + 1
      /\ \A i \in 1 .. Len(m_fibers) : m_fibers'[i] = m_fibers[i]
      /\ m_fibers'[Len(m_fibers) + 1] = e
  BY AppendFacts
<1>2. ASSUME NEW x \in Entries' PROVE x \in Entries \cup {e}
  BY <1>1 DEF Entries
<1>3. ASSUME NEW x \in Entries PROVE x \in Entries'
  BY <1>1 DEF Entries
<1>4. e \in Entries'
  BY <1>1 DEF Entries
<1> QED BY <1>2, <1>3, <1>4

\* Both entries of a batch.
LEMMA EntriesBatch ==
    ASSUME TypeQueue, NEW d \in Task, NEW e \in Task, NEW b, b = <<d, e>>, m_fibers' = m_fibers \o b
    PROVE  Entries' = Entries \cup {d, e}
<1> DEFINE n == Len(m_fibers)
<1>1. b \in Seq(Task) /\ Len(b) = 2 /\ b[1] = d /\ b[2] = e
  OBVIOUS
<1>3. /\ Len(m_fibers') = Len(m_fibers) + Len(b)
      /\ \A k \in 1 .. Len(m_fibers) + Len(b) :
            m_fibers'[k] = IF k <= Len(m_fibers) THEN m_fibers[k] ELSE b[k - Len(m_fibers)]
  BY <1>1, ConcatProperties DEF TypeQueue
<1>4. n \in Nat
  BY LenProperties DEF TypeQueue
<1>5. /\ \A k \in 1 .. Len(m_fibers') : k \in 1 .. n \/ k = n + 1 \/ k = n + 2
      /\ \A k \in 1 .. n : m_fibers'[k] = m_fibers[k] /\ k \in 1 .. Len(m_fibers')
      /\ m_fibers'[n + 1] = d /\ m_fibers'[n + 2] = e
      /\ n + 1 \in 1 .. Len(m_fibers') /\ n + 2 \in 1 .. Len(m_fibers')
  BY <1>1, <1>3, <1>4
<1> HIDE DEF n
<1>6. Entries = {m_fibers[k] : k \in 1 .. n}
  BY DEF Entries, n
<1>7. ASSUME NEW x \in Entries' PROVE x \in Entries \cup {d, e}
  BY <1>5, <1>6 DEF Entries
<1>8. ASSUME NEW x \in Entries \cup {d, e} PROVE x \in Entries'
  BY <1>5, <1>6 DEF Entries
<1> QED BY <1>7, <1>8

\* The scan erases one entry.
LEMMA EntriesErase ==
    ASSUME TypeQueue, NEW i \in 1 .. Len(m_fibers), m_fibers' = RemoveAt(m_fibers, i)
    PROVE  /\ m_fibers[i] \in Entries /\ Entries' \subseteq Entries
           /\ Entries \subseteq Entries' \cup {m_fibers[i]}
<1>1. /\ Len(m_fibers) \in Nat /\ Len(m_fibers') = Len(m_fibers) - 1
      /\ \A k \in 1 .. Len(m_fibers) - 1 :
            m_fibers'[k] = IF k < i THEN m_fibers[k] ELSE m_fibers[k + 1]
  BY RemoveAtProperties, LenProperties DEF TypeQueue
<1>2. ASSUME NEW x \in Entries' PROVE x \in Entries
  <2>1. PICK k \in 1 .. Len(m_fibers) - 1 : x = m_fibers'[k]
    BY <1>1 DEF Entries
  <2>2. k \in 1 .. Len(m_fibers) /\ k + 1 \in 1 .. Len(m_fibers)
    BY <1>1
  <2> QED BY <2>1, <2>2, <1>1 DEF Entries
<1>3. ASSUME NEW x \in Entries PROVE x \in Entries' \cup {m_fibers[i]}
  <2>1. PICK k \in 1 .. Len(m_fibers) : x = m_fibers[k]
    BY DEF Entries
  <2>2. CASE k < i
    <3>1. k \in 1 .. Len(m_fibers) - 1 /\ m_fibers'[k] = x
      BY <2>1, <2>2, <1>1
    <3> QED BY <3>1, <1>1 DEF Entries
  <2>3. CASE k > i
    <3>1. k - 1 \in 1 .. Len(m_fibers) - 1 /\ ~(k - 1 < i) /\ (k - 1) + 1 = k
      BY <2>3, <1>1
    <3>2. m_fibers'[k - 1] = x
      BY <3>1, <2>1, <1>1
    <3> QED BY <3>1, <3>2, <1>1 DEF Entries
  <2>4. CASE k = i
    BY <2>1, <2>4
  <2> QED BY <2>2, <2>3, <2>4, <1>1
<1>4. m_fibers[i] \in Entries
  BY DEF Entries
<1> QED BY <1>2, <1>3, <1>4

\* No fiber was scheduled while it was in use, and nobody keeps one to do so.
Alone == overlapped = {} /\ handles = {}

\* Wake-ups that wait until the fiber is settled leave it so.
LEMMA AloneNext ==
    ASSUME ~EarlyWake, ~Reschedule
    PROVE  Alone /\ [Next]_vars => Alone'
<1> SUFFICES ASSUME Alone, [Next]_vars PROVE overlapped' = {}
  BY NoHandles DEF Alone
<1>1. ASSUME NEW f \in Fiber, Wake(f) PROVE overlapped' = {}
  BY <1>1 DEF Wake, Alone
<1>2. ASSUME NEW f \in Fiber, OwnerReschedule(f) PROVE overlapped' = {}
  BY <1>2 DEF OwnerReschedule, Alone
<1>3. ASSUME overlapped' = overlapped PROVE overlapped' = {}
  BY <1>3 DEF Alone
<1> QED
  BY <1>1, <1>2, <1>3
     DEF Next, Thread, InRun, InFiber, Stopping, vars, Take, TakeNothing, SwapInFiber,
         SwapInNewCb, SwapInOldCb, AssertFails, DropEnded, EnterIdle, LeaveIdle, Exit, SwapOut,
         SettleReady, SettleEnded, SettleHold, FiberSchedule, YieldToReady, Register, YieldToHold,
         Finish, OwnerSchedule, Start, StopBegin, StopCheck, StopFlag, StopRoot, Join,
         OwnerElsewhere

\* The assertions of swapIn() and reset() hold for fibers with one user.
LEMMA AssertHolds ==
    ASSUME Basic, Places, Alone, NEW t \in Pool
    PROVE  ~AssertFails(t)
  BY NoneNotFiber DEF Basic, TypeThreads, AssertFails, Alone, Places, StatesDispatch,
     StatesRecycled, Holding, OnStack, Running

\* The facts of Places about entries, without their indices.
LEMMA EntryFacts ==
    ASSUME Basic, Places, Alone, NEW e \in Entries
    PROVE  /\ e \in Task
           /\ e.fiber # None =>
                 /\ e.fiber \in Fiber /\ e.fiber <= s_fiber_id /\ e.fiber \notin waiting
                 /\ \A t \in Pool : e.fiber \notin {ft[t].fiber, cb_fiber[t]}
                 /\ m_state[e.fiber] \in {"INIT", "HOLD", "READY"}
<1>1. PICK i \in 1 .. Len(m_fibers) : e = m_fibers[i]
  BY DEF Entries
<1>2. e \in Task
  BY <1>1, ElementOfSeq DEF Basic, TypeQueue
<1> QED BY <1>1, <1>2 DEF Places, Alone, QueueApart, Allocated, StatesQueue, Task

\* idle() returns only when m_stopping is set, and stop() sets it and joins.
LEMMA DecidedLateNext == Basic /\ DecidedLate /\ [Next]_vars => DecidedLate'
<1> SUFFICES ASSUME Basic, DecidedLate, [Next]_vars PROVE DecidedLate'
  OBVIOUS
<1> USE ConstantsAssumption DEF Basic, TypeThreads, TypeStop, OwnerPhase, threadVars, fiberVars, stopVars, countVars, ghostVars
<1>1. ASSUME NEW t \in Pool, Take(t) PROVE DecidedLate'
  BY <1>1 DEF Take, DecidedLate, Deciding, Decided
<1>2. ASSUME NEW t \in Pool, TakeNothing(t) PROVE DecidedLate'
  BY <1>2 DEF TakeNothing, DecidedLate, Deciding, Decided
<1>3. ASSUME NEW t \in Pool, SwapInFiber(t) PROVE DecidedLate'
  BY <1>3 DEF SwapInFiber, DecidedLate, Deciding, Decided
<1>4. ASSUME NEW t \in Pool, SwapInNewCb(t) PROVE DecidedLate'
  BY <1>4 DEF SwapInNewCb, DecidedLate, Deciding, Decided
<1>5. ASSUME NEW t \in Pool, SwapInOldCb(t) PROVE DecidedLate'
  BY <1>5 DEF SwapInOldCb, DecidedLate, Deciding, Decided
<1>6. ASSUME NEW t \in Pool, DropEnded(t) PROVE DecidedLate'
  BY <1>6 DEF DropEnded, DecidedLate, Deciding, Decided
<1>7. ASSUME NEW t \in Pool, EnterIdle(t) PROVE DecidedLate'
  BY <1>7 DEF EnterIdle, DecidedLate, Deciding, Decided
<1>8. ASSUME NEW t \in Pool, LeaveIdle(t) PROVE DecidedLate'
  BY <1>8 DEF LeaveIdle, DecidedLate, Deciding, Decided, stopping
<1>9. ASSUME NEW t \in Pool, Exit(t) PROVE DecidedLate'
  BY <1>9 DEF Exit, DecidedLate, Deciding, Decided, Pool
<1>10. ASSUME NEW t \in Pool, SwapOut(t) PROVE DecidedLate'
  BY <1>10 DEF SwapOut, DecidedLate, Deciding, Decided
<1>11. ASSUME NEW t \in Pool, SettleReady(t) PROVE DecidedLate'
  BY <1>11 DEF SettleReady, DecidedLate, Deciding, Decided
<1>12. ASSUME NEW t \in Pool, SettleEnded(t) PROVE DecidedLate'
  BY <1>12 DEF SettleEnded, DecidedLate, Deciding, Decided
<1>13. ASSUME NEW t \in Pool, SettleHold(t) PROVE DecidedLate'
  BY <1>13 DEF SettleHold, DecidedLate, Deciding, Decided
<1>14. ASSUME NEW t \in Pool, FiberSchedule(t) PROVE DecidedLate'
  BY <1>14 DEF FiberSchedule, DecidedLate, Deciding, Decided
<1>15. ASSUME NEW t \in Pool, YieldToReady(t) PROVE DecidedLate'
  BY <1>15 DEF YieldToReady, DecidedLate, Deciding, Decided
<1>16. ASSUME NEW t \in Pool, Register(t) PROVE DecidedLate'
  BY <1>16 DEF Register, DecidedLate, Deciding, Decided
<1>17. ASSUME NEW t \in Pool, YieldToHold(t) PROVE DecidedLate'
  BY <1>17 DEF YieldToHold, DecidedLate, Deciding, Decided
<1>18. ASSUME NEW t \in Pool, Finish(t) PROVE DecidedLate'
  BY <1>18 DEF Finish, DecidedLate, Deciding, Decided
<1>19. ASSUME NEW f \in Fiber, Wake(f) PROVE DecidedLate'
  BY <1>19 DEF Wake, DecidedLate, Deciding, Decided
<1>20. ASSUME NEW f \in Fiber, OwnerReschedule(f) PROVE DecidedLate'
  BY <1>20 DEF OwnerReschedule, DecidedLate, Deciding, Decided
<1>21. ASSUME OwnerSchedule PROVE DecidedLate'
  BY <1>21 DEF OwnerSchedule, DecidedLate, Deciding, Decided
<1>22. ASSUME Start PROVE DecidedLate'
  BY <1>22 DEF Start, DecidedLate, Deciding, Decided, Pool
<1>23. ASSUME StopBegin PROVE DecidedLate'
  BY <1>23 DEF StopBegin, DecidedLate, Deciding, Decided, Pool
<1>24. ASSUME StopCheck PROVE DecidedLate'
  BY <1>24 DEF StopCheck, DecidedLate, Deciding, Decided, stopping
<1>25. ASSUME StopFlag PROVE DecidedLate'
  BY <1>25 DEF StopFlag, DecidedLate, Deciding, Decided
<1>26. ASSUME StopRoot PROVE DecidedLate'
  BY <1>26 DEF StopRoot, DecidedLate, Deciding, Decided, stopping, Pool
<1>27. ASSUME Join PROVE DecidedLate'
  BY <1>27 DEF Join, DecidedLate, Deciding, Decided, Pool
<1>28. ASSUME OwnerElsewhere PROVE DecidedLate'
  BY <1>28 DEF OwnerElsewhere, DecidedLate, Deciding, Decided, vars
<1>29. CASE UNCHANGED vars
  BY <1>29 DEF vars, DecidedLate, Deciding, Decided
<1>30. ASSUME NEW t \in Pool, AssertFails(t) PROVE DecidedLate'
  BY <1>30 DEF AssertFails, DecidedLate, Deciding, Decided, TypeThreads, stopVars
<1> QED
  BY <1>1, <1>2, <1>3, <1>4, <1>5, <1>6, <1>7, <1>8, <1>9, <1>10, <1>11, <1>12, <1>13, <1>14,
     <1>15, <1>16, <1>17, <1>18, <1>19, <1>20, <1>21, <1>22, <1>23, <1>24, <1>25, <1>26, <1>27,
     <1>28, <1>29, <1>30
     DEF Next, Thread, InRun, InFiber, Stopping

\* schedule() with new work gives each job an entry.
LEMMA KeptSubmit ==
    ASSUME Basic, Places, Alone, Kept, UNCHANGED <<pc, ft, cb_fiber, runs>>,
           \/ \E j \in Job, thr \in Pool \cup {None} : SubmitCb(j, thr) \/ SubmitFiber(j, thr)
           \/ \E i, j \in Job : SubmitBatch(i, j)
    PROVE  Kept'
<1> USE NoneNotFiber DEF Basic, Places, Alone, Kept
<1>e. \A e \in Entries :
         /\ e \in Task
         /\ e.fiber # None => e.fiber \in Fiber /\ e.fiber <= s_fiber_id
  BY EntryFacts
<1>1. ASSUME NEW j \in Job, NEW thr \in Pool \cup {None}, SubmitCb(j, thr) PROVE Kept'
  <2>1. CbTask(j, thr) \in Task /\ CbTask(j, thr).cb = j /\ CbTask(j, thr).fiber = None
    BY TaskTypes DEF CbTask
  <2>2. Entries' = Entries \cup {CbTask(j, thr)}
    BY <1>1, <2>1, EntriesAppend DEF SubmitCb
  <2>3. UNCHANGED <<m_state, m_cb>> /\ submitted' = submitted \cup {j}
    BY <1>1 DEF SubmitCb, fiberVars
  <2>4. Pure'
    BY <2>1, <2>2 DEF Pure
  <2>5. JobsKept'
    BY <2>1, <2>2, <2>3 DEF JobsKept, Carries, Fresh
  <2>6. ReadyKept'
    BY <2>1, <2>2, <2>3 DEF ReadyKept, Keeps, Current
  <2> QED BY <2>4, <2>5, <2>6
<1>2. ASSUME NEW j \in Job, NEW thr \in Pool \cup {None}, SubmitFiber(j, thr) PROVE Kept'
  <2>0. PICK f \in Fiber : f = s_fiber_id + 1
    BY <1>2 DEF SubmitFiber
  <2>1. /\ f \in Fiber /\ FiberTask(f, thr) \in Task
        /\ FiberTask(f, thr).cb = None /\ FiberTask(f, thr).fiber = f
    BY <2>0, TaskTypes DEF FiberTask
  <2>2. Entries' = Entries \cup {FiberTask(f, thr)}
    BY <1>2, <2>0, <2>1, EntriesAppend DEF SubmitFiber
  <2>3. /\ m_state' = [m_state EXCEPT ![f] = "INIT"] /\ m_cb' = [m_cb EXCEPT ![f] = j]
        /\ submitted' = submitted \cup {j}
    BY <1>2, <2>0 DEF SubmitFiber
  <2>4. /\ \A e \in Entries : e.fiber # f
        /\ \A t \in Pool : ft[t].fiber # f /\ cb_fiber[t] # f
    BY <1>e, <2>0, <2>1, PoolFinite DEF Allocated, TypeFibers, Fiber
  <2>5. Pure'
    BY <2>1, <2>2 DEF Pure
  <2>6. JobsKept'
    <3> SUFFICES ASSUME NEW k \in submitted'
                 PROVE  \/ runs'[k] > 0
                        \/ \E e \in Entries' : Carries(e, k)'
                        \/ \E t \in Pool : pc'[t] = "dispatch" /\ Carries(ft[t], k)'
      BY DEF JobsKept
    <3>1. \A e : e.fiber # f /\ Carries(e, k) => Carries(e, k)'
      BY <2>1, <2>3 DEF Carries, Fresh, TypeFibers
    <3>2. \A t \in Pool : Carries(ft[t], k) => Carries(ft[t], k)'
      BY <2>1, <2>3, <2>4 DEF Carries, Fresh, TypeFibers
    <3>3. CASE k = j
      <4>1. Carries(FiberTask(f, thr), j)'
        BY <2>1, <2>3 DEF Carries, Fresh, TypeFibers
      <4> QED BY <4>1, <3>3, <2>2
    <3>4. CASE k # j
      <4>1. k \in submitted
        BY <2>3, <3>4
      <4> QED BY <4>1, <2>2, <2>4, <3>1, <3>2 DEF JobsKept
    <3> QED BY <3>3, <3>4
  <2>7. ReadyKept'
    BY <2>1, <2>2, <2>3 DEF ReadyKept, Keeps, Current, TypeFibers
  <2> QED BY <2>5, <2>6, <2>7
<1>3. ASSUME NEW i \in Job, NEW j \in Job, SubmitBatch(i, j) PROVE Kept'
  <2>1. /\ CbTask(i, None) \in Task /\ CbTask(i, None).cb = i /\ CbTask(i, None).fiber = None
        /\ CbTask(j, None) \in Task /\ CbTask(j, None).cb = j /\ CbTask(j, None).fiber = None
    BY TaskTypes DEF CbTask
  <2>2. Entries' = Entries \cup {CbTask(i, None), CbTask(j, None)}
    BY <1>3, <2>1, EntriesBatch DEF SubmitBatch
  <2>3. UNCHANGED <<m_state, m_cb>> /\ submitted' = submitted \cup {i, j}
    BY <1>3 DEF SubmitBatch, fiberVars
  <2>4. Pure'
    BY <2>1, <2>2 DEF Pure
  <2>5. JobsKept'
    BY <2>1, <2>2, <2>3 DEF JobsKept, Carries, Fresh
  <2>6. ReadyKept'
    BY <2>1, <2>2, <2>3 DEF ReadyKept, Keeps, Current
  <2> QED BY <2>4, <2>5, <2>6
<1> QED BY <1>1, <1>2, <1>3

\* What a step does to a fiber that has not run its job, and to a thread with an entry:
\* it leaves them as they are, or enters the job.
Settled(f) == (Fresh(f)' /\ m_cb'[f] = m_cb[f]) \/ runs'[m_cb[f]] > 0

Moved(t) ==
    \/ pc'[t] = "dispatch" /\ ft'[t] = ft[t]
    \/ \A j \in submitted : Carries(ft[t], j) => runs'[j] > 0

\* In an entry, or taken out of one.
Placed(f) == (\E e \in Entries : e.fiber = f) \/ (\E t \in Pool : ft[t].fiber = f)

\* A step that leaves entries, fibers and threads with work alone, or enters the job, drops none.
LEMMA JobsKeptStep ==
    ASSUME Basic, JobsKept, UNCHANGED submitted, Entries \subseteq Entries',
           \A j \in submitted : runs[j] > 0 => runs'[j] > 0,
           \A f \in Fiber : Fresh(f) /\ Placed(f) => Settled(f),
           \A t \in Pool : pc[t] = "dispatch" /\ ft[t] # NoTask => Moved(t)
    PROVE  JobsKept'
<1> SUFFICES ASSUME NEW j \in submitted
             PROVE  \/ runs'[j] > 0
                    \/ \E e \in Entries' : Carries(e, j)'
                    \/ \E t \in Pool : pc'[t] = "dispatch" /\ Carries(ft[t], j)'
  BY DEF JobsKept
<1>0. j # None /\ ~Carries(NoTask, j)
  BY NoneNotFiber DEF Basic, TypeGhosts, Carries, NoTask
<1>1. /\ \A e \in Entries : Carries(e, j) => Carries(e, j)' \/ runs'[j] > 0
      /\ \A e : \A t \in Pool : e = ft[t] /\ Carries(e, j) => Carries(e, j)' \/ runs'[j] > 0
  BY DEF Carries, Settled, Placed
<1>2. CASE runs[j] > 0
  BY <1>2
<1>3. ASSUME NEW e \in Entries, Carries(e, j)
      PROVE  runs'[j] > 0 \/ \E d \in Entries' : Carries(d, j)'
  BY <1>1, <1>3
<1>4. ASSUME NEW t \in Pool, pc[t] = "dispatch", Carries(ft[t], j)
      PROVE  runs'[j] > 0 \/ (pc'[t] = "dispatch" /\ Carries(ft[t], j)')
  <2>1. Moved(t)
    BY <1>0, <1>4
  <2>2. CASE pc'[t] = "dispatch" /\ ft'[t] = ft[t]
    BY <1>1, <1>4, <2>2 DEF Carries
  <2> QED BY <1>4, <2>1, <2>2 DEF Moved
<1> QED BY <1>2, <1>3, <1>4 DEF JobsKept

\* No step drops a job that was not entered, or a fiber that is to go on.
LEMMA KeptNext ==
    ASSUME ~EarlyWake, ~Reschedule
    PROVE  Basic /\ Places /\ Alone /\ Kept /\ [Next]_vars => Kept'
<1> SUFFICES ASSUME Basic, Places, Alone, Kept, [Next]_vars PROVE Kept'
  OBVIOUS
<1> USE NoneNotFiber DEF Basic, Places, Alone, Kept, threadVars, fiberVars, stopVars, countVars, ghostVars
<1>e. \A e \in Entries :
         /\ e \in Task
         /\ e.fiber # None =>
               /\ e.fiber \in Fiber /\ e.fiber <= s_fiber_id
               /\ \A t \in Pool : e.fiber \notin {ft[t].fiber, cb_fiber[t]}
               /\ m_state[e.fiber] \in {"INIT", "HOLD", "READY"}
  BY EntryFacts
<1>1. ASSUME NEW t \in Pool, Take(t) PROVE Kept'
  <2>1. PICK i \in 1 .. Len(m_fibers) :
             ft' = [ft EXCEPT ![t] = m_fibers[i]] /\ m_fibers' = RemoveAt(m_fibers, i)
    BY <1>1 DEF Take, Popped
  <2>q. /\ m_fibers[i] \in Entries /\ Entries' \subseteq Entries
        /\ Entries \subseteq Entries' \cup {m_fibers[i]}
    BY <2>1, EntriesErase
  <2>2. /\ pc[t] = "scan" /\ pc' = [pc EXCEPT ![t] = "dispatch"]
        /\ UNCHANGED <<m_state, m_cb, runs, submitted, cb_fiber>>
        /\ ft'[t] = m_fibers[i] /\ pc'[t] = "dispatch"
        /\ \A s \in Pool : s # t => ft'[s] = ft[s] /\ pc'[s] = pc[s]
    BY <1>1, <2>1 DEF Take, TypeThreads
  <2>3. Pure'
    BY <2>2, <2>q DEF Pure
  <2>4. JobsKept'
    BY <2>2, <2>q DEF JobsKept, Carries, Fresh
  <2>5. ReadyKept'
    BY <2>2, <2>q DEF ReadyKept, Keeps, Current
  <2> QED BY <2>3, <2>4, <2>5
<1>2. ASSUME NEW t \in Pool, TakeNothing(t) PROVE Kept'
  <2>q. Entries' = Entries
    BY <1>2 DEF Entries, TakeNothing
  <2>1. Pure'
    BY <1>2, <2>q DEF Pure, TakeNothing, NoTask, FiberTask, TypeThreads
  <2>2. Entries \subseteq Entries' /\ UNCHANGED submitted
    BY <1>2, <2>q DEF TakeNothing
  <2>3. \A j \in submitted : runs[j] > 0 => runs'[j] > 0
    BY <1>2, <2>q DEF TakeNothing, TypeGhosts
  <2>4. \A g \in Fiber : Fresh(g) /\ Placed(g) => Settled(g)
    BY <1>2, <2>q, <1>e
       DEF TakeNothing, Fresh, Settled, Placed, TypeThreads, TypeFibers, TypeGhosts, StatesOut,
           StatesRunning, StatesRecycled, StatesDispatch, ThreadsApart, Allocated, Holding,
           OnStack, Running, Current, Task
  <2>5. \A s \in Pool : pc[s] = "dispatch" /\ ft[s] # NoTask => Moved(s)
    BY <1>2, <2>q
       DEF TakeNothing, Moved, Carries, Fresh, Pure, NoTask, FtEmpty, TypeThreads, TypeFibers,
           TypeGhosts, StatesOut, StatesRunning, StatesRecycled, StatesDispatch, ThreadsApart,
           Allocated, Holding, OnStack, Running, Current, Task
  <2>6. JobsKept'
    BY <2>2, <2>3, <2>4, <2>5, JobsKeptStep
  <2>7. \A g \in Fiber : m_state'[g] = "READY" /\ m_state[g] # "READY" =>
           \E s \in Pool : Keeps(s, g)'
    BY <1>2, <2>q
       DEF TakeNothing, Keeps, TypeThreads, TypeFibers, TypeGhosts, Holding, OnStack, Running,
           Current
  <2>8. \A g \in Fiber, s \in Pool :
           m_state'[g] = "READY" /\ m_state[g] = "READY" /\ Keeps(s, g) =>
               Keeps(s, g)' \/ \E e \in Entries' : e.fiber = g
    BY <1>2, <2>q
       DEF TakeNothing, Keeps, Pure, NoTask, TypeThreads, TypeFibers, TypeGhosts, StatesOut,
           StatesRunning, StatesRecycled, StatesDispatch, ThreadsApart, Allocated, Holding,
           OnStack, Running, Current, FiberTask, Task
  <2>9. ReadyKept'
    BY <2>2, <2>7, <2>8 DEF ReadyKept
  <2> QED BY <2>1, <2>6, <2>9
<1>3. ASSUME NEW t \in Pool, SwapInFiber(t) PROVE Kept'
  <2>q. Entries' = Entries
    BY <1>3 DEF Entries, SwapInFiber
  <2>1. Pure'
    BY <1>3, <2>q DEF Pure, SwapInFiber, NoTask, FiberTask, TypeThreads
  <2>2. Entries \subseteq Entries' /\ UNCHANGED submitted
    BY <1>3, <2>q DEF SwapInFiber
  <2>3. \A j \in submitted : runs[j] > 0 => runs'[j] > 0
    BY <1>3, <2>q DEF SwapInFiber, TypeGhosts
  <2>4. \A g \in Fiber : Fresh(g) /\ Placed(g) => Settled(g)
    BY <1>3, <2>q, <1>e
       DEF SwapInFiber, Fresh, Settled, Placed, TypeThreads, TypeFibers, TypeGhosts, StatesOut,
           StatesRunning, StatesRecycled, StatesDispatch, ThreadsApart, Allocated, Holding,
           OnStack, Running, Current, Task
  <2>5. \A s \in Pool : pc[s] = "dispatch" /\ ft[s] # NoTask => Moved(s)
    BY <1>3, <2>q
       DEF SwapInFiber, Moved, Carries, Fresh, Pure, NoTask, FtEmpty, TypeThreads, TypeFibers,
           TypeGhosts, StatesOut, StatesRunning, StatesRecycled, StatesDispatch, ThreadsApart,
           Allocated, Holding, OnStack, Running, Current, Task
  <2>6. JobsKept'
    BY <2>2, <2>3, <2>4, <2>5, JobsKeptStep
  <2>7. \A g \in Fiber : m_state'[g] = "READY" /\ m_state[g] # "READY" =>
           \E s \in Pool : Keeps(s, g)'
    BY <1>3, <2>q
       DEF SwapInFiber, Keeps, TypeThreads, TypeFibers, TypeGhosts, Holding, OnStack, Running,
           Current
  <2>8. \A g \in Fiber, s \in Pool :
           m_state'[g] = "READY" /\ m_state[g] = "READY" /\ Keeps(s, g) =>
               Keeps(s, g)' \/ \E e \in Entries' : e.fiber = g
    BY <1>3, <2>q
       DEF SwapInFiber, Keeps, Pure, NoTask, TypeThreads, TypeFibers, TypeGhosts, StatesOut,
           StatesRunning, StatesRecycled, StatesDispatch, ThreadsApart, Allocated, Holding,
           OnStack, Running, Current, FiberTask, Task
  <2>9. ReadyKept'
    BY <2>2, <2>7, <2>8 DEF ReadyKept
  <2> QED BY <2>1, <2>6, <2>9
<1>4. ASSUME NEW t \in Pool, SwapInNewCb(t) PROVE Kept'
  <2>q. Entries' = Entries
    BY <1>4 DEF Entries, SwapInNewCb
  <2>1. Pure'
    BY <1>4, <2>q DEF Pure, SwapInNewCb, NoTask, FiberTask, TypeThreads
  <2>2. Entries \subseteq Entries' /\ UNCHANGED submitted
    BY <1>4, <2>q DEF SwapInNewCb
  <2>3. \A j \in submitted : runs[j] > 0 => runs'[j] > 0
    BY <1>4, <2>q DEF SwapInNewCb, TypeGhosts
  <2>4. \A g \in Fiber : Fresh(g) /\ Placed(g) => Settled(g)
    BY <1>4, <2>q, <1>e, PoolFinite
       DEF SwapInNewCb, Fresh, Settled, Placed, TypeThreads, TypeFibers, TypeGhosts, Fiber,
           StatesOut, StatesRunning, StatesRecycled, StatesDispatch, ThreadsApart, Allocated,
           Holding, OnStack, Running, Current, Task
  <2>5. \A s \in Pool : pc[s] = "dispatch" /\ ft[s] # NoTask => Moved(s)
    BY <1>4, <2>q
       DEF SwapInNewCb, Moved, Carries, Fresh, Pure, NoTask, FtEmpty, TypeThreads, TypeFibers,
           TypeGhosts, Fiber, StatesOut, StatesRunning, StatesRecycled, StatesDispatch,
           ThreadsApart, Allocated, Holding, OnStack, Running, Current, Task
  <2>6. JobsKept'
    BY <2>2, <2>3, <2>4, <2>5, JobsKeptStep
  <2>7. \A g \in Fiber : m_state'[g] = "READY" /\ m_state[g] # "READY" =>
           \E s \in Pool : Keeps(s, g)'
    BY <1>4, <2>q
       DEF SwapInNewCb, Keeps, TypeThreads, TypeFibers, TypeGhosts, Fiber, Holding, OnStack,
           Running, Current
  <2>8. \A g \in Fiber, s \in Pool :
           m_state'[g] = "READY" /\ m_state[g] = "READY" /\ Keeps(s, g) =>
               Keeps(s, g)' \/ \E e \in Entries' : e.fiber = g
    BY <1>4, <2>q
       DEF SwapInNewCb, Keeps, Pure, NoTask, TypeThreads, TypeFibers, TypeGhosts, Fiber,
           StatesOut, StatesRunning, StatesRecycled, StatesDispatch, ThreadsApart, Allocated,
           Holding, OnStack, Running, Current, FiberTask, Task
  <2>9. ReadyKept'
    BY <2>2, <2>7, <2>8 DEF ReadyKept
  <2> QED BY <2>1, <2>6, <2>9
<1>5. ASSUME NEW t \in Pool, SwapInOldCb(t) PROVE Kept'
  <2>q. Entries' = Entries
    BY <1>5 DEF Entries, SwapInOldCb
  <2>1. Pure'
    BY <1>5, <2>q DEF Pure, SwapInOldCb, NoTask, FiberTask, TypeThreads
  <2>2. Entries \subseteq Entries' /\ UNCHANGED submitted
    BY <1>5, <2>q DEF SwapInOldCb
  <2>3. \A j \in submitted : runs[j] > 0 => runs'[j] > 0
    BY <1>5, <2>q DEF SwapInOldCb, TypeGhosts
  <2>4. \A g \in Fiber : Fresh(g) /\ Placed(g) => Settled(g)
    BY <1>5, <2>q, <1>e
       DEF SwapInOldCb, Fresh, Settled, Placed, TypeThreads, TypeFibers, TypeGhosts, StatesOut,
           StatesRunning, StatesRecycled, StatesDispatch, ThreadsApart, Allocated, Holding,
           OnStack, Running, Current, Task
  <2>5. \A s \in Pool : pc[s] = "dispatch" /\ ft[s] # NoTask => Moved(s)
    BY <1>5, <2>q
       DEF SwapInOldCb, Moved, Carries, Fresh, Pure, NoTask, FtEmpty, TypeThreads, TypeFibers,
           TypeGhosts, StatesOut, StatesRunning, StatesRecycled, StatesDispatch, ThreadsApart,
           Allocated, Holding, OnStack, Running, Current, Task
  <2>6. JobsKept'
    BY <2>2, <2>3, <2>4, <2>5, JobsKeptStep
  <2>7. \A g \in Fiber : m_state'[g] = "READY" /\ m_state[g] # "READY" =>
           \E s \in Pool : Keeps(s, g)'
    BY <1>5, <2>q
       DEF SwapInOldCb, Keeps, TypeThreads, TypeFibers, TypeGhosts, Holding, OnStack, Running,
           Current
  <2>8. \A g \in Fiber, s \in Pool :
           m_state'[g] = "READY" /\ m_state[g] = "READY" /\ Keeps(s, g) =>
               Keeps(s, g)' \/ \E e \in Entries' : e.fiber = g
    BY <1>5, <2>q
       DEF SwapInOldCb, Keeps, Pure, NoTask, TypeThreads, TypeFibers, TypeGhosts, StatesOut,
           StatesRunning, StatesRecycled, StatesDispatch, ThreadsApart, Allocated, Holding,
           OnStack, Running, Current, FiberTask, Task
  <2>9. ReadyKept'
    BY <2>2, <2>7, <2>8 DEF ReadyKept
  <2> QED BY <2>1, <2>6, <2>9
<1>6. ASSUME NEW t \in Pool, DropEnded(t) PROVE Kept'
  <2>q. Entries' = Entries
    BY <1>6 DEF Entries, DropEnded
  <2>1. Pure'
    BY <1>6, <2>q DEF Pure, DropEnded, NoTask, FiberTask, TypeThreads
  <2>2. Entries \subseteq Entries' /\ UNCHANGED submitted
    BY <1>6, <2>q DEF DropEnded
  <2>3. \A j \in submitted : runs[j] > 0 => runs'[j] > 0
    BY <1>6, <2>q DEF DropEnded, TypeGhosts
  <2>4. \A g \in Fiber : Fresh(g) /\ Placed(g) => Settled(g)
    BY <1>6, <2>q, <1>e
       DEF DropEnded, Fresh, Settled, Placed, TypeThreads, TypeFibers, TypeGhosts, StatesOut,
           StatesRunning, StatesRecycled, StatesDispatch, ThreadsApart, Allocated, Holding,
           OnStack, Running, Current, Task
  <2>5. \A s \in Pool : pc[s] = "dispatch" /\ ft[s] # NoTask => Moved(s)
    BY <1>6, <2>q
       DEF DropEnded, Moved, Carries, Fresh, Pure, NoTask, FtEmpty, TypeThreads, TypeFibers,
           TypeGhosts, StatesOut, StatesRunning, StatesRecycled, StatesDispatch, ThreadsApart,
           Allocated, Holding, OnStack, Running, Current, Task
  <2>6. JobsKept'
    BY <2>2, <2>3, <2>4, <2>5, JobsKeptStep
  <2>7. \A g \in Fiber : m_state'[g] = "READY" /\ m_state[g] # "READY" =>
           \E s \in Pool : Keeps(s, g)'
    BY <1>6, <2>q
       DEF DropEnded, Keeps, TypeThreads, TypeFibers, TypeGhosts, Holding, OnStack, Running,
           Current
  <2>8. \A g \in Fiber, s \in Pool :
           m_state'[g] = "READY" /\ m_state[g] = "READY" /\ Keeps(s, g) =>
               Keeps(s, g)' \/ \E e \in Entries' : e.fiber = g
    BY <1>6, <2>q
       DEF DropEnded, Keeps, Pure, NoTask, TypeThreads, TypeFibers, TypeGhosts, StatesOut,
           StatesRunning, StatesRecycled, StatesDispatch, ThreadsApart, Allocated, Holding,
           OnStack, Running, Current, FiberTask, Task
  <2>9. ReadyKept'
    BY <2>2, <2>7, <2>8 DEF ReadyKept
  <2> QED BY <2>1, <2>6, <2>9
<1>7. ASSUME NEW t \in Pool, EnterIdle(t) PROVE Kept'
  <2>q. Entries' = Entries
    BY <1>7 DEF Entries, EnterIdle
  <2>1. Pure'
    BY <1>7, <2>q DEF Pure, EnterIdle, NoTask, FiberTask, TypeThreads
  <2>2. Entries \subseteq Entries' /\ UNCHANGED submitted
    BY <1>7, <2>q DEF EnterIdle
  <2>3. \A j \in submitted : runs[j] > 0 => runs'[j] > 0
    BY <1>7, <2>q DEF EnterIdle, TypeGhosts
  <2>4. \A g \in Fiber : Fresh(g) /\ Placed(g) => Settled(g)
    BY <1>7, <2>q, <1>e
       DEF EnterIdle, Fresh, Settled, Placed, TypeThreads, TypeFibers, TypeGhosts, StatesOut,
           StatesRunning, StatesRecycled, StatesDispatch, ThreadsApart, Allocated, Holding,
           OnStack, Running, Current, Task
  <2>5. \A s \in Pool : pc[s] = "dispatch" /\ ft[s] # NoTask => Moved(s)
    BY <1>7, <2>q
       DEF EnterIdle, Moved, Carries, Fresh, Pure, NoTask, FtEmpty, TypeThreads, TypeFibers,
           TypeGhosts, StatesOut, StatesRunning, StatesRecycled, StatesDispatch, ThreadsApart,
           Allocated, Holding, OnStack, Running, Current, Task
  <2>6. JobsKept'
    BY <2>2, <2>3, <2>4, <2>5, JobsKeptStep
  <2>7. \A g \in Fiber : m_state'[g] = "READY" /\ m_state[g] # "READY" =>
           \E s \in Pool : Keeps(s, g)'
    BY <1>7, <2>q
       DEF EnterIdle, Keeps, TypeThreads, TypeFibers, TypeGhosts, Holding, OnStack, Running,
           Current
  <2>8. \A g \in Fiber, s \in Pool :
           m_state'[g] = "READY" /\ m_state[g] = "READY" /\ Keeps(s, g) =>
               Keeps(s, g)' \/ \E e \in Entries' : e.fiber = g
    BY <1>7, <2>q
       DEF EnterIdle, Keeps, Pure, NoTask, TypeThreads, TypeFibers, TypeGhosts, StatesOut,
           StatesRunning, StatesRecycled, StatesDispatch, ThreadsApart, Allocated, Holding,
           OnStack, Running, Current, FiberTask, Task
  <2>9. ReadyKept'
    BY <2>2, <2>7, <2>8 DEF ReadyKept
  <2> QED BY <2>1, <2>6, <2>9
<1>8. ASSUME NEW t \in Pool, LeaveIdle(t) PROVE Kept'
  <2>q. Entries' = Entries
    BY <1>8 DEF Entries, LeaveIdle
  <2>1. Pure'
    BY <1>8, <2>q DEF Pure, LeaveIdle, NoTask, FiberTask, TypeThreads
  <2>2. Entries \subseteq Entries' /\ UNCHANGED submitted
    BY <1>8, <2>q DEF LeaveIdle
  <2>3. \A j \in submitted : runs[j] > 0 => runs'[j] > 0
    BY <1>8, <2>q DEF LeaveIdle, TypeGhosts
  <2>4. \A g \in Fiber : Fresh(g) /\ Placed(g) => Settled(g)
    BY <1>8, <2>q, <1>e
       DEF LeaveIdle, Fresh, Settled, Placed, TypeThreads, TypeFibers, TypeGhosts, StatesOut,
           StatesRunning, StatesRecycled, StatesDispatch, ThreadsApart, Allocated, Holding,
           OnStack, Running, Current, Task
  <2>5. \A s \in Pool : pc[s] = "dispatch" /\ ft[s] # NoTask => Moved(s)
    BY <1>8, <2>q
       DEF LeaveIdle, Moved, Carries, Fresh, Pure, NoTask, FtEmpty, TypeThreads, TypeFibers,
           TypeGhosts, StatesOut, StatesRunning, StatesRecycled, StatesDispatch, ThreadsApart,
           Allocated, Holding, OnStack, Running, Current, Task
  <2>6. JobsKept'
    BY <2>2, <2>3, <2>4, <2>5, JobsKeptStep
  <2>7. \A g \in Fiber : m_state'[g] = "READY" /\ m_state[g] # "READY" =>
           \E s \in Pool : Keeps(s, g)'
    BY <1>8, <2>q
       DEF LeaveIdle, Keeps, TypeThreads, TypeFibers, TypeGhosts, Holding, OnStack, Running,
           Current
  <2>8. \A g \in Fiber, s \in Pool :
           m_state'[g] = "READY" /\ m_state[g] = "READY" /\ Keeps(s, g) =>
               Keeps(s, g)' \/ \E e \in Entries' : e.fiber = g
    BY <1>8, <2>q
       DEF LeaveIdle, Keeps, Pure, NoTask, TypeThreads, TypeFibers, TypeGhosts, StatesOut,
           StatesRunning, StatesRecycled, StatesDispatch, ThreadsApart, Allocated, Holding,
           OnStack, Running, Current, FiberTask, Task
  <2>9. ReadyKept'
    BY <2>2, <2>7, <2>8 DEF ReadyKept
  <2> QED BY <2>1, <2>6, <2>9
<1>9. ASSUME NEW t \in Pool, Exit(t) PROVE Kept'
  <2>q. Entries' = Entries
    BY <1>9 DEF Entries, Exit
  <2>1. Pure'
    BY <1>9, <2>q DEF Pure, Exit, NoTask, FiberTask, TypeThreads
  <2>2. Entries \subseteq Entries' /\ UNCHANGED submitted
    BY <1>9, <2>q DEF Exit
  <2>3. \A j \in submitted : runs[j] > 0 => runs'[j] > 0
    BY <1>9, <2>q DEF Exit, TypeGhosts
  <2>4. \A g \in Fiber : Fresh(g) /\ Placed(g) => Settled(g)
    BY <1>9, <2>q, <1>e
       DEF Exit, Fresh, Settled, Placed, TypeThreads, TypeFibers, TypeGhosts, StatesOut,
           StatesRunning, StatesRecycled, StatesDispatch, ThreadsApart, Allocated, Holding,
           OnStack, Running, Current, Task
  <2>5. \A s \in Pool : pc[s] = "dispatch" /\ ft[s] # NoTask => Moved(s)
    BY <1>9, <2>q
       DEF Exit, Moved, Carries, Fresh, Pure, NoTask, FtEmpty, TypeThreads, TypeFibers,
           TypeGhosts, StatesOut, StatesRunning, StatesRecycled, StatesDispatch, ThreadsApart,
           Allocated, Holding, OnStack, Running, Current, Task
  <2>6. JobsKept'
    BY <2>2, <2>3, <2>4, <2>5, JobsKeptStep
  <2>7. \A g \in Fiber : m_state'[g] = "READY" /\ m_state[g] # "READY" =>
           \E s \in Pool : Keeps(s, g)'
    BY <1>9, <2>q
       DEF Exit, Keeps, TypeThreads, TypeFibers, TypeGhosts, Holding, OnStack, Running, Current
  <2>8. \A g \in Fiber, s \in Pool :
           m_state'[g] = "READY" /\ m_state[g] = "READY" /\ Keeps(s, g) =>
               Keeps(s, g)' \/ \E e \in Entries' : e.fiber = g
    BY <1>9, <2>q
       DEF Exit, Keeps, Pure, NoTask, TypeThreads, TypeFibers, TypeGhosts, StatesOut,
           StatesRunning, StatesRecycled, StatesDispatch, ThreadsApart, Allocated, Holding,
           OnStack, Running, Current, FiberTask, Task
  <2>9. ReadyKept'
    BY <2>2, <2>7, <2>8 DEF ReadyKept
  <2> QED BY <2>1, <2>6, <2>9
<1>10. ASSUME NEW t \in Pool, SwapOut(t) PROVE Kept'
  <2>q. Entries' = Entries
    BY <1>10 DEF Entries, SwapOut
  <2>c. Current(t) \in Fiber
    BY <1>10, CurrentType DEF SwapOut, Holding, OnStack, Running
  <2>1. Pure'
    BY <1>10, <2>c, <2>q DEF Pure, SwapOut, NoTask, FiberTask, TypeThreads
  <2>2. Entries \subseteq Entries' /\ UNCHANGED submitted
    BY <1>10, <2>q DEF SwapOut
  <2>3. \A j \in submitted : runs[j] > 0 => runs'[j] > 0
    BY <1>10, <2>c, <2>q DEF SwapOut, TypeGhosts
  <2>4. \A g \in Fiber : Fresh(g) /\ Placed(g) => Settled(g)
    BY <1>10, <2>c, <2>q, <1>e
       DEF SwapOut, Fresh, Settled, Placed, TypeThreads, TypeFibers, TypeGhosts, StatesOut,
           StatesRunning, StatesRecycled, StatesDispatch, ThreadsApart, Allocated, Holding,
           OnStack, Running, Current, Task
  <2>5. \A s \in Pool : pc[s] = "dispatch" /\ ft[s] # NoTask => Moved(s)
    BY <1>10, <2>c, <2>q
       DEF SwapOut, Moved, Carries, Fresh, Pure, NoTask, FtEmpty, TypeThreads, TypeFibers,
           TypeGhosts, StatesOut, StatesRunning, StatesRecycled, StatesDispatch, ThreadsApart,
           Allocated, Holding, OnStack, Running, Current, Task
  <2>6. JobsKept'
    BY <2>2, <2>3, <2>4, <2>5, JobsKeptStep
  <2>7. \A g \in Fiber : m_state'[g] = "READY" /\ m_state[g] # "READY" =>
           \E s \in Pool : Keeps(s, g)'
    BY <1>10, <2>c, <2>q
       DEF SwapOut, Keeps, TypeThreads, TypeFibers, TypeGhosts, Holding, OnStack, Running,
           Current
  <2>8. \A g \in Fiber, s \in Pool :
           m_state'[g] = "READY" /\ m_state[g] = "READY" /\ Keeps(s, g) =>
               Keeps(s, g)' \/ \E e \in Entries' : e.fiber = g
    BY <1>10, <2>c, <2>q
       DEF SwapOut, Keeps, Pure, NoTask, TypeThreads, TypeFibers, TypeGhosts, StatesOut,
           StatesRunning, StatesRecycled, StatesDispatch, ThreadsApart, Allocated, Holding,
           OnStack, Running, Current, FiberTask, Task
  <2>9. ReadyKept'
    BY <2>2, <2>7, <2>8 DEF ReadyKept
  <2> QED BY <2>1, <2>6, <2>9
<1>11. ASSUME NEW t \in Pool, SettleReady(t) PROVE Kept'
  <2>c. Current(t) \in Fiber
    BY <1>11, CurrentType DEF SettleReady, Holding, OnStack, Running
  <2>p. FiberTask(Current(t), None) \in Task
    BY <2>c, TaskTypes
  <2>q. Entries' = Entries \cup {FiberTask(Current(t), None)}
    BY <1>11, <2>p, EntriesAppend DEF SettleReady, Requeued
  <2>1. Pure'
    BY <1>11, <2>c, <2>q DEF Pure, SettleReady, NoTask, FiberTask, TypeThreads
  <2>2. Entries \subseteq Entries' /\ UNCHANGED submitted
    BY <1>11, <2>q DEF SettleReady
  <2>3. \A j \in submitted : runs[j] > 0 => runs'[j] > 0
    BY <1>11, <2>c, <2>q DEF SettleReady, TypeGhosts
  <2>4. \A g \in Fiber : Fresh(g) /\ Placed(g) => Settled(g)
    BY <1>11, <2>c, <2>q, <1>e
       DEF SettleReady, Fresh, Settled, Placed, TypeThreads, TypeFibers, TypeGhosts, StatesOut,
           StatesRunning, StatesRecycled, StatesDispatch, ThreadsApart, Allocated, Holding,
           OnStack, Running, Current, Task
  <2>5. \A s \in Pool : pc[s] = "dispatch" /\ ft[s] # NoTask => Moved(s)
    BY <1>11, <2>c, <2>q
       DEF SettleReady, Moved, Carries, Fresh, Pure, NoTask, FtEmpty, TypeThreads, TypeFibers,
           TypeGhosts, StatesOut, StatesRunning, StatesRecycled, StatesDispatch, ThreadsApart,
           Allocated, Holding, OnStack, Running, Current, Task
  <2>6. JobsKept'
    BY <2>2, <2>3, <2>4, <2>5, JobsKeptStep
  <2>7. \A g \in Fiber : m_state'[g] = "READY" /\ m_state[g] # "READY" =>
           \E s \in Pool : Keeps(s, g)'
    BY <1>11, <2>c, <2>q
       DEF SettleReady, Keeps, TypeThreads, TypeFibers, TypeGhosts, Holding, OnStack, Running,
           Current
  <2>8. ASSUME NEW g \in Fiber, NEW s \in Pool, m_state'[g] = "READY", m_state[g] = "READY",
               Keeps(s, g)
        PROVE  Keeps(s, g)' \/ \E e \in Entries' : e.fiber = g
    <3>1. CASE s = t
      <4>1. Current(t) = g
        BY <1>11, <2>8, <3>1 DEF SettleReady, Keeps
      <4>2. FiberTask(Current(t), None).fiber = g
        BY <4>1 DEF FiberTask
      <4> QED BY <4>2, <2>q
    <3>2. CASE s # t
      <4>1. pc'[s] = pc[s] /\ ft'[s] = ft[s] /\ cb_fiber'[s] = cb_fiber[s]
        BY <1>11, <3>2 DEF SettleReady, CbFiberReleased, TypeThreads
      <4> QED BY <2>8, <4>1 DEF Keeps, Current
    <3> QED BY <3>1, <3>2
  <2>9. ReadyKept'
    BY <2>2, <2>7, <2>8 DEF ReadyKept
  <2> QED BY <2>1, <2>6, <2>9
<1>12. ASSUME NEW t \in Pool, SettleEnded(t) PROVE Kept'
  <2>q. Entries' = Entries
    BY <1>12 DEF Entries, SettleEnded
  <2>c. Current(t) \in Fiber
    BY <1>12, CurrentType DEF SettleEnded, Holding, OnStack, Running
  <2>1. Pure'
    BY <1>12, <2>c, <2>q DEF Pure, SettleEnded, NoTask, FiberTask, TypeThreads
  <2>2. Entries \subseteq Entries' /\ UNCHANGED submitted
    BY <1>12, <2>q DEF SettleEnded
  <2>3. \A j \in submitted : runs[j] > 0 => runs'[j] > 0
    BY <1>12, <2>c, <2>q DEF SettleEnded, TypeGhosts
  <2>4. \A g \in Fiber : Fresh(g) /\ Placed(g) => Settled(g)
    BY <1>12, <2>c, <2>q, <1>e
       DEF SettleEnded, Fresh, Settled, Placed, TypeThreads, TypeFibers, TypeGhosts, StatesOut,
           StatesRunning, StatesRecycled, StatesDispatch, ThreadsApart, Allocated, Holding,
           OnStack, Running, Current, Task
  <2>5. \A s \in Pool : pc[s] = "dispatch" /\ ft[s] # NoTask => Moved(s)
    BY <1>12, <2>c, <2>q
       DEF SettleEnded, Moved, Carries, Fresh, Pure, NoTask, FtEmpty, TypeThreads, TypeFibers,
           TypeGhosts, StatesOut, StatesRunning, StatesRecycled, StatesDispatch, ThreadsApart,
           Allocated, Holding, OnStack, Running, Current, Task
  <2>6. JobsKept'
    BY <2>2, <2>3, <2>4, <2>5, JobsKeptStep
  <2>7. \A g \in Fiber : m_state'[g] = "READY" /\ m_state[g] # "READY" =>
           \E s \in Pool : Keeps(s, g)'
    BY <1>12, <2>c, <2>q
       DEF SettleEnded, Keeps, TypeThreads, TypeFibers, TypeGhosts, Holding, OnStack, Running,
           Current
  <2>8. \A g \in Fiber, s \in Pool :
           m_state'[g] = "READY" /\ m_state[g] = "READY" /\ Keeps(s, g) =>
               Keeps(s, g)' \/ \E e \in Entries' : e.fiber = g
    BY <1>12, <2>c, <2>q
       DEF SettleEnded, Keeps, Pure, NoTask, TypeThreads, TypeFibers, TypeGhosts, StatesOut,
           StatesRunning, StatesRecycled, StatesDispatch, ThreadsApart, Allocated, Holding,
           OnStack, Running, Current, FiberTask, Task
  <2>9. ReadyKept'
    BY <2>2, <2>7, <2>8 DEF ReadyKept
  <2> QED BY <2>1, <2>6, <2>9
<1>13. ASSUME NEW t \in Pool, SettleHold(t) PROVE Kept'
  <2>q. Entries' = Entries
    BY <1>13 DEF Entries, SettleHold
  <2>c. Current(t) \in Fiber
    BY <1>13, CurrentType DEF SettleHold, Holding, OnStack, Running
  <2>1. Pure'
    BY <1>13, <2>c, <2>q DEF Pure, SettleHold, NoTask, FiberTask, TypeThreads
  <2>2. Entries \subseteq Entries' /\ UNCHANGED submitted
    BY <1>13, <2>q DEF SettleHold
  <2>3. \A j \in submitted : runs[j] > 0 => runs'[j] > 0
    BY <1>13, <2>c, <2>q DEF SettleHold, TypeGhosts
  <2>4. \A g \in Fiber : Fresh(g) /\ Placed(g) => Settled(g)
    BY <1>13, <2>c, <2>q, <1>e
       DEF SettleHold, Fresh, Settled, Placed, TypeThreads, TypeFibers, TypeGhosts, StatesOut,
           StatesRunning, StatesRecycled, StatesDispatch, ThreadsApart, Allocated, Holding,
           OnStack, Running, Current, Task
  <2>5. \A s \in Pool : pc[s] = "dispatch" /\ ft[s] # NoTask => Moved(s)
    BY <1>13, <2>c, <2>q
       DEF SettleHold, Moved, Carries, Fresh, Pure, NoTask, FtEmpty, TypeThreads, TypeFibers,
           TypeGhosts, StatesOut, StatesRunning, StatesRecycled, StatesDispatch, ThreadsApart,
           Allocated, Holding, OnStack, Running, Current, Task
  <2>6. JobsKept'
    BY <2>2, <2>3, <2>4, <2>5, JobsKeptStep
  <2>7. \A g \in Fiber : m_state'[g] = "READY" /\ m_state[g] # "READY" =>
           \E s \in Pool : Keeps(s, g)'
    BY <1>13, <2>c, <2>q
       DEF SettleHold, Keeps, TypeThreads, TypeFibers, TypeGhosts, Holding, OnStack, Running,
           Current
  <2>8. ASSUME NEW g \in Fiber, NEW s \in Pool, m_state'[g] = "READY", m_state[g] = "READY",
               Keeps(s, g)
        PROVE  Keeps(s, g)' \/ \E e \in Entries' : e.fiber = g
    <3>1. CASE s = t
      BY <1>13, <2>c, <2>q, <2>8, <3>1 DEF SettleHold, Keeps, FiberTask, TypeFibers
    <3>2. CASE s # t
      <4>1. pc'[s] = pc[s] /\ ft'[s] = ft[s] /\ cb_fiber'[s] = cb_fiber[s]
        BY <1>13, <3>2 DEF SettleHold, CbFiberReleased, TypeThreads
      <4> QED BY <2>8, <4>1 DEF Keeps, Current
    <3> QED BY <3>1, <3>2
  <2>9. ReadyKept'
    BY <2>2, <2>7, <2>8 DEF ReadyKept
  <2> QED BY <2>1, <2>6, <2>9
<1>14. ASSUME NEW t \in Pool, FiberSchedule(t) PROVE Kept'
  <2>1. /\ \E j \in Job, thr \in Pool \cup {None} : SubmitCb(j, thr) \/ SubmitFiber(j, thr)
        /\ UNCHANGED <<pc, ft, cb_fiber, runs>>
    BY <1>14 DEF FiberSchedule, threadVars
  <2> QED BY <2>1, KeptSubmit
<1>15. ASSUME NEW t \in Pool, YieldToReady(t) PROVE Kept'
  <2>q. Entries' = Entries
    BY <1>15 DEF Entries, YieldToReady
  <2>c. Current(t) \in Fiber
    BY <1>15, CurrentType DEF YieldToReady, Holding, OnStack, Running
  <2>1. Pure'
    BY <1>15, <2>c, <2>q DEF Pure, YieldToReady, NoTask, FiberTask, TypeThreads
  <2>2. Entries \subseteq Entries' /\ UNCHANGED submitted
    BY <1>15, <2>q DEF YieldToReady
  <2>3. \A j \in submitted : runs[j] > 0 => runs'[j] > 0
    BY <1>15, <2>c, <2>q DEF YieldToReady, TypeGhosts
  <2>4. \A g \in Fiber : Fresh(g) /\ Placed(g) => Settled(g)
    BY <1>15, <2>c, <2>q, <1>e
       DEF YieldToReady, Fresh, Settled, Placed, TypeThreads, TypeFibers, TypeGhosts,
           StatesOut, StatesRunning, StatesRecycled, StatesDispatch, ThreadsApart, Allocated,
           Holding, OnStack, Running, Current, Task
  <2>5. \A s \in Pool : pc[s] = "dispatch" /\ ft[s] # NoTask => Moved(s)
    BY <1>15, <2>c, <2>q
       DEF YieldToReady, Moved, Carries, Fresh, Pure, NoTask, FtEmpty, TypeThreads, TypeFibers,
           TypeGhosts, StatesOut, StatesRunning, StatesRecycled, StatesDispatch, ThreadsApart,
           Allocated, Holding, OnStack, Running, Current, Task
  <2>6. JobsKept'
    BY <2>2, <2>3, <2>4, <2>5, JobsKeptStep
  <2>7. \A g \in Fiber : m_state'[g] = "READY" /\ m_state[g] # "READY" =>
           \E s \in Pool : Keeps(s, g)'
    BY <1>15, <2>c, <2>q
       DEF YieldToReady, Keeps, TypeThreads, TypeFibers, TypeGhosts, Holding, OnStack, Running,
           Current
  <2>8. \A g \in Fiber, s \in Pool :
           m_state'[g] = "READY" /\ m_state[g] = "READY" /\ Keeps(s, g) =>
               Keeps(s, g)' \/ \E e \in Entries' : e.fiber = g
    BY <1>15, <2>c, <2>q
       DEF YieldToReady, Keeps, Pure, NoTask, TypeThreads, TypeFibers, TypeGhosts, StatesOut,
           StatesRunning, StatesRecycled, StatesDispatch, ThreadsApart, Allocated, Holding,
           OnStack, Running, Current, FiberTask, Task
  <2>9. ReadyKept'
    BY <2>2, <2>7, <2>8 DEF ReadyKept
  <2> QED BY <2>1, <2>6, <2>9
<1>16. ASSUME NEW t \in Pool, Register(t) PROVE Kept'
  <2>q. Entries' = Entries
    BY <1>16 DEF Entries, Register
  <2>c. Current(t) \in Fiber
    BY <1>16, CurrentType DEF Register, Holding, OnStack, Running
  <2>1. Pure'
    BY <1>16, <2>c, <2>q DEF Pure, Register, NoTask, FiberTask, TypeThreads
  <2>2. Entries \subseteq Entries' /\ UNCHANGED submitted
    BY <1>16, <2>q DEF Register
  <2>3. \A j \in submitted : runs[j] > 0 => runs'[j] > 0
    BY <1>16, <2>c, <2>q DEF Register, TypeGhosts
  <2>4. \A g \in Fiber : Fresh(g) /\ Placed(g) => Settled(g)
    BY <1>16, <2>c, <2>q, <1>e
       DEF Register, Fresh, Settled, Placed, TypeThreads, TypeFibers, TypeGhosts, StatesOut,
           StatesRunning, StatesRecycled, StatesDispatch, ThreadsApart, Allocated, Holding,
           OnStack, Running, Current, Task
  <2>5. \A s \in Pool : pc[s] = "dispatch" /\ ft[s] # NoTask => Moved(s)
    BY <1>16, <2>c, <2>q
       DEF Register, Moved, Carries, Fresh, Pure, NoTask, FtEmpty, TypeThreads, TypeFibers,
           TypeGhosts, StatesOut, StatesRunning, StatesRecycled, StatesDispatch, ThreadsApart,
           Allocated, Holding, OnStack, Running, Current, Task
  <2>6. JobsKept'
    BY <2>2, <2>3, <2>4, <2>5, JobsKeptStep
  <2>7. \A g \in Fiber : m_state'[g] = "READY" /\ m_state[g] # "READY" =>
           \E s \in Pool : Keeps(s, g)'
    BY <1>16, <2>c, <2>q
       DEF Register, Keeps, TypeThreads, TypeFibers, TypeGhosts, Holding, OnStack, Running,
           Current
  <2>8. \A g \in Fiber, s \in Pool :
           m_state'[g] = "READY" /\ m_state[g] = "READY" /\ Keeps(s, g) =>
               Keeps(s, g)' \/ \E e \in Entries' : e.fiber = g
    BY <1>16, <2>c, <2>q
       DEF Register, Keeps, Pure, NoTask, TypeThreads, TypeFibers, TypeGhosts, StatesOut,
           StatesRunning, StatesRecycled, StatesDispatch, ThreadsApart, Allocated, Holding,
           OnStack, Running, Current, FiberTask, Task
  <2>9. ReadyKept'
    BY <2>2, <2>7, <2>8 DEF ReadyKept
  <2> QED BY <2>1, <2>6, <2>9
<1>17. ASSUME NEW t \in Pool, YieldToHold(t) PROVE Kept'
  <2>q. Entries' = Entries
    BY <1>17 DEF Entries, YieldToHold
  <2>c. Current(t) \in Fiber
    BY <1>17, CurrentType DEF YieldToHold, Holding, OnStack, Running
  <2>1. Pure'
    BY <1>17, <2>c, <2>q DEF Pure, YieldToHold, NoTask, FiberTask, TypeThreads
  <2>2. Entries \subseteq Entries' /\ UNCHANGED submitted
    BY <1>17, <2>q DEF YieldToHold
  <2>3. \A j \in submitted : runs[j] > 0 => runs'[j] > 0
    BY <1>17, <2>c, <2>q DEF YieldToHold, TypeGhosts
  <2>4. \A g \in Fiber : Fresh(g) /\ Placed(g) => Settled(g)
    BY <1>17, <2>c, <2>q, <1>e
       DEF YieldToHold, Fresh, Settled, Placed, TypeThreads, TypeFibers, TypeGhosts, StatesOut,
           StatesRunning, StatesRecycled, StatesDispatch, ThreadsApart, Allocated, Holding,
           OnStack, Running, Current, Task
  <2>5. \A s \in Pool : pc[s] = "dispatch" /\ ft[s] # NoTask => Moved(s)
    BY <1>17, <2>c, <2>q
       DEF YieldToHold, Moved, Carries, Fresh, Pure, NoTask, FtEmpty, TypeThreads, TypeFibers,
           TypeGhosts, StatesOut, StatesRunning, StatesRecycled, StatesDispatch, ThreadsApart,
           Allocated, Holding, OnStack, Running, Current, Task
  <2>6. JobsKept'
    BY <2>2, <2>3, <2>4, <2>5, JobsKeptStep
  <2>7. \A g \in Fiber : m_state'[g] = "READY" /\ m_state[g] # "READY" =>
           \E s \in Pool : Keeps(s, g)'
    BY <1>17, <2>c, <2>q
       DEF YieldToHold, Keeps, TypeThreads, TypeFibers, TypeGhosts, Holding, OnStack, Running,
           Current
  <2>8. \A g \in Fiber, s \in Pool :
           m_state'[g] = "READY" /\ m_state[g] = "READY" /\ Keeps(s, g) =>
               Keeps(s, g)' \/ \E e \in Entries' : e.fiber = g
    BY <1>17, <2>c, <2>q
       DEF YieldToHold, Keeps, Pure, NoTask, TypeThreads, TypeFibers, TypeGhosts, StatesOut,
           StatesRunning, StatesRecycled, StatesDispatch, ThreadsApart, Allocated, Holding,
           OnStack, Running, Current, FiberTask, Task
  <2>9. ReadyKept'
    BY <2>2, <2>7, <2>8 DEF ReadyKept
  <2> QED BY <2>1, <2>6, <2>9
<1>18. ASSUME NEW t \in Pool, Finish(t) PROVE Kept'
  <2>q. Entries' = Entries
    BY <1>18 DEF Entries, Finish
  <2>c. Current(t) \in Fiber
    BY <1>18, CurrentType DEF Finish, Holding, OnStack, Running
  <2>1. Pure'
    BY <1>18, <2>c, <2>q DEF Pure, Finish, NoTask, FiberTask, TypeThreads
  <2>2. Entries \subseteq Entries' /\ UNCHANGED submitted
    BY <1>18, <2>q DEF Finish
  <2>3. \A j \in submitted : runs[j] > 0 => runs'[j] > 0
    BY <1>18, <2>c, <2>q DEF Finish, TypeGhosts
  <2>4. \A g \in Fiber : Fresh(g) /\ Placed(g) => Settled(g)
    BY <1>18, <2>c, <2>q, <1>e
       DEF Finish, Fresh, Settled, Placed, TypeThreads, TypeFibers, TypeGhosts, StatesOut,
           StatesRunning, StatesRecycled, StatesDispatch, ThreadsApart, Allocated, Holding,
           OnStack, Running, Current, Task
  <2>5. \A s \in Pool : pc[s] = "dispatch" /\ ft[s] # NoTask => Moved(s)
    BY <1>18, <2>c, <2>q
       DEF Finish, Moved, Carries, Fresh, Pure, NoTask, FtEmpty, TypeThreads, TypeFibers,
           TypeGhosts, StatesOut, StatesRunning, StatesRecycled, StatesDispatch, ThreadsApart,
           Allocated, Holding, OnStack, Running, Current, Task
  <2>6. JobsKept'
    BY <2>2, <2>3, <2>4, <2>5, JobsKeptStep
  <2>7. \A g \in Fiber : m_state'[g] = "READY" /\ m_state[g] # "READY" =>
           \E s \in Pool : Keeps(s, g)'
    BY <1>18, <2>c, <2>q
       DEF Finish, Keeps, TypeThreads, TypeFibers, TypeGhosts, Holding, OnStack, Running,
           Current
  <2>8. \A g \in Fiber, s \in Pool :
           m_state'[g] = "READY" /\ m_state[g] = "READY" /\ Keeps(s, g) =>
               Keeps(s, g)' \/ \E e \in Entries' : e.fiber = g
    BY <1>18, <2>c, <2>q
       DEF Finish, Keeps, Pure, NoTask, TypeThreads, TypeFibers, TypeGhosts, StatesOut,
           StatesRunning, StatesRecycled, StatesDispatch, ThreadsApart, Allocated, Holding,
           OnStack, Running, Current, FiberTask, Task
  <2>9. ReadyKept'
    BY <2>2, <2>7, <2>8 DEF ReadyKept
  <2> QED BY <2>1, <2>6, <2>9
<1>19. ASSUME NEW f \in Fiber, Wake(f) PROVE Kept'
  <2>p. FiberTask(f, None) \in Task
    BY TaskTypes
  <2>q. Entries' = Entries \cup {FiberTask(f, None)}
    BY <1>19, <2>p, EntriesAppend DEF Wake, Requeued
  <2>1. Pure'
    BY <1>19, <2>q DEF Pure, Wake, NoTask, FiberTask, TypeThreads
  <2>2. Entries \subseteq Entries' /\ UNCHANGED submitted
    BY <1>19, <2>q DEF Wake
  <2>3. \A j \in submitted : runs[j] > 0 => runs'[j] > 0
    BY <1>19, <2>q DEF Wake, TypeGhosts
  <2>4. \A g \in Fiber : Fresh(g) /\ Placed(g) => Settled(g)
    BY <1>19, <2>q, <1>e
       DEF Wake, Fresh, Settled, Placed, TypeThreads, TypeFibers, TypeGhosts, StatesOut,
           StatesRunning, StatesRecycled, StatesDispatch, ThreadsApart, Allocated, Holding,
           OnStack, Running, Current, Task
  <2>5. \A s \in Pool : pc[s] = "dispatch" /\ ft[s] # NoTask => Moved(s)
    BY <1>19, <2>q
       DEF Wake, Moved, Carries, Fresh, Pure, NoTask, FtEmpty, TypeThreads, TypeFibers,
           TypeGhosts, StatesOut, StatesRunning, StatesRecycled, StatesDispatch, ThreadsApart,
           Allocated, Holding, OnStack, Running, Current, Task
  <2>6. JobsKept'
    BY <2>2, <2>3, <2>4, <2>5, JobsKeptStep
  <2>7. \A g \in Fiber : m_state'[g] = "READY" /\ m_state[g] # "READY" =>
           \E s \in Pool : Keeps(s, g)'
    BY <1>19, <2>q
       DEF Wake, Keeps, TypeThreads, TypeFibers, TypeGhosts, Holding, OnStack, Running, Current
  <2>8. \A g \in Fiber, s \in Pool :
           m_state'[g] = "READY" /\ m_state[g] = "READY" /\ Keeps(s, g) =>
               Keeps(s, g)' \/ \E e \in Entries' : e.fiber = g
    BY <1>19, <2>q
       DEF Wake, Keeps, Pure, NoTask, TypeThreads, TypeFibers, TypeGhosts, StatesOut,
           StatesRunning, StatesRecycled, StatesDispatch, ThreadsApart, Allocated, Holding,
           OnStack, Running, Current, FiberTask, Task
  <2>9. ReadyKept'
    BY <2>2, <2>7, <2>8 DEF ReadyKept
  <2> QED BY <2>1, <2>6, <2>9
<1>20. ASSUME NEW f \in Fiber, OwnerReschedule(f) PROVE Kept'
  BY <1>20 DEF OwnerReschedule, Places
<1>21. ASSUME OwnerSchedule PROVE Kept'
  <2>1. /\ \/ \E j \in Job, thr \in Pool \cup {None} : SubmitCb(j, thr) \/ SubmitFiber(j, thr)
           \/ \E i, j \in Job : SubmitBatch(i, j)
        /\ UNCHANGED <<pc, ft, cb_fiber, runs>>
    BY <1>21 DEF OwnerSchedule, threadVars
  <2> QED BY <2>1, KeptSubmit
<1>22. ASSUME Start PROVE Kept'
  <2>q. Entries' = Entries
    BY <1>22 DEF Entries, Start
  <2>1. Pure'
    BY <1>22, <2>q DEF Pure, Start, NoTask, FiberTask, TypeThreads
  <2>2. Entries \subseteq Entries' /\ UNCHANGED submitted
    BY <1>22, <2>q DEF Start
  <2>3. \A j \in submitted : runs[j] > 0 => runs'[j] > 0
    BY <1>22, <2>q DEF Start, TypeGhosts
  <2>4. \A g \in Fiber : Fresh(g) /\ Placed(g) => Settled(g)
    BY <1>22, <2>q, <1>e
       DEF Start, Fresh, Settled, Placed, TypeThreads, TypeFibers, TypeGhosts, OwnerPhase,
           Pool, StatesOut, StatesRunning, StatesRecycled, StatesDispatch, ThreadsApart,
           Allocated, Holding, OnStack, Running, Current, Task
  <2>5. \A s \in Pool : pc[s] = "dispatch" /\ ft[s] # NoTask => Moved(s)
    BY <1>22, <2>q
       DEF Start, Moved, Carries, Fresh, Pure, NoTask, FtEmpty, TypeThreads, TypeFibers,
           TypeGhosts, OwnerPhase, Pool, StatesOut, StatesRunning, StatesRecycled,
           StatesDispatch, ThreadsApart, Allocated, Holding, OnStack, Running, Current, Task
  <2>6. JobsKept'
    BY <2>2, <2>3, <2>4, <2>5, JobsKeptStep
  <2>7. \A g \in Fiber : m_state'[g] = "READY" /\ m_state[g] # "READY" =>
           \E s \in Pool : Keeps(s, g)'
    BY <1>22, <2>q
       DEF Start, Keeps, TypeThreads, TypeFibers, TypeGhosts, OwnerPhase, Pool, Holding,
           OnStack, Running, Current
  <2>8. \A g \in Fiber, s \in Pool :
           m_state'[g] = "READY" /\ m_state[g] = "READY" /\ Keeps(s, g) =>
               Keeps(s, g)' \/ \E e \in Entries' : e.fiber = g
    BY <1>22, <2>q
       DEF Start, Keeps, Pure, NoTask, TypeThreads, TypeFibers, TypeGhosts, OwnerPhase, Pool,
           StatesOut, StatesRunning, StatesRecycled, StatesDispatch, ThreadsApart, Allocated,
           Holding, OnStack, Running, Current, FiberTask, Task
  <2>9. ReadyKept'
    BY <2>2, <2>7, <2>8 DEF ReadyKept
  <2> QED BY <2>1, <2>6, <2>9
<1>23. ASSUME StopBegin PROVE Kept'
  <2>q. Entries' = Entries
    BY <1>23 DEF Entries, StopBegin
  <2>1. Pure'
    BY <1>23, <2>q DEF Pure, StopBegin, NoTask, FiberTask, TypeThreads
  <2>2. Entries \subseteq Entries' /\ UNCHANGED submitted
    BY <1>23, <2>q DEF StopBegin
  <2>3. \A j \in submitted : runs[j] > 0 => runs'[j] > 0
    BY <1>23, <2>q DEF StopBegin, TypeGhosts
  <2>4. \A g \in Fiber : Fresh(g) /\ Placed(g) => Settled(g)
    BY <1>23, <2>q, <1>e
       DEF StopBegin, Fresh, Settled, Placed, TypeThreads, TypeFibers, TypeGhosts, StatesOut,
           StatesRunning, StatesRecycled, StatesDispatch, ThreadsApart, Allocated, Holding,
           OnStack, Running, Current, Task
  <2>5. \A s \in Pool : pc[s] = "dispatch" /\ ft[s] # NoTask => Moved(s)
    BY <1>23, <2>q
       DEF StopBegin, Moved, Carries, Fresh, Pure, NoTask, FtEmpty, TypeThreads, TypeFibers,
           TypeGhosts, StatesOut, StatesRunning, StatesRecycled, StatesDispatch, ThreadsApart,
           Allocated, Holding, OnStack, Running, Current, Task
  <2>6. JobsKept'
    BY <2>2, <2>3, <2>4, <2>5, JobsKeptStep
  <2>7. \A g \in Fiber : m_state'[g] = "READY" /\ m_state[g] # "READY" =>
           \E s \in Pool : Keeps(s, g)'
    BY <1>23, <2>q
       DEF StopBegin, Keeps, TypeThreads, TypeFibers, TypeGhosts, Holding, OnStack, Running,
           Current
  <2>8. \A g \in Fiber, s \in Pool :
           m_state'[g] = "READY" /\ m_state[g] = "READY" /\ Keeps(s, g) =>
               Keeps(s, g)' \/ \E e \in Entries' : e.fiber = g
    BY <1>23, <2>q
       DEF StopBegin, Keeps, Pure, NoTask, TypeThreads, TypeFibers, TypeGhosts, StatesOut,
           StatesRunning, StatesRecycled, StatesDispatch, ThreadsApart, Allocated, Holding,
           OnStack, Running, Current, FiberTask, Task
  <2>9. ReadyKept'
    BY <2>2, <2>7, <2>8 DEF ReadyKept
  <2> QED BY <2>1, <2>6, <2>9
<1>24. ASSUME StopCheck PROVE Kept'
  <2>q. Entries' = Entries
    BY <1>24 DEF Entries, StopCheck
  <2>1. Pure'
    BY <1>24, <2>q DEF Pure, StopCheck, NoTask, FiberTask, TypeThreads
  <2>2. Entries \subseteq Entries' /\ UNCHANGED submitted
    BY <1>24, <2>q DEF StopCheck
  <2>3. \A j \in submitted : runs[j] > 0 => runs'[j] > 0
    BY <1>24, <2>q DEF StopCheck, TypeGhosts
  <2>4. \A g \in Fiber : Fresh(g) /\ Placed(g) => Settled(g)
    BY <1>24, <2>q, <1>e
       DEF StopCheck, Fresh, Settled, Placed, TypeThreads, TypeFibers, TypeGhosts, StatesOut,
           StatesRunning, StatesRecycled, StatesDispatch, ThreadsApart, Allocated, Holding,
           OnStack, Running, Current, Task
  <2>5. \A s \in Pool : pc[s] = "dispatch" /\ ft[s] # NoTask => Moved(s)
    BY <1>24, <2>q
       DEF StopCheck, Moved, Carries, Fresh, Pure, NoTask, FtEmpty, TypeThreads, TypeFibers,
           TypeGhosts, StatesOut, StatesRunning, StatesRecycled, StatesDispatch, ThreadsApart,
           Allocated, Holding, OnStack, Running, Current, Task
  <2>6. JobsKept'
    BY <2>2, <2>3, <2>4, <2>5, JobsKeptStep
  <2>7. \A g \in Fiber : m_state'[g] = "READY" /\ m_state[g] # "READY" =>
           \E s \in Pool : Keeps(s, g)'
    BY <1>24, <2>q
       DEF StopCheck, Keeps, TypeThreads, TypeFibers, TypeGhosts, Holding, OnStack, Running,
           Current
  <2>8. \A g \in Fiber, s \in Pool :
           m_state'[g] = "READY" /\ m_state[g] = "READY" /\ Keeps(s, g) =>
               Keeps(s, g)' \/ \E e \in Entries' : e.fiber = g
    BY <1>24, <2>q
       DEF StopCheck, Keeps, Pure, NoTask, TypeThreads, TypeFibers, TypeGhosts, StatesOut,
           StatesRunning, StatesRecycled, StatesDispatch, ThreadsApart, Allocated, Holding,
           OnStack, Running, Current, FiberTask, Task
  <2>9. ReadyKept'
    BY <2>2, <2>7, <2>8 DEF ReadyKept
  <2> QED BY <2>1, <2>6, <2>9
<1>25. ASSUME StopFlag PROVE Kept'
  <2>q. Entries' = Entries
    BY <1>25 DEF Entries, StopFlag
  <2>1. Pure'
    BY <1>25, <2>q DEF Pure, StopFlag, NoTask, FiberTask, TypeThreads
  <2>2. Entries \subseteq Entries' /\ UNCHANGED submitted
    BY <1>25, <2>q DEF StopFlag
  <2>3. \A j \in submitted : runs[j] > 0 => runs'[j] > 0
    BY <1>25, <2>q DEF StopFlag, TypeGhosts
  <2>4. \A g \in Fiber : Fresh(g) /\ Placed(g) => Settled(g)
    BY <1>25, <2>q, <1>e
       DEF StopFlag, Fresh, Settled, Placed, TypeThreads, TypeFibers, TypeGhosts, StatesOut,
           StatesRunning, StatesRecycled, StatesDispatch, ThreadsApart, Allocated, Holding,
           OnStack, Running, Current, Task
  <2>5. \A s \in Pool : pc[s] = "dispatch" /\ ft[s] # NoTask => Moved(s)
    BY <1>25, <2>q
       DEF StopFlag, Moved, Carries, Fresh, Pure, NoTask, FtEmpty, TypeThreads, TypeFibers,
           TypeGhosts, StatesOut, StatesRunning, StatesRecycled, StatesDispatch, ThreadsApart,
           Allocated, Holding, OnStack, Running, Current, Task
  <2>6. JobsKept'
    BY <2>2, <2>3, <2>4, <2>5, JobsKeptStep
  <2>7. \A g \in Fiber : m_state'[g] = "READY" /\ m_state[g] # "READY" =>
           \E s \in Pool : Keeps(s, g)'
    BY <1>25, <2>q
       DEF StopFlag, Keeps, TypeThreads, TypeFibers, TypeGhosts, Holding, OnStack, Running,
           Current
  <2>8. \A g \in Fiber, s \in Pool :
           m_state'[g] = "READY" /\ m_state[g] = "READY" /\ Keeps(s, g) =>
               Keeps(s, g)' \/ \E e \in Entries' : e.fiber = g
    BY <1>25, <2>q
       DEF StopFlag, Keeps, Pure, NoTask, TypeThreads, TypeFibers, TypeGhosts, StatesOut,
           StatesRunning, StatesRecycled, StatesDispatch, ThreadsApart, Allocated, Holding,
           OnStack, Running, Current, FiberTask, Task
  <2>9. ReadyKept'
    BY <2>2, <2>7, <2>8 DEF ReadyKept
  <2> QED BY <2>1, <2>6, <2>9
<1>26. ASSUME StopRoot PROVE Kept'
  <2>q. Entries' = Entries
    BY <1>26 DEF Entries, StopRoot
  <2>1. Pure'
    BY <1>26, <2>q DEF Pure, StopRoot, NoTask, FiberTask, TypeThreads
  <2>2. Entries \subseteq Entries' /\ UNCHANGED submitted
    BY <1>26, <2>q DEF StopRoot
  <2>3. \A j \in submitted : runs[j] > 0 => runs'[j] > 0
    BY <1>26, <2>q DEF StopRoot, TypeGhosts
  <2>4. \A g \in Fiber : Fresh(g) /\ Placed(g) => Settled(g)
    BY <1>26, <2>q, <1>e
       DEF StopRoot, Fresh, Settled, Placed, TypeThreads, TypeFibers, TypeGhosts, OwnerPhase,
           Pool, StatesOut, StatesRunning, StatesRecycled, StatesDispatch, ThreadsApart,
           Allocated, Holding, OnStack, Running, Current, Task
  <2>5. \A s \in Pool : pc[s] = "dispatch" /\ ft[s] # NoTask => Moved(s)
    BY <1>26, <2>q
       DEF StopRoot, Moved, Carries, Fresh, Pure, NoTask, FtEmpty, TypeThreads, TypeFibers,
           TypeGhosts, OwnerPhase, Pool, StatesOut, StatesRunning, StatesRecycled,
           StatesDispatch, ThreadsApart, Allocated, Holding, OnStack, Running, Current, Task
  <2>6. JobsKept'
    BY <2>2, <2>3, <2>4, <2>5, JobsKeptStep
  <2>7. \A g \in Fiber : m_state'[g] = "READY" /\ m_state[g] # "READY" =>
           \E s \in Pool : Keeps(s, g)'
    BY <1>26, <2>q
       DEF StopRoot, Keeps, TypeThreads, TypeFibers, TypeGhosts, OwnerPhase, Pool, Holding,
           OnStack, Running, Current
  <2>8. \A g \in Fiber, s \in Pool :
           m_state'[g] = "READY" /\ m_state[g] = "READY" /\ Keeps(s, g) =>
               Keeps(s, g)' \/ \E e \in Entries' : e.fiber = g
    BY <1>26, <2>q
       DEF StopRoot, Keeps, Pure, NoTask, TypeThreads, TypeFibers, TypeGhosts, OwnerPhase,
           Pool, StatesOut, StatesRunning, StatesRecycled, StatesDispatch, ThreadsApart,
           Allocated, Holding, OnStack, Running, Current, FiberTask, Task
  <2>9. ReadyKept'
    BY <2>2, <2>7, <2>8 DEF ReadyKept
  <2> QED BY <2>1, <2>6, <2>9
<1>27. ASSUME Join PROVE Kept'
  <2>q. Entries' = Entries
    BY <1>27 DEF Entries, Join
  <2>1. Pure'
    BY <1>27, <2>q DEF Pure, Join, NoTask, FiberTask, TypeThreads
  <2>2. Entries \subseteq Entries' /\ UNCHANGED submitted
    BY <1>27, <2>q DEF Join
  <2>3. \A j \in submitted : runs[j] > 0 => runs'[j] > 0
    BY <1>27, <2>q DEF Join, TypeGhosts
  <2>4. \A g \in Fiber : Fresh(g) /\ Placed(g) => Settled(g)
    BY <1>27, <2>q, <1>e
       DEF Join, Fresh, Settled, Placed, TypeThreads, TypeFibers, TypeGhosts, StatesOut,
           StatesRunning, StatesRecycled, StatesDispatch, ThreadsApart, Allocated, Holding,
           OnStack, Running, Current, Task
  <2>5. \A s \in Pool : pc[s] = "dispatch" /\ ft[s] # NoTask => Moved(s)
    BY <1>27, <2>q
       DEF Join, Moved, Carries, Fresh, Pure, NoTask, FtEmpty, TypeThreads, TypeFibers,
           TypeGhosts, StatesOut, StatesRunning, StatesRecycled, StatesDispatch, ThreadsApart,
           Allocated, Holding, OnStack, Running, Current, Task
  <2>6. JobsKept'
    BY <2>2, <2>3, <2>4, <2>5, JobsKeptStep
  <2>7. \A g \in Fiber : m_state'[g] = "READY" /\ m_state[g] # "READY" =>
           \E s \in Pool : Keeps(s, g)'
    BY <1>27, <2>q
       DEF Join, Keeps, TypeThreads, TypeFibers, TypeGhosts, Holding, OnStack, Running, Current
  <2>8. \A g \in Fiber, s \in Pool :
           m_state'[g] = "READY" /\ m_state[g] = "READY" /\ Keeps(s, g) =>
               Keeps(s, g)' \/ \E e \in Entries' : e.fiber = g
    BY <1>27, <2>q
       DEF Join, Keeps, Pure, NoTask, TypeThreads, TypeFibers, TypeGhosts, StatesOut,
           StatesRunning, StatesRecycled, StatesDispatch, ThreadsApart, Allocated, Holding,
           OnStack, Running, Current, FiberTask, Task
  <2>9. ReadyKept'
    BY <2>2, <2>7, <2>8 DEF ReadyKept
  <2> QED BY <2>1, <2>6, <2>9
<1>28. ASSUME OwnerElsewhere PROVE Kept'
  <2>q. Entries' = Entries
    BY <1>28 DEF Entries, OwnerElsewhere, vars
  <2>1. Pure'
    BY <1>28, <2>q DEF Pure, OwnerElsewhere, vars, NoTask, FiberTask, TypeThreads
  <2>2. Entries \subseteq Entries' /\ UNCHANGED submitted
    BY <1>28, <2>q DEF OwnerElsewhere, vars
  <2>3. \A j \in submitted : runs[j] > 0 => runs'[j] > 0
    BY <1>28, <2>q DEF OwnerElsewhere, vars, TypeGhosts
  <2>4. \A g \in Fiber : Fresh(g) /\ Placed(g) => Settled(g)
    BY <1>28, <2>q, <1>e
       DEF OwnerElsewhere, vars, Fresh, Settled, Placed, TypeThreads, TypeFibers, TypeGhosts,
           StatesOut, StatesRunning, StatesRecycled, StatesDispatch, ThreadsApart, Allocated,
           Holding, OnStack, Running, Current, Task
  <2>5. \A s \in Pool : pc[s] = "dispatch" /\ ft[s] # NoTask => Moved(s)
    BY <1>28, <2>q
       DEF OwnerElsewhere, vars, Moved, Carries, Fresh, Pure, NoTask, FtEmpty, TypeThreads,
           TypeFibers, TypeGhosts, StatesOut, StatesRunning, StatesRecycled, StatesDispatch,
           ThreadsApart, Allocated, Holding, OnStack, Running, Current, Task
  <2>6. JobsKept'
    BY <2>2, <2>3, <2>4, <2>5, JobsKeptStep
  <2>7. \A g \in Fiber : m_state'[g] = "READY" /\ m_state[g] # "READY" =>
           \E s \in Pool : Keeps(s, g)'
    BY <1>28, <2>q
       DEF OwnerElsewhere, vars, Keeps, TypeThreads, TypeFibers, TypeGhosts, Holding, OnStack,
           Running, Current
  <2>8. \A g \in Fiber, s \in Pool :
           m_state'[g] = "READY" /\ m_state[g] = "READY" /\ Keeps(s, g) =>
               Keeps(s, g)' \/ \E e \in Entries' : e.fiber = g
    BY <1>28, <2>q
       DEF OwnerElsewhere, vars, Keeps, Pure, NoTask, TypeThreads, TypeFibers, TypeGhosts,
           StatesOut, StatesRunning, StatesRecycled, StatesDispatch, ThreadsApart, Allocated,
           Holding, OnStack, Running, Current, FiberTask, Task
  <2>9. ReadyKept'
    BY <2>2, <2>7, <2>8 DEF ReadyKept
  <2> QED BY <2>1, <2>6, <2>9
<1>29. CASE UNCHANGED vars
  <2>q. Entries' = Entries
    BY <1>29 DEF Entries, vars
  <2>1. Pure'
    BY <1>29, <2>q DEF Pure, vars, NoTask, FiberTask, TypeThreads
  <2>2. Entries \subseteq Entries' /\ UNCHANGED submitted
    BY <1>29, <2>q DEF vars
  <2>3. \A j \in submitted : runs[j] > 0 => runs'[j] > 0
    BY <1>29, <2>q DEF vars, TypeGhosts
  <2>4. \A g \in Fiber : Fresh(g) /\ Placed(g) => Settled(g)
    BY <1>29, <2>q, <1>e
       DEF vars, Fresh, Settled, Placed, TypeThreads, TypeFibers, TypeGhosts, StatesOut,
           StatesRunning, StatesRecycled, StatesDispatch, ThreadsApart, Allocated, Holding,
           OnStack, Running, Current, Task
  <2>5. \A s \in Pool : pc[s] = "dispatch" /\ ft[s] # NoTask => Moved(s)
    BY <1>29, <2>q
       DEF vars, Moved, Carries, Fresh, Pure, NoTask, FtEmpty, TypeThreads, TypeFibers,
           TypeGhosts, StatesOut, StatesRunning, StatesRecycled, StatesDispatch, ThreadsApart,
           Allocated, Holding, OnStack, Running, Current, Task
  <2>6. JobsKept'
    BY <2>2, <2>3, <2>4, <2>5, JobsKeptStep
  <2>7. \A g \in Fiber : m_state'[g] = "READY" /\ m_state[g] # "READY" =>
           \E s \in Pool : Keeps(s, g)'
    BY <1>29, <2>q
       DEF vars, Keeps, TypeThreads, TypeFibers, TypeGhosts, Holding, OnStack, Running, Current
  <2>8. \A g \in Fiber, s \in Pool :
           m_state'[g] = "READY" /\ m_state[g] = "READY" /\ Keeps(s, g) =>
               Keeps(s, g)' \/ \E e \in Entries' : e.fiber = g
    BY <1>29, <2>q
       DEF vars, Keeps, Pure, NoTask, TypeThreads, TypeFibers, TypeGhosts, StatesOut,
           StatesRunning, StatesRecycled, StatesDispatch, ThreadsApart, Allocated, Holding,
           OnStack, Running, Current, FiberTask, Task
  <2>9. ReadyKept'
    BY <2>2, <2>7, <2>8 DEF ReadyKept
  <2> QED BY <2>1, <2>6, <2>9
<1> QED
  BY <1>1, <1>2, <1>3, <1>4, <1>5, <1>6, <1>7, <1>8, <1>9, <1>10, <1>11, <1>12, <1>13, <1>14,
     <1>15, <1>16, <1>17, <1>18, <1>19, <1>20, <1>21, <1>22, <1>23, <1>24, <1>25, <1>26, <1>27,
     <1>28, <1>29, AssertHolds
     DEF Next, Thread, InRun, InFiber, Stopping

\* Drained survives a step after which no thread has newly decided to end, no entry has
\* become owed, every thread that was to scan still is, and what is new in the list has
\* a thread that will scan.
LEMMA DrainedStep ==
    ASSUME Drained, Deciding' => Deciding,
           \A e \in Entries : Owed(e)' => Owed(e),
           \A s \in Pool : Scans(s) => Scans(s)',
           \A e \in Entries' : e \notin Entries /\ Owed(e)' =>
               \E s \in Pool : e.thread \in {None, s} /\ Scans(s)'
    PROVE  Drained'
  BY DEF Drained

\* A thread decides in idle() with the list empty and nobody active; from then on only
\* fibers still running submit, for any thread or for their own, and settle what they
\* ran: each of these threads scans again, and a scan that finds nothing leaves nothing
\* that its thread could have taken.
LEMMA DrainedNext ==
    ASSUME ~EarlyWake, ~Reschedule, ~CrossPin
    PROVE  Basic /\ Places /\ Alone /\ DecidedLate /\ Drained /\ [Next]_vars => Drained'
<1> SUFFICES ASSUME Basic, Places, Alone, DecidedLate, Drained, [Next]_vars PROVE Drained'
  OBVIOUS
<1> USE NoneNotFiber DEF Basic, Alone, TypeThreads, threadVars, fiberVars, stopVars, countVars, ghostVars
<1>e. \A e \in Entries :
         /\ e \in Task
         /\ e.fiber # None =>
               /\ e.fiber \in Fiber /\ e.fiber <= s_fiber_id
               /\ \A t \in Pool : e.fiber \notin {ft[t].fiber, cb_fiber[t]}
               /\ m_state[e.fiber] \in {"INIT", "HOLD", "READY"}
  BY EntryFacts
<1>1. ASSUME NEW t \in Pool, Take(t) PROVE Drained'
  <2>1. PICK i \in 1 .. Len(m_fibers) :
             ft' = [ft EXCEPT ![t] = m_fibers[i]] /\ m_fibers' = RemoveAt(m_fibers, i)
    BY <1>1 DEF Take, Popped
  <2>2. Entries' \subseteq Entries
    BY <2>1, EntriesErase
  <2>3. Deciding' => Deciding
    BY <1>1 DEF Take, Deciding, Decided
  <2>4. \A e \in Entries : Owed(e)' => Owed(e)
    BY <1>1 DEF Take, fiberVars, Owed
  <2>5. m_fibers[i] # NoTask
    BY DEF QueueReal, NoTask
  <2>6. \A s \in Pool : Scans(s) => Scans(s)'
    BY <1>1, <2>1, <2>5 DEF Take, Scans
  <2> QED BY <2>2, <2>3, <2>4, <2>6, DrainedStep
<1>2. ASSUME NEW t \in Pool, TakeNothing(t) PROVE Drained'
  <2>q. Entries' = Entries
    BY <1>2 DEF Entries, TakeNothing
  <2> SUFFICES ASSUME Deciding', NEW e \in Entries', Owed(e)'
               PROVE  \E s \in Pool : e.thread \in {None, s} /\ Scans(s)'
    BY DEF Drained
  <2>1. Deciding /\ Owed(e) /\ e \in Entries
    BY <1>2, <2>q DEF TakeNothing, fiberVars, Deciding, Decided, Owed
  <2>2. PICK s \in Pool : e.thread \in {None, s} /\ Scans(s)
    BY <2>1 DEF Drained
  <2>3. s # t
    <3> SUFFICES ASSUME s = t PROVE FALSE
      OBVIOUS
    <3>1. PICK i \in 1 .. Len(m_fibers) : e = m_fibers[i]
      BY <2>1 DEF Entries
    <3>2. Takeable(t, e)
      BY <2>2, <3>1 DEF Takeable, Places, StatesQueue
    <3> QED BY <1>2, <3>1, <3>2 DEF TakeNothing, Candidates
  <2>4. Scans(s)'
    BY <1>2, <2>2, <2>3 DEF TakeNothing, Scans
  <2> QED BY <2>2, <2>4
<1>3. ASSUME NEW t \in Pool, SwapInFiber(t) PROVE Drained'
  <2>q. Entries' = Entries
    BY <1>3 DEF Entries, SwapInFiber
  <2>1. Deciding' => Deciding
    BY <1>3 DEF SwapInFiber, Deciding, Decided
  <2>2. \A e \in Entries : Owed(e)' => Owed(e)
    BY <1>3, <1>e DEF SwapInFiber, Owed, TypeFibers
  <2>3. \A s \in Pool : Scans(s) => Scans(s)'
    BY <1>3 DEF SwapInFiber, Scans
  <2> QED BY <2>q, <2>1, <2>2, <2>3, DrainedStep
<1>4. ASSUME NEW t \in Pool, SwapInNewCb(t) PROVE Drained'
  <2>q. Entries' = Entries
    BY <1>4 DEF Entries, SwapInNewCb
  <2>1. Deciding' => Deciding
    BY <1>4 DEF SwapInNewCb, Deciding, Decided
  <2>2. \A e \in Entries : Owed(e)' => Owed(e)
    BY <1>4, <1>e, PoolFinite DEF SwapInNewCb, Owed, TypeFibers, Fiber
  <2>3. \A s \in Pool : Scans(s) => Scans(s)'
    BY <1>4 DEF SwapInNewCb, Scans
  <2> QED BY <2>q, <2>1, <2>2, <2>3, DrainedStep
<1>5. ASSUME NEW t \in Pool, SwapInOldCb(t) PROVE Drained'
  <2>q. Entries' = Entries
    BY <1>5 DEF Entries, SwapInOldCb
  <2>1. Deciding' => Deciding
    BY <1>5 DEF SwapInOldCb, Deciding, Decided
  <2>2. \A e \in Entries : Owed(e)' => Owed(e)
    BY <1>5, <1>e DEF SwapInOldCb, Owed, TypeFibers
  <2>3. \A s \in Pool : Scans(s) => Scans(s)'
    BY <1>5 DEF SwapInOldCb, Scans
  <2> QED BY <2>q, <2>1, <2>2, <2>3, DrainedStep
<1>6. ASSUME NEW t \in Pool, DropEnded(t) PROVE Drained'
  <2>q. Entries' = Entries
    BY <1>6 DEF Entries, DropEnded
  <2>1. Deciding' => Deciding
    BY <1>6 DEF DropEnded, Deciding, Decided
  <2>2. \A e \in Entries : Owed(e)' => Owed(e)
    BY <1>6, <1>e DEF DropEnded, Owed, TypeFibers
  <2>3. \A s \in Pool : Scans(s) => Scans(s)'
    BY <1>6 DEF DropEnded, Scans
  <2> QED BY <2>q, <2>1, <2>2, <2>3, DrainedStep
<1>7. ASSUME NEW t \in Pool, EnterIdle(t) PROVE Drained'
  <2>q. Entries' = Entries
    BY <1>7 DEF Entries, EnterIdle
  <2>1. Deciding' => Deciding
    BY <1>7 DEF EnterIdle, Deciding, Decided
  <2>2. \A e \in Entries : Owed(e)' => Owed(e)
    BY <1>7, <1>e DEF EnterIdle, Owed, TypeFibers
  <2>3. \A s \in Pool : Scans(s) => Scans(s)'
    BY <1>7 DEF EnterIdle, Scans
  <2> QED BY <2>q, <2>1, <2>2, <2>3, DrainedStep
<1>8. ASSUME NEW t \in Pool, LeaveIdle(t) PROVE Drained'
  <2>q. Entries' = Entries
    BY <1>8 DEF Entries, LeaveIdle
  <2>1. CASE stopping
    <3>a. m_fibers = <<>>
      BY <2>1 DEF stopping
    <3>0. Len(m_fibers) = 0
      BY <3>a, EmptySeq
    <3>1. \A i \in 1 .. Len(m_fibers) : FALSE
      BY <3>0
    <3>2. Entries = {}
      BY <3>1, Zenon DEF Entries
    <3>3. Entries' = {}
      BY <2>q, <3>2
    <3> QED BY <3>3 DEF Drained
  <2>2. CASE ~stopping
    <3>1. Deciding' => Deciding
      BY <1>8, <2>2 DEF LeaveIdle, Deciding, Decided
    <3>2. \A e \in Entries : Owed(e)' => Owed(e)
      BY <1>8 DEF LeaveIdle, fiberVars, Owed
    <3>3. \A s \in Pool : Scans(s) => Scans(s)'
      BY <1>8 DEF LeaveIdle, Scans
    <3> QED BY <2>q, <3>1, <3>2, <3>3, DrainedStep
  <2> QED BY <2>1, <2>2
<1>9. ASSUME NEW t \in Pool, Exit(t) PROVE Drained'
  <2>q. Entries' = Entries
    BY <1>9 DEF Entries, Exit
  <2>1. Deciding' => Deciding
    BY <1>9 DEF Exit, Deciding, Decided
  <2>2. \A e \in Entries : Owed(e)' => Owed(e)
    BY <1>9, <1>e DEF Exit, Owed, TypeFibers
  <2>3. \A s \in Pool : Scans(s) => Scans(s)'
    BY <1>9 DEF Exit, Scans
  <2> QED BY <2>q, <2>1, <2>2, <2>3, DrainedStep
<1>10. ASSUME NEW t \in Pool, SwapOut(t) PROVE Drained'
  <2>q. Entries' = Entries
    BY <1>10 DEF Entries, SwapOut
  <2>c. Current(t) \in Fiber
    BY <1>10, CurrentType DEF SwapOut, Holding, OnStack, Running
  <2>1. Deciding' => Deciding
    BY <1>10 DEF SwapOut, Deciding, Decided
  <2>2. \A e \in Entries : Owed(e)' => Owed(e)
    BY <1>10, <2>c, <1>e DEF SwapOut, Owed, TypeFibers, Current
  <2>3. \A s \in Pool : Scans(s) => Scans(s)'
    BY <1>10 DEF SwapOut, Scans
  <2> QED BY <2>q, <2>1, <2>2, <2>3, DrainedStep
<1>11. ASSUME NEW t \in Pool, SettleReady(t) PROVE Drained'
  <2>c. Current(t) \in Fiber
    BY <1>11, CurrentType DEF SettleReady, Holding, OnStack, Running
  <2>p. /\ FiberTask(Current(t), None) \in Task /\ FiberTask(Current(t), None).thread = None
        /\ FiberTask(Current(t), None).fiber = Current(t)
    BY <2>c, TaskTypes DEF FiberTask
  <2>q. Entries' = Entries \cup {FiberTask(Current(t), None)}
    BY <1>11, <2>p, EntriesAppend DEF SettleReady, Requeued
  <2>1. Deciding' => Deciding
    BY <1>11 DEF SettleReady, Deciding, Decided
  <2>2. \A e \in Entries : Owed(e)' => Owed(e)
    BY <1>11, <2>c, <1>e DEF SettleReady, Owed, TypeFibers, Current
  <2>3. \A s \in Pool : Scans(s) => Scans(s)'
    BY <1>11 DEF SettleReady, Scans
  <2>4. Scans(t)'
    BY <1>11 DEF SettleReady, Scans
  <2> QED BY <2>p, <2>q, <2>1, <2>2, <2>3, <2>4, DrainedStep
<1>12. ASSUME NEW t \in Pool, SettleEnded(t) PROVE Drained'
  <2>q. Entries' = Entries
    BY <1>12 DEF Entries, SettleEnded
  <2>c. Current(t) \in Fiber
    BY <1>12, CurrentType DEF SettleEnded, Holding, OnStack, Running
  <2>1. Deciding' => Deciding
    BY <1>12 DEF SettleEnded, Deciding, Decided
  <2>2. \A e \in Entries : Owed(e)' => Owed(e)
    BY <1>12, <2>c, <1>e DEF SettleEnded, Owed, TypeFibers, Current
  <2>3. \A s \in Pool : Scans(s) => Scans(s)'
    BY <1>12 DEF SettleEnded, Scans
  <2> QED BY <2>q, <2>1, <2>2, <2>3, DrainedStep
<1>13. ASSUME NEW t \in Pool, SettleHold(t) PROVE Drained'
  <2>q. Entries' = Entries
    BY <1>13 DEF Entries, SettleHold
  <2>c. Current(t) \in Fiber
    BY <1>13, CurrentType DEF SettleHold, Holding, OnStack, Running
  <2>1. Deciding' => Deciding
    BY <1>13 DEF SettleHold, Deciding, Decided
  <2>2. \A e \in Entries : Owed(e)' => Owed(e)
    BY <1>13, <2>c, <1>e DEF SettleHold, Owed, TypeFibers, Current
  <2>3. \A s \in Pool : Scans(s) => Scans(s)'
    BY <1>13 DEF SettleHold, Scans
  <2> QED BY <2>q, <2>1, <2>2, <2>3, DrainedStep
<1>14. ASSUME NEW t \in Pool, FiberSchedule(t) PROVE Drained'
  <2>p. PICK e \in Task : e.thread \in {None, t} /\ m_fibers' = Append(m_fibers, e)
    <3>1. PICK j \in Job, thr \in {None, t} : SubmitCb(j, thr) \/ SubmitFiber(j, thr)
      BY <1>14 DEF FiberSchedule
    <3>2. CASE SubmitCb(j, thr)
      <4>1. CbTask(j, thr) \in Task /\ CbTask(j, thr).thread = thr
        BY TaskTypes DEF CbTask
      <4> QED BY <3>2, <4>1 DEF SubmitCb
    <3>3. CASE SubmitFiber(j, thr)
      <4>1. FiberTask(s_fiber_id + 1, thr) \in Task /\ FiberTask(s_fiber_id + 1, thr).thread = thr
        BY <3>3, TaskTypes DEF FiberTask, SubmitFiber
      <4> QED BY <3>3, <4>1 DEF SubmitFiber
    <3> QED BY <3>1, <3>2, <3>3
  <2>q. Entries' = Entries \cup {e}
    BY <2>p, EntriesAppend
  <2>1. Deciding' => Deciding
    BY <1>14 DEF FiberSchedule, threadVars, Deciding, Decided
  <2>2. \A d \in Entries : Owed(d)' => Owed(d)
    <3>1. \A g \in Fiber : g <= s_fiber_id => m_state'[g] = m_state[g]
      <4>1. \/ m_state' = m_state
            \/ m_state' = [m_state EXCEPT ![s_fiber_id + 1] = "INIT"]
        BY <1>14 DEF FiberSchedule, SubmitCb, SubmitFiber, fiberVars
      <4>2. \A g \in Fiber : g <= s_fiber_id => g # s_fiber_id + 1
        BY PoolFinite DEF TypeFibers
      <4> QED BY <4>1, <4>2 DEF TypeFibers
    <3> QED BY <3>1, <1>e DEF Owed
  <2>3. \A s \in Pool : Scans(s) => Scans(s)'
    BY <1>14 DEF FiberSchedule, threadVars, Scans
  <2>4. Scans(t)'
    BY <1>14 DEF FiberSchedule, threadVars, Scans
  <2> QED BY <2>p, <2>q, <2>1, <2>2, <2>3, <2>4, DrainedStep
<1>15. ASSUME NEW t \in Pool, YieldToReady(t) PROVE Drained'
  <2>q. Entries' = Entries
    BY <1>15 DEF Entries, YieldToReady
  <2>c. Current(t) \in Fiber
    BY <1>15, CurrentType DEF YieldToReady, Holding, OnStack, Running
  <2>1. Deciding' => Deciding
    BY <1>15 DEF YieldToReady, Deciding, Decided
  <2>2. \A e \in Entries : Owed(e)' => Owed(e)
    BY <1>15, <2>c, <1>e DEF YieldToReady, Owed, TypeFibers, Current
  <2>3. \A s \in Pool : Scans(s) => Scans(s)'
    BY <1>15 DEF YieldToReady, Scans
  <2> QED BY <2>q, <2>1, <2>2, <2>3, DrainedStep
<1>16. ASSUME NEW t \in Pool, Register(t) PROVE Drained'
  <2>q. Entries' = Entries
    BY <1>16 DEF Entries, Register
  <2>c. Current(t) \in Fiber
    BY <1>16, CurrentType DEF Register, Holding, OnStack, Running
  <2>1. Deciding' => Deciding
    BY <1>16 DEF Register, Deciding, Decided
  <2>2. \A e \in Entries : Owed(e)' => Owed(e)
    BY <1>16, <2>c, <1>e DEF Register, Owed, TypeFibers, Current
  <2>3. \A s \in Pool : Scans(s) => Scans(s)'
    BY <1>16 DEF Register, Scans
  <2> QED BY <2>q, <2>1, <2>2, <2>3, DrainedStep
<1>17. ASSUME NEW t \in Pool, YieldToHold(t) PROVE Drained'
  <2>q. Entries' = Entries
    BY <1>17 DEF Entries, YieldToHold
  <2>c. Current(t) \in Fiber
    BY <1>17, CurrentType DEF YieldToHold, Holding, OnStack, Running
  <2>1. Deciding' => Deciding
    BY <1>17 DEF YieldToHold, Deciding, Decided
  <2>2. \A e \in Entries : Owed(e)' => Owed(e)
    BY <1>17, <2>c, <1>e DEF YieldToHold, Owed, TypeFibers, Current
  <2>3. \A s \in Pool : Scans(s) => Scans(s)'
    BY <1>17 DEF YieldToHold, Scans
  <2> QED BY <2>q, <2>1, <2>2, <2>3, DrainedStep
<1>18. ASSUME NEW t \in Pool, Finish(t) PROVE Drained'
  <2>q. Entries' = Entries
    BY <1>18 DEF Entries, Finish
  <2>c. Current(t) \in Fiber
    BY <1>18, CurrentType DEF Finish, Holding, OnStack, Running
  <2>1. Deciding' => Deciding
    BY <1>18 DEF Finish, Deciding, Decided
  <2>2. \A e \in Entries : Owed(e)' => Owed(e)
    BY <1>18, <2>c, <1>e, ZenonT(60) DEF Finish, Owed, TypeFibers, Current
  <2>3. \A s \in Pool : Scans(s) => Scans(s)'
    BY <1>18 DEF Finish, Scans
  <2> QED BY <2>q, <2>1, <2>2, <2>3, DrainedStep
<1>19. ASSUME NEW f \in Fiber, Wake(f) PROVE Drained'
  <2>p. /\ FiberTask(f, None) \in Task /\ FiberTask(f, None).thread = None
        /\ FiberTask(f, None).fiber = f
    BY TaskTypes DEF FiberTask
  <2>q. Entries' = Entries \cup {FiberTask(f, None)}
    BY <1>19, <2>p, EntriesAppend DEF Wake, Requeued
  <2>1. Deciding' => Deciding
    BY <1>19 DEF Wake, Deciding, Decided
  <2>2. \A e \in Entries : Owed(e)' => Owed(e)
    BY <1>19, <1>e DEF Wake, Owed, TypeFibers
  <2>3. \A s \in Pool : Scans(s) => Scans(s)'
    BY <1>19 DEF Wake, Scans
  <2>4. m_state'[f] = "HOLD"
    BY <1>19 DEF Wake, fiberVars, Places, WaitsHold
  <2>5. ~Owed(FiberTask(f, None))'
    BY <2>p, <2>4 DEF Owed
  <2> QED BY <2>q, <2>1, <2>2, <2>3, <2>5, DrainedStep
<1>20. ASSUME NEW f \in Fiber, OwnerReschedule(f) PROVE Drained'
  BY <1>20 DEF OwnerReschedule, Places
<1>21. ASSUME OwnerSchedule PROVE Drained'
  <2>1. ~Deciding'
    BY <1>21 DEF OwnerSchedule, threadVars, Deciding, Decided, DecidedLate
  <2> QED BY <2>1 DEF Drained
<1>22. ASSUME Start PROVE Drained'
  <2>1. ~Deciding'
    BY <1>22 DEF Start, Deciding, Decided, OwnerPhase, Pool
  <2> QED BY <2>1 DEF Drained
<1>23. ASSUME StopBegin PROVE Drained'
  <2>q. Entries' = Entries
    BY <1>23 DEF Entries, StopBegin
  <2>1. Deciding' => Deciding
    BY <1>23 DEF StopBegin, Deciding, Decided
  <2>2. \A e \in Entries : Owed(e)' => Owed(e)
    BY <1>23, <1>e DEF StopBegin, Owed, TypeFibers
  <2>3. \A s \in Pool : Scans(s) => Scans(s)'
    BY <1>23 DEF StopBegin, Scans
  <2> QED BY <2>q, <2>1, <2>2, <2>3, DrainedStep
<1>24. ASSUME StopCheck PROVE Drained'
  <2>q. Entries' = Entries
    BY <1>24 DEF Entries, StopCheck
  <2>1. Deciding' => Deciding
    BY <1>24 DEF StopCheck, Deciding, Decided
  <2>2. \A e \in Entries : Owed(e)' => Owed(e)
    BY <1>24, <1>e DEF StopCheck, Owed, TypeFibers
  <2>3. \A s \in Pool : Scans(s) => Scans(s)'
    BY <1>24 DEF StopCheck, Scans
  <2> QED BY <2>q, <2>1, <2>2, <2>3, DrainedStep
<1>25. ASSUME StopFlag PROVE Drained'
  <2>q. Entries' = Entries
    BY <1>25 DEF Entries, StopFlag
  <2>1. Deciding' => Deciding
    BY <1>25 DEF StopFlag, Deciding, Decided
  <2>2. \A e \in Entries : Owed(e)' => Owed(e)
    BY <1>25, <1>e DEF StopFlag, Owed, TypeFibers
  <2>3. \A s \in Pool : Scans(s) => Scans(s)'
    BY <1>25 DEF StopFlag, Scans
  <2> QED BY <2>q, <2>1, <2>2, <2>3, DrainedStep
<1>26. ASSUME StopRoot PROVE Drained'
  <2>q. Entries' = Entries
    BY <1>26 DEF Entries, StopRoot
  <2>1. Deciding' => Deciding
    BY <1>26 DEF StopRoot, Deciding, Decided, DecidedLate, OwnerPhase, Pool
  <2>2. \A e \in Entries : Owed(e)' => Owed(e)
    BY <1>26, <1>e DEF StopRoot, Owed, TypeFibers
  <2>3. \A s \in Pool : Scans(s) => Scans(s)'
    BY <1>26 DEF StopRoot, Scans, OwnerPhase
  <2> QED BY <2>q, <2>1, <2>2, <2>3, DrainedStep
<1>27. ASSUME Join PROVE Drained'
  <2>1. ~Deciding'
    BY <1>27 DEF Join, Deciding, Decided
  <2> QED BY <2>1 DEF Drained
<1>28. ASSUME OwnerElsewhere PROVE Drained'
  <2>q. Entries' = Entries
    BY <1>28 DEF Entries, OwnerElsewhere, vars
  <2>1. Deciding' => Deciding
    BY <1>28 DEF OwnerElsewhere, vars, Deciding, Decided
  <2>2. \A e \in Entries : Owed(e)' => Owed(e)
    BY <1>28, <1>e DEF OwnerElsewhere, vars, Owed, TypeFibers
  <2>3. \A s \in Pool : Scans(s) => Scans(s)'
    BY <1>28 DEF OwnerElsewhere, vars, Scans
  <2> QED BY <2>q, <2>1, <2>2, <2>3, DrainedStep
<1>29. CASE UNCHANGED vars
  <2>q. Entries' = Entries
    BY <1>29 DEF Entries, vars
  <2>1. Deciding' => Deciding
    BY <1>29 DEF vars, Deciding, Decided
  <2>2. \A e \in Entries : Owed(e)' => Owed(e)
    BY <1>29, <1>e DEF vars, Owed, TypeFibers
  <2>3. \A s \in Pool : Scans(s) => Scans(s)'
    BY <1>29 DEF vars, Scans
  <2> QED BY <2>q, <2>1, <2>2, <2>3, DrainedStep
<1> QED
  BY <1>1, <1>2, <1>3, <1>4, <1>5, <1>6, <1>7, <1>8, <1>9, <1>10, <1>11, <1>12, <1>13, <1>14,
     <1>15, <1>16, <1>17, <1>18, <1>19, <1>20, <1>21, <1>22, <1>23, <1>24, <1>25, <1>26, <1>27,
     <1>28, <1>29, AssertHolds
     DEF Next, Thread, InRun, InFiber, Stopping

\* Nothing is in the list, and no thread runs, before the first schedule() and start().
LEMMA DrainInit == Init => Kept /\ DecidedLate /\ Drained
<1> SUFFICES ASSUME Init PROVE Kept /\ DecidedLate /\ Drained
  OBVIOUS
<1>1. Entries = {}
  BY EmptySeq DEF Init, Entries
<1>2. Kept
  BY <1>1 DEF Init, Kept, Pure, JobsKept, ReadyKept, NoTask
<1>3. DecidedLate /\ Drained
  BY <1>1, ConstantsAssumption DEF Init, DecidedLate, Drained, Deciding, Decided, Pool
<1> QED BY <1>2, <1>3

\* When stop() comes back from joining a pool that ran, every submitted callback has been
\* entered, no fiber is READY or running, and m_fibers holds at most fibers that were
\* waiting when the threads decided to end: for every number of threads, jobs, yields
\* and of start() and stop() calls, while wake-ups find a fiber settled, no fiber is
\* scheduled twice and a fiber pins new work to no thread but its own.
THEOREM StopLeavesNothing ==
    ASSUME ~EarlyWake, ~Reschedule, ~CrossPin
    PROVE  Spec => StopDrains
<1> DEFINE Inv == Basic /\ Places /\ Alone /\ Kept /\ DecidedLate /\ Drained
           Empty == (owner = "join" /\ owner' = "returned" /\ \E t \in Pool : pc[t] = "exit") =>
                       /\ \A j \in submitted : runs[j] > 0
                       /\ \A f \in Fiber \ overlapped : m_state[f] \notin {"READY", "EXEC"}
                       /\ \A i \in 1 .. Len(m_fibers) :
                              /\ m_fibers[i].fiber # None
                              /\ \/ m_state[m_fibers[i].fiber] = "HOLD"
                                 \/ m_fibers[i].fiber \in overlapped
<1>1. Init => Inv
  BY BasicInit, PlacesInit, DrainInit DEF Init, Alone
<1>2. Inv /\ [Next]_vars => Inv'
  BY BasicNext, PlacesNext, AloneNext, KeptNext, DecidedLateNext, DrainedNext
<1>3. ASSUME Inv, [Next]_vars PROVE Empty
  <2> SUFFICES ASSUME owner = "join", owner' = "returned", NEW t \in Pool, pc[t] = "exit"
               PROVE  /\ \A j \in submitted : runs[j] > 0
                      /\ \A f \in Fiber : m_state[f] \notin {"READY", "EXEC"}
                      /\ \A i \in 1 .. Len(m_fibers) :
                             m_fibers[i].fiber # None /\ m_state[m_fibers[i].fiber] = "HOLD"
    OBVIOUS
  <2>1. \A s \in Pool : pc[s] \in {"off", "exit"}
    BY <1>3 DEF Next, Thread, InRun, InFiber, Stopping, vars, stopVars, Take, TakeNothing,
           SwapInFiber, SwapInNewCb, SwapInOldCb, AssertFails, DropEnded,
           EnterIdle, LeaveIdle, Exit, SwapOut, SettleReady, SettleEnded, SettleHold, FiberSchedule,
           YieldToReady, Register, YieldToHold, Finish, Wake, OwnerReschedule, OwnerSchedule, Start,
           StopBegin, StopCheck, StopFlag, StopRoot, Join, OwnerElsewhere
  <2>2. Deciding /\ \A s \in Pool : ~Scans(s)
    BY <1>3, <2>1 DEF Deciding, Decided, DecidedLate, Scans
  <2>3. \A e \in Entries : e.fiber # None /\ m_state[e.fiber] = "HOLD"
    BY <1>3, <2>2 DEF Drained, Owed
  <2>4. \A i \in 1 .. Len(m_fibers) : m_fibers[i] \in Entries
    BY DEF Entries
  <2>5. ASSUME NEW j \in submitted PROVE runs[j] > 0
    <3>1. j # None
      BY <1>3, NoneNotFiber DEF Basic, TypeGhosts
    <3>2. \A e \in Entries : ~Carries(e, j)
      BY <1>3, <2>3, <3>1 DEF Kept, Pure, Carries, Fresh
    <3> QED BY <1>3, <2>1, <3>2 DEF Kept, JobsKept
  <2>6. ASSUME NEW f \in Fiber PROVE m_state[f] \notin {"READY", "EXEC"}
    <3>1. m_state[f] # "READY"
      BY <1>3, <2>1, <2>3 DEF Kept, ReadyKept, Keeps
    <3>2. m_state[f] # "EXEC"
      BY <1>3, <2>1 DEF Places, Alone, ExecRuns, Running
    <3> QED BY <3>1, <3>2
  <2> QED BY <2>3, <2>4, <2>5, <2>6
<1>4. Inv /\ [Next]_vars => [Empty]_vars
  BY <1>3
<1> HIDE DEF Inv, Empty
<1>5. Spec => [][Empty]_vars
  BY <1>1, <1>2, <1>4, PTL DEF Spec
<1> QED BY <1>5 DEF StopDrains, Empty

==============================================================================
