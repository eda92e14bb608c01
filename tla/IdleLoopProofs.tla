---------------------------- MODULE IdleLoopProofs ----------------------------
(* Theorems about IdleLoop, for every number of threads, every pool and every *)
(* bound.                                                                     *)
EXTENDS IdleLoop, FiniteSetTheorems, TLAPS

(* Where a process is.  A process that tickles goes on at back[p], so its stage *)
(* is the place it will be at; tickle() and the write leave it alone.           *)

OwnerPlace == {"own", "join", "joined"}

ActivePlace == {"task", "finish"}

ReportPlace == {"list", "listed", "events", "triggered"}

IdlePlace == {"stopTimer", "stopPending", "stopScheduler", "epoll", "out"} \cup ReportPlace

Place == OwnerPlace \cup ActivePlace \cup IdlePlace \cup {"scan", "toIdle", "exit"}

Tickling(p) == pc[p] \in {"tickle", "write"}

stage == [p \in Process |-> IF Tickling(p) THEN back[p] ELSE pc[p]]

\* The threads between an increment and its decrement, and those that have a report of
\* epoll_wait they have not counted off.
Active == {t \in Thread : stage[t] \in ActivePlace}

Idling == {t \in Thread : stage[t] \in IdlePlace}

Reporting == {t \in Thread : got[t] = "event" /\ stage[t] # "out"}

TypeRest ==
    /\ pool \in Pools
    /\ tasks \in Nat /\ work \in 0 .. pool.work /\ pipe \in 0 .. PipeCap
    /\ m_stopping \in BOOLEAN /\ m_tickled \in BOOLEAN /\ edge \in BOOLEAN
    /\ timers \in [{"due", "later", "far"} -> Nat]
    /\ term \in [Thread -> BOOLEAN]
    /\ timeout \in [Thread -> {"max", "timer", "forever"}]
    /\ got \in [Thread -> {"nothing", "tickle", "event"}]
    /\ cbs \in [Thread -> Nat]

TypePlace ==
    /\ pc \in [Process -> Place \cup {"tickle", "write"}]
    /\ left \in [Process -> Nat]
    /\ back \in [Process -> {"none", "own", "join", "finish", "events", "triggered"}]
    /\ \A p \in Process : Tickling(p) => left[p] # 0 /\ back[p] # "none"

\* The owner and the threads keep to their own code, and a report is there only between
\* epoll_wait and the end of idle().
Staged ==
    /\ stage[Owner] \in OwnerPlace
    /\ \A t \in Thread :
          /\ stage[t] \in Place \ OwnerPlace
          /\ got[t] # "nothing" => stage[t] \in ReportPlace \cup {"out"}
          /\ stage[t] = "triggered" => got[t] = "event"

\* The counters are what they count; each reported event is still pending.
Counts ==
    /\ m_activeThreadCount = Cardinality(Active)
    /\ m_idleThreadCount = Cardinality(Idling)
    /\ m_pendingEventCount \in 0 .. MaxEvents
    /\ Cardinality(Reporting) <= m_pendingEventCount

\* The owner is in stop() once it has set the flags, and joins threads that have gone;
\* threads outside of the pool never run.
Stopped ==
    /\ m_stopping => stage[Owner] # "own"
    /\ stage[Owner] = "joined" => \A t \in Thread : stage[t] = "exit"
    /\ \A t \in Thread \ pool.threads : stage[t] = "exit"

\* What the only thread has read in stopping() is still so, as nobody but itself adds
\* timers and events, and after stop() tasks.
Drains ==
    \A w \in Thread : pool.threads = {w} /\ ~pool.ownerTimers =>
        /\ stage[w] \in {"stopPending", "stopScheduler"} => NoTimer
        /\ stage[w] = "stopScheduler" => m_pendingEventCount = 0
        /\ term[w] => /\ stage[w] \in {"out", "scan", "exit"}
                      /\ m_stopping /\ tasks = 0 /\ NoTimer /\ m_pendingEventCount = 0
        /\ stage[w] = "exit" => term[w]

Shape == TypeRest /\ TypePlace /\ Staged

-----------------------------------------------------------------------------
(* Going on.                                                                *)

\* Then() sends a process to its next place, by way of tickle() or not.
LEMMA ThenGoes ==
    ASSUME TypePlace, NEW p \in Process, NEW n \in Nat, NEW next \in Place, Then(p, n, next),
           n # 0 => next \in {"own", "join", "finish", "events", "triggered"}
    PROVE  TypePlace' /\ stage' = [stage EXCEPT ![p] = next]
<1> USE DEF Place, OwnerPlace, ActivePlace, IdlePlace, ReportPlace
<1>1. TypePlace'
  BY DEF TypePlace, Then, Tickling
<1>2. \A q \in Process : stage'[q] = IF q = p THEN next ELSE stage[q]
  BY DEF TypePlace, Then, Tickling, stage
<1> QED BY <1>1, <1>2 DEF stage

\* A process goes on without a tickle().
LEMMA PlainGoes ==
    ASSUME TypePlace, NEW p \in Process, NEW x \in Place, ~Tickling(p),
           pc' = [pc EXCEPT ![p] = x], UNCHANGED <<left, back>>
    PROVE  TypePlace' /\ stage' = [stage EXCEPT ![p] = x]
<1> USE DEF Place, OwnerPlace, ActivePlace, IdlePlace, ReportPlace
<1>1. TypePlace'
  BY DEF TypePlace, Tickling
<1>2. \A q \in Process : stage'[q] = IF q = p THEN x ELSE stage[q]
  BY DEF TypePlace, Tickling, stage
<1> QED BY <1>1, <1>2 DEF stage

\* tickle() and its write change no stage.
LEMMA TickleStays ==
    ASSUME TypePlace, Staged, NEW p \in Process, Tickle(p) \/ Write(p)
    PROVE  TypePlace' /\ stage' = stage
<1> USE DEF Place, OwnerPlace, ActivePlace, IdlePlace, ReportPlace
<1>1. Tickling(p) /\ left[p] \in Nat \ {0} /\ back[p] \in Place /\ stage[p] = back[p]
  BY DEF Tickle, Write, TypePlace, Tickling, stage
<1>2. stage \in [Process -> Place]
  BY DEF Staged, Process, stage
<1>3. CASE Then(p, left[p] - 1, back[p])
  <2>1. TypePlace' /\ stage' = [stage EXCEPT ![p] = back[p]]
    BY <1>1, <1>3, ThenGoes DEF TypePlace
  <2> QED BY <2>1, <1>1, <1>2
<1>4. CASE pc' = [pc EXCEPT ![p] = "write"] /\ UNCHANGED <<left, back>>
  <2>1. TypePlace'
    BY <1>1, <1>4 DEF TypePlace, Tickling
  <2>2. \A q \in Process : stage'[q] = stage[q]
    BY <1>1, <1>4 DEF TypePlace, Tickling, stage
  <2> QED BY <2>1, <2>2 DEF stage
<1> QED BY <1>3, <1>4 DEF Tickle, Write

\* schedule() goes on by way of at most one tickle().
LEMMA PushGoes ==
    ASSUME TypeRest, TypePlace, NEW p \in Process, NEW n \in Nat,
           NEW next \in {"own", "join", "finish", "events", "triggered"}, Push(p, n, next)
    PROVE  TypePlace' /\ stage' = [stage EXCEPT ![p] = next] /\ tasks' \in Nat
<1>1. next \in Place
  BY DEF Place, OwnerPlace, ActivePlace, IdlePlace, ReportPlace
<1>2. CASE Then(p, 1, next)
  BY <1>1, <1>2, ThenGoes DEF Push, TypeRest
<1>3. CASE Then(p, 0, next)
  BY <1>1, <1>3, ThenGoes DEF Push, TypeRest
<1> QED BY <1>2, <1>3 DEF Push

\* So does addTimer().
LEMMA TimerGoes ==
    ASSUME TypeRest, TypePlace, NEW p \in Process, NEW k \in Kinds,
           NEW next \in {"own", "join", "finish", "events", "triggered"}, AddTimer(p, k, next)
    PROVE  /\ TypePlace' /\ stage' = [stage EXCEPT ![p] = next]
           /\ timers' \in [{"due", "later", "far"} -> Nat] /\ m_tickled' \in BOOLEAN
<1>1. next \in Place
  BY DEF Place, OwnerPlace, ActivePlace, IdlePlace, ReportPlace
<1>2. PICK first \in BOOLEAN :
          /\ m_tickled' = (m_tickled \/ first)
          /\ Then(p, IF first /\ ~m_tickled THEN 1 ELSE 0, next)
  BY DEF AddTimer
<1>3. TypePlace' /\ stage' = [stage EXCEPT ![p] = next]
  <2>1. CASE Then(p, 1, next)
    BY <1>1, <2>1, ThenGoes
  <2>2. CASE Then(p, 0, next)
    BY <1>1, <2>2, ThenGoes
  <2> QED BY <1>2, <2>1, <2>2
<1>5. timers' \in [{"due", "later", "far"} -> Nat]
  BY LoopAssumption DEF AddTimer, TypeRest
<1>6. m_tickled' \in BOOLEAN
  BY <1>2 DEF TypeRest
<1> QED BY <1>3, <1>5, <1>6

-----------------------------------------------------------------------------
(* Counting.                                                                *)

One(b) == IF b THEN 1 ELSE 0

USE DEF One

\* Threads are finitely many, so sets of them have a size that is a number.
LEMMA ThreadsFinite ==
    ASSUME NEW A \in SUBSET Thread, NEW t \in Thread
    PROVE  /\ IsFiniteSet(A) /\ Cardinality(A) \in Nat
           /\ t \notin A => Cardinality(A \cup {t}) = Cardinality(A) + 1
           /\ t \in A => Cardinality(A \ {t}) = Cardinality(A) - 1
<1>1. IsFiniteSet(A) /\ Cardinality(A) \in Nat
  BY LoopAssumption, FS_Subset, FS_CardinalityType
<1>2. Cardinality(A \cup {t}) = IF t \in A THEN Cardinality(A) ELSE Cardinality(A) + 1
  BY <1>1, FS_AddElement
<1>3. Cardinality(A \ {t}) = IF t \in A THEN Cardinality(A) - 1 ELSE Cardinality(A)
  BY <1>1, FS_RemoveElement
<1> QED BY <1>1, <1>2, <1>3

\* One thread goes to x, into or out of a counted section.
LEMMA ThreadCounted ==
    ASSUME NEW t \in Thread, NEW x, DOMAIN stage = Process, stage' = [stage EXCEPT ![t] = x]
    PROVE  /\ Cardinality(Active) \in Nat /\ Cardinality(Idling) \in Nat
           /\ Cardinality(Active') = Cardinality(Active)
                 + One(x \in ActivePlace)
                 - One(stage[t] \in ActivePlace)
           /\ Cardinality(Idling') = Cardinality(Idling)
                 + One(x \in IdlePlace)
                 - One(stage[t] \in IdlePlace)
<1>1. \A u \in Thread : stage'[u] = IF u = t THEN x ELSE stage[u]
  BY DEF Process
<1>2. Active \in SUBSET Thread /\ Idling \in SUBSET Thread
  BY DEF Active, Idling
<1>3. Active' = IF x \in ActivePlace THEN Active \cup {t} ELSE Active \ {t}
  BY <1>1 DEF Active
<1>4. Idling' = IF x \in IdlePlace THEN Idling \cup {t} ELSE Idling \ {t}
  BY <1>1 DEF Idling
<1>5. (t \in Active <=> stage[t] \in ActivePlace) /\ (t \in Idling <=> stage[t] \in IdlePlace)
  BY DEF Active, Idling
<1>6. Cardinality(Active') = Cardinality(Active)
                 + One(x \in ActivePlace)
                 - One(stage[t] \in ActivePlace)
  <2>1. t \in Active => Active \cup {t} = Active
    OBVIOUS
  <2>2. t \notin Active => Active \ {t} = Active
    OBVIOUS
  <2>3. /\ Cardinality(Active) \in Nat
        /\ t \notin Active => Cardinality(Active \cup {t}) = Cardinality(Active) + 1
        /\ t \in Active => Cardinality(Active \ {t}) = Cardinality(Active) - 1
    BY <1>2, ThreadsFinite
  <2>4. CASE x \in ActivePlace
    <3>1. Active' = Active \cup {t}
      BY <1>3, <2>4
    <3>2. t \in Active => Cardinality(Active') = Cardinality(Active)
      BY <2>1, <2>3, <3>1
    <3>3. t \notin Active => Cardinality(Active') = Cardinality(Active) + 1
      BY <2>1, <2>3, <3>1
    <3> QED BY <1>5, <2>3, <2>4, <3>2, <3>3
  <2>5. CASE x \notin ActivePlace
    <3>1. Active' = Active \ {t}
      BY <1>3, <2>5
    <3>2. t \in Active => Cardinality(Active') = Cardinality(Active) - 1
      BY <2>2, <2>3, <3>1
    <3>3. t \notin Active => Cardinality(Active') = Cardinality(Active)
      BY <2>2, <2>3, <3>1
    <3> QED BY <1>5, <2>3, <2>5, <3>2, <3>3
  <2> QED BY <2>4, <2>5
<1>7. Cardinality(Idling') = Cardinality(Idling)
                 + One(x \in IdlePlace)
                 - One(stage[t] \in IdlePlace)
  <2>1. t \in Idling => Idling \cup {t} = Idling
    OBVIOUS
  <2>2. t \notin Idling => Idling \ {t} = Idling
    OBVIOUS
  <2>3. /\ Cardinality(Idling) \in Nat
        /\ t \notin Idling => Cardinality(Idling \cup {t}) = Cardinality(Idling) + 1
        /\ t \in Idling => Cardinality(Idling \ {t}) = Cardinality(Idling) - 1
    BY <1>2, ThreadsFinite
  <2>4. CASE x \in IdlePlace
    <3>1. Idling' = Idling \cup {t}
      BY <1>4, <2>4
    <3>2. t \in Idling => Cardinality(Idling') = Cardinality(Idling)
      BY <2>1, <2>3, <3>1
    <3>3. t \notin Idling => Cardinality(Idling') = Cardinality(Idling) + 1
      BY <2>1, <2>3, <3>1
    <3> QED BY <1>5, <2>3, <2>4, <3>2, <3>3
  <2>5. CASE x \notin IdlePlace
    <3>1. Idling' = Idling \ {t}
      BY <1>4, <2>5
    <3>2. t \in Idling => Cardinality(Idling') = Cardinality(Idling) - 1
      BY <2>2, <2>3, <3>1
    <3>3. t \notin Idling => Cardinality(Idling') = Cardinality(Idling)
      BY <2>2, <2>3, <3>1
    <3> QED BY <1>5, <2>3, <2>5, <3>2, <3>3
  <2> QED BY <2>4, <2>5
<1> QED BY <1>2, <1>6, <1>7, ThreadsFinite

\* A step of a thread that gets no new report keeps the counts if it counts itself.
LEMMA CountsKept ==
    ASSUME Counts, NEW t \in Thread, NEW x, DOMAIN stage = Process,
           stage' = [stage EXCEPT ![t] = x],
           m_activeThreadCount' = m_activeThreadCount
               + One(x \in ActivePlace) - One(stage[t] \in ActivePlace),
           m_idleThreadCount' = m_idleThreadCount
               + One(x \in IdlePlace) - One(stage[t] \in IdlePlace),
           m_pendingEventCount' \in m_pendingEventCount .. MaxEvents,
           got' = got \/ got' = [got EXCEPT ![t] = "nothing"] \/ got' = [got EXCEPT ![t] = "tickle"],
           DOMAIN got = Thread,
           stage[t] = "out" => x = "out" \/ got'[t] # "event"
    PROVE  Counts'
<1>1. Reporting' \subseteq Reporting
  BY DEF Reporting, Process
<1>2. Reporting \in SUBSET Thread /\ Reporting' \in SUBSET Thread
  BY <1>1 DEF Reporting
<1>3. Cardinality(Reporting') <= Cardinality(Reporting) /\ Cardinality(Reporting) \in Nat
      /\ Cardinality(Reporting') \in Nat
  BY <1>1, <1>2, ThreadsFinite, FS_Subset
<1>4. m_pendingEventCount \in 0 .. MaxEvents /\ m_pendingEventCount' \in 0 .. MaxEvents
  BY LoopAssumption DEF Counts
<1>5. m_activeThreadCount' = Cardinality(Active') /\ m_idleThreadCount' = Cardinality(Idling')
  BY ThreadCounted DEF Counts
<1> QED BY <1>3, <1>4, <1>5, LoopAssumption DEF Counts

\* A step that changes no stage of a thread, no report and no counter.
LEMMA CountsStay ==
    ASSUME Counts, \A t \in Thread : stage'[t] = stage[t],
           UNCHANGED <<countVars, m_pendingEventCount, got>>
    PROVE  Counts'
<1>1. Active' = Active /\ Idling' = Idling /\ Reporting' = Reporting
  BY DEF Active, Idling, Reporting
<1> QED BY <1>1 DEF Counts, countVars

-----------------------------------------------------------------------------
(* Every step.                                                              *)

LoopInv == Shape /\ Counts /\ Stopped /\ Drains

\* A thread that is neither in stopping() nor on its way out may add what it likes: it
\* has not decided to leave.
LEMMA BusyDrains ==
    ASSUME LoopInv, NEW t \in Thread, NEW x, UNCHANGED <<pool, term>>,
           stage[t] \notin {"out", "scan", "exit"},
           x \notin {"stopPending", "stopScheduler", "exit"},
           \A u \in Thread : stage'[u] = IF u = t THEN x ELSE stage[u]
    PROVE  Drains'
<1>1. t \in pool.threads
  BY DEF LoopInv, Stopped
<1>2. \A w \in Thread : pool'.threads = {w} /\ ~pool'.ownerTimers => w = t /\ ~term'[w]
  BY <1>1 DEF LoopInv, Drains
<1> QED BY <1>2 DEF Drains

\* A task is taken from the list; the thread is counted as active.
LEMMA TakeKeeps ==
    ASSUME LoopInv, UNCHANGED pool, NEW t \in Thread, Take(t)
    PROVE  LoopInv'
<1> USE DEF LoopInv, Shape
<1>1. stage[t] = "scan" /\ ~Tickling(t) /\ t \in Process /\ t # Owner /\ Owner \in Process
  BY LoopAssumption DEF Take, TypePlace, Tickling, stage, Process, ActivePlace, Returns
<1>2. TypePlace' /\ stage' = [stage EXCEPT ![t] = "task"]
  <2>1. pc' = [pc EXCEPT ![t] = "task"] /\ UNCHANGED <<left, back>>
    BY DEF Take, countVars, timerVars, pipeVars, sleepVars
  <2>2. "task" \in Place
    BY DEF Place, OwnerPlace, ActivePlace, IdlePlace, ReportPlace
  <2> QED BY <1>1, <2>1, <2>2, PlainGoes
<1>3. /\ stage'[Owner] = stage[Owner]
      /\ DOMAIN stage = Process
      /\ \A u \in Thread : stage'[u] = IF u = t THEN "task" ELSE stage[u]
  BY <1>1, <1>2 DEF stage, Process
<1>4. TypeRest'
  BY LoopAssumption DEF Take, countVars, timerVars, pipeVars, sleepVars, TypeRest
<1>5. Staged'
  BY <1>1, <1>2, <1>3 DEF Take, countVars, timerVars, pipeVars, sleepVars, Staged, Place,
     OwnerPlace, ActivePlace, IdlePlace, ReportPlace, TypeRest
<1>6. Counts'
  <2>1. /\ m_activeThreadCount' = m_activeThreadCount
               + One("task" \in ActivePlace) - One(stage[t] \in ActivePlace)
        /\ m_idleThreadCount' = m_idleThreadCount
               + One("task" \in IdlePlace) - One(stage[t] \in IdlePlace)
    <3>1. Cardinality(Active) \in Nat /\ Cardinality(Idling) \in Nat
      BY <1>2, <1>3, ThreadCounted
    <3> QED BY <1>1, <3>1 DEF Take, countVars, timerVars, pipeVars, sleepVars, Place,
       OwnerPlace, ActivePlace, IdlePlace, ReportPlace, Counts
  <2>2. m_pendingEventCount' \in m_pendingEventCount .. MaxEvents
    BY LoopAssumption DEF Take, countVars, timerVars, pipeVars, sleepVars, Counts
  <2>3. got' = got /\ DOMAIN got = Thread
    BY DEF Take, countVars, timerVars, pipeVars, sleepVars, TypeRest
  <2> QED BY <1>1, <1>2, <1>3, <2>1, <2>2, <2>3, CountsKept DEF ActivePlace
<1>7. Stopped'
  BY <1>1, <1>3 DEF Take, countVars, timerVars, pipeVars, sleepVars, Stopped, Place,
     OwnerPlace, ActivePlace, IdlePlace, ReportPlace, Staged, TypeRest
<1>8. Drains'
  BY <1>1, <1>3 DEF Take, countVars, timerVars, pipeVars, sleepVars, Drains, NoTimer, Place,
     OwnerPlace, ActivePlace, IdlePlace, ReportPlace, TypeRest, TypePlace, Staged, Counts
<1> QED BY <1>2, <1>4, <1>5, <1>6, <1>7, <1>8

\* An empty list: to idle, or the end of run() once the idle fiber has ended.
LEMMA TakeNothingKeeps ==
    ASSUME LoopInv, UNCHANGED pool, NEW t \in Thread, TakeNothing(t)
    PROVE  LoopInv'
<1> USE DEF LoopInv, Shape
<1>1. stage[t] = "scan" /\ ~Tickling(t) /\ t \in Process /\ t # Owner /\ Owner \in Process
  BY LoopAssumption DEF TakeNothing, TypePlace, Tickling, stage, Process, ActivePlace, Returns
<1> DEFINE x == IF term[t] THEN "exit" ELSE "toIdle"
<1>x. x \in {"exit", "toIdle"} /\ x \in Place /\ (x = "exit" <=> term[t])
  BY DEF Place, OwnerPlace, ActivePlace, IdlePlace, ReportPlace
<1>2. TypePlace' /\ stage' = [stage EXCEPT ![t] = x]
  <2>1. pc' = [pc EXCEPT ![t] = x] /\ UNCHANGED <<left, back>>
    BY DEF TakeNothing, countVars, timerVars, pipeVars, sleepVars
  <2> HIDE DEF x
  <2> QED BY <1>1, <1>x, <2>1, PlainGoes
<1> HIDE DEF x
<1>3. /\ stage'[Owner] = stage[Owner]
      /\ DOMAIN stage = Process
      /\ \A u \in Thread : stage'[u] = IF u = t THEN x ELSE stage[u]
  BY <1>1, <1>2 DEF stage, Process
<1>4. TypeRest'
  BY LoopAssumption DEF TakeNothing, countVars, timerVars, pipeVars, sleepVars, TypeRest
<1>5. Staged'
  BY <1>1, <1>2, <1>3, <1>x DEF TakeNothing, countVars, timerVars, pipeVars, sleepVars,
     Staged, Place, OwnerPlace, ActivePlace, IdlePlace, ReportPlace, TypeRest
<1>6. Counts'
  <2>1. /\ m_activeThreadCount' = m_activeThreadCount
               + One(x \in ActivePlace) - One(stage[t] \in ActivePlace)
        /\ m_idleThreadCount' = m_idleThreadCount
               + One(x \in IdlePlace) - One(stage[t] \in IdlePlace)
    <3>1. Cardinality(Active) \in Nat /\ Cardinality(Idling) \in Nat
      BY <1>2, <1>3, ThreadCounted
    <3> QED BY <1>1, <3>1, <1>x DEF TakeNothing, countVars, timerVars, pipeVars, sleepVars,
       Place, OwnerPlace, ActivePlace, IdlePlace, ReportPlace, Counts
  <2>2. m_pendingEventCount' \in m_pendingEventCount .. MaxEvents
    BY LoopAssumption DEF TakeNothing, countVars, timerVars, pipeVars, sleepVars, Counts
  <2>3. got' = got /\ DOMAIN got = Thread
    BY DEF TakeNothing, countVars, timerVars, pipeVars, sleepVars, TypeRest
  <2> QED BY <1>1, <1>2, <1>3, <2>1, <2>2, <2>3, <1>x, CountsKept DEF ActivePlace
<1>7. Stopped'
  BY <1>1, <1>3, <1>x DEF TakeNothing, countVars, timerVars, pipeVars, sleepVars, Stopped,
     Place, OwnerPlace, ActivePlace, IdlePlace, ReportPlace, Staged, TypeRest
<1>8. Drains'
  BY <1>1, <1>3, <1>x DEF TakeNothing, countVars, timerVars, pipeVars, sleepVars, Drains,
     NoTimer, Place, OwnerPlace, ActivePlace, IdlePlace, ReportPlace, TypeRest, TypePlace,
     Staged, Counts
<1> QED BY <1>2, <1>4, <1>5, <1>6, <1>7, <1>8

\* A task ends.
LEMMA FinishKeeps ==
    ASSUME LoopInv, UNCHANGED pool, NEW t \in Thread, Finish(t)
    PROVE  LoopInv'
<1> USE DEF LoopInv, Shape
<1>1. stage[t] \in ActivePlace /\ ~Tickling(t) /\ t \in Process /\ t # Owner /\ Owner \in Process
  BY LoopAssumption DEF Finish, TypePlace, Tickling, stage, Process, ActivePlace, Returns
<1>2. TypePlace' /\ stage' = [stage EXCEPT ![t] = "scan"]
  <2>1. pc' = [pc EXCEPT ![t] = "scan"] /\ UNCHANGED <<left, back>>
    BY DEF Finish, countVars, timerVars, pipeVars, sleepVars
  <2>2. "scan" \in Place
    BY DEF Place, OwnerPlace, ActivePlace, IdlePlace, ReportPlace
  <2> QED BY <1>1, <2>1, <2>2, PlainGoes
<1>3. /\ stage'[Owner] = stage[Owner]
      /\ DOMAIN stage = Process
      /\ \A u \in Thread : stage'[u] = IF u = t THEN "scan" ELSE stage[u]
  BY <1>1, <1>2 DEF stage, Process
<1>4. TypeRest'
  BY LoopAssumption DEF Finish, countVars, timerVars, pipeVars, sleepVars, TypeRest
<1>5. Staged'
  BY <1>1, <1>2, <1>3 DEF Finish, countVars, timerVars, pipeVars, sleepVars, Staged, Place,
     OwnerPlace, ActivePlace, IdlePlace, ReportPlace, TypeRest
<1>6. Counts'
  <2>1. /\ m_activeThreadCount' = m_activeThreadCount
               + One("scan" \in ActivePlace) - One(stage[t] \in ActivePlace)
        /\ m_idleThreadCount' = m_idleThreadCount
               + One("scan" \in IdlePlace) - One(stage[t] \in IdlePlace)
    <3>1. Cardinality(Active) \in Nat /\ Cardinality(Idling) \in Nat
      BY <1>2, <1>3, ThreadCounted
    <3> QED BY <1>1, <3>1 DEF Finish, countVars, timerVars, pipeVars, sleepVars, Place,
       OwnerPlace, ActivePlace, IdlePlace, ReportPlace, Counts
  <2>2. m_pendingEventCount' \in m_pendingEventCount .. MaxEvents
    BY LoopAssumption DEF Finish, countVars, timerVars, pipeVars, sleepVars, Counts
  <2>3. got' = got /\ DOMAIN got = Thread
    BY DEF Finish, countVars, timerVars, pipeVars, sleepVars, TypeRest
  <2> QED BY <1>1, <1>2, <1>3, <2>1, <2>2, <2>3, CountsKept DEF ActivePlace
<1>7. Stopped'
  BY <1>1, <1>3 DEF Finish, countVars, timerVars, pipeVars, sleepVars, Stopped, Place,
     OwnerPlace, ActivePlace, IdlePlace, ReportPlace, Staged, TypeRest
<1>8. Drains'
  BY <1>1, <1>3 DEF Finish, countVars, timerVars, pipeVars, sleepVars, Drains, NoTimer,
     Place, OwnerPlace, ActivePlace, IdlePlace, ReportPlace, TypeRest, TypePlace, Staged,
     Counts
<1> QED BY <1>2, <1>4, <1>5, <1>6, <1>7, <1>8

\* The thread is counted as idle and switches to its idle fiber.
LEMMA EnterIdleKeeps ==
    ASSUME LoopInv, UNCHANGED pool, NEW t \in Thread, EnterIdle(t)
    PROVE  LoopInv'
<1> USE DEF LoopInv, Shape
<1>1. stage[t] = "toIdle" /\ ~Tickling(t) /\ t \in Process /\ t # Owner /\ Owner \in Process
  BY LoopAssumption DEF EnterIdle, TypePlace, Tickling, stage, Process, ActivePlace, Returns
<1>2. TypePlace' /\ stage' = [stage EXCEPT ![t] = "stopTimer"]
  <2>1. pc' = [pc EXCEPT ![t] = "stopTimer"] /\ UNCHANGED <<left, back>>
    BY DEF EnterIdle, countVars, timerVars, pipeVars, sleepVars
  <2>2. "stopTimer" \in Place
    BY DEF Place, OwnerPlace, ActivePlace, IdlePlace, ReportPlace
  <2> QED BY <1>1, <2>1, <2>2, PlainGoes
<1>3. /\ stage'[Owner] = stage[Owner]
      /\ DOMAIN stage = Process
      /\ \A u \in Thread : stage'[u] = IF u = t THEN "stopTimer" ELSE stage[u]
  BY <1>1, <1>2 DEF stage, Process
<1>4. TypeRest'
  BY LoopAssumption DEF EnterIdle, countVars, timerVars, pipeVars, sleepVars, TypeRest
<1>5. Staged'
  BY <1>1, <1>2, <1>3 DEF EnterIdle, countVars, timerVars, pipeVars, sleepVars, Staged,
     Place, OwnerPlace, ActivePlace, IdlePlace, ReportPlace, TypeRest
<1>6. Counts'
  <2>1. /\ m_activeThreadCount' = m_activeThreadCount
               + One("stopTimer" \in ActivePlace) - One(stage[t] \in ActivePlace)
        /\ m_idleThreadCount' = m_idleThreadCount
               + One("stopTimer" \in IdlePlace) - One(stage[t] \in IdlePlace)
    <3>1. Cardinality(Active) \in Nat /\ Cardinality(Idling) \in Nat
      BY <1>2, <1>3, ThreadCounted
    <3> QED BY <1>1, <3>1 DEF EnterIdle, countVars, timerVars, pipeVars, sleepVars, Place,
       OwnerPlace, ActivePlace, IdlePlace, ReportPlace, Counts
  <2>2. m_pendingEventCount' \in m_pendingEventCount .. MaxEvents
    BY LoopAssumption DEF EnterIdle, countVars, timerVars, pipeVars, sleepVars, Counts
  <2>3. got' = got /\ DOMAIN got = Thread
    BY DEF EnterIdle, countVars, timerVars, pipeVars, sleepVars, TypeRest
  <2> QED BY <1>1, <1>2, <1>3, <2>1, <2>2, <2>3, CountsKept DEF ActivePlace
<1>7. Stopped'
  BY <1>1, <1>3 DEF EnterIdle, countVars, timerVars, pipeVars, sleepVars, Stopped, Place,
     OwnerPlace, ActivePlace, IdlePlace, ReportPlace, Staged, TypeRest
<1>8. Drains'
  BY <1>1, <1>3 DEF EnterIdle, countVars, timerVars, pipeVars, sleepVars, Drains, NoTimer,
     Place, OwnerPlace, ActivePlace, IdlePlace, ReportPlace, TypeRest, TypePlace, Staged,
     Counts
<1> QED BY <1>2, <1>4, <1>5, <1>6, <1>7, <1>8

\* The idle fiber has switched back, or ended.
LEMMA LeaveIdleKeeps ==
    ASSUME LoopInv, UNCHANGED pool, NEW t \in Thread, LeaveIdle(t)
    PROVE  LoopInv'
<1> USE DEF LoopInv, Shape
<1>1. stage[t] = "out" /\ ~Tickling(t) /\ t \in Process /\ t # Owner /\ Owner \in Process
  BY LoopAssumption DEF LeaveIdle, TypePlace, Tickling, stage, Process, ActivePlace, Returns
<1>2. TypePlace' /\ stage' = [stage EXCEPT ![t] = "scan"]
  <2>1. pc' = [pc EXCEPT ![t] = "scan"] /\ UNCHANGED <<left, back>>
    BY DEF LeaveIdle, countVars, timerVars, pipeVars, sleepVars
  <2>2. "scan" \in Place
    BY DEF Place, OwnerPlace, ActivePlace, IdlePlace, ReportPlace
  <2> QED BY <1>1, <2>1, <2>2, PlainGoes
<1>3. /\ stage'[Owner] = stage[Owner]
      /\ DOMAIN stage = Process
      /\ \A u \in Thread : stage'[u] = IF u = t THEN "scan" ELSE stage[u]
  BY <1>1, <1>2 DEF stage, Process
<1>4. TypeRest'
  BY LoopAssumption DEF LeaveIdle, countVars, timerVars, pipeVars, sleepVars, TypeRest
<1>5. Staged'
  BY <1>1, <1>2, <1>3 DEF LeaveIdle, countVars, timerVars, pipeVars, sleepVars, Staged,
     Place, OwnerPlace, ActivePlace, IdlePlace, ReportPlace, TypeRest
<1>6. Counts'
  <2>1. /\ m_activeThreadCount' = m_activeThreadCount
               + One("scan" \in ActivePlace) - One(stage[t] \in ActivePlace)
        /\ m_idleThreadCount' = m_idleThreadCount
               + One("scan" \in IdlePlace) - One(stage[t] \in IdlePlace)
    <3>1. Cardinality(Active) \in Nat /\ Cardinality(Idling) \in Nat
      BY <1>2, <1>3, ThreadCounted
    <3> QED BY <1>1, <3>1 DEF LeaveIdle, countVars, timerVars, pipeVars, sleepVars, Place,
       OwnerPlace, ActivePlace, IdlePlace, ReportPlace, Counts
  <2>2. m_pendingEventCount' \in m_pendingEventCount .. MaxEvents
    BY LoopAssumption DEF LeaveIdle, countVars, timerVars, pipeVars, sleepVars, Counts
  <2>3. got' = [got EXCEPT ![t] = "nothing"] /\ DOMAIN got = Thread
    BY DEF LeaveIdle, countVars, timerVars, pipeVars, sleepVars, TypeRest
  <2> QED BY <1>1, <1>2, <1>3, <2>1, <2>2, <2>3, CountsKept DEF ActivePlace
<1>7. Stopped'
  BY <1>1, <1>3 DEF LeaveIdle, countVars, timerVars, pipeVars, sleepVars, Stopped, Place,
     OwnerPlace, ActivePlace, IdlePlace, ReportPlace, Staged, TypeRest
<1>8. Drains'
  BY <1>1, <1>3 DEF LeaveIdle, countVars, timerVars, pipeVars, sleepVars, Drains, NoTimer,
     Place, OwnerPlace, ActivePlace, IdlePlace, ReportPlace, TypeRest, TypePlace, Staged,
     Counts
<1> QED BY <1>2, <1>4, <1>5, <1>6, <1>7, <1>8

\* The first condition of stopping(): no timer.
LEMMA StopTimerKeeps ==
    ASSUME LoopInv, UNCHANGED pool, NEW t \in Thread, StopTimer(t)
    PROVE  LoopInv'
<1> USE DEF LoopInv, Shape
<1>1. stage[t] = "stopTimer" /\ ~Tickling(t) /\ t \in Process /\ t # Owner /\ Owner \in Process
  BY LoopAssumption DEF StopTimer, TypePlace, Tickling, stage, Process, ActivePlace, Returns
<1> DEFINE x == IF NoTimer THEN "stopPending" ELSE "epoll"
<1>x. x \in {"stopPending", "epoll"} /\ x \in Place /\ (x = "stopPending" => NoTimer)
  BY DEF Place, OwnerPlace, ActivePlace, IdlePlace, ReportPlace
<1>2. TypePlace' /\ stage' = [stage EXCEPT ![t] = x]
  <2>1. pc' = [pc EXCEPT ![t] = x] /\ UNCHANGED <<left, back>>
    BY DEF StopTimer, countVars, timerVars, pipeVars, sleepVars, EpollTimeout
  <2> HIDE DEF x
  <2> QED BY <1>1, <1>x, <2>1, PlainGoes
<1> HIDE DEF x
<1>3. /\ stage'[Owner] = stage[Owner]
      /\ DOMAIN stage = Process
      /\ \A u \in Thread : stage'[u] = IF u = t THEN x ELSE stage[u]
  BY <1>1, <1>2 DEF stage, Process
<1>4. TypeRest'
  BY LoopAssumption DEF StopTimer, countVars, timerVars, pipeVars, sleepVars, EpollTimeout,
     TypeRest
<1>5. Staged'
  BY <1>1, <1>2, <1>3, <1>x DEF StopTimer, countVars, timerVars, pipeVars, sleepVars,
     EpollTimeout, Staged, Place, OwnerPlace, ActivePlace, IdlePlace, ReportPlace, TypeRest
<1>6. Counts'
  <2>1. /\ m_activeThreadCount' = m_activeThreadCount
               + One(x \in ActivePlace) - One(stage[t] \in ActivePlace)
        /\ m_idleThreadCount' = m_idleThreadCount
               + One(x \in IdlePlace) - One(stage[t] \in IdlePlace)
    <3>1. Cardinality(Active) \in Nat /\ Cardinality(Idling) \in Nat
      BY <1>2, <1>3, ThreadCounted
    <3> QED BY <1>1, <3>1, <1>x DEF StopTimer, countVars, timerVars, pipeVars, sleepVars,
       EpollTimeout, Place, OwnerPlace, ActivePlace, IdlePlace, ReportPlace, Counts
  <2>2. m_pendingEventCount' \in m_pendingEventCount .. MaxEvents
    BY LoopAssumption DEF StopTimer, countVars, timerVars, pipeVars, sleepVars,
       EpollTimeout, Counts
  <2>3. got' = got /\ DOMAIN got = Thread
    BY DEF StopTimer, countVars, timerVars, pipeVars, sleepVars, EpollTimeout, TypeRest
  <2> QED BY <1>1, <1>2, <1>3, <2>1, <2>2, <2>3, <1>x, CountsKept DEF ActivePlace
<1>7. Stopped'
  BY <1>1, <1>3, <1>x DEF StopTimer, countVars, timerVars, pipeVars, sleepVars,
     EpollTimeout, Stopped, Place, OwnerPlace, ActivePlace, IdlePlace, ReportPlace, Staged,
     TypeRest
<1>8. Drains'
  BY <1>1, <1>3, <1>x DEF StopTimer, countVars, timerVars, pipeVars, sleepVars,
     EpollTimeout, Drains, NoTimer, Place, OwnerPlace, ActivePlace, IdlePlace, ReportPlace,
     TypeRest, TypePlace, Staged, Counts
<1> QED BY <1>2, <1>4, <1>5, <1>6, <1>7, <1>8

\* The second one: no registered event.
LEMMA StopPendingKeeps ==
    ASSUME LoopInv, UNCHANGED pool, NEW t \in Thread, StopPending(t)
    PROVE  LoopInv'
<1> USE DEF LoopInv, Shape
<1>1. stage[t] = "stopPending" /\ ~Tickling(t) /\ t \in Process /\ t # Owner /\ Owner \in Process
  BY LoopAssumption DEF StopPending, TypePlace, Tickling, stage, Process, ActivePlace, Returns
<1> DEFINE x == IF NothingPending THEN "stopScheduler" ELSE "epoll"
<1>x. x \in {"stopScheduler", "epoll"} /\ x \in Place /\ (x = "stopScheduler" => NothingPending)
  BY DEF Place, OwnerPlace, ActivePlace, IdlePlace, ReportPlace
<1>2. TypePlace' /\ stage' = [stage EXCEPT ![t] = x]
  <2>1. pc' = [pc EXCEPT ![t] = x] /\ UNCHANGED <<left, back>>
    BY DEF StopPending, countVars, timerVars, pipeVars, sleepVars, NothingPending
  <2> HIDE DEF x
  <2> QED BY <1>1, <1>x, <2>1, PlainGoes
<1> HIDE DEF x
<1>3. /\ stage'[Owner] = stage[Owner]
      /\ DOMAIN stage = Process
      /\ \A u \in Thread : stage'[u] = IF u = t THEN x ELSE stage[u]
  BY <1>1, <1>2 DEF stage, Process
<1>4. TypeRest'
  BY LoopAssumption DEF StopPending, countVars, timerVars, pipeVars, sleepVars,
     NothingPending, TypeRest
<1>5. Staged'
  BY <1>1, <1>2, <1>3, <1>x DEF StopPending, countVars, timerVars, pipeVars, sleepVars,
     NothingPending, Staged, Place, OwnerPlace, ActivePlace, IdlePlace, ReportPlace,
     TypeRest
<1>6. Counts'
  <2>1. /\ m_activeThreadCount' = m_activeThreadCount
               + One(x \in ActivePlace) - One(stage[t] \in ActivePlace)
        /\ m_idleThreadCount' = m_idleThreadCount
               + One(x \in IdlePlace) - One(stage[t] \in IdlePlace)
    <3>1. Cardinality(Active) \in Nat /\ Cardinality(Idling) \in Nat
      BY <1>2, <1>3, ThreadCounted
    <3> QED BY <1>1, <3>1, <1>x DEF StopPending, countVars, timerVars, pipeVars, sleepVars,
       NothingPending, Place, OwnerPlace, ActivePlace, IdlePlace, ReportPlace, Counts
  <2>2. m_pendingEventCount' \in m_pendingEventCount .. MaxEvents
    BY LoopAssumption DEF StopPending, countVars, timerVars, pipeVars, sleepVars,
       NothingPending, Counts
  <2>3. got' = got /\ DOMAIN got = Thread
    BY DEF StopPending, countVars, timerVars, pipeVars, sleepVars, NothingPending, TypeRest
  <2> QED BY <1>1, <1>2, <1>3, <2>1, <2>2, <2>3, <1>x, CountsKept DEF ActivePlace
<1>7. Stopped'
  BY <1>1, <1>3, <1>x DEF StopPending, countVars, timerVars, pipeVars, sleepVars,
     NothingPending, Stopped, Place, OwnerPlace, ActivePlace, IdlePlace, ReportPlace,
     Staged, TypeRest
<1>8. Drains'
  BY <1>1, <1>3, <1>x DEF StopPending, countVars, timerVars, pipeVars, sleepVars,
     NothingPending, Drains, NoTimer, Place, OwnerPlace, ActivePlace, IdlePlace,
     ReportPlace, TypeRest, TypePlace, Staged, Counts
<1> QED BY <1>2, <1>4, <1>5, <1>6, <1>7, <1>8

\* The third one, Scheduler::stopping, and the end of the idle fiber.
LEMMA StopSchedulerKeeps ==
    ASSUME LoopInv, UNCHANGED pool, NEW t \in Thread, StopScheduler(t)
    PROVE  LoopInv'
<1> USE DEF LoopInv, Shape
<1>1. stage[t] = "stopScheduler" /\ ~Tickling(t) /\ t \in Process /\ t # Owner /\ Owner \in Process
  BY LoopAssumption DEF StopScheduler, TypePlace, Tickling, stage, Process, ActivePlace, Returns
<1> DEFINE x == IF SchedulerStopping THEN "out" ELSE "epoll"
<1>x. x \in {"out", "epoll"} /\ x \in Place /\ (x = "out" <=> SchedulerStopping)
  BY DEF Place, OwnerPlace, ActivePlace, IdlePlace, ReportPlace
<1>2. TypePlace' /\ stage' = [stage EXCEPT ![t] = x]
  <2>1. pc' = [pc EXCEPT ![t] = x] /\ UNCHANGED <<left, back>>
    BY DEF StopScheduler, countVars, timerVars, pipeVars, sleepVars, SchedulerStopping
  <2> HIDE DEF x
  <2> QED BY <1>1, <1>x, <2>1, PlainGoes
<1> HIDE DEF x
<1>3. /\ stage'[Owner] = stage[Owner]
      /\ DOMAIN stage = Process
      /\ \A u \in Thread : stage'[u] = IF u = t THEN x ELSE stage[u]
  BY <1>1, <1>2 DEF stage, Process
<1>4. TypeRest'
  BY LoopAssumption DEF StopScheduler, countVars, timerVars, pipeVars, sleepVars,
     SchedulerStopping, TypeRest
<1>5. Staged'
  BY <1>1, <1>2, <1>3, <1>x DEF StopScheduler, countVars, timerVars, pipeVars, sleepVars,
     SchedulerStopping, Staged, Place, OwnerPlace, ActivePlace, IdlePlace, ReportPlace,
     TypeRest
<1>6. Counts'
  <2>1. /\ m_activeThreadCount' = m_activeThreadCount
               + One(x \in ActivePlace) - One(stage[t] \in ActivePlace)
        /\ m_idleThreadCount' = m_idleThreadCount
               + One(x \in IdlePlace) - One(stage[t] \in IdlePlace)
    <3>1. Cardinality(Active) \in Nat /\ Cardinality(Idling) \in Nat
      BY <1>2, <1>3, ThreadCounted
    <3> QED BY <1>1, <3>1, <1>x DEF StopScheduler, countVars, timerVars, pipeVars,
       sleepVars, SchedulerStopping, Place, OwnerPlace, ActivePlace, IdlePlace, ReportPlace,
       Counts
  <2>2. m_pendingEventCount' \in m_pendingEventCount .. MaxEvents
    BY LoopAssumption DEF StopScheduler, countVars, timerVars, pipeVars, sleepVars,
       SchedulerStopping, Counts
  <2>3. got' = got /\ DOMAIN got = Thread
    BY DEF StopScheduler, countVars, timerVars, pipeVars, sleepVars, SchedulerStopping, TypeRest
  <2> QED BY <1>1, <1>2, <1>3, <2>1, <2>2, <2>3, <1>x, CountsKept DEF ActivePlace
<1>7. Stopped'
  BY <1>1, <1>3, <1>x DEF StopScheduler, countVars, timerVars, pipeVars, sleepVars,
     SchedulerStopping, Stopped, Place, OwnerPlace, ActivePlace, IdlePlace, ReportPlace,
     Staged, TypeRest
<1>8. Drains'
  BY <1>1, <1>3, <1>x DEF StopScheduler, countVars, timerVars, pipeVars, sleepVars,
     SchedulerStopping, Drains, NoTimer, Place, OwnerPlace, ActivePlace, IdlePlace,
     ReportPlace, TypeRest, TypePlace, Staged, Counts
<1> QED BY <1>2, <1>4, <1>5, <1>6, <1>7, <1>8

\* listExpiredCb.
LEMMA ListExpiredKeeps ==
    ASSUME LoopInv, UNCHANGED pool, NEW t \in Thread, ListExpired(t)
    PROVE  LoopInv'
<1> USE DEF LoopInv, Shape
<1>1. stage[t] = "list" /\ ~Tickling(t) /\ t \in Process /\ t # Owner /\ Owner \in Process
  BY LoopAssumption DEF ListExpired, TypePlace, Tickling, stage, Process, ActivePlace, Returns
<1>2. TypePlace' /\ stage' = [stage EXCEPT ![t] = "listed"]
  <2>1. pc' = [pc EXCEPT ![t] = "listed"] /\ UNCHANGED <<left, back>>
    BY DEF ListExpired, countVars, timerVars, pipeVars, sleepVars
  <2>2. "listed" \in Place
    BY DEF Place, OwnerPlace, ActivePlace, IdlePlace, ReportPlace
  <2> QED BY <1>1, <2>1, <2>2, PlainGoes
<1>3. /\ stage'[Owner] = stage[Owner]
      /\ DOMAIN stage = Process
      /\ \A u \in Thread : stage'[u] = IF u = t THEN "listed" ELSE stage[u]
  BY <1>1, <1>2 DEF stage, Process
<1>4. TypeRest'
  BY LoopAssumption DEF ListExpired, countVars, timerVars, pipeVars, sleepVars, TypeRest
<1>5. Staged'
  BY <1>1, <1>2, <1>3 DEF ListExpired, countVars, timerVars, pipeVars, sleepVars, Staged,
     Place, OwnerPlace, ActivePlace, IdlePlace, ReportPlace, TypeRest
<1>6. Counts'
  <2>1. /\ m_activeThreadCount' = m_activeThreadCount
               + One("listed" \in ActivePlace) - One(stage[t] \in ActivePlace)
        /\ m_idleThreadCount' = m_idleThreadCount
               + One("listed" \in IdlePlace) - One(stage[t] \in IdlePlace)
    <3>1. Cardinality(Active) \in Nat /\ Cardinality(Idling) \in Nat
      BY <1>2, <1>3, ThreadCounted
    <3> QED BY <1>1, <3>1 DEF ListExpired, countVars, timerVars, pipeVars, sleepVars, Place,
       OwnerPlace, ActivePlace, IdlePlace, ReportPlace, Counts
  <2>2. m_pendingEventCount' \in m_pendingEventCount .. MaxEvents
    BY LoopAssumption DEF ListExpired, countVars, timerVars, pipeVars, sleepVars, Counts
  <2>3. got' = got /\ DOMAIN got = Thread
    BY DEF ListExpired, countVars, timerVars, pipeVars, sleepVars, TypeRest
  <2> QED BY <1>1, <1>2, <1>3, <2>1, <2>2, <2>3, CountsKept DEF ActivePlace
<1>7. Stopped'
  BY <1>1, <1>3 DEF ListExpired, countVars, timerVars, pipeVars, sleepVars, Stopped, Place,
     OwnerPlace, ActivePlace, IdlePlace, ReportPlace, Staged, TypeRest
<1>8. Drains'
  BY <1>1, <1>3 DEF ListExpired, countVars, timerVars, pipeVars, sleepVars, Drains, NoTimer,
     Place, OwnerPlace, ActivePlace, IdlePlace, ReportPlace, TypeRest, TypePlace, Staged,
     Counts
<1> QED BY <1>2, <1>4, <1>5, <1>6, <1>7, <1>8

\* epoll_wait reports the pipe.
LEMMA EpollTickleKeeps ==
    ASSUME LoopInv, UNCHANGED pool, NEW t \in Thread, EpollTickle(t)
    PROVE  LoopInv'
<1> USE DEF LoopInv, Shape
<1>1. stage[t] = "epoll" /\ ~Tickling(t) /\ t \in Process /\ t # Owner /\ Owner \in Process
  BY LoopAssumption DEF EpollTickle, TypePlace, Tickling, stage, Process, ActivePlace, Returns
<1>2. TypePlace' /\ stage' = [stage EXCEPT ![t] = "list"]
  <2>1. pc' = [pc EXCEPT ![t] = "list"] /\ UNCHANGED <<left, back>>
    BY DEF EpollTickle, Returns, countVars, timerVars, pipeVars, sleepVars
  <2>2. "list" \in Place
    BY DEF Place, OwnerPlace, ActivePlace, IdlePlace, ReportPlace
  <2> QED BY <1>1, <2>1, <2>2, PlainGoes
<1>3. /\ stage'[Owner] = stage[Owner]
      /\ DOMAIN stage = Process
      /\ \A u \in Thread : stage'[u] = IF u = t THEN "list" ELSE stage[u]
  BY <1>1, <1>2 DEF stage, Process
<1>4. TypeRest'
  BY LoopAssumption DEF EpollTickle, Returns, countVars, timerVars, pipeVars, sleepVars,
     TypeRest
<1>5. Staged'
  BY <1>1, <1>2, <1>3 DEF EpollTickle, Returns, countVars, timerVars, pipeVars, sleepVars,
     Staged, Place, OwnerPlace, ActivePlace, IdlePlace, ReportPlace, TypeRest
<1>6. Counts'
  <2>1. /\ m_activeThreadCount' = m_activeThreadCount
               + One("list" \in ActivePlace) - One(stage[t] \in ActivePlace)
        /\ m_idleThreadCount' = m_idleThreadCount
               + One("list" \in IdlePlace) - One(stage[t] \in IdlePlace)
    <3>1. Cardinality(Active) \in Nat /\ Cardinality(Idling) \in Nat
      BY <1>2, <1>3, ThreadCounted
    <3> QED BY <1>1, <3>1 DEF EpollTickle, Returns, countVars, timerVars, pipeVars,
       sleepVars, Place, OwnerPlace, ActivePlace, IdlePlace, ReportPlace, Counts
  <2>2. m_pendingEventCount' \in m_pendingEventCount .. MaxEvents
    BY LoopAssumption DEF EpollTickle, Returns, countVars, timerVars, pipeVars, sleepVars,
       Counts
  <2>3. got' = [got EXCEPT ![t] = "tickle"] /\ DOMAIN got = Thread
    BY DEF EpollTickle, Returns, countVars, timerVars, pipeVars, sleepVars, TypeRest
  <2> QED BY <1>1, <1>2, <1>3, <2>1, <2>2, <2>3, CountsKept DEF ActivePlace
<1>7. Stopped'
  BY <1>1, <1>3 DEF EpollTickle, Returns, countVars, timerVars, pipeVars, sleepVars,
     Stopped, Place, OwnerPlace, ActivePlace, IdlePlace, ReportPlace, Staged, TypeRest
<1>8. Drains'
  BY <1>1, <1>3 DEF EpollTickle, Returns, countVars, timerVars, pipeVars, sleepVars, Drains,
     NoTimer, Place, OwnerPlace, ActivePlace, IdlePlace, ReportPlace, TypeRest, TypePlace,
     Staged, Counts
<1> QED BY <1>2, <1>4, <1>5, <1>6, <1>7, <1>8

\* epoll_wait's time-out ends.
LEMMA EpollExpiresKeeps ==
    ASSUME LoopInv, UNCHANGED pool, NEW t \in Thread, EpollExpires(t)
    PROVE  LoopInv'
<1> USE DEF LoopInv, Shape
<1>1. stage[t] = "epoll" /\ ~Tickling(t) /\ t \in Process /\ t # Owner /\ Owner \in Process
  BY LoopAssumption DEF EpollExpires, TypePlace, Tickling, stage, Process, ActivePlace, Returns
<1>2. TypePlace' /\ stage' = [stage EXCEPT ![t] = "list"]
  <2>1. pc' = [pc EXCEPT ![t] = "list"] /\ UNCHANGED <<left, back>>
    BY DEF EpollExpires, Returns, countVars, timerVars, pipeVars, sleepVars
  <2>2. "list" \in Place
    BY DEF Place, OwnerPlace, ActivePlace, IdlePlace, ReportPlace
  <2> QED BY <1>1, <2>1, <2>2, PlainGoes
<1>3. /\ stage'[Owner] = stage[Owner]
      /\ DOMAIN stage = Process
      /\ \A u \in Thread : stage'[u] = IF u = t THEN "list" ELSE stage[u]
  BY <1>1, <1>2 DEF stage, Process
<1>4. TypeRest'
  BY LoopAssumption DEF EpollExpires, Returns, countVars, timerVars, pipeVars, sleepVars,
     TypeRest
<1>5. Staged'
  BY <1>1, <1>2, <1>3 DEF EpollExpires, Returns, countVars, timerVars, pipeVars, sleepVars,
     Staged, Place, OwnerPlace, ActivePlace, IdlePlace, ReportPlace, TypeRest
<1>6. Counts'
  <2>1. /\ m_activeThreadCount' = m_activeThreadCount
               + One("list" \in ActivePlace) - One(stage[t] \in ActivePlace)
        /\ m_idleThreadCount' = m_idleThreadCount
               + One("list" \in IdlePlace) - One(stage[t] \in IdlePlace)
    <3>1. Cardinality(Active) \in Nat /\ Cardinality(Idling) \in Nat
      BY <1>2, <1>3, ThreadCounted
    <3> QED BY <1>1, <3>1 DEF EpollExpires, Returns, countVars, timerVars, pipeVars,
       sleepVars, Place, OwnerPlace, ActivePlace, IdlePlace, ReportPlace, Counts
  <2>2. m_pendingEventCount' \in m_pendingEventCount .. MaxEvents
    BY LoopAssumption DEF EpollExpires, Returns, countVars, timerVars, pipeVars, sleepVars,
       Counts
  <2>3. got' = [got EXCEPT ![t] = "nothing"] /\ DOMAIN got = Thread
    BY DEF EpollExpires, Returns, countVars, timerVars, pipeVars, sleepVars, TypeRest
  <2> QED BY <1>1, <1>2, <1>3, <2>1, <2>2, <2>3, CountsKept DEF ActivePlace
<1>7. Stopped'
  BY <1>1, <1>3 DEF EpollExpires, Returns, countVars, timerVars, pipeVars, sleepVars,
     Stopped, Place, OwnerPlace, ActivePlace, IdlePlace, ReportPlace, Staged, TypeRest
<1>8. Drains'
  BY <1>1, <1>3 DEF EpollExpires, Returns, countVars, timerVars, pipeVars, sleepVars,
     Drains, NoTimer, Place, OwnerPlace, ActivePlace, IdlePlace, ReportPlace, TypeRest,
     TypePlace, Staged, Counts
<1> QED BY <1>2, <1>4, <1>5, <1>6, <1>7, <1>8

\* The callbacks are queued, perhaps with a tickle().
LEMMA ScheduleExpiredKeeps ==
    ASSUME LoopInv, UNCHANGED pool, NEW t \in Thread, ScheduleExpired(t)
    PROVE  LoopInv'
<1> USE DEF LoopInv, Shape
<1>1. stage[t] = "listed" /\ ~Tickling(t) /\ t \in Process /\ t # Owner /\ Owner \in Process
  BY LoopAssumption DEF ScheduleExpired, TypePlace, Tickling, stage, Process, ActivePlace,
     Returns
<1>2. TypePlace' /\ stage' = [stage EXCEPT ![t] = "events"]
  <2>1. cbs[t] \in Nat /\ Push(t, cbs[t], "events")
    BY DEF ScheduleExpired, TypeRest
  <2> QED BY <1>1, <2>1, PushGoes
<1>r. tasks' \in Nat
  BY <1>1, PushGoes DEF ScheduleExpired, TypeRest
<1>3. /\ stage'[Owner] = stage[Owner]
      /\ DOMAIN stage = Process
      /\ \A u \in Thread : stage'[u] = IF u = t THEN "events" ELSE stage[u]
  BY <1>1, <1>2 DEF stage, Process
<1>4. TypeRest'
  BY LoopAssumption, <1>r DEF ScheduleExpired, Push, countVars, timerVars, pipeVars,
     sleepVars, TypeRest
<1>5. Staged'
  BY <1>1, <1>2, <1>3 DEF ScheduleExpired, Push, countVars, timerVars, pipeVars, sleepVars,
     Staged, Place, OwnerPlace, ActivePlace, IdlePlace, ReportPlace, TypeRest
<1>6. Counts'
  <2>1. /\ m_activeThreadCount' = m_activeThreadCount
               + One("events" \in ActivePlace) - One(stage[t] \in ActivePlace)
        /\ m_idleThreadCount' = m_idleThreadCount
               + One("events" \in IdlePlace) - One(stage[t] \in IdlePlace)
    <3>1. Cardinality(Active) \in Nat /\ Cardinality(Idling) \in Nat
      BY <1>2, <1>3, ThreadCounted
    <3> QED BY <1>1, <3>1 DEF ScheduleExpired, Push, countVars, timerVars, pipeVars,
       sleepVars, Place, OwnerPlace, ActivePlace, IdlePlace, ReportPlace, Counts
  <2>2. m_pendingEventCount' \in m_pendingEventCount .. MaxEvents
    BY LoopAssumption DEF ScheduleExpired, Push, countVars, timerVars, pipeVars, sleepVars,
       Counts
  <2>3. got' = got /\ DOMAIN got = Thread
    BY DEF ScheduleExpired, Push, countVars, timerVars, pipeVars, sleepVars, TypeRest
  <2> QED BY <1>1, <1>2, <1>3, <2>1, <2>2, <2>3, CountsKept DEF ActivePlace
<1>7. Stopped'
  BY <1>1, <1>3 DEF ScheduleExpired, Push, countVars, timerVars, pipeVars, sleepVars,
     Stopped, Place, OwnerPlace, ActivePlace, IdlePlace, ReportPlace, Staged, TypeRest
<1>8. Drains'
  BY <1>1, <1>3, BusyDrains DEF ScheduleExpired, Push, countVars, timerVars, pipeVars, sleepVars
<1> QED BY <1>2, <1>4, <1>5, <1>6, <1>7, <1>8

\* A triggered event is counted off.
LEMMA TriggeredKeeps ==
    ASSUME LoopInv, UNCHANGED pool, NEW t \in Thread, Triggered(t)
    PROVE  LoopInv'
<1> USE DEF LoopInv, Shape
<1>1. stage[t] = "triggered" /\ ~Tickling(t) /\ t \in Process /\ t # Owner /\ Owner \in Process
  BY LoopAssumption DEF Triggered, TypePlace, Tickling, stage, Process, ActivePlace, Returns
<1>2. TypePlace' /\ stage' = [stage EXCEPT ![t] = "out"]
  <2>1. pc' = [pc EXCEPT ![t] = "out"] /\ UNCHANGED <<left, back>>
    BY DEF Triggered, CountedOff, countVars, timerVars, pipeVars, sleepVars
  <2>2. "out" \in Place
    BY DEF Place, OwnerPlace, ActivePlace, IdlePlace, ReportPlace
  <2> QED BY <1>1, <2>1, <2>2, PlainGoes
<1>3. /\ stage'[Owner] = stage[Owner]
      /\ DOMAIN stage = Process
      /\ \A u \in Thread : stage'[u] = IF u = t THEN "out" ELSE stage[u]
  BY <1>1, <1>2 DEF stage, Process
<1>4. TypeRest'
  BY LoopAssumption DEF Triggered, CountedOff, countVars, timerVars, pipeVars, sleepVars,
     TypeRest
<1>5. Staged'
  BY <1>1, <1>2, <1>3 DEF Triggered, CountedOff, countVars, timerVars, pipeVars, sleepVars,
     Staged, Place, OwnerPlace, ActivePlace, IdlePlace, ReportPlace, TypeRest
<1>6. Counts'
  <2>0. got[t] = "event"
    BY <1>1 DEF Staged
  <2>1. t \in Reporting /\ Reporting \in SUBSET Thread
    BY <1>1, <2>0 DEF Reporting
  <2>2. Reporting' = Reporting \ {t}
    BY <1>1, <1>3 DEF Triggered, sleepVars, Reporting
  <2>3. Cardinality(Reporting') = Cardinality(Reporting) - 1 /\ Cardinality(Reporting) \in Nat
        /\ Cardinality(Reporting') \in Nat
    <3>1. Reporting' \in SUBSET Thread
      BY <2>1, <2>2
    <3> QED BY <2>1, <2>2, <3>1, ThreadsFinite
  <2>4. m_pendingEventCount' = m_pendingEventCount - 1
    BY DEF Triggered, CountedOff
  <2>5. m_activeThreadCount' = Cardinality(Active') /\ m_idleThreadCount' = Cardinality(Idling')
    <3>1. Cardinality(Active') = Cardinality(Active) /\ Cardinality(Idling') = Cardinality(Idling)
      <4>1. /\ "out" \notin ActivePlace /\ "out" \in IdlePlace
            /\ stage[t] \notin ActivePlace /\ stage[t] \in IdlePlace
        BY <1>1 DEF Place, OwnerPlace, ActivePlace, IdlePlace, ReportPlace
      <4>2. /\ Cardinality(Active) \in Nat /\ Cardinality(Idling) \in Nat
            /\ Cardinality(Active') = Cardinality(Active)
                  + One("out" \in ActivePlace)
                  - One(stage[t] \in ActivePlace)
            /\ Cardinality(Idling') = Cardinality(Idling)
                  + One("out" \in IdlePlace)
                  - One(stage[t] \in IdlePlace)
        BY <1>2, <1>3, ThreadCounted
      <4> QED BY <4>1, <4>2
    <3> QED BY <3>1 DEF Triggered, countVars, Counts
  <2>6. m_pendingEventCount' \in 0 .. MaxEvents /\ Cardinality(Reporting') <= m_pendingEventCount'
    BY <2>3, <2>4, LoopAssumption DEF Counts
  <2> QED BY <2>5, <2>6 DEF Counts
<1>7. Stopped'
  BY <1>1, <1>3 DEF Triggered, CountedOff, countVars, timerVars, pipeVars, sleepVars,
     Stopped, Place, OwnerPlace, ActivePlace, IdlePlace, ReportPlace, Staged, TypeRest
<1>8. Drains'
  BY <1>1, <1>3, BusyDrains DEF Triggered, CountedOff, countVars, timerVars, pipeVars, sleepVars
<1> QED BY <1>2, <1>4, <1>5, <1>6, <1>7, <1>8

\* epoll_wait reports an event that nobody else has been told of.
LEMMA EpollEventKeeps ==
    ASSUME LoopInv, UNCHANGED pool, NEW t \in Thread, EpollEvent(t)
    PROVE  LoopInv'
<1> USE DEF LoopInv, Shape
<1>1. stage[t] = "epoll" /\ ~Tickling(t) /\ t \in Process /\ t # Owner /\ Owner \in Process
  BY LoopAssumption DEF EpollEvent, TypePlace, Tickling, stage, Process, ActivePlace, Returns
<1>2. TypePlace' /\ stage' = [stage EXCEPT ![t] = "list"]
  <2>1. pc' = [pc EXCEPT ![t] = "list"] /\ UNCHANGED <<left, back>>
    BY DEF EpollEvent, Returns, countVars, timerVars, pipeVars, sleepVars
  <2>2. "list" \in Place
    BY DEF Place, OwnerPlace, ActivePlace, IdlePlace, ReportPlace
  <2> QED BY <1>1, <2>1, <2>2, PlainGoes
<1>3. /\ stage'[Owner] = stage[Owner]
      /\ DOMAIN stage = Process
      /\ \A u \in Thread : stage'[u] = IF u = t THEN "list" ELSE stage[u]
  BY <1>1, <1>2 DEF stage, Process
<1>4. TypeRest'
  BY LoopAssumption DEF EpollEvent, Returns, countVars, timerVars, pipeVars, sleepVars, TypeRest
<1>5. Staged'
  BY <1>1, <1>2, <1>3 DEF EpollEvent, Returns, countVars, timerVars, pipeVars, sleepVars,
     Staged, Place, OwnerPlace, ActivePlace, IdlePlace, ReportPlace, TypeRest
<1>6. Counts'
  <2> DEFINE Told == {u \in Thread : got[u] = "event"}
  <2>1. /\ t \notin Reporting /\ Reporting \in SUBSET Thread
        /\ Reporting \subseteq Told /\ Told \in SUBSET Thread
    BY <1>1 DEF Reporting, Staged, ReportPlace
  <2>2. Reporting' = Reporting \cup {t}
    BY <1>1, <1>3 DEF EpollEvent, Returns, Reporting, TypeRest
  <2>3. /\ Cardinality(Reporting') = Cardinality(Reporting) + 1 /\ Cardinality(Reporting) \in Nat
        /\ Cardinality(Told) \in Nat /\ IsFiniteSet(Told)
    BY <2>1, <2>2, ThreadsFinite
  <2>4. Cardinality(Reporting) <= Cardinality(Told)
    BY <2>1, <2>3, FS_Subset
  <2>5. m_pendingEventCount' = m_pendingEventCount /\ m_pendingEventCount > Cardinality(Told)
    BY DEF EpollEvent, Returns
  <2> HIDE DEF Told
  <2>6. m_pendingEventCount' \in 0 .. MaxEvents /\ Cardinality(Reporting') <= m_pendingEventCount'
    BY <2>3, <2>4, <2>5, LoopAssumption DEF Counts
  <2>7. m_activeThreadCount' = Cardinality(Active') /\ m_idleThreadCount' = Cardinality(Idling')
    <3>1. Cardinality(Active') = Cardinality(Active) /\ Cardinality(Idling') = Cardinality(Idling)
      <4>1. /\ "list" \notin ActivePlace /\ "list" \in IdlePlace
            /\ stage[t] \notin ActivePlace /\ stage[t] \in IdlePlace
        BY <1>1 DEF Place, OwnerPlace, ActivePlace, IdlePlace, ReportPlace
      <4>2. /\ Cardinality(Active) \in Nat /\ Cardinality(Idling) \in Nat
            /\ Cardinality(Active') = Cardinality(Active)
                  + One("list" \in ActivePlace)
                  - One(stage[t] \in ActivePlace)
            /\ Cardinality(Idling') = Cardinality(Idling)
                  + One("list" \in IdlePlace)
                  - One(stage[t] \in IdlePlace)
        BY <1>2, <1>3, ThreadCounted
      <4> QED BY <4>1, <4>2
    <3> QED BY <3>1 DEF EpollEvent, Returns, countVars, Counts
  <2> QED BY <2>6, <2>7 DEF Counts
<1>7. Stopped'
  BY <1>1, <1>3 DEF EpollEvent, Returns, countVars, timerVars, pipeVars, sleepVars, Stopped,
     Place, OwnerPlace, ActivePlace, IdlePlace, ReportPlace, Staged, TypeRest
<1>8. Drains'
  BY <1>1, <1>3 DEF EpollEvent, Returns, countVars, timerVars, pipeVars, sleepVars, Drains,
     NoTimer, Place, OwnerPlace, ActivePlace, IdlePlace, ReportPlace, TypeRest, TypePlace,
     Staged, Counts
<1> QED BY <1>2, <1>4, <1>5, <1>6, <1>7, <1>8

\* The pipe is emptied, or the fiber of an event queued.
LEMMA HandleEventsKeeps ==
    ASSUME LoopInv, UNCHANGED pool, NEW t \in Thread, HandleEvents(t)
    PROVE  LoopInv'
<1> USE DEF LoopInv, Shape
<1>1. stage[t] = "events" /\ ~Tickling(t) /\ t \in Process /\ t # Owner /\ Owner \in Process
  BY LoopAssumption DEF HandleEvents, TypePlace, Tickling, stage, Process, ActivePlace, Returns
<1> DEFINE x == IF got[t] = "event" THEN "triggered" ELSE "out"
<1>x. x \in {"triggered", "out"} /\ x \in Place /\ (x = "triggered" <=> got[t] = "event")
  BY DEF Place, OwnerPlace, ActivePlace, IdlePlace, ReportPlace
<1>2. TypePlace' /\ stage' = [stage EXCEPT ![t] = x]
  <2>1. CASE got[t] = "event"
    <3>1. Push(t, 1, "triggered")
      BY <2>1 DEF HandleEvents
    <3>2. x = "triggered"
      BY <2>1
    <3> HIDE DEF x
    <3> QED BY <1>1, <3>1, <3>2, PushGoes
  <2>2. CASE got[t] # "event"
    <3>1. pc' = [pc EXCEPT ![t] = "out"] /\ UNCHANGED <<left, back>>
      BY <2>2 DEF HandleEvents
    <3>2. x = "out"
      BY <2>2
    <3> HIDE DEF x
    <3> QED BY <1>1, <1>x, <3>1, <3>2, PlainGoes
  <2> QED BY <2>1, <2>2
<1> HIDE DEF x
<1>3. /\ stage'[Owner] = stage[Owner]
      /\ DOMAIN stage = Process
      /\ \A u \in Thread : stage'[u] = IF u = t THEN x ELSE stage[u]
  BY <1>1, <1>2 DEF stage, Process
<1>4. TypeRest'
  BY LoopAssumption DEF HandleEvents, Push, countVars, timerVars, pipeVars, sleepVars, TypeRest
<1>5. Staged'
  BY <1>1, <1>2, <1>3, <1>x DEF HandleEvents, Push, countVars, timerVars, pipeVars,
     sleepVars, Staged, Place, OwnerPlace, ActivePlace, IdlePlace, ReportPlace, TypeRest
<1>6. Counts'
  <2>1. /\ m_activeThreadCount' = m_activeThreadCount
               + One(x \in ActivePlace) - One(stage[t] \in ActivePlace)
        /\ m_idleThreadCount' = m_idleThreadCount
               + One(x \in IdlePlace) - One(stage[t] \in IdlePlace)
    <3>1. Cardinality(Active) \in Nat /\ Cardinality(Idling) \in Nat
      BY <1>2, <1>3, ThreadCounted
    <3> QED BY <1>1, <3>1, <1>x DEF HandleEvents, Push, countVars, timerVars, pipeVars,
       sleepVars, Place, OwnerPlace, ActivePlace, IdlePlace, ReportPlace, Counts
  <2>2. m_pendingEventCount' \in m_pendingEventCount .. MaxEvents
    BY LoopAssumption DEF HandleEvents, Push, countVars, timerVars, pipeVars, sleepVars, Counts
  <2>3. got' = got /\ DOMAIN got = Thread
    BY DEF HandleEvents, Push, countVars, timerVars, pipeVars, sleepVars, TypeRest
  <2> QED BY <1>1, <1>2, <1>3, <2>1, <2>2, <2>3, <1>x, CountsKept DEF ActivePlace
<1>7. Stopped'
  BY <1>1, <1>3, <1>x DEF HandleEvents, Push, countVars, timerVars, pipeVars, sleepVars,
     Stopped, Place, OwnerPlace, ActivePlace, IdlePlace, ReportPlace, Staged, TypeRest
<1>8. Drains'
  BY <1>1, <1>3, <1>x, BusyDrains DEF HandleEvents, Push, countVars, timerVars, pipeVars,
     sleepVars
<1> QED BY <1>2, <1>4, <1>5, <1>6, <1>7, <1>8

\* A task submits a task, sets a timer, or waits for an fd.
LEMMA TaskWorksKeeps ==
    ASSUME LoopInv, UNCHANGED pool, NEW t \in Thread, TaskWorks(t)
    PROVE  LoopInv'
<1> USE DEF LoopInv, Shape
<1>1. stage[t] = "task" /\ ~Tickling(t) /\ t \in Process /\ t # Owner /\ Owner \in Process
  BY LoopAssumption DEF TaskWorks, TypePlace, Tickling, stage, Process, ActivePlace, Returns
<1>2. TypePlace' /\ stage' = [stage EXCEPT ![t] = "finish"]
  <2>1. CASE Push(t, 1, "finish")
    BY <1>1, <2>1, PushGoes
  <2>2. ASSUME NEW k \in Kinds, AddTimer(t, k, "finish")
        PROVE  TypePlace' /\ stage' = [stage EXCEPT ![t] = "finish"]
    BY <1>1, <2>2, TimerGoes
  <2>3. CASE pc' = [pc EXCEPT ![t] = "finish"] /\ UNCHANGED <<left, back>>
    <3>1. "finish" \in Place
      BY DEF Place, ActivePlace
    <3> QED BY <1>1, <2>3, <3>1, PlainGoes
  <2> QED BY <2>1, <2>2, <2>3 DEF TaskWorks
<1>3. /\ stage'[Owner] = stage[Owner]
      /\ DOMAIN stage = Process
      /\ \A u \in Thread : stage'[u] = IF u = t THEN "finish" ELSE stage[u]
  BY <1>1, <1>2 DEF stage, Process
<1>4. TypeRest'
  BY LoopAssumption DEF TaskWorks, MakesWork, Push, AddTimer, countVars, timerVars,
     pipeVars, sleepVars, TypeRest
<1>5. Staged'
  BY <1>1, <1>2, <1>3 DEF TaskWorks, MakesWork, Push, AddTimer, countVars, timerVars,
     pipeVars, sleepVars, Staged, Place, OwnerPlace, ActivePlace, IdlePlace, ReportPlace,
     TypeRest
<1>6. Counts'
  <2>1. /\ m_activeThreadCount' = m_activeThreadCount
               + One("finish" \in ActivePlace) - One(stage[t] \in ActivePlace)
        /\ m_idleThreadCount' = m_idleThreadCount
               + One("finish" \in IdlePlace) - One(stage[t] \in IdlePlace)
    <3>1. Cardinality(Active) \in Nat /\ Cardinality(Idling) \in Nat
      BY <1>2, <1>3, ThreadCounted
    <3> QED BY <1>1, <3>1 DEF TaskWorks, MakesWork, Push, AddTimer, countVars, timerVars,
       pipeVars, sleepVars, Place, OwnerPlace, ActivePlace, IdlePlace, ReportPlace, Counts
  <2>2. m_pendingEventCount' \in m_pendingEventCount .. MaxEvents
    BY LoopAssumption DEF TaskWorks, MakesWork, Push, AddTimer, countVars, timerVars,
       pipeVars, sleepVars, Counts
  <2>3. got' = got /\ DOMAIN got = Thread
    BY DEF TaskWorks, MakesWork, Push, AddTimer, countVars, timerVars, pipeVars, sleepVars,
       TypeRest
  <2> QED BY <1>1, <1>2, <1>3, <2>1, <2>2, <2>3, CountsKept DEF ActivePlace
<1>7. Stopped'
  BY <1>1, <1>3 DEF TaskWorks, MakesWork, Push, AddTimer, countVars, timerVars, pipeVars,
     sleepVars, Stopped, Place, OwnerPlace, ActivePlace, IdlePlace, ReportPlace, Staged,
     TypeRest
<1>8. Drains'
  BY <1>1, <1>3, BusyDrains DEF TaskWorks, MakesWork, Push, AddTimer, countVars, timerVars,
     pipeVars, sleepVars
<1> QED BY <1>2, <1>4, <1>5, <1>6, <1>7, <1>8

\* The owner submits a task; it has not called stop().
LEMMA OwnerScheduleKeeps ==
    ASSUME LoopInv, UNCHANGED pool, OwnerSchedule
    PROVE  LoopInv'
<1> USE DEF LoopInv, Shape
<1>1. stage[Owner] = "own" /\ ~Tickling(Owner) /\ Owner \in Process
  BY DEF OwnerSchedule, TypePlace, Tickling, stage, Process
<1>2. TypePlace' /\ stage' = [stage EXCEPT ![Owner] = "own"]
  BY <1>1, PushGoes DEF OwnerSchedule
<1>3. stage'[Owner] = "own" /\ \A t \in Thread : stage'[t] = stage[t]
  BY <1>1, <1>2, LoopAssumption DEF stage, Process
<1>4. TypeRest'
  BY LoopAssumption DEF OwnerSchedule, MakesWork, Push, countVars, timerVars, pipeVars,
     sleepVars, TypeRest
<1>5. Staged'
  BY <1>3 DEF OwnerSchedule, MakesWork, Push, countVars, timerVars, pipeVars, sleepVars,
     Staged, OwnerPlace
<1>6. Counts'
  BY <1>3, CountsStay DEF OwnerSchedule, MakesWork, Push, countVars, timerVars, pipeVars,
     sleepVars
<1>7. Stopped'
  BY <1>1, <1>3 DEF OwnerSchedule, MakesWork, Push, countVars, timerVars, pipeVars,
     sleepVars, Stopped, TypePlace, Tickling, stage, Process
<1>8. Drains'
  BY <1>1, <1>3 DEF OwnerSchedule, MakesWork, Push, countVars, timerVars, pipeVars,
     sleepVars, Drains, Stopped, NoTimer, TypeRest, Counts
<1> QED BY <1>2, <1>4, <1>5, <1>6, <1>7, <1>8

\* The owner adds a timer, where it does that.
LEMMA OwnerTimerKeeps ==
    ASSUME LoopInv, UNCHANGED pool, OwnerTimer
    PROVE  LoopInv'
<1> USE DEF LoopInv, Shape
<1>1. stage[Owner] = "own" /\ ~Tickling(Owner) /\ Owner \in Process
  BY DEF OwnerTimer, TypePlace, Tickling, stage, Process
<1>2. TypePlace' /\ stage' = [stage EXCEPT ![Owner] = "own"]
  BY <1>1, TimerGoes DEF OwnerTimer
<1>3. stage'[Owner] = "own" /\ \A t \in Thread : stage'[t] = stage[t]
  BY <1>1, <1>2, LoopAssumption DEF stage, Process
<1>4. TypeRest'
  BY LoopAssumption DEF OwnerTimer, MakesWork, AddTimer, countVars, timerVars, pipeVars,
     sleepVars, TypeRest
<1>5. Staged'
  BY <1>3 DEF OwnerTimer, MakesWork, AddTimer, countVars, timerVars, pipeVars, sleepVars,
     Staged, OwnerPlace
<1>6. Counts'
  BY <1>3, CountsStay DEF OwnerTimer, MakesWork, AddTimer, countVars, timerVars, pipeVars,
     sleepVars
<1>7. Stopped'
  BY <1>1, <1>3 DEF OwnerTimer, MakesWork, AddTimer, countVars, timerVars, pipeVars,
     sleepVars, Stopped, TypePlace, Tickling, stage, Process
<1>8. Drains'
  BY <1>1, <1>3 DEF OwnerTimer, MakesWork, AddTimer, countVars, timerVars, pipeVars,
     sleepVars, Drains, Stopped, NoTimer, TypeRest, Counts
<1> QED BY <1>2, <1>4, <1>5, <1>6, <1>7, <1>8

\* stop() sets the flags and tickles once for each thread.
LEMMA StopKeeps ==
    ASSUME LoopInv, UNCHANGED pool, Stop
    PROVE  LoopInv'
<1> USE DEF LoopInv, Shape
<1>1. stage[Owner] = "own" /\ ~Tickling(Owner) /\ Owner \in Process
  BY DEF Stop, TypePlace, Tickling, stage, Process
<1>2. TypePlace' /\ stage' = [stage EXCEPT ![Owner] = "join"]
  <2>1. Cardinality(pool.threads) \in Nat
    BY LoopAssumption, FS_Subset, FS_CardinalityType DEF TypeRest
  <2>2. "join" \in Place
    BY DEF Place, OwnerPlace
  <2> QED BY <1>1, <2>1, <2>2, ThenGoes DEF Stop
<1>3. stage'[Owner] = "join" /\ \A t \in Thread : stage'[t] = stage[t]
  BY <1>1, <1>2, LoopAssumption DEF stage, Process
<1>4. TypeRest'
  BY LoopAssumption DEF Stop, Then, countVars, timerVars, pipeVars, sleepVars, TypeRest
<1>5. Staged'
  BY <1>3 DEF Stop, Then, countVars, timerVars, pipeVars, sleepVars, Staged, OwnerPlace
<1>6. Counts'
  BY <1>3, CountsStay DEF Stop, Then, countVars, timerVars, pipeVars, sleepVars
<1>7. Stopped'
  BY <1>1, <1>3 DEF Stop, Then, countVars, timerVars, pipeVars, sleepVars, Stopped,
     TypePlace, Tickling, stage, Process
<1>8. Drains'
  BY <1>1, <1>3 DEF Stop, Then, countVars, timerVars, pipeVars, sleepVars, Drains, Stopped,
     NoTimer, TypeRest, Counts
<1> QED BY <1>2, <1>4, <1>5, <1>6, <1>7, <1>8

\* All threads have gone, stop() returns.
LEMMA JoinKeeps ==
    ASSUME LoopInv, UNCHANGED pool, Join
    PROVE  LoopInv'
<1> USE DEF LoopInv, Shape
<1>1. stage[Owner] = "join" /\ ~Tickling(Owner) /\ Owner \in Process
  BY DEF Join, TypePlace, Tickling, stage, Process
<1>2. TypePlace' /\ stage' = [stage EXCEPT ![Owner] = "joined"]
  <2>1. "joined" \in Place
    BY DEF Place, OwnerPlace
  <2> QED BY <1>1, <2>1, PlainGoes DEF Join
<1>3. stage'[Owner] = "joined" /\ \A t \in Thread : stage'[t] = stage[t]
  BY <1>1, <1>2, LoopAssumption DEF stage, Process
<1>4. TypeRest'
  BY LoopAssumption DEF Join, MakesWork, countVars, timerVars, pipeVars, sleepVars, TypeRest
<1>5. Staged'
  BY <1>3 DEF Join, MakesWork, countVars, timerVars, pipeVars, sleepVars, Staged, OwnerPlace
<1>6. Counts'
  BY <1>3, CountsStay DEF Join, MakesWork, countVars, timerVars, pipeVars, sleepVars
<1>7. Stopped'
  BY <1>1, <1>3 DEF Join, MakesWork, countVars, timerVars, pipeVars, sleepVars, Stopped,
     TypePlace, Tickling, stage, Process
<1>8. Drains'
  BY <1>1, <1>3 DEF Join, MakesWork, countVars, timerVars, pipeVars, sleepVars, Drains,
     Stopped, NoTimer, TypeRest, Counts
<1> QED BY <1>2, <1>4, <1>5, <1>6, <1>7, <1>8

\* tickle(), its write, time and rest move nobody.
LEMMA OthersKeep ==
    ASSUME LoopInv, UNCHANGED pool,
           Elapse \/ Rest \/ UNCHANGED vars \/ \E p \in Process : Tickle(p) \/ Write(p)
    PROVE  LoopInv'
<1> USE DEF LoopInv, Shape
<1>1. TypePlace' /\ stage' = stage
  <2>1. CASE \E p \in Process : Tickle(p) \/ Write(p)
    BY <2>1, TickleStays
  <2>2. CASE UNCHANGED <<pc, left, back>>
    BY <2>2 DEF TypePlace, Tickling, stage
  <2> QED BY <2>1, <2>2 DEF Elapse, Rest, vars
<1>2. /\ UNCHANGED <<countVars, m_stopping, m_tickled, m_pendingEventCount, sleepVars, work, tasks>>
      /\ timers' = timers \/ Elapse
      /\ pipe' = pipe \/ \E p \in Process : Write(p)
      /\ edge' \in {edge, TRUE}
  BY DEF Elapse, Rest, vars, Tickle, Write, timerVars, pipeVars
<1>3. TypeRest'
  <2>1. timers' \in [{"due", "later", "far"} -> Nat]
    BY <1>2 DEF Elapse, TypeRest
  <2>2. pipe' \in 0 .. PipeCap
    BY <1>2, LoopAssumption DEF Write, TypeRest
  <2> QED BY <1>2, <2>1, <2>2 DEF TypeRest, sleepVars
<1>4. Staged'
  BY <1>1, <1>2 DEF Staged, sleepVars
<1>5. Counts'
  BY <1>1, <1>2, CountsStay DEF sleepVars
<1>6. Stopped'
  BY <1>1, <1>2 DEF Stopped
<1>7. Drains'
  <2>1. NoTimer => timers' = timers
    BY <1>2 DEF NoTimer, Elapse
  <2>2. NoTimer => NoTimer'
    BY <2>1 DEF NoTimer
  <2> HIDE DEF NoTimer
  <2> QED BY <1>1, <1>2, <2>2 DEF Drains, sleepVars
<1> QED BY <1>1, <1>3, <1>4, <1>5, <1>6, <1>7

\* Before the first call nobody is counted.
LEMMA LoopInit == Init => LoopInv
<1> SUFFICES ASSUME Init PROVE LoopInv
  OBVIOUS
<1> USE DEF Place, OwnerPlace, ActivePlace, IdlePlace, ReportPlace
<1>1. TypeRest
  <2>1. pool \in Pools /\ pool.work \in Nat
    BY LoopAssumption DEF Init
  <2>2. work \in 0 .. pool.work /\ pipe \in 0 .. PipeCap
    BY <2>1, LoopAssumption DEF Init
  <2>3. timers \in [{"due", "later", "far"} -> Nat]
    BY DEF Init
  <2> QED BY <2>1, <2>2, <2>3 DEF Init, TypeRest
<1>2. TypePlace
  BY DEF Init, TypePlace, Tickling, Process
<1>3. /\ stage[Owner] = "own"
      /\ \A t \in Thread : stage[t] = IF t \in pool.threads THEN "scan" ELSE "exit"
  BY LoopAssumption DEF Init, stage, Tickling, Process
<1>4. Staged
  BY <1>3 DEF Init, Staged
<1>5. Active = {} /\ Idling = {} /\ Reporting = {}
  BY <1>3 DEF Init, Active, Idling, Reporting
<1>6. Counts
  BY <1>5, FS_EmptySet, LoopAssumption DEF Init, Counts
<1>7. Stopped
  BY <1>3 DEF Init, Stopped
<1>8. Drains
  BY <1>3 DEF Init, Drains
<1> QED BY <1>1, <1>2, <1>4, <1>6, <1>7, <1>8 DEF LoopInv, Shape

\* Every step keeps the invariant.
LEMMA LoopNext == LoopInv /\ [Next /\ UNCHANGED pool]_<<vars, pool>> => LoopInv'
<1> SUFFICES ASSUME LoopInv, [Next /\ UNCHANGED pool]_<<vars, pool>> PROVE LoopInv'
  OBVIOUS
<1>1. UNCHANGED pool /\ (Next \/ UNCHANGED vars)
  OBVIOUS
<1>2. ASSUME NEW t \in Thread, Running(t) PROVE LoopInv'
  BY <1>1, <1>2, TakeKeeps, TakeNothingKeeps, FinishKeeps, EnterIdleKeeps, LeaveIdleKeeps,
     StopTimerKeeps, StopPendingKeeps, StopSchedulerKeeps, ListExpiredKeeps,
     ScheduleExpiredKeeps, HandleEventsKeeps, TriggeredKeeps DEF Running
<1>3. ASSUME NEW t \in Thread,
             TaskWorks(t) \/ EpollTickle(t) \/ EpollEvent(t) \/ EpollExpires(t)
      PROVE  LoopInv'
  BY <1>1, <1>3, TaskWorksKeeps, EpollTickleKeeps, EpollEventKeeps, EpollExpiresKeeps
<1>4. CASE OwnerSchedule \/ OwnerTimer \/ Stop \/ Join
  BY <1>1, <1>4, OwnerScheduleKeeps, OwnerTimerKeeps, StopKeeps, JoinKeeps
<1>5. CASE Elapse \/ Rest \/ UNCHANGED vars \/ \E p \in Process : Tickle(p) \/ Write(p)
  BY <1>1, <1>5, OthersKeep
<1> QED BY <1>1, <1>2, <1>3, <1>4, <1>5 DEF Next

\* LoopSound, for every pool and every number of threads: the counters that stopping()
\* and tickle() read (size_t and atomic) never wrap and neither does the count of pending
\* events on any of its paths; and the only thread of a pool, which decides to leave on
\* three reads at different times, leaves no task, timer or event behind.
THEOREM LoopIsSound == Spec => []LoopSound
<1>1. LoopInv => LoopSound
  <2> SUFFICES ASSUME LoopInv PROVE LoopSound
    OBVIOUS
  <2> USE DEF LoopInv, Shape
  <2>1. TypeOK
    <3>1. Active \in SUBSET Thread /\ Idling \in SUBSET Thread
      BY DEF Active, Idling
    <3>2. Cardinality(Active) \in Nat /\ Cardinality(Idling) \in Nat
      BY <3>1, LoopAssumption, FS_Subset, FS_CardinalityType
    <3>3. pc \in [Process -> {"own", "join", "joined", "tickle", "write", "scan", "task",
                              "finish", "toIdle", "stopTimer", "stopPending",
                              "stopScheduler", "epoll", "list", "listed", "events",
                              "triggered", "out", "exit"}]
      BY DEF TypePlace, Place, OwnerPlace, ActivePlace, IdlePlace, ReportPlace
    <3> QED BY <3>2, <3>3 DEF TypeOK, TypeRest, TypePlace, Counts
  <2>2. StopDrains
    <3> SUFFICES ASSUME Cardinality(pool.threads) = 1, ~pool.ownerTimers, pc[Owner] = "joined"
                 PROVE  tasks = 0 /\ NoTimer /\ m_pendingEventCount = 0
      BY DEF StopDrains, AllDrained
    <3>1. IsFiniteSet(pool.threads) /\ pool.threads \subseteq Thread
      BY LoopAssumption, FS_Subset DEF TypeRest
    <3>2. PICK w : pool.threads = {w}
      BY <3>1, FS_Singleton
    <3>3. stage[Owner] = "joined"
      BY DEF stage, Tickling, Process
    <3> QED BY <3>1, <3>2, <3>3 DEF Stopped, Drains
  <2> QED BY <2>1, <2>2 DEF LoopSound
<1> QED BY <1>1, LoopInit, LoopNext, PTL DEF Spec

=============================================================================
