------------------------------ MODULE IdleLoop ------------------------------
(***************************************************************************)
(* How the threads of an IOManager sleep, are woken and stop: Scheduler's  *)
(* run loop with IOManager's idle(), tickle() and stopping() (scheduler.h, *)
(* scheduler.cc, iomanager.cc), together with the timers and the fd events *)
(* those functions look at.                                                *)
(*                                                                         *)
(* Tasks, timers and pending events are only counted; no task is pinned,   *)
(* and the owner is not a thread of the pool.  A timer is due, later, or   *)
(* far: so far that its distance is negative as an int.  The               *)
(* tickle pipe has its capacity, and, being EPOLLET, wakes one sleeper for *)
(* a write.  A finite time-out of epoll_wait ends at some time or other.   *)
(***************************************************************************)
EXTENDS Integers, FiniteSets

CONSTANTS
    Thread,    \* the threads of a pool, in run()
    Owner,     \* the thread that submits work and calls stop()
    PipeCap,   \* capacity of m_tickleFds
    Kinds,     \* the timers in use, a subset of {"later", "far"}
    Pools,     \* the pools to look at; a behaviour is about one of them: its threads,
               \* whether the owner adds timers, too, and a bound on the tasks, timers
               \* and events ever made
    MaxEvents  \* bound: fd events registered at a time

ASSUME LoopAssumption ==
    /\ IsFiniteSet(Thread) /\ Owner \notin Thread
    /\ PipeCap \in Nat \ {0} /\ MaxEvents \in Nat
    /\ Kinds \subseteq {"later", "far"}
    /\ Pools \subseteq [threads : SUBSET Thread, ownerTimers : BOOLEAN, work : Nat]

Process == Thread \cup {Owner}

VARIABLES
    tasks,                 \* length of m_fibers
    m_activeThreadCount,
    m_idleThreadCount,
    m_stopping,            \* m_stopping and m_autostop
    timers,                \* how many timers are due, later, far
    m_tickled,
    m_pendingEventCount,
    pipe,                  \* bytes in the tickle pipe
    edge,                  \* the pipe was written to, no sleeper was told yet
    pc,
    left, back,            \* tickle() calls still to make, where to go on
    term,                  \* a thread's idle fiber has ended
    timeout,               \* the time-out of a thread's epoll_wait
    got,                   \* what epoll_wait has reported
    cbs,                   \* expired callbacks not yet scheduled
    work,                  \* work made so far
    pool                   \* the pool of this behaviour

countVars == <<m_activeThreadCount, m_idleThreadCount>>
timerVars == <<timers, m_tickled>>
pipeVars == <<pipe, edge>>
sleepVars == <<term, timeout, got, cbs>>
vars == <<tasks, countVars, m_stopping, timerVars, m_pendingEventCount, pipeVars,
          pc, left, back, sleepVars, work>>

NoTimer == \A k \in {"due", "later", "far"} : timers[k] = 0

Init ==
    /\ pool \in Pools
    /\ tasks = 0
    /\ m_activeThreadCount = 0 /\ m_idleThreadCount = 0
    /\ m_stopping = FALSE
    /\ timers = [k \in {"due", "later", "far"} |-> 0] /\ m_tickled = FALSE
    /\ m_pendingEventCount = 0
    /\ pipe = 0 /\ edge = FALSE
    /\ pc = [p \in Process |-> IF p = Owner THEN "own"
                               ELSE IF p \in pool.threads THEN "scan" ELSE "exit"]
    /\ left = [p \in Process |-> 0]
    /\ back = [p \in Process |-> "none"]
    /\ term = [t \in Thread |-> FALSE]
    /\ timeout = [t \in Thread |-> "max"]
    /\ got = [t \in Thread |-> "nothing"]
    /\ cbs = [t \in Thread |-> 0]
    /\ work = 0

-----------------------------------------------------------------------------
(* schedule() and tickle(), as any process calls them.                      *)

\* Go on at next, after n calls of tickle().
Then(p, n, next) ==
    /\ pc' = [pc EXCEPT ![p] = IF n = 0 THEN next ELSE "tickle"]
    /\ left' = [left EXCEPT ![p] = n]
    /\ back' = [back EXCEPT ![p] = IF n = 0 THEN "none" ELSE next]

\* scheduleNoLock for n tasks under m_mutex; tickle() if the list was empty.
Push(p, n, next) ==
    /\ tasks' = tasks + n
    /\ Then(p, IF tasks = 0 /\ n > 0 THEN 1 ELSE 0, next)

\* tickle() writes only while hasIdleThreads() is false.
TickleWrites == m_idleThreadCount = 0

Tickle(p) ==
    /\ pc[p] = "tickle"
    /\ IF TickleWrites
          THEN /\ pc' = [pc EXCEPT ![p] = "write"]
               /\ UNCHANGED <<left, back>>
          ELSE Then(p, left[p] - 1, back[p])
    /\ UNCHANGED <<tasks, countVars, m_stopping, timerVars, m_pendingEventCount, pipeVars,
                   sleepVars, work>>

\* The write end of the pipe blocks while the pipe is full.
Write(p) ==
    /\ pc[p] = "write" /\ pipe < PipeCap
    /\ pipe' = pipe + 1 /\ edge' = TRUE
    /\ Then(p, left[p] - 1, back[p])
    /\ UNCHANGED <<tasks, countVars, m_stopping, timerVars, m_pendingEventCount, sleepVars,
                   work>>

\* addTimer: a timer that may be first is announced with tickle(), once per
\* getNextTimer().
AddTimer(p, k, next) ==
    /\ timers' = [timers EXCEPT ![k] = @ + 1]
    /\ \E first \in BOOLEAN :
          /\ first => timers["due"] = 0 /\ (k = "far" => timers["later"] = 0)
          /\ NoTimer => first
          /\ m_tickled' = (m_tickled \/ first)
          /\ Then(p, IF first /\ ~m_tickled THEN 1 ELSE 0, next)

\* Time passes.
Elapse ==
    /\ timers["later"] > 0
    /\ timers' = [timers EXCEPT !["later"] = @ - 1, !["due"] = @ + 1]
    /\ UNCHANGED <<tasks, countVars, m_stopping, m_tickled, m_pendingEventCount, pipeVars,
                   pc, left, back, sleepVars, work>>

-----------------------------------------------------------------------------
(* The owner.                                                               *)

MakesWork == work < pool.work /\ work' = work + 1

OwnerSchedule ==
    /\ pc[Owner] = "own" /\ MakesWork
    /\ Push(Owner, 1, "own")
    /\ UNCHANGED <<countVars, m_stopping, timerVars, m_pendingEventCount, pipeVars,
                   sleepVars>>

OwnerTimer ==
    /\ pool.ownerTimers /\ pc[Owner] = "own" /\ MakesWork
    /\ \E k \in Kinds : AddTimer(Owner, k, "own")
    /\ UNCHANGED <<tasks, countVars, m_stopping, m_pendingEventCount, pipeVars, sleepVars>>

\* stop(): the flags, a tickle() for each thread, then join().
Stop ==
    /\ pc[Owner] = "own"
    /\ m_stopping' = TRUE
    /\ Then(Owner, Cardinality(pool.threads), "join")
    /\ UNCHANGED <<tasks, countVars, timerVars, m_pendingEventCount, pipeVars, sleepVars,
                   work>>

Join ==
    /\ pc[Owner] = "join"
    /\ \A t \in Thread : pc[t] = "exit"
    /\ pc' = [pc EXCEPT ![Owner] = "joined"]
    /\ UNCHANGED <<tasks, countVars, m_stopping, timerVars, m_pendingEventCount, pipeVars,
                   left, back, sleepVars, work>>

-----------------------------------------------------------------------------
(* run().                                                                   *)

Take(t) ==
    /\ pc[t] = "scan" /\ tasks > 0
    /\ tasks' = tasks - 1
    /\ m_activeThreadCount' = m_activeThreadCount + 1
    /\ pc' = [pc EXCEPT ![t] = "task"]
    /\ UNCHANGED <<m_idleThreadCount, m_stopping, timerVars, m_pendingEventCount, pipeVars,
                   left, back, sleepVars, work>>

TakeNothing(t) ==
    /\ pc[t] = "scan" /\ tasks = 0
    /\ pc' = [pc EXCEPT ![t] = IF term[t] THEN "exit" ELSE "toIdle"]
    /\ UNCHANGED <<tasks, countVars, m_stopping, timerVars, m_pendingEventCount, pipeVars,
                   left, back, sleepVars, work>>

\* A task may submit a task, set a timer, or wait for an fd.  (The order of the counter
\* and a yield with READY is Scheduler's subject.)
TaskWorks(t) ==
    /\ pc[t] = "task" /\ MakesWork
    /\ \/ /\ Push(t, 1, "finish")
          /\ UNCHANGED <<timerVars, m_pendingEventCount>>
       \/ /\ \E k \in Kinds : AddTimer(t, k, "finish")
          /\ UNCHANGED <<tasks, m_pendingEventCount>>
       \/ /\ m_pendingEventCount < MaxEvents
          /\ m_pendingEventCount' = m_pendingEventCount + 1
          /\ pc' = [pc EXCEPT ![t] = "finish"]
          /\ UNCHANGED <<tasks, timerVars, left, back>>
    /\ UNCHANGED <<countVars, m_stopping, pipeVars, sleepVars>>

Finish(t) ==
    /\ pc[t] \in {"task", "finish"}
    /\ m_activeThreadCount' = m_activeThreadCount - 1
    /\ pc' = [pc EXCEPT ![t] = "scan"]
    /\ UNCHANGED <<tasks, m_idleThreadCount, m_stopping, timerVars, m_pendingEventCount,
                   pipeVars, left, back, sleepVars, work>>

EnterIdle(t) ==
    /\ pc[t] = "toIdle"
    /\ m_idleThreadCount' = m_idleThreadCount + 1
    /\ pc' = [pc EXCEPT ![t] = "stopTimer"]
    /\ UNCHANGED <<tasks, m_activeThreadCount, m_stopping, timerVars, m_pendingEventCount,
                   pipeVars, left, back, sleepVars, work>>

LeaveIdle(t) ==
    /\ pc[t] = "out"
    /\ m_idleThreadCount' = m_idleThreadCount - 1
    /\ pc' = [pc EXCEPT ![t] = "scan"]
    /\ got' = [got EXCEPT ![t] = "nothing"]
    /\ UNCHANGED <<tasks, m_activeThreadCount, m_stopping, timerVars, m_pendingEventCount,
                   pipeVars, left, back, term, timeout, cbs, work>>

-----------------------------------------------------------------------------
(* idle().                                                                  *)

\* Faulty variant: no ceiling on the time-out.
NoCeiling == IF NoTimer THEN "forever" ELSE "timer"

\* The argument of epoll_wait: at most MAX_TIMEOUT, but (int)next_timeout of a far
\* timer is negative and so no time-out at all.
EpollTimeout ==
    IF NoTimer THEN "max"
    ELSE IF timers["due"] > 0 \/ timers["later"] > 0 THEN "timer"
    ELSE "forever"

\* stopping(timeout), its three conditions from left to right.
StopTimer(t) ==
    /\ pc[t] = "stopTimer"
    /\ m_tickled' = FALSE
    /\ timeout' = [timeout EXCEPT ![t] = EpollTimeout]
    /\ pc' = [pc EXCEPT ![t] = IF NoTimer THEN "stopPending" ELSE "epoll"]
    /\ UNCHANGED <<tasks, countVars, m_stopping, timers, m_pendingEventCount, pipeVars,
                   left, back, term, got, cbs, work>>

\* Faulty variant: registered events do not keep the loop alive.
PendingIgnored == TRUE

NothingPending == m_pendingEventCount = 0

StopPending(t) ==
    /\ pc[t] = "stopPending"
    /\ pc' = [pc EXCEPT ![t] = IF NothingPending THEN "stopScheduler" ELSE "epoll"]
    /\ UNCHANGED <<tasks, countVars, m_stopping, timerVars, m_pendingEventCount, pipeVars,
                   left, back, sleepVars, work>>

\* Scheduler::stopping
SchedulerStopping == m_stopping /\ tasks = 0 /\ m_activeThreadCount = 0

StopScheduler(t) ==
    /\ pc[t] = "stopScheduler"
    /\ term' = [term EXCEPT ![t] = SchedulerStopping]
    /\ pc' = [pc EXCEPT ![t] = IF SchedulerStopping THEN "out" ELSE "epoll"]
    /\ UNCHANGED <<tasks, countVars, m_stopping, timerVars, m_pendingEventCount, pipeVars,
                   left, back, timeout, got, cbs, work>>

\* epoll_wait returns: the tickle pipe, an fd event, or the time-out.
Returns(t, what) ==
    /\ pc[t] = "epoll"
    /\ pc' = [pc EXCEPT ![t] = "list"]
    /\ got' = [got EXCEPT ![t] = what]
    /\ timeout' = [timeout EXCEPT ![t] = "max"]
    /\ UNCHANGED <<tasks, countVars, m_stopping, timerVars, m_pendingEventCount, pipe,
                   left, back, term, cbs, work>>

EpollTickle(t) == edge /\ edge' = FALSE /\ Returns(t, "tickle")

\* Each registered event is reported to one thread.
EpollEvent(t) ==
    /\ m_pendingEventCount > Cardinality({u \in Thread : got[u] = "event"})
    /\ Returns(t, "event")
    /\ UNCHANGED edge

EpollExpires(t) == timeout[t] # "forever" /\ Returns(t, "nothing") /\ UNCHANGED edge

\* listExpiredCb takes the callbacks out of the set ...
ListExpired(t) ==
    /\ pc[t] = "list"
    /\ cbs' = [cbs EXCEPT ![t] = timers["due"]]
    /\ timers' = [timers EXCEPT !["due"] = 0]
    /\ pc' = [pc EXCEPT ![t] = "listed"]
    /\ UNCHANGED <<tasks, countVars, m_stopping, m_tickled, m_pendingEventCount, pipeVars,
                   left, back, term, timeout, got, work>>

\* ... and schedule(begin, end) queues them.
ScheduleExpired(t) ==
    /\ pc[t] = "listed"
    /\ Push(t, cbs[t], "events")
    /\ cbs' = [cbs EXCEPT ![t] = 0]
    /\ UNCHANGED <<countVars, m_stopping, timerVars, m_pendingEventCount, pipeVars, term,
                   timeout, got, work>>

\* The reported events: the pipe is emptied, an fd event is triggered.
HandleEvents(t) ==
    /\ pc[t] = "events"
    /\ IF got[t] = "event"
          THEN Push(t, 1, "triggered") /\ UNCHANGED pipe
          ELSE /\ pipe' = IF got[t] = "tickle" THEN 0 ELSE pipe
               /\ pc' = [pc EXCEPT ![t] = "out"]
               /\ UNCHANGED <<tasks, left, back>>
    /\ UNCHANGED <<countVars, m_stopping, timerVars, m_pendingEventCount, edge, sleepVars,
                   work>>

CountedOff == m_pendingEventCount - 1

\* After the fiber or callback was scheduled.
Triggered(t) ==
    /\ pc[t] = "triggered"
    /\ m_pendingEventCount' = CountedOff
    /\ pc' = [pc EXCEPT ![t] = "out"]
    /\ UNCHANGED <<tasks, countVars, m_stopping, timerVars, pipeVars, left, back, sleepVars,
                   work>>

-----------------------------------------------------------------------------
Running(t) ==
    \/ Take(t) \/ TakeNothing(t) \/ Finish(t) \/ EnterIdle(t) \/ LeaveIdle(t)
    \/ StopTimer(t) \/ StopPending(t) \/ StopScheduler(t)
    \/ ListExpired(t) \/ ScheduleExpired(t) \/ HandleEvents(t) \/ Triggered(t)

\* Nobody has to do anything more.
Rest ==
    /\ pc[Owner] \in {"own", "join", "joined"}
    /\ \A t \in Thread : pc[t] \in {"epoll", "exit"}
    /\ UNCHANGED vars

Next ==
    \/ Elapse
    \/ OwnerSchedule \/ OwnerTimer \/ Stop \/ Join
    \/ \E p \in Process : Tickle(p) \/ Write(p)
    \/ \E t \in Thread :
          Running(t) \/ TaskWorks(t) \/ EpollTickle(t) \/ EpollEvent(t) \/ EpollExpires(t)
    \/ Rest

\* Threads that can go on do, time passes and finite time-outs end.  Peers need not
\* send, the owner need not call.
Fairness ==
    /\ WF_vars(Elapse) /\ WF_vars(Join)
    /\ \A p \in Process : WF_vars(Tickle(p)) /\ WF_vars(Write(p))
    /\ \A t \in Thread : WF_vars(Running(t)) /\ WF_vars(EpollTickle(t))
                         /\ WF_vars(EpollExpires(t))

Spec == Init /\ [][Next /\ UNCHANGED pool]_<<vars, pool>> /\ Fairness

-----------------------------------------------------------------------------
(* Properties.                                                              *)

TypeOK ==
    /\ tasks \in Nat /\ m_activeThreadCount \in Nat /\ m_idleThreadCount \in Nat
    /\ m_stopping \in BOOLEAN /\ m_tickled \in BOOLEAN /\ edge \in BOOLEAN
    /\ timers \in [{"due", "later", "far"} -> Nat]
    /\ m_pendingEventCount \in 0 .. MaxEvents
    /\ pipe \in 0 .. PipeCap /\ work \in 0 .. pool.work
    /\ pc \in [Process -> {"own", "join", "joined", "tickle", "write", "scan", "task",
                           "finish", "toIdle", "stopTimer", "stopPending",
                           "stopScheduler", "epoll", "list", "listed", "events",
                           "triggered", "out", "exit"}]
    /\ left \in [Process -> Nat]
    /\ back \in [Process -> {"none", "own", "join", "finish", "events", "triggered"}]
    /\ term \in [Thread -> BOOLEAN]
    /\ timeout \in [Thread -> {"max", "timer", "forever"}]
    /\ got \in [Thread -> {"nothing", "tickle", "event"}]
    /\ cbs \in [Thread -> Nat]

\* When stop() has joined the threads nothing is left undone: no task, no timer, no
\* registered event.  (With two threads, or an owner who adds timers, work made between
\* the three reads of stopping() is left behind.)
AllDrained == pc[Owner] = "joined" => tasks = 0 /\ NoTimer /\ m_pendingEventCount = 0

\* It is so for a pool of one thread, although the thread decides to leave on three
\* reads at different times.
StopDrains == Cardinality(pool.threads) = 1 /\ ~pool.ownerTimers => AllDrained

\* A queued task is taken, although tickle() does not wake sleepers.
TasksRun == (tasks > 0) ~> (tasks = 0)

\* Until stop() is called, a timer that is due is collected and its callback queued.
TimersRun == (timers["due"] > 0) ~> (timers["due"] = 0 \/ m_stopping)

\* stop() returns once no fd event is outstanding: the threads leave idle() one by one.
StopReturns == (pc[Owner] = "join") ~> (pc[Owner] = "joined" \/ m_pendingEventCount > 0)

Asleep == \A t \in pool.threads : pc[t] = "epoll"

Undisturbed == ~edge /\ \A p \in Process : pc[p] \notin {"tickle", "write"}

\* A task that somebody puts into the queue ends the epoll_wait of a sleeping thread.
TaskUnblocks == ~(Asleep /\ Undisturbed /\ tasks > 0)

\* No thread sleeps past a due timer because its time-out is older than the timer.
TimerUnblocks ==
    ~(Asleep /\ Undisturbed /\ timers["due"] > 0 /\ \A t \in pool.threads : timeout[t] # "timer")

\* Waking by a pipe blocks no thread of the pool: what is written can be read.
TickleReturns ==
    ~(pipe = PipeCap /\ \A t \in pool.threads : pc[t] = "write")

\* The types, the counters among them (size_t that must not wrap), and the end of
\* stop() for a pool of one thread.
LoopSound == TypeOK /\ StopDrains

\* What is queued or due is done although tickle() wakes no sleeper: epoll_wait's
\* ceiling is what gets the tasks taken and the timers collected.
WorkRuns == TasksRun /\ TimersRun

=============================================================================
