------------------------------ MODULE Scheduler ------------------------------
(***************************************************************************)
(* The fiber scheduler of sylar: Scheduler (scheduler.h, scheduler.cc) and *)
(* the life cycle of the Fiber objects it runs (fiber.h, fiber.cc).        *)
(*                                                                         *)
(* A pool of threads executes Scheduler::run.  A thread scans the shared   *)
(* list m_fibers under m_mutex, takes the first entry it may run, switches *)
(* to its fiber, and when the fiber switches back it settles what the      *)
(* fiber left in m_state.  The program's own thread (Caller) constructs    *)
(* the scheduler, submits work, and calls start() and stop(); with         *)
(* use_caller it also executes run, inside stop(), on m_rootFiber.         *)
(*                                                                         *)
(* What is abstracted: a callback is a member of Job; a context switch is  *)
(* the move of a thread's pc; tickle() only logs in this class and has no  *)
(* step; ids are allocated in order, as ++s_fiber_id does.                 *)
(***************************************************************************)
EXTENDS Integers, Sequences, FiniteSets, SequencesExt

CONSTANTS
    Worker,     \* the threads start() creates (m_threadCount of them)
    Caller,     \* the thread that owns the scheduler
    UseCaller,  \* the constructor's use_caller
    Job,        \* the callbacks ever submitted, each at most once
    None,       \* null pointer, empty std::function, thread -1
    EarlyWake,  \* may a wake-up arrive before the fiber has been settled?
    Reschedule, \* may the owner schedule a fiber again while it is in use?
    CrossPin,   \* may a fiber pin new work to another thread than its own?
    MaxYield,   \* bound: how often one job yields
    MaxStarts,  \* bound: how many start() calls the owner makes
    MaxStops    \* bound: how many stop() calls the owner makes

Pool == Worker \cup (IF UseCaller THEN {Caller} ELSE {})

ASSUME ConstantsAssumption ==
    /\ IsFiniteSet(Worker) /\ IsFiniteSet(Job)
    /\ Caller \notin Worker
    /\ UseCaller \in BOOLEAN /\ EarlyWake \in BOOLEAN
    /\ Reschedule \in BOOLEAN /\ CrossPin \in BOOLEAN
    /\ None \notin Pool \cup Job \cup Nat
    /\ MaxYield \in Nat /\ MaxStarts \in Nat /\ MaxStops \in Nat

\* Each job needs at most one Fiber object; fiber n is the n-th one created.
Fiber == 1 .. Cardinality(Job)

\* Scheduler::FiberAndThread: a fiber or a callback, and the thread it is
\* pinned to.
Task == [fiber : Fiber \cup {None}, cb : Job \cup {None}, thread : Pool \cup {None}]

NoTask == [fiber |-> None, cb |-> None, thread |-> None]
FiberTask(f, thr) == [fiber |-> f, cb |-> None, thread |-> thr]
CbTask(j, thr) == [fiber |-> None, cb |-> j, thread |-> thr]

VARIABLES
    m_fibers,             \* the task list, guarded by m_mutex
    m_activeThreadCount,
    m_idleThreadCount,
    m_stopping,
    m_autostop,
    m_rootFiber,          \* state of the fiber that runs run() on the caller
    m_state,              \* Fiber::m_state, "none" before the fiber exists
    m_cb,                 \* Fiber::m_cb
    s_fiber_id,           \* number of task fibers created so far
    pc,                   \* where each pool thread is in run() or in a fiber
    ft,                   \* run()'s local ft
    cb_fiber,             \* run()'s local cb_fiber
    idle_fiber,           \* state of run()'s local idle_fiber
    owner,                \* where the owning thread is: between calls or in stop()
    starts, stops,        \* start() and stop() calls made so far
    waiting,              \* fibers with a wake-up registered (timer or event)
    handles,              \* fibers the owner still holds a Fiber::ptr to
    submitted,            \* jobs submitted so far
    runs,                 \* how often each job's body was entered
    yields,               \* how often each job has yielded
    pin,                  \* the thread each job was submitted for
    overlapped            \* history: fibers scheduled again while a thread was still on them

threadVars == <<pc, ft, cb_fiber, idle_fiber>>
fiberVars == <<m_state, m_cb, s_fiber_id>>
stopVars == <<m_stopping, m_autostop, m_rootFiber, owner, starts, stops>>
countVars == <<m_activeThreadCount, m_idleThreadCount>>
ghostVars == <<submitted, runs, yields, pin>>
vars == <<m_fibers, waiting, handles, overlapped, threadVars, fiberVars, stopVars, countVars, ghostVars>>

-----------------------------------------------------------------------------
FiberState == {"INIT", "HOLD", "EXEC", "TERM", "READY", "EXCEPT"}

\* A thread holds a fiber while its pc is one of these.
Running == {"user", "armed"}
OnStack == Running \cup {"swapOut"}
Holding == OnStack \cup {"settle"}

\* "abort": an assertion of swapIn() or reset() failed; "neverReach": the one
\* at the end of CallerMainFunc did.
Pc == {"off", "scan", "dispatch", "idle", "exit", "abort", "neverReach"} \cup Holding

Owner == {"idle", "running", "stopCheck", "stopFlag", "stopRoot", "join", "returned"}

\* The fiber thread t has switched to: ft.fiber in the first branch of run(),
\* cb_fiber in the second one, where ft was reset before the switch.
Current(t) == IF ft[t].fiber # None THEN ft[t].fiber ELSE cb_fiber[t]

stopping ==
    /\ m_autostop /\ m_stopping
    /\ m_fibers = <<>> /\ m_activeThreadCount = 0

Init ==
    /\ m_fibers = <<>>
    /\ m_activeThreadCount = 0
    /\ m_idleThreadCount = 0
    /\ m_stopping = TRUE
    /\ m_autostop = FALSE
    /\ m_rootFiber = IF UseCaller THEN "INIT" ELSE "none"
    /\ m_state = [f \in Fiber |-> "none"]
    /\ m_cb = [f \in Fiber |-> None]
    /\ s_fiber_id = 0
    /\ pc = [t \in Pool |-> "off"]
    /\ ft = [t \in Pool |-> NoTask]
    /\ cb_fiber = [t \in Pool |-> None]
    /\ idle_fiber = [t \in Pool |-> "INIT"]
    /\ owner = "idle"
    /\ starts = 0 /\ stops = 0
    /\ waiting = {}
    /\ handles = {}
    /\ submitted = {}
    /\ runs = [j \in Job |-> 0]
    /\ yields = [j \in Job |-> 0]
    /\ pin = [j \in Job |-> None]
    /\ overlapped = {}

-----------------------------------------------------------------------------
(* schedule(): FiberAndThread entries are appended under m_mutex.          *)

\* schedule(cb, thr)
SubmitCb(j, thr) ==
    /\ j \notin submitted
    /\ submitted' = submitted \cup {j}
    /\ pin' = [pin EXCEPT ![j] = thr]
    /\ m_fibers' = Append(m_fibers, CbTask(j, thr))
    /\ UNCHANGED fiberVars

\* schedule(Fiber::ptr(new Fiber(cb)), thr)
SubmitFiber(j, thr) ==
    /\ j \notin submitted
    /\ s_fiber_id + 1 \in Fiber
    /\ submitted' = submitted \cup {j}
    /\ pin' = [pin EXCEPT ![j] = thr]
    /\ s_fiber_id' = s_fiber_id + 1
    /\ m_state' = [m_state EXCEPT ![s_fiber_id + 1] = "INIT"]
    /\ m_cb' = [m_cb EXCEPT ![s_fiber_id + 1] = j]
    /\ m_fibers' = Append(m_fibers, FiberTask(s_fiber_id + 1, thr))

\* schedule(begin, end) with two callbacks: both under one lock, unpinned.
SubmitBatch(i, j) ==
    /\ i # j /\ {i, j} \cap submitted = {}
    /\ submitted' = submitted \cup {i, j}
    /\ m_fibers' = m_fibers \o <<CbTask(i, None), CbTask(j, None)>>
    /\ UNCHANGED <<fiberVars, pin>>

\* The owner submits between its start() and stop() calls.  The only thread
\* id it knows is its own.
OwnerSchedule ==
    /\ owner \in {"idle", "running", "returned"}
    /\ \/ \E j \in Job, thr \in {None} \cup (Pool \cap {Caller}) :
              \/ SubmitCb(j, thr) /\ UNCHANGED handles
              \/ /\ SubmitFiber(j, thr)
                 /\ handles' = IF Reschedule THEN handles \cup {s_fiber_id'} ELSE handles
       \/ \E i, j \in Job : SubmitBatch(i, j) /\ UNCHANGED handles
    /\ UNCHANGED <<waiting, threadVars, stopVars, countVars, runs, yields, overlapped>>

\* The owner schedules a fiber it has scheduled before (at most once more),
\* whatever has become of it.
OwnerReschedule(f) ==
    /\ owner \in {"idle", "running", "returned"}
    /\ f \in handles
    /\ handles' = handles \ {f}
    /\ overlapped' = overlapped \cup {f}
    /\ m_fibers' = Append(m_fibers, FiberTask(f, None))
    /\ UNCHANGED <<waiting, threadVars, fiberVars, stopVars, countVars, ghostVars>>

\* A running fiber submits, pinned or not.
FiberSchedule(t) ==
    /\ pc[t] = "user"
    /\ \E j \in Job, thr \in {None, t} \cup (IF CrossPin THEN Pool ELSE {}) :
           SubmitCb(j, thr) \/ SubmitFiber(j, thr)
    /\ UNCHANGED <<waiting, handles, threadVars, stopVars, countVars, runs, yields, overlapped>>

-----------------------------------------------------------------------------
(* run(): one iteration of the loop of a pool thread.                      *)

\* Faulty: the scan takes work pinned to another thread.
TakeableByAny(t, task) == task.fiber = None \/ m_state[task.fiber] # "EXEC"

\* The entries the scan does not step over.
Takeable(t, task) ==
    /\ task.thread \in {None, t}
    /\ task.fiber = None \/ m_state[task.fiber] # "EXEC"

Candidates(t) == {i \in 1 .. Len(m_fibers) : Takeable(t, m_fibers[i])}

\* Entry i is the first one the scan may take.
FirstTakeable(t, i) ==
    /\ i \in Candidates(t)
    /\ \A k \in Candidates(t) : i <= k

\* Faulty: the entry taken is not erased.
NotPopped(i) == m_fibers

\* m_fibers.erase(it)
Popped(i) == RemoveAt(m_fibers, i)

Take(t) ==
    /\ pc[t] = "scan"
    /\ \E i \in 1 .. Len(m_fibers) :
           /\ FirstTakeable(t, i)
           /\ ft' = [ft EXCEPT ![t] = m_fibers[i]]
           /\ m_fibers' = Popped(i)
    /\ m_activeThreadCount' = m_activeThreadCount + 1
    /\ pc' = [pc EXCEPT ![t] = "dispatch"]
    /\ UNCHANGED <<waiting, handles, cb_fiber, idle_fiber, fiberVars, stopVars,
                   m_idleThreadCount, ghostVars, overlapped>>

TakeNothing(t) ==
    /\ pc[t] = "scan"
    /\ Candidates(t) = {}
    /\ pc' = [pc EXCEPT ![t] = "dispatch"]
    /\ UNCHANGED <<m_fibers, waiting, handles, ft, cb_fiber, idle_fiber, fiberVars,
                   stopVars, countVars, ghostVars, overlapped>>

\* First branch: swapIn() of the popped fiber.
SwapInFiber(t) ==
    LET f == ft[t].fiber IN
    /\ pc[t] = "dispatch"
    /\ f # None
    /\ m_state[f] \notin {"TERM", "EXCEPT", "EXEC"}
    /\ pc' = [pc EXCEPT ![t] = "user"]
    /\ m_state' = [m_state EXCEPT ![f] = "EXEC"]
    /\ runs' = IF m_state[f] = "INIT" /\ m_cb[f] # None
                  THEN [runs EXCEPT ![m_cb[f]] = @ + 1] ELSE runs
    /\ UNCHANGED <<m_fibers, waiting, handles, ft, cb_fiber, idle_fiber, m_cb, s_fiber_id,
                   stopVars, countVars, submitted, yields, pin, overlapped>>

\* Second branch, with no fiber to reuse: cb_fiber.reset(new Fiber(ft.cb)).
SwapInNewCb(t) ==
    LET f == s_fiber_id + 1
        j == ft[t].cb IN
    /\ pc[t] = "dispatch"
    /\ j # None /\ cb_fiber[t] = None
    /\ f \in Fiber
    /\ s_fiber_id' = f
    /\ cb_fiber' = [cb_fiber EXCEPT ![t] = f]
    /\ m_cb' = [m_cb EXCEPT ![f] = j]
    /\ m_state' = [m_state EXCEPT ![f] = "EXEC"]
    /\ runs' = [runs EXCEPT ![j] = @ + 1]
    /\ ft' = [ft EXCEPT ![t] = NoTask]
    /\ pc' = [pc EXCEPT ![t] = "user"]
    /\ UNCHANGED <<m_fibers, waiting, handles, idle_fiber, stopVars, countVars, submitted,
                   yields, pin, overlapped>>

\* Second branch, reusing the fiber of an earlier callback.
SwapInOldCb(t) ==
    LET f == cb_fiber[t]
        j == ft[t].cb IN
    /\ pc[t] = "dispatch"
    /\ j # None /\ f # None
    /\ m_state[f] \in {"TERM", "EXCEPT", "INIT"}
    /\ pc' = [pc EXCEPT ![t] = "user"]
    /\ m_cb' = [m_cb EXCEPT ![f] = j]
    /\ m_state' = [m_state EXCEPT ![f] = "EXEC"]
    /\ runs' = [runs EXCEPT ![j] = @ + 1]
    /\ ft' = [ft EXCEPT ![t] = NoTask]
    /\ UNCHANGED <<m_fibers, waiting, handles, cb_fiber, idle_fiber, s_fiber_id, stopVars,
                   countVars, submitted, yields, pin, overlapped>>

\* The fiber dispatched to is one another thread is in: SYLAR_ASSERT(m_state
\* != EXEC) of swapIn(), or the assertion of reset() that the fiber is in TERM,
\* EXCEPT or INIT, ends the process.
AssertFails(t) ==
    /\ pc[t] = "dispatch"
    /\ \/ ft[t].fiber # None /\ m_state[ft[t].fiber] = "EXEC"
       \/ /\ ft[t].fiber = None /\ ft[t].cb # None /\ cb_fiber[t] # None
          /\ m_state[cb_fiber[t]] \notin {"TERM", "EXCEPT", "INIT"}
    /\ pc' = [pc EXCEPT ![t] = "abort"]
    /\ UNCHANGED <<m_fibers, waiting, handles, ft, cb_fiber, idle_fiber, fiberVars,
                   stopVars, countVars, ghostVars, overlapped>>

\* Faulty variant: the counter is not decremented.
ForgetDeactivate == UNCHANGED m_activeThreadCount

\* --m_activeThreadCount, on each of the three branches.
Deactivate == m_activeThreadCount' = m_activeThreadCount - 1

\* Third branch after a pop: the fiber had already ended.
DropEnded(t) ==
    /\ pc[t] = "dispatch"
    /\ ft[t].fiber # None
    /\ m_state[ft[t].fiber] \in {"TERM", "EXCEPT"}
    /\ Deactivate
    /\ ft' = [ft EXCEPT ![t] = NoTask]
    /\ pc' = [pc EXCEPT ![t] = "scan"]
    /\ UNCHANGED <<m_fibers, waiting, handles, cb_fiber, idle_fiber, fiberVars, stopVars,
                   m_idleThreadCount, ghostVars, overlapped>>

\* Third branch, nothing popped: enter the idle fiber.
EnterIdle(t) ==
    /\ pc[t] = "dispatch"
    /\ ft[t] = NoTask /\ idle_fiber[t] # "TERM"
    /\ m_idleThreadCount' = m_idleThreadCount + 1
    /\ idle_fiber' = [idle_fiber EXCEPT ![t] = "EXEC"]
    /\ pc' = [pc EXCEPT ![t] = "idle"]
    /\ UNCHANGED <<m_fibers, waiting, handles, ft, cb_fiber, fiberVars, stopVars,
                   m_activeThreadCount, ghostVars, overlapped>>

\* idle() evaluates stopping() once per switch: it returns (TERM) or yields.
LeaveIdle(t) ==
    /\ pc[t] = "idle"
    /\ idle_fiber' = [idle_fiber EXCEPT ![t] = IF stopping THEN "TERM" ELSE "HOLD"]
    /\ m_idleThreadCount' = m_idleThreadCount - 1
    /\ pc' = [pc EXCEPT ![t] = "scan"]
    /\ UNCHANGED <<m_fibers, waiting, handles, ft, cb_fiber, fiberVars, stopVars,
                   m_activeThreadCount, ghostVars, overlapped>>

\* run() returns; its locals are destroyed.  On the caller's thread this ends
\* m_rootFiber, which goes back into stop().
Exit(t) ==
    /\ pc[t] = "dispatch"
    /\ ft[t] = NoTask /\ idle_fiber[t] = "TERM"
    /\ pc' = [pc EXCEPT ![t] = "exit"]
    /\ cb_fiber' = [cb_fiber EXCEPT ![t] = None]
    /\ m_rootFiber' = IF t = Caller THEN "TERM" ELSE m_rootFiber
    /\ UNCHANGED <<m_fibers, waiting, handles, ft, idle_fiber, fiberVars, m_stopping,
                   m_autostop, owner, starts, stops, countVars, ghostVars, overlapped>>

-----------------------------------------------------------------------------
(* What the code inside a fiber does with the scheduler.                   *)

\* Bound: a job yields MaxYield times at most, and a fiber whose callback has
\* ended on another thread no more.
MayYield(t) ==
    LET j == m_cb[Current(t)] IN
    /\ j # None /\ yields[j] < MaxYield
    /\ yields' = [yields EXCEPT ![j] = @ + 1]

\* Fiber::YieldToReady up to the context switch.
YieldToReady(t) ==
    /\ pc[t] = "user"
    /\ MayYield(t)
    /\ m_state' = [m_state EXCEPT ![Current(t)] = "READY"]
    /\ pc' = [pc EXCEPT ![t] = "swapOut"]
    /\ UNCHANGED <<m_fibers, waiting, handles, ft, cb_fiber, idle_fiber, m_cb, s_fiber_id,
                   stopVars, countVars, submitted, runs, pin, overlapped>>

\* A blocking call: hook.cc first hands the fiber to a timer or to an event
\* (addTimer, addEvent) and only then yields.
Register(t) ==
    /\ pc[t] = "user"
    /\ MayYield(t)
    /\ waiting' = waiting \cup {Current(t)}
    /\ pc' = [pc EXCEPT ![t] = "armed"]
    /\ UNCHANGED <<m_fibers, handles, ft, cb_fiber, idle_fiber, fiberVars, stopVars,
                   countVars, submitted, runs, pin, overlapped>>

\* Fiber::YieldToHold up to the context switch.
YieldToHold(t) ==
    /\ pc[t] = "armed"
    /\ m_state' = [m_state EXCEPT ![Current(t)] = "HOLD"]
    /\ pc' = [pc EXCEPT ![t] = "swapOut"]
    /\ UNCHANGED <<m_fibers, waiting, handles, ft, cb_fiber, idle_fiber, m_cb, s_fiber_id,
                   stopVars, countVars, ghostVars, overlapped>>

\* Fiber::MainFunc after the body: it returned, or it threw.
Finish(t) ==
    /\ pc[t] = "user"
    /\ \/ /\ m_cb' = [m_cb EXCEPT ![Current(t)] = None]
          /\ m_state' = [m_state EXCEPT ![Current(t)] = "TERM"]
       \/ /\ m_state' = [m_state EXCEPT ![Current(t)] = "EXCEPT"]
          /\ UNCHANGED m_cb
    /\ pc' = [pc EXCEPT ![t] = "swapOut"]
    /\ UNCHANGED <<m_fibers, waiting, handles, ft, cb_fiber, idle_fiber, s_fiber_id,
                   stopVars, countVars, ghostVars, overlapped>>

\* swapOut() returns into run(), which decrements the counter first.
SwapOut(t) ==
    /\ pc[t] = "swapOut"
    /\ Deactivate
    /\ pc' = [pc EXCEPT ![t] = "settle"]
    /\ UNCHANGED <<m_fibers, waiting, handles, ft, cb_fiber, idle_fiber, fiberVars,
                   stopVars, m_idleThreadCount, ghostVars, overlapped>>

\* Faulty: a READY fiber is forgotten; cb_fiber is kept after its fiber was
\* handed on.
Forgotten(f) == m_fibers
CbFiberKept(t) == cb_fiber

\* schedule(fiber): the thread argument defaults to -1.
Requeued(f) == Append(m_fibers, FiberTask(f, None))

\* cb_fiber.reset(), on the callback branch only.
CbFiberReleased(t) == [cb_fiber EXCEPT ![t] = IF ft[t].fiber = None THEN None ELSE @]

\* READY: the fiber is scheduled again, for any thread.
SettleReady(t) ==
    LET f == Current(t) IN
    /\ pc[t] = "settle"
    /\ m_state[f] = "READY"
    /\ m_fibers' = Requeued(f)
    /\ cb_fiber' = CbFiberReleased(t)
    /\ ft' = [ft EXCEPT ![t] = NoTask]
    /\ pc' = [pc EXCEPT ![t] = "scan"]
    /\ UNCHANGED <<waiting, handles, idle_fiber, fiberVars, stopVars, countVars, ghostVars, overlapped>>

\* TERM or EXCEPT: cb_fiber is reset for the next callback, another fiber is
\* let go.
SettleEnded(t) ==
    LET f == Current(t) IN
    /\ pc[t] = "settle"
    /\ m_state[f] \in {"TERM", "EXCEPT"}
    /\ IF ft[t].fiber = None
          THEN /\ m_state' = [m_state EXCEPT ![f] = "INIT"]
               /\ m_cb' = [m_cb EXCEPT ![f] = None]
          ELSE UNCHANGED <<m_state, m_cb>>
    /\ ft' = [ft EXCEPT ![t] = NoTask]
    /\ pc' = [pc EXCEPT ![t] = "scan"]
    /\ UNCHANGED <<m_fibers, waiting, handles, cb_fiber, idle_fiber, s_fiber_id, stopVars,
                   countVars, ghostVars, overlapped>>

\* Anything else: HOLD is written (again) and the fiber is let go.
SettleHold(t) ==
    LET f == Current(t) IN
    /\ pc[t] = "settle"
    /\ m_state[f] \notin {"READY", "TERM", "EXCEPT"}
    /\ m_state' = [m_state EXCEPT ![f] = "HOLD"]
    /\ cb_fiber' = CbFiberReleased(t)
    /\ ft' = [ft EXCEPT ![t] = NoTask]
    /\ pc' = [pc EXCEPT ![t] = "scan"]
    /\ UNCHANGED <<m_fibers, waiting, handles, idle_fiber, m_cb, s_fiber_id, stopVars,
                   countVars, ghostVars, overlapped>>

\* The timer or event a fiber waits for schedules it, for any thread.  The hooks
\* register it before they yield, so with EarlyWake it may come at once, while a
\* thread is still on the fiber or has not settled it.
Wake(f) ==
    /\ f \in waiting
    /\ EarlyWake \/ \A t \in Pool : Current(t) # f
    /\ waiting' = waiting \ {f}
    /\ overlapped' = IF \E t \in Pool : Current(t) = f THEN overlapped \cup {f} ELSE overlapped
    /\ m_fibers' = Append(m_fibers, FiberTask(f, None))
    /\ UNCHANGED <<handles, threadVars, fiberVars, stopVars, countVars, ghostVars>>

-----------------------------------------------------------------------------
(* The owner's calls.                                                      *)

Start ==
    /\ owner \in {"idle", "returned"}
    /\ starts < MaxStarts
    /\ m_stopping
    /\ starts' = starts + 1
    /\ m_stopping' = FALSE
    /\ pc' = [t \in Pool |-> IF t \in Worker THEN "scan" ELSE pc[t]]
    /\ idle_fiber' = [t \in Pool |-> IF t \in Worker THEN "INIT" ELSE idle_fiber[t]]
    /\ owner' = "running"
    /\ UNCHANGED <<m_fibers, waiting, handles, ft, cb_fiber, fiberVars, m_autostop,
                   m_rootFiber, stops, countVars, ghostVars, overlapped>>

\* stop() up to its first look at stopping(), which it takes only when the
\* pool consists of the caller.
StopBegin ==
    /\ owner \in {"idle", "running", "returned"}
    /\ stops < MaxStops
    /\ stops' = stops + 1
    /\ m_autostop' = TRUE
    /\ IF UseCaller /\ Worker = {} /\ m_rootFiber \in {"TERM", "INIT"}
          THEN m_stopping' = TRUE /\ owner' = "stopCheck"
          ELSE owner' = "stopFlag" /\ UNCHANGED m_stopping
    /\ UNCHANGED <<m_fibers, waiting, handles, threadVars, fiberVars, m_rootFiber,
                   starts, countVars, ghostVars, overlapped>>

StopCheck ==
    /\ owner = "stopCheck"
    /\ owner' = IF stopping THEN "returned" ELSE "stopFlag"
    /\ UNCHANGED <<m_fibers, waiting, handles, threadVars, fiberVars, m_stopping, m_autostop,
                   m_rootFiber, starts, stops, countVars, ghostVars, overlapped>>

StopFlag ==
    /\ owner = "stopFlag"
    /\ m_stopping' = TRUE
    /\ owner' = "stopRoot"
    /\ UNCHANGED <<m_fibers, waiting, handles, threadVars, fiberVars, m_autostop,
                   m_rootFiber, starts, stops, countVars, ghostVars, overlapped>>

\* m_rootFiber->call() runs run() on the caller's thread.  A root fiber that
\* has ended resumes behind its last switch, at the "never reach" assertion.
StopRoot ==
    /\ owner = "stopRoot"
    /\ IF UseCaller /\ ~stopping
          THEN /\ pc' = [pc EXCEPT ![Caller] =
                            IF m_rootFiber = "INIT" THEN "scan" ELSE "neverReach"]
               /\ m_rootFiber' = "EXEC"
          ELSE UNCHANGED <<pc, m_rootFiber>>
    /\ owner' = "join"
    /\ UNCHANGED <<m_fibers, waiting, handles, ft, cb_fiber, idle_fiber, fiberVars,
                   m_stopping, m_autostop, starts, stops, countVars, ghostVars, overlapped>>

\* m_rootFiber is back, and every thread was joined.
Join ==
    /\ owner = "join"
    /\ \A t \in Pool : pc[t] \in {"off", "exit"}
    /\ pc' = [t \in Pool |-> "off"]
    /\ owner' = "returned"
    /\ UNCHANGED <<m_fibers, waiting, handles, ft, cb_fiber, idle_fiber, fiberVars,
                   m_stopping, m_autostop, m_rootFiber, starts, stops, countVars, ghostVars, overlapped>>

\* Between its calls the owner may do something else for ever.
OwnerElsewhere ==
    /\ owner \in {"idle", "running", "returned"}
    /\ UNCHANGED vars

-----------------------------------------------------------------------------
InFiber(t) ==
    \/ FiberSchedule(t) \/ YieldToReady(t) \/ Register(t) \/ YieldToHold(t)
    \/ Finish(t)

InRun(t) ==
    \/ Take(t) \/ TakeNothing(t)
    \/ SwapInFiber(t) \/ SwapInNewCb(t) \/ SwapInOldCb(t) \/ AssertFails(t)
    \/ DropEnded(t)
    \/ EnterIdle(t) \/ LeaveIdle(t) \/ Exit(t)
    \/ SwapOut(t) \/ SettleReady(t) \/ SettleEnded(t) \/ SettleHold(t)

Thread(t) == InRun(t) \/ InFiber(t)

Stopping == StopCheck \/ StopFlag \/ StopRoot \/ Join

\* A failed assertion has ended the process.
Aborted == \E t \in Pool : pc[t] \in {"abort", "neverReach"}

Next ==
    \/ /\ ~Aborted
       /\ \/ \E t \in Pool : Thread(t)
          \/ \E f \in Fiber : Wake(f) \/ OwnerReschedule(f)
          \/ OwnerSchedule \/ Start \/ StopBegin \/ Stopping
          \/ OwnerElsewhere
    \/ Aborted /\ UNCHANGED vars

Spec == Init /\ [][Next]_vars

\* Every thread that can take a step is eventually scheduled by the operating
\* system; the owner, once inside stop(), goes on.  Nothing obliges the owner
\* to submit, start or stop, or a wake-up to arrive.
Fairness == (\A t \in Pool : WF_vars(Thread(t))) /\ WF_vars(Stopping)

FairSpec == Spec /\ Fairness

-----------------------------------------------------------------------------
(* Properties.                                                             *)

TypeQueue == m_fibers \in Seq(Task)

TypeCounters == m_activeThreadCount \in Nat /\ m_idleThreadCount \in Nat

TypeThreads ==
    /\ pc \in [Pool -> Pc]
    /\ ft \in [Pool -> Task]
    /\ cb_fiber \in [Pool -> Fiber \cup {None}]
    /\ idle_fiber \in [Pool -> FiberState]

TypeFibers ==
    /\ m_state \in [Fiber -> FiberState \cup {"none"}]
    /\ m_cb \in [Fiber -> Job \cup {None}]
    /\ s_fiber_id \in 0 .. Cardinality(Job)

TypeStop ==
    /\ m_stopping \in BOOLEAN /\ m_autostop \in BOOLEAN
    /\ m_rootFiber \in FiberState \cup {"none"}
    /\ owner \in Owner
    /\ starts \in Nat /\ stops \in Nat

TypeWaits == waiting \subseteq Fiber /\ handles \subseteq Fiber /\ overlapped \subseteq Fiber

TypeGhosts ==
    /\ submitted \subseteq Job
    /\ runs \in [Job -> Nat] /\ yields \in [Job -> Nat]
    /\ pin \in [Job -> Pool \cup {None}]

\* The shape of the state: every variable keeps the values its declaration in
\* scheduler.h or fiber.h allows, and the two size_t counters never wrap.
TypeOK ==
    /\ TypeQueue /\ TypeCounters /\ TypeThreads /\ TypeFibers
    /\ TypeStop /\ TypeWaits /\ TypeGhosts

\* The threads between the pop that increments m_activeThreadCount and the
\* decrement on one of the three branches of run().
Active == {t \in Pool : \/ pc[t] \in OnStack \cup {"abort"}
                        \/ pc[t] = "dispatch" /\ ft[t] # NoTask}

Idling == {t \in Pool : pc[t] = "idle"}

\* The two counters that stopping() and hasIdleThreads() rely on are exact on
\* every path through run(): a missed or doubled decrement (they are size_t)
\* would keep stop() waiting for ever or let it end with work under way.
CountersExact ==
    /\ m_activeThreadCount = Cardinality(Active)
    /\ m_idleThreadCount = Cardinality(Idling)

\* Two threads of run() hold the same fiber, somewhere between swapIn() and the
\* write of its final state, only if that very fiber was scheduled while a thread
\* was on it: nothing else in run(), reset() and the recycling of cb_fiber gives
\* a stack two users, and a fiber woken too early does not draw others into it.
\* (What two threads on one stack do to memory is not modelled.)
ExclusiveRun ==
    \A s, t \in Pool :
        (s # t /\ pc[s] \in Holding /\ pc[t] \in Holding /\ Current(s) = Current(t)) =>
            Current(s) \in overlapped

\* m_state is EXEC exactly while a thread executes the fiber's own code: the
\* test for EXEC in run()'s scan and in swapIn() means what it says, for every
\* fiber that was not scheduled while it was in use.
ExecIsRunning ==
    \A f \in Fiber \ overlapped :
        (m_state[f] = "EXEC") <=> \E t \in Pool : pc[t] \in Running /\ Current(t) = f

\* A SYLAR_ASSERT of Fiber::swapIn or Fiber::reset fails only on a fiber that was
\* scheduled while it was in use, and the one of Fiber::CallerMainFunc never.
NoAbort ==
    \A t \in Pool : /\ pc[t] # "neverReach"
                    /\ pc[t] = "abort" => Current(t) \in overlapped

\* SYLAR_ASSERT(m_state != EXEC) of Fiber::swapIn, where run() calls it.
SwapInAssertion ==
    \A t \in Pool :
        (pc[t] = "dispatch" /\ ft[t].fiber # None) => m_state[ft[t].fiber] # "EXEC"

\* "never reach" of Fiber::CallerMainFunc: m_rootFiber is not resumed after its
\* function has returned.
NeverReachAssertion ==
    (owner = "stopRoot" /\ UseCaller /\ ~stopping) => m_rootFiber = "INIT"

\* A job submitted for a thread runs on that thread, all of it.
RunsWherePinned ==
    \A t \in Pool :
        (pc[t] \in Running /\ m_cb[Current(t)] # None) =>
            pin[m_cb[Current(t)]] \in {None, t}

\* A job submitted for a thread of the pool is entered some time.
PinnedJobStarts ==
    \A j \in Job : (j \in submitted /\ pin[j] \in Worker) ~> (runs[j] > 0)

\* A submitted callback is entered at most once, however often its fiber
\* yields, is woken or is recycled for other callbacks.
AtMostOnce == \A j \in Job : runs[j] <= 1

\* A job pinned to a thread is entered by that thread: the scan of every other
\* thread steps over it.
StartsWherePinned ==
    [][\A j \in Job :
          runs'[j] > runs[j] /\ pin[j] # None =>
             pc[pin[j]] = "dispatch" /\ pc'[pin[j]] = "user"]_vars

\* When stop() returns after joining a pool that ran, no work is left behind:
\* every submitted job was entered, no fiber is READY or EXEC, and what is in
\* m_fibers are fibers woken from HOLD after the threads had decided to end; only
\* a fiber that was scheduled while it was in use may be left otherwise.
StopDrains ==
    [][(owner = "join" /\ owner' = "returned" /\ \E t \in Pool : pc[t] = "exit") =>
          /\ \A j \in submitted : runs[j] > 0
          /\ \A f \in Fiber \ overlapped : m_state[f] \notin {"READY", "EXEC"}
          /\ \A i \in 1 .. Len(m_fibers) :
                 /\ m_fibers[i].fiber # None
                 /\ \/ m_state[m_fibers[i].fiber] = "HOLD"
                    \/ m_fibers[i].fiber \in overlapped]_vars

\* A call of stop() returns.
StopReturns == (owner \in {"stopCheck", "stopFlag", "stopRoot", "join"}) ~> (owner = "returned")

\* What the scheduler owes every job: the variables keep their types, a callback is
\* entered once at most, and, but for the fibers that were scheduled while they were in
\* use, EXEC means that a thread is in the fiber's code and no assertion fails, on every
\* path through run(), swapIn(), back() and reset().
JobsSound == TypeOK /\ ExecIsRunning /\ NoAbort /\ AtMostOnce

==============================================================================
