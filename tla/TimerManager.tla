---------------------------- MODULE TimerManager ----------------------------
(***************************************************************************)
(* The timers of sylar: Timer and TimerManager (timer.h, timer.cc).        *)
(*                                                                         *)
(* Clients add, cancel, refresh and reset timers.  The loopers are the     *)
(* threads that serve the manager, as the idle fibers of an IOManager do:  *)
(* they ask getNextTimer() how long to sleep, sleep, and collect the       *)
(* callbacks that are due with listExpiredCb().  Everything done under one *)
(* hold of m_mutex is one step; what the code does before it takes the     *)
(* lock or after it has released it is a step of its own.                  *)
(*                                                                         *)
(* The class leaves onTimerInsertedAtFront() to its user.  That of         *)
(* IOManager is tickle(), which writes nothing while a thread is idle: the *)
(* model records that it was called and lets no looper count on it.  What  *)
(* brings a sleeper back in any case is the ceiling on epoll_wait.  Time   *)
(* is counted in units; a callback is only present or null.                *)
(***************************************************************************)
EXTENDS Integers, FiniteSets

CONSTANTS
    Timer,     \* the Timer objects ever created
    Looper,    \* the threads that serve the timers
    Client,    \* the threads that call the public operations
    None,      \* null pointer, "no timer" (~0ull)
    Period,    \* the values of ms the clients use
    Hour,      \* the 60 * 60 * 1000 of detectClockRollover
    Ceiling,   \* the MAX_TIMEOUT of IOManager::idle
    Back,      \* by how much the wall clock may be set back
    MaxTime,   \* bound: the latest time of the wall clock
    MaxBacks,  \* bound: how often the clock is set back
    MaxCalls   \* bound: how many calls the clients make

ASSUME TimerAssumption ==
    /\ IsFiniteSet(Timer)
    /\ Looper \cap Client = {}
    /\ None \notin Int \cup Timer
    /\ Period \subseteq Nat /\ Back \subseteq Nat
    /\ Hour \in Nat /\ Ceiling \in Nat /\ MaxTime \in Nat /\ MaxBacks \in Nat /\ MaxCalls \in Nat

VARIABLES
    clock,             \* GetCurrentMS(), the wall clock
    m_timers,          \* the timers in the set, ordered by m_next
    m_cb,              \* Timer::m_cb is not null
    m_next,
    m_ms,
    m_recurring,
    m_tickled,
    m_previouse_time,
    pc,                \* where each looper and each client is
    call,              \* a client's arguments and the m_next it has computed
    wakeAt,            \* when a sleeping looper's time-out is over
    now_ms,            \* the time a looper read before it took the lock
    notified,          \* onTimerInsertedAtFront() was called since a looper came back
    crashed,           \* the process died on a null pointer
    calls,             \* calls made so far
    backs,             \* how often the clock was set back
    handles,           \* ghost: timers some addTimer() call has returned
    armed,             \* ghost: the time a timer's period is counted from
    before,            \* ghost: timers armed before the clock was set back
    fired,             \* ghost: how often listExpiredCb returned the callback
    cancelled          \* ghost: timers whose cancel() returned true

timerVars == <<m_timers, m_cb, m_next, m_ms, m_recurring>>
managerVars == <<m_tickled, m_previouse_time>>
looperVars == <<wakeAt, now_ms>>
ghostVars == <<handles, armed, before, fired, cancelled>>
vars == <<clock, timerVars, managerVars, pc, call, looperVars, notified, crashed,
          calls, backs, ghostVars>>

Created == handles \cup {call[c].timer : c \in Client}

NoCall == [timer |-> None, ms |-> 0, next |-> 0, flag |-> FALSE]

Init ==
    /\ clock = 0
    /\ m_timers = {}
    /\ m_cb = [tm \in Timer |-> FALSE]
    /\ m_next = [tm \in Timer |-> 0]
    /\ m_ms = [tm \in Timer |-> 0]
    /\ m_recurring = [tm \in Timer |-> FALSE]
    /\ m_tickled = FALSE
    /\ m_previouse_time = clock
    /\ pc = [p \in Looper \cup Client |-> IF p \in Looper THEN "next" ELSE "idle"]
    /\ call = [c \in Client |-> NoCall]
    /\ wakeAt = [l \in Looper |-> None]
    /\ now_ms = [l \in Looper |-> None]
    /\ notified = FALSE
    /\ crashed = FALSE
    /\ calls = 0
    /\ backs = 0
    /\ handles = {}
    /\ armed = [tm \in Timer |-> 0]
    /\ before = {}
    /\ fired = [tm \in Timer |-> 0]
    /\ cancelled = {}

-----------------------------------------------------------------------------
(* The wall clock.  A time-out of epoll_wait is a duration: it does not     *)
(* notice that the clock was set back.                                      *)

Tick ==
    /\ ~crashed /\ clock < MaxTime
    /\ clock' = clock + 1
    /\ UNCHANGED <<backs, timerVars, managerVars, pc, call, looperVars, notified, crashed,
                   calls, ghostVars>>

SetBack(d) ==
    /\ ~crashed /\ backs < MaxBacks
    /\ backs' = backs + 1
    /\ clock' = clock - d
    /\ wakeAt' = [l \in Looper |-> IF wakeAt[l] = None THEN None ELSE wakeAt[l] - d]
    /\ before' = m_timers \cup {call[c].timer : c \in Client}
    /\ UNCHANGED <<timerVars, managerVars, pc, call, now_ms, notified, crashed, calls,
                   handles, armed, fired, cancelled>>

-----------------------------------------------------------------------------
(* The clients.                                                             *)

Begin(c) == ~crashed /\ pc[c] = "idle" /\ calls < MaxCalls /\ calls' = calls + 1

\* Where Comparator puts tm in the set: first, or not.  Timers with the same
\* m_next are ordered by their addresses, which may be either way.
AtFront(tm, others, next) ==
    {b \in BOOLEAN :
        /\ b => \A o \in others : next[tm] <= next[o]
        /\ ~b => \E o \in others : next[o] <= next[tm]}

\* at_front: does this insertion have to bring a looper back?
Tickles(first) == first /\ ~m_tickled

\* addTimer(val, lock), after which the lock is released.
InsertTimer(c, tm, others) ==
    \E first \in AtFront(tm, others, m_next') :
        /\ m_timers' = others \cup {tm}
        /\ m_tickled' = (m_tickled \/ Tickles(first))
        /\ pc' = [pc EXCEPT ![c] = IF Tickles(first) THEN "notify" ELSE "idle"]

\* addTimer(ms, cb, recurring): the constructor reads the clock, the lock is
\* taken afterwards.
Construct(c, tm, ms, recurring) ==
    /\ Begin(c)
    /\ tm \notin Created
    /\ call' = [call EXCEPT ![c] = [timer |-> tm, ms |-> ms, next |-> clock + ms,
                                    flag |-> recurring]]
    /\ pc' = [pc EXCEPT ![c] = "insert"]
    /\ armed' = [armed EXCEPT ![tm] = clock]
    /\ UNCHANGED <<clock, backs, timerVars, managerVars, looperVars, notified, crashed,
                   handles, before, fired, cancelled>>

AddTimer(c) ==
    LET tm == call[c].timer IN
    /\ ~crashed /\ pc[c] = "insert"
    /\ m_cb' = [m_cb EXCEPT ![tm] = TRUE]
    /\ m_next' = [m_next EXCEPT ![tm] = call[c].next]
    /\ m_ms' = [m_ms EXCEPT ![tm] = call[c].ms]
    /\ m_recurring' = [m_recurring EXCEPT ![tm] = call[c].flag]
    /\ InsertTimer(c, tm, m_timers)
    /\ handles' = handles \cup {tm}
    /\ call' = [call EXCEPT ![c] = NoCall]
    /\ UNCHANGED <<clock, backs, m_previouse_time, looperVars, notified, crashed, calls,
                   armed, before, fired, cancelled>>

\* onTimerInsertedAtFront(), called without the lock.  IOManager's calls tickle(),
\* which returns at once while hasIdleThreads(), so that a looper in epoll_wait
\* sleeps on; if it does write, the next epoll_wait ends as soon as it begins,
\* which Awake allows at any time.
OnTimerInsertedAtFront(c) ==
    /\ ~crashed /\ pc[c] = "notify"
    /\ notified' = TRUE
    /\ pc' = [pc EXCEPT ![c] = "idle"]
    /\ UNCHANGED <<clock, backs, timerVars, managerVars, call, looperVars, crashed, calls,
                   ghostVars>>

\* Faulty variant: cancel() leaves the timer in the set.
NotErased(tm) == m_timers

Erased(tm) == m_timers \ {tm}

\* Timer::cancel.  erase(find(...)) needs the timer to be in the set; erasing
\* end() is undefined and taken to kill the process.
Cancel(c, tm) ==
    /\ Begin(c) /\ tm \in handles
    /\ IF m_cb[tm]
          THEN /\ m_cb' = [m_cb EXCEPT ![tm] = FALSE]
               /\ m_timers' = Erased(tm)
               /\ crashed' = (tm \notin m_timers)
               /\ cancelled' = cancelled \cup {tm}
          ELSE UNCHANGED <<m_cb, m_timers, crashed, cancelled>>
    /\ UNCHANGED <<clock, backs, m_next, m_ms, m_recurring, managerVars, pc, call, looperVars,
                   notified, handles, armed, before, fired>>

\* Timer::refresh
Refresh(c, tm) ==
    /\ Begin(c) /\ tm \in handles
    /\ IF m_cb[tm] /\ tm \in m_timers
          THEN /\ m_next' = [m_next EXCEPT ![tm] = clock + m_ms[tm]]
               /\ armed' = [armed EXCEPT ![tm] = clock]
               /\ before' = before \ {tm}
          ELSE UNCHANGED <<m_next, armed, before>>
    /\ UNCHANGED <<clock, backs, m_timers, m_cb, m_ms, m_recurring, managerVars, pc, call,
                   looperVars, notified, crashed, handles, fired, cancelled>>

\* Timer::reset compares m_ms before it takes the lock.
ResetCompare(c, tm, ms, from_now) ==
    /\ Begin(c) /\ tm \in handles
    /\ IF ms = m_ms[tm] /\ ~from_now
          THEN UNCHANGED <<pc, call>>
          ELSE /\ pc' = [pc EXCEPT ![c] = "reset"]
               /\ call' = [call EXCEPT ![c] = [timer |-> tm, ms |-> ms, next |-> 0,
                                               flag |-> from_now]]
    /\ UNCHANGED <<clock, backs, timerVars, managerVars, looperVars, notified, crashed,
                   ghostVars>>

\* start: the time the new period is counted from.
ResetStart(tm, from_now) == IF from_now THEN clock ELSE m_next[tm] - m_ms[tm]

Reset(c) ==
    LET tm == call[c].timer
        ms == call[c].ms IN
    /\ ~crashed /\ pc[c] = "reset"
    /\ IF m_cb[tm] /\ tm \in m_timers
          THEN /\ m_ms' = [m_ms EXCEPT ![tm] = ms]
               /\ m_next' = [m_next EXCEPT ![tm] = ResetStart(tm, call[c].flag) + ms]
               /\ InsertTimer(c, tm, m_timers \ {tm})
               /\ IF call[c].flag
                     THEN /\ armed' = [armed EXCEPT ![tm] = clock]
                          /\ before' = before \ {tm}
                     ELSE UNCHANGED <<armed, before>>
          ELSE /\ pc' = [pc EXCEPT ![c] = "idle"]
               /\ UNCHANGED <<m_timers, m_ms, m_next, m_tickled, armed, before>>
    /\ call' = [call EXCEPT ![c] = NoCall]
    /\ UNCHANGED <<clock, backs, m_cb, m_recurring, m_previouse_time, looperVars, notified,
                   crashed, calls, handles, fired, cancelled>>

-----------------------------------------------------------------------------
(* The loopers.                                                             *)

\* Faulty variant: m_tickled stays set.
StillTickled == m_tickled

NotTickled == FALSE

\* Faulty variant: without a timer epoll_wait has no time-out.
NoCeiling(next) == IF next # None /\ clock >= next THEN clock ELSE next

\* When epoll_wait(..., next_timeout) comes back at the latest: at the first m_next,
\* at once if that has passed, and never later than MAX_TIMEOUT.  (Distances stay
\* below 2^31 ms; IdleLoop has the longer ones.)
SleepUntil(next) ==
    IF next = None \/ next > clock + Ceiling THEN clock + Ceiling
    ELSE IF clock >= next THEN clock ELSE next

\* getNextTimer(), and the sleep its result is for.
GetNextTimer(l) ==
    /\ ~crashed /\ pc[l] = "next"
    /\ m_tickled' = NotTickled
    /\ \/ /\ m_timers = {}
          /\ wakeAt' = [wakeAt EXCEPT ![l] = SleepUntil(None)]
       \/ \E next \in {m_next[tm] : tm \in m_timers} :
             /\ \A tm \in m_timers : next <= m_next[tm]
             /\ wakeAt' = [wakeAt EXCEPT ![l] = SleepUntil(next)]
    /\ pc' = [pc EXCEPT ![l] = "sleep"]
    /\ UNCHANGED <<clock, backs, timerVars, m_previouse_time, call, now_ms, notified, crashed,
                   calls, ghostVars>>

\* A looper comes back for its time-out, a byte in the pipe, or an event of its own.
Awake(l) ==
    /\ ~crashed /\ pc[l] = "sleep"
    /\ pc' = [pc EXCEPT ![l] = "list"]
    /\ notified' = FALSE
    /\ wakeAt' = [wakeAt EXCEPT ![l] = None]
    /\ UNCHANGED <<clock, backs, timerVars, managerVars, call, now_ms, crashed, calls,
                   ghostVars>>

\* listExpiredCb reads the clock first.
ListNow(l) ==
    /\ ~crashed /\ pc[l] = "list"
    /\ now_ms' = [now_ms EXCEPT ![l] = clock]
    /\ pc' = [pc EXCEPT ![l] = "listEmpty"]
    /\ UNCHANGED <<clock, backs, timerVars, managerVars, call, wakeAt, notified, crashed,
                   calls, ghostVars>>

\* Under the read lock: nothing to do without timers.
ListEmpty(l) ==
    /\ ~crashed /\ pc[l] = "listEmpty"
    /\ pc' = [pc EXCEPT ![l] = IF m_timers = {} THEN "next" ELSE "listTake"]
    /\ now_ms' = [now_ms EXCEPT ![l] = IF m_timers = {} THEN None ELSE @]
    /\ UNCHANGED <<clock, backs, timerVars, managerVars, call, wakeAt, notified, crashed,
                   calls, ghostVars>>

detectClockRollover(now) ==
    now < m_previouse_time /\ now < m_previouse_time - Hour

\* Faulty variant: a timer is due one unit early.
DueNextUnit(now, rollover) == {tm \in m_timers : rollover \/ m_next[tm] <= now + 1}

\* The range of the set that lower_bound and the loop after it delimit.
Expired(now, rollover) == {tm \in m_timers : rollover \/ m_next[tm] <= now}

\* Faulty variant: an expired timer keeps its callback.
KeepsCallback(expired) == m_cb

\* m_cb of the expired timers: a recurring timer keeps it.
ClearedCallback(expired) ==
    [tm \in Timer |-> m_cb[tm] /\ ~(tm \in expired /\ ~m_recurring[tm])]

\* Under the write lock.  With an empty set begin() is end(), whose element is a
\* null pointer in the standard library of the build.
ListExpiredCb(l) ==
    LET now == now_ms[l]
        rollover == detectClockRollover(now)
        expired == Expired(now, rollover)
        again == {tm \in expired : m_recurring[tm]} IN
    /\ ~crashed /\ pc[l] = "listTake"
    /\ m_previouse_time' = now
    /\ pc' = [pc EXCEPT ![l] = "next"]
    /\ crashed' = (~rollover /\ m_timers = {})
    /\ m_timers' = (m_timers \ expired) \cup again
    /\ m_next' = [tm \in Timer |-> IF tm \in again THEN now + m_ms[tm] ELSE m_next[tm]]
    /\ m_cb' = ClearedCallback(expired)
    /\ fired' = [tm \in Timer |-> IF tm \in expired THEN fired[tm] + 1 ELSE fired[tm]]
    /\ armed' = [tm \in Timer |-> IF tm \in again THEN now ELSE armed[tm]]
    /\ before' = before \ expired
    /\ now_ms' = [now_ms EXCEPT ![l] = None]
    /\ UNCHANGED <<clock, backs, m_ms, m_recurring, m_tickled, call, wakeAt, notified,
                   calls, handles, cancelled>>

\* A dead process takes no step.
Dead == crashed /\ UNCHANGED vars

-----------------------------------------------------------------------------
Calls(c) ==
    \E tm \in Timer :
        \/ \E ms \in Period, flag \in BOOLEAN :
              Construct(c, tm, ms, flag) \/ ResetCompare(c, tm, ms, flag)
        \/ Cancel(c, tm)
        \/ Refresh(c, tm)

InCall(c) == AddTimer(c) \/ OnTimerInsertedAtFront(c) \/ Reset(c)

Serves(l) == GetNextTimer(l) \/ ListNow(l) \/ ListEmpty(l) \/ ListExpiredCb(l)

Next ==
    \/ Tick
    \/ \E d \in Back : SetBack(d)
    \/ \E c \in Client : Calls(c) \/ InCall(c)
    \/ \E l \in Looper : Serves(l) \/ Awake(l)
    \/ Dead

\* The time-out of the looper's epoll_wait is over.  It is a duration: when the
\* clock of the model has reached its bound it still runs off.
Due(l) == wakeAt[l] # None /\ (clock >= wakeAt[l] \/ clock = MaxTime)

\* Time passes and the threads run; nobody need call anything, and a looper need not
\* come back before its time-out is over.
Fairness ==
    /\ WF_vars(Tick)
    /\ \A c \in Client : WF_vars(InCall(c))
    /\ \A l \in Looper : WF_vars(Serves(l)) /\ WF_vars(Due(l) /\ Awake(l))

Spec == Init /\ [][Next]_vars /\ Fairness

-----------------------------------------------------------------------------
(* Properties.                                                              *)

TypeTimers ==
    /\ m_timers \subseteq Timer
    /\ m_cb \in [Timer -> BOOLEAN]
    /\ m_next \in [Timer -> IF backs = 0 THEN Nat ELSE Int]
    /\ m_ms \in [Timer -> Nat]
    /\ m_recurring \in [Timer -> BOOLEAN]

TypeManager ==
    /\ clock \in Int /\ m_previouse_time \in Int
    /\ m_tickled \in BOOLEAN /\ notified \in BOOLEAN /\ crashed \in BOOLEAN
    /\ calls \in 0 .. MaxCalls /\ backs \in 0 .. MaxBacks

TypeThreads ==
    /\ pc \in [Looper \cup Client ->
                 {"next", "sleep", "list", "listEmpty", "listTake",
                  "idle", "insert", "reset", "notify"}]
    /\ call \in [Client -> [timer : Timer \cup {None}, ms : Nat, next : Int,
                            flag : BOOLEAN]]
    /\ wakeAt \in [Looper -> Int \cup {None}]
    /\ now_ms \in [Looper -> Int \cup {None}]

TypeGhosts ==
    /\ handles \subseteq Timer /\ cancelled \subseteq Timer
    /\ before \subseteq Timer \cup {None}
    /\ armed \in [Timer -> Int]
    /\ fired \in [Timer -> Nat]

\* The variables keep the types of the members and locals they stand for; m_next,
\* an unsigned sum and difference of times, stays a natural number.
TypeOK == TypeTimers /\ TypeManager /\ TypeThreads /\ TypeGhosts

\* A timer has its callback exactly while it is in m_timers, whoever cancels, resets
\* or collects it: what cancel() relies on when it erases what find() returned, and
\* what makes the second test of refresh() and reset() never fail.
LiveIffQueued == ~crashed => \A tm \in Timer : m_cb[tm] <=> tm \in m_timers

\* The m_tickled protocol of addTimer and getNextTimer loses no insertion: while
\* timers are set, a looper is on its way to getNextTimer(), or onTimerInsertedAtFront()
\* is about to be called or was called since a looper last came back, or one of the
\* sleeping loopers comes back at once or before the first timer is due.  (What
\* IOManager makes of the call is its own matter: see DueFires.)
FrontCovered ==
    (m_timers # {} /\ ~crashed) =>
        \/ notified
        \/ \E c \in Client : pc[c] = "notify"
        \/ \E l \in Looper :
              \/ pc[l] # "sleep"
              \/ /\ wakeAt[l] # None
                 /\ wakeAt[l] <= clock \/ \A tm \in m_timers : wakeAt[l] <= m_next[tm]

\* No callback is collected by listExpiredCb before the timer's period has passed
\* since it was armed (added, refreshed, reset from now, or last fired), unless it
\* was armed before the clock was set back.
NotEarly ==
    [][\A tm \in Timer : fired'[tm] # fired[tm] =>
          tm \in before \/ clock >= armed[tm] + m_ms[tm]]_vars

\* A callback is collected at most once for a timer that does not recur, and never
\* after cancel() has returned true, whatever collectors and cancellers do meanwhile.
FiresOnce ==
    [][\A tm \in Timer : fired'[tm] # fired[tm] =>
          /\ tm \notin cancelled
          /\ fired'[tm] = fired[tm] + 1
          /\ m_recurring[tm] \/ fired[tm] = 0]_vars

\* A timer that is due leaves the set or gets a later m_next (it is collected,
\* cancelled or armed again), although the loopers decided how long to sleep before
\* the timer was there and nothing that addTimer() does wakes them: it rests on the
\* ceiling of idle()'s epoll_wait, and on every path from there through
\* listExpiredCb() back to getNextTimer().
DueFires ==
    \A tm \in Timer :
        (tm \in m_timers /\ m_next[tm] <= clock) ~>
            (tm \notin m_timers \/ m_next[tm] > clock)

\* listExpiredCb returns the callbacks that are due instead of reading the element of
\* end() when another looper has emptied the set between its two locks.
CollectReturns == ~crashed

\* The types, and a callback exactly while the timer is queued, whatever cancel(),
\* refresh(), reset() and listExpiredCb() of several threads do to it.
TimersSound == TypeOK /\ LiveIffQueued

=============================================================================
