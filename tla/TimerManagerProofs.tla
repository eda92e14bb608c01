------------------------- MODULE TimerManagerProofs -------------------------
(* Theorems about TimerManager, for every set of timers, loopers and       *)
(* clients and every period.                                               *)
EXTENDS TimerManager, TLAPS

(* Types.  m_next is a natural number until the clock is set back because   *)
(* every time it is computed from is one, and because m_next >= m_ms where  *)
(* reset() subtracts.                                                       *)

\* Who is where, and what a thread in the middle of a call has at hand.
Places ==
    /\ \A l \in Looper :
          /\ pc[l] \in {"next", "sleep", "list", "listEmpty", "listTake"}
          /\ pc[l] \in {"listEmpty", "listTake"} => now_ms[l] # None
    /\ \A c \in Client :
          /\ pc[c] \in {"idle", "insert", "reset", "notify"}
          /\ pc[c] \in {"insert", "reset"} => call[c].timer # None

\* The times read from a clock that was never set back.
TimesNatural ==
    backs = 0 =>
        /\ clock >= 0
        /\ \A l \in Looper : now_ms[l] # None => now_ms[l] >= 0
        /\ \A c \in Client : pc[c] = "insert" => call[c].next >= call[c].ms
        /\ \A tm \in Timer : m_next[tm] >= m_ms[tm]

TypeInt ==
    /\ m_timers \subseteq Timer
    /\ m_cb \in [Timer -> BOOLEAN]
    /\ m_next \in [Timer -> Int]
    /\ m_ms \in [Timer -> Nat]
    /\ m_recurring \in [Timer -> BOOLEAN]

Typed == TypeInt /\ TypeManager /\ TypeThreads /\ TypeGhosts /\ Places

Natural == Typed /\ TimesNatural

(* The initial state is well typed and no timer is in the set yet. *)
LEMMA TypedInit == Init => Natural /\ LiveIffQueued
<1> SUFFICES ASSUME Init PROVE Natural /\ LiveIffQueued
  OBVIOUS
<1>1. TypeInt /\ TypeGhosts
  BY DEF Init, TypeInt, TypeGhosts
<1>2. TypeManager
  <2>1. clock \in Int /\ m_previouse_time \in Int /\ calls \in 0 .. MaxCalls /\ backs \in 0 .. MaxBacks
    BY TimerAssumption DEF Init
  <2> QED BY <2>1 DEF Init, TypeManager
<1>3. TypeThreads
  BY TimerAssumption DEF Init, TypeThreads, NoCall
<1>4. Places
  BY TimerAssumption DEF Init, Places
<1>5. TimesNatural
  BY DEF Init, TimesNatural
<1>6. LiveIffQueued
  BY DEF Init, LiveIffQueued
<1> QED BY <1>1, <1>2, <1>3, <1>4, <1>5, <1>6 DEF Typed, Natural

(* Types: every step keeps the clock, the deadlines and the places of the
   threads in their sets. *)
LEMMA TypedNext == Natural /\ [Next]_vars => Natural'
<1> SUFFICES ASSUME Natural, [Next]_vars PROVE Natural'
  OBVIOUS
<1>0. Next \/ UNCHANGED vars
  OBVIOUS
<1> USE TimerAssumption
<1> USE DEF Natural, Typed, TypeInt, TypeManager, TypeThreads, TypeGhosts, Places, TimesNatural,
            timerVars, managerVars, looperVars, ghostVars
<1>1. CASE Tick
  BY <1>1 DEF Tick
<1>2. ASSUME NEW d \in Back, SetBack(d) PROVE Natural'
  <2>1. before' \subseteq Timer \cup {None}
    BY <1>2 DEF SetBack
  <2>2. wakeAt' \in [Looper -> Int \cup {None}]
    BY <1>2 DEF SetBack
  <2> QED BY <1>2, <2>1, <2>2 DEF SetBack
<1>3. ASSUME NEW c \in Client, NEW tm \in Timer, NEW ms \in Period, NEW flag \in BOOLEAN,
             Construct(c, tm, ms, flag)
      PROVE  Natural'
  BY <1>3 DEF Construct, Begin
<1>4. ASSUME NEW c \in Client, AddTimer(c) PROVE Natural'
  BY <1>4 DEF AddTimer, InsertTimer, AtFront, Tickles, NoCall
<1>5. ASSUME NEW c \in Client, OnTimerInsertedAtFront(c) PROVE Natural'
  BY <1>5 DEF OnTimerInsertedAtFront
<1>6. ASSUME NEW c \in Client, NEW tm \in Timer, Cancel(c, tm) PROVE Natural'
  <2>1. /\ calls' \in 0 .. MaxCalls
        /\ UNCHANGED <<clock, m_previouse_time, m_tickled, notified, backs>>
    BY <1>6 DEF Cancel, Begin
  <2>2. crashed' \in BOOLEAN
    BY <1>6 DEF Cancel
  <2>3. TypeManager'
    BY <2>1, <2>2
  <2>4. TypeInt' /\ TypeGhosts'
    <3>1. CASE m_cb[tm]
      <4>1. /\ m_cb' = [m_cb EXCEPT ![tm] = FALSE]
            /\ m_timers' = m_timers \ {tm}
            /\ cancelled' = cancelled \cup {tm}
            /\ UNCHANGED <<m_next, m_ms, m_recurring, handles, armed, before, fired>>
        BY <1>6, <3>1 DEF Cancel, Erased
      <4> QED BY <4>1
    <3>2. CASE ~m_cb[tm]
      BY <1>6, <3>2 DEF Cancel
    <3> QED BY <3>1, <3>2
  <2>5. TypeThreads' /\ Places' /\ TimesNatural'
    BY <1>6 DEF Cancel
  <2> QED BY <2>3, <2>4, <2>5
<1>7. ASSUME NEW c \in Client, NEW tm \in Timer, Refresh(c, tm) PROVE Natural'
  BY <1>7 DEF Refresh, Begin
<1>8. ASSUME NEW c \in Client, NEW tm \in Timer, NEW ms \in Period, NEW flag \in BOOLEAN,
             ResetCompare(c, tm, ms, flag)
      PROVE  Natural'
  BY SMTT(30), <1>8 DEF ResetCompare, Begin
<1>9. ASSUME NEW c \in Client, Reset(c) PROVE Natural'
  <2> DEFINE tm == call[c].timer
             ms == call[c].ms
  <2>0. tm \in Timer /\ ms \in Nat /\ pc[c] = "reset"
    BY <1>9 DEF Reset
  <2>1. CASE m_cb[tm] /\ tm \in m_timers
    <3>1. PICK first \in BOOLEAN :
              /\ m_timers' = (m_timers \ {tm}) \cup {tm}
              /\ m_tickled' = (m_tickled \/ Tickles(first))
              /\ pc' = [pc EXCEPT ![c] = IF Tickles(first) THEN "notify" ELSE "idle"]
      BY <1>9, <2>1 DEF Reset, InsertTimer, AtFront
    <3>2. m_tickled' \in BOOLEAN
      BY <3>1
    <3>3. /\ UNCHANGED <<clock, backs, m_cb, m_recurring, m_previouse_time, looperVars,
                         notified, crashed, calls, handles, fired, cancelled>>
          /\ m_ms' = [m_ms EXCEPT ![tm] = ms]
          /\ m_next' = [m_next EXCEPT ![tm] = ResetStart(tm, call[c].flag) + ms]
          /\ call' = [call EXCEPT ![c] = NoCall]
          /\ armed' \in [Timer -> Int] /\ before' \subseteq before
      BY <1>9, <2>1 DEF Reset
    <3>4. ResetStart(tm, call[c].flag) \in Int
          /\ (backs = 0 => ResetStart(tm, call[c].flag) >= 0)
      BY <2>0 DEF ResetStart
    <3>5. TypeInt' /\ TypeManager' /\ TypeGhosts'
      BY <2>0, <3>1, <3>2, <3>3, <3>4
    <3>6. TypeThreads' /\ Places'
      BY <2>0, <3>1, <3>3 DEF NoCall
    <3>7. TimesNatural'
      BY <2>0, <3>1, <3>3, <3>4 DEF NoCall
    <3> QED BY <3>5, <3>6, <3>7
  <2>2. CASE ~(m_cb[tm] /\ tm \in m_timers)
    <3>1. /\ pc' = [pc EXCEPT ![c] = "idle"]
          /\ UNCHANGED <<m_timers, m_ms, m_next, m_tickled, armed, before>>
      BY <1>9, <2>2 DEF Reset
    <3>2. /\ call' = [call EXCEPT ![c] = NoCall]
          /\ UNCHANGED <<clock, backs, m_cb, m_recurring, m_previouse_time, looperVars,
                         notified, crashed, calls, handles, fired, cancelled>>
      BY <1>9 DEF Reset
    <3> QED BY <3>1, <3>2 DEF NoCall
  <2> QED BY <2>1, <2>2
<1>10. ASSUME NEW l \in Looper, GetNextTimer(l) PROVE Natural'
  <2>1. wakeAt' \in [Looper -> Int \cup {None}]
    <3>1. \A next \in Int \cup {None} : SleepUntil(next) \in Int
      BY DEF SleepUntil
    <3>2. PICK next \in Int \cup {None} :
              wakeAt' = [wakeAt EXCEPT ![l] = SleepUntil(next)]
      <4>1. {m_next[tm] : tm \in m_timers} \subseteq Int
        OBVIOUS
      <4>2. CASE wakeAt' = [wakeAt EXCEPT ![l] = SleepUntil(None)]
        BY <4>2
      <4>3. CASE \E next \in {m_next[tm] : tm \in m_timers} :
                    wakeAt' = [wakeAt EXCEPT ![l] = SleepUntil(next)]
        BY <4>1, <4>3
      <4> QED BY <1>10, <4>2, <4>3 DEF GetNextTimer
    <3> QED BY <3>1, <3>2
  <2>2. /\ m_tickled' = FALSE /\ pc' = [pc EXCEPT ![l] = "sleep"]
        /\ UNCHANGED <<clock, backs, timerVars, m_previouse_time, call, now_ms, notified,
                       crashed, calls, ghostVars>>
    BY <1>10 DEF GetNextTimer, NotTickled
  <2> QED BY <2>1, <2>2
<1>11. ASSUME NEW l \in Looper, Awake(l) PROVE Natural'
  BY <1>11 DEF Awake
<1>12. ASSUME NEW l \in Looper, ListNow(l) PROVE Natural'
  BY <1>12 DEF ListNow
<1>13. ASSUME NEW l \in Looper, ListEmpty(l) PROVE Natural'
  BY <1>13 DEF ListEmpty
<1>14. ASSUME NEW l \in Looper, ListExpiredCb(l) PROVE Natural'
  BY <1>14 DEF ListExpiredCb, Expired, ClearedCallback, detectClockRollover
<1>15. CASE Dead \/ UNCHANGED vars
  BY <1>15 DEF Dead, vars
<1> HIDE DEF Natural
<1> QED
  BY <1>0, <1>1, <1>2, <1>3, <1>4, <1>5, <1>6, <1>7, <1>8, <1>9, <1>10, <1>11, <1>12, <1>13,
     <1>14, <1>15
     DEF Next, Calls, InCall, Serves

-----------------------------------------------------------------------------
(* The set and the callbacks.                                               *)

(* A timer has its callback exactly as long as it is in m_timers: every path
   that erases one (cancel, an expired one-shot timer) also clears m_cb, and
   refresh and reset put the timer back that they took out. *)
LEMMA LiveNext == Natural /\ LiveIffQueued /\ [Next]_vars => LiveIffQueued'
<1> SUFFICES ASSUME Natural, LiveIffQueued, [Next]_vars PROVE LiveIffQueued'
  OBVIOUS
<1>0. Next \/ UNCHANGED vars
  OBVIOUS
<1> USE TimerAssumption
<1> USE DEF Natural, Typed, TypeInt, TypeManager, TypeThreads, TypeGhosts, Places, LiveIffQueued,
            timerVars, managerVars, looperVars, ghostVars
<1>1. CASE Tick
  BY <1>1 DEF Tick
<1>2. ASSUME NEW d \in Back, SetBack(d) PROVE LiveIffQueued'
  BY <1>2 DEF SetBack
<1>3. ASSUME NEW c \in Client, NEW tm \in Timer, NEW ms \in Period, NEW flag \in BOOLEAN,
             Construct(c, tm, ms, flag)
      PROVE  LiveIffQueued'
  BY <1>3 DEF Construct, Begin
<1>4. ASSUME NEW c \in Client, AddTimer(c) PROVE LiveIffQueued'
  BY <1>4 DEF AddTimer, InsertTimer
<1>5. ASSUME NEW c \in Client, OnTimerInsertedAtFront(c) PROVE LiveIffQueued'
  BY <1>5 DEF OnTimerInsertedAtFront
<1>6. ASSUME NEW c \in Client, NEW tm \in Timer, Cancel(c, tm) PROVE LiveIffQueued'
  BY <1>6 DEF Cancel, Begin, Erased
<1>7. ASSUME NEW c \in Client, NEW tm \in Timer, Refresh(c, tm) PROVE LiveIffQueued'
  BY <1>7 DEF Refresh, Begin
<1>8. ASSUME NEW c \in Client, NEW tm \in Timer, NEW ms \in Period, NEW flag \in BOOLEAN,
             ResetCompare(c, tm, ms, flag)
      PROVE  LiveIffQueued'
  BY <1>8 DEF ResetCompare, Begin
<1>9. ASSUME NEW c \in Client, Reset(c) PROVE LiveIffQueued'
  BY <1>9 DEF Reset, InsertTimer
<1>10. ASSUME NEW l \in Looper, GetNextTimer(l) PROVE LiveIffQueued'
  BY <1>10 DEF GetNextTimer
<1>11. ASSUME NEW l \in Looper, Awake(l) PROVE LiveIffQueued'
  BY <1>11 DEF Awake
<1>12. ASSUME NEW l \in Looper, ListNow(l) PROVE LiveIffQueued'
  BY <1>12 DEF ListNow
<1>13. ASSUME NEW l \in Looper, ListEmpty(l) PROVE LiveIffQueued'
  BY <1>13 DEF ListEmpty
<1>14. ASSUME NEW l \in Looper, ListExpiredCb(l) PROVE LiveIffQueued'
  BY <1>14 DEF ListExpiredCb, Expired, ClearedCallback, detectClockRollover
<1>15. CASE Dead \/ UNCHANGED vars
  BY <1>15 DEF Dead, vars
<1> HIDE DEF LiveIffQueued
<1> QED
  BY <1>0, <1>1, <1>2, <1>3, <1>4, <1>5, <1>6, <1>7, <1>8, <1>9, <1>10, <1>11, <1>12, <1>13,
     <1>14, <1>15
     DEF Next, Calls, InCall, Serves

\* For every number of timers, loopers and clients, with the clock set back as often
\* as one likes: the types hold, m_next does not wrap below zero while the clock runs
\* forward, and a timer has its callback exactly while it is in m_timers.
THEOREM TimersAreSound == Spec => []TimersSound
<1>1. Natural /\ LiveIffQueued => TimersSound
  <2> SUFFICES ASSUME Natural PROVE TypeOK
    BY DEF TimersSound
  <2>1. m_next \in [Timer -> IF backs = 0 THEN Nat ELSE Int]
    BY DEF Natural, Typed, TypeInt, TimesNatural
  <2> QED BY <2>1 DEF Natural, Typed, TypeInt, TypeOK, TypeTimers
<1> QED BY TypedInit, TypedNext, LiveNext, <1>1, PTL DEF Spec

-----------------------------------------------------------------------------
(* A callback is collected once.                                            *)

\* A timer in a client's hands before it is in the set is known to nobody else.
Unborn ==
    /\ \A c \in Client : pc[c] = "insert" =>
          /\ call[c].timer \notin handles
          /\ \A d \in Client : call[d].timer = call[c].timer => d = c
    /\ m_timers \subseteq handles /\ cancelled \subseteq handles
    /\ \A tm \in Timer : fired[tm] # 0 => tm \in handles

\* What is in the set was not cancelled, and has not fired unless it recurs.
Unspent ==
    \A tm \in m_timers : tm \notin cancelled /\ (m_recurring[tm] \/ fired[tm] = 0)

(* A timer between its construction and addTimer's insertion stays unknown to
   everybody but the client that constructed it. *)
LEMMA UnbornNext == Natural /\ Unborn /\ [Next]_vars => Unborn'
<1> SUFFICES ASSUME Natural, Unborn, [Next]_vars PROVE Unborn'
  OBVIOUS
<1>0. Next \/ UNCHANGED vars
  OBVIOUS
<1> USE TimerAssumption
<1> USE DEF Natural, Typed, TypeInt, TypeManager, TypeThreads, TypeGhosts, Places, Unborn,
            timerVars, managerVars, looperVars, ghostVars
<1>1. CASE Tick
  BY <1>1 DEF Tick
<1>2. ASSUME NEW d \in Back, SetBack(d) PROVE Unborn'
  BY <1>2 DEF SetBack
<1>3. ASSUME NEW c \in Client, NEW tm \in Timer, NEW ms \in Period, NEW flag \in BOOLEAN,
             Construct(c, tm, ms, flag)
      PROVE  Unborn'
  BY <1>3 DEF Construct, Begin, Created
<1>4. ASSUME NEW c \in Client, AddTimer(c) PROVE Unborn'
  BY <1>4 DEF AddTimer, InsertTimer, NoCall
<1>5. ASSUME NEW c \in Client, OnTimerInsertedAtFront(c) PROVE Unborn'
  BY <1>5 DEF OnTimerInsertedAtFront
<1>6. ASSUME NEW c \in Client, NEW tm \in Timer, Cancel(c, tm) PROVE Unborn'
  BY <1>6 DEF Cancel, Begin, Erased
<1>7. ASSUME NEW c \in Client, NEW tm \in Timer, Refresh(c, tm) PROVE Unborn'
  BY <1>7 DEF Refresh, Begin
<1>8. ASSUME NEW c \in Client, NEW tm \in Timer, NEW ms \in Period, NEW flag \in BOOLEAN,
             ResetCompare(c, tm, ms, flag)
      PROVE  Unborn'
  BY <1>8 DEF ResetCompare, Begin
<1>9. ASSUME NEW c \in Client, Reset(c) PROVE Unborn'
  BY <1>9 DEF Reset, InsertTimer, NoCall
<1>10. ASSUME NEW l \in Looper, GetNextTimer(l) PROVE Unborn'
  BY <1>10 DEF GetNextTimer
<1>11. ASSUME NEW l \in Looper, Awake(l) PROVE Unborn'
  BY <1>11 DEF Awake
<1>12. ASSUME NEW l \in Looper, ListNow(l) PROVE Unborn'
  BY <1>12 DEF ListNow
<1>13. ASSUME NEW l \in Looper, ListEmpty(l) PROVE Unborn'
  BY <1>13 DEF ListEmpty
<1>14. ASSUME NEW l \in Looper, ListExpiredCb(l) PROVE Unborn'
  BY <1>14 DEF ListExpiredCb, Expired, ClearedCallback, detectClockRollover
<1>15. CASE Dead \/ UNCHANGED vars
  BY <1>15 DEF Dead, vars
<1> HIDE DEF Unborn
<1> QED
  BY <1>0, <1>1, <1>2, <1>3, <1>4, <1>5, <1>6, <1>7, <1>8, <1>9, <1>10, <1>11, <1>12, <1>13,
     <1>14, <1>15
     DEF Next, Calls, InCall, Serves

(* Nothing cancelled, and no one-shot timer that fired, comes back into m_timers. *)
LEMMA UnspentNext == Natural /\ LiveIffQueued /\ Unborn /\ Unspent /\ [Next]_vars => Unspent'
<1> SUFFICES ASSUME Natural, LiveIffQueued, Unborn, Unspent, [Next]_vars PROVE Unspent'
  OBVIOUS
<1>0. Next \/ UNCHANGED vars
  OBVIOUS
<1> USE TimerAssumption
<1> USE DEF Natural, Typed, TypeInt, TypeManager, TypeThreads, TypeGhosts, Places, Unborn,
            LiveIffQueued, Unspent, timerVars, managerVars, looperVars, ghostVars
<1>1. CASE Tick
  BY <1>1 DEF Tick
<1>2. ASSUME NEW d \in Back, SetBack(d) PROVE Unspent'
  BY <1>2 DEF SetBack
<1>3. ASSUME NEW c \in Client, NEW tm \in Timer, NEW ms \in Period, NEW flag \in BOOLEAN,
             Construct(c, tm, ms, flag)
      PROVE  Unspent'
  BY <1>3 DEF Construct, Begin
<1>4. ASSUME NEW c \in Client, AddTimer(c) PROVE Unspent'
  BY <1>4 DEF AddTimer, InsertTimer
<1>5. ASSUME NEW c \in Client, OnTimerInsertedAtFront(c) PROVE Unspent'
  BY <1>5 DEF OnTimerInsertedAtFront
<1>6. ASSUME NEW c \in Client, NEW tm \in Timer, Cancel(c, tm) PROVE Unspent'
  BY <1>6 DEF Cancel, Begin, Erased
<1>7. ASSUME NEW c \in Client, NEW tm \in Timer, Refresh(c, tm) PROVE Unspent'
  BY <1>7 DEF Refresh, Begin
<1>8. ASSUME NEW c \in Client, NEW tm \in Timer, NEW ms \in Period, NEW flag \in BOOLEAN,
             ResetCompare(c, tm, ms, flag)
      PROVE  Unspent'
  BY <1>8 DEF ResetCompare, Begin
<1>9. ASSUME NEW c \in Client, Reset(c) PROVE Unspent'
  BY <1>9 DEF Reset, InsertTimer
<1>10. ASSUME NEW l \in Looper, GetNextTimer(l) PROVE Unspent'
  BY <1>10 DEF GetNextTimer
<1>11. ASSUME NEW l \in Looper, Awake(l) PROVE Unspent'
  BY <1>11 DEF Awake
<1>12. ASSUME NEW l \in Looper, ListNow(l) PROVE Unspent'
  BY <1>12 DEF ListNow
<1>13. ASSUME NEW l \in Looper, ListEmpty(l) PROVE Unspent'
  BY <1>13 DEF ListEmpty
<1>14. ASSUME NEW l \in Looper, ListExpiredCb(l) PROVE Unspent'
  BY <1>14 DEF ListExpiredCb, Expired, ClearedCallback, detectClockRollover
<1>15. CASE Dead \/ UNCHANGED vars
  BY <1>15 DEF Dead, vars
<1> HIDE DEF Unspent
<1> QED
  BY <1>0, <1>1, <1>2, <1>3, <1>4, <1>5, <1>6, <1>7, <1>8, <1>9, <1>10, <1>11, <1>12, <1>13,
     <1>14, <1>15
     DEF Next, Calls, InCall, Serves

\* Only listExpiredCb collects callbacks.
LEMMA OnlyListFires ==
    ASSUME [Next]_vars
    PROVE  UNCHANGED fired \/ \E l \in Looper : ListExpiredCb(l)
  BY ZenonT(60) DEF Next, Calls, InCall, Serves, Tick, SetBack, Construct, AddTimer, OnTimerInsertedAtFront,
         Cancel, Refresh, ResetCompare, Reset, GetNextTimer, Awake, ListNow, ListEmpty, Dead,
         vars, ghostVars

\* For every number of timers, loopers and clients, with the clock set back as often
\* as one likes: a callback that does not recur is collected at most once, and never
\* after cancel() has returned true.
THEOREM FiresAtMostOnce == Spec => FiresOnce
<1> DEFINE Inv == Natural /\ LiveIffQueued /\ Unborn /\ Unspent
           Once == \A tm \in Timer : fired'[tm] # fired[tm] =>
                      /\ tm \notin cancelled
                      /\ fired'[tm] = fired[tm] + 1
                      /\ m_recurring[tm] \/ fired[tm] = 0
<1>1. Init => Inv
  <2>1. Init => Unborn /\ Unspent
    BY DEF Init, Unborn, Unspent
  <2> QED BY <2>1, TypedInit
<1>2. Inv /\ [Next]_vars => Inv'
  BY TypedNext, LiveNext, UnbornNext, UnspentNext
<1>3. Inv /\ [Next]_vars => [Once]_vars
  <2> SUFFICES ASSUME Inv, [Next]_vars PROVE Once
    OBVIOUS
  <2>1. CASE UNCHANGED fired
    BY <2>1
  <2>2. ASSUME NEW l \in Looper, ListExpiredCb(l) PROVE Once
    BY <2>2 DEF ListExpiredCb, Expired, Unspent, Natural, Typed, TypeGhosts
  <2> QED BY <2>1, <2>2, OnlyListFires
<1> QED BY <1>1, <1>2, <1>3, PTL DEF Spec, FiresOnce

-----------------------------------------------------------------------------
(* Times, while the clock is not set back.                                  *)

\* A timer's m_next is the time it was armed at plus its period; what the threads
\* have read from the clock is past.
Armed ==
    /\ m_previouse_time <= clock
    /\ \A l \in Looper : now_ms[l] # None => now_ms[l] <= clock
    /\ \A tm \in m_timers : m_next[tm] = armed[tm] + m_ms[tm] /\ armed[tm] <= clock
    /\ \A c \in Client : pc[c] = "insert" =>
          /\ call[c].next = armed[call[c].timer] + call[c].ms
          /\ armed[call[c].timer] <= clock

(* With a clock that only goes forward, a deadline stays its period after the
   moment the timer was armed, and no reading of the clock is ahead of it. *)
LEMMA ArmedNext ==
    ASSUME Back = {}
    PROVE  Natural /\ Unborn /\ Armed /\ [Next]_vars => Armed'
<1> SUFFICES ASSUME Natural, Unborn, Armed, [Next]_vars PROVE Armed'
  OBVIOUS
<1>0. Next \/ UNCHANGED vars
  OBVIOUS
<1> USE TimerAssumption
<1> USE DEF Natural, Typed, TypeInt, TypeManager, TypeThreads, TypeGhosts, Places, Unborn,
            Armed, timerVars, managerVars, looperVars, ghostVars
<1>1. CASE Tick
  BY <1>1 DEF Tick
<1>2. ASSUME NEW d \in Back, SetBack(d) PROVE Armed'
  BY <1>2 DEF SetBack
<1>3. ASSUME NEW c \in Client, NEW tm \in Timer, NEW ms \in Period, NEW flag \in BOOLEAN,
             Construct(c, tm, ms, flag)
      PROVE  Armed'
  BY <1>3 DEF Construct, Begin, Created
<1>4. ASSUME NEW c \in Client, AddTimer(c) PROVE Armed'
  BY <1>4 DEF AddTimer, InsertTimer, NoCall
<1>5. ASSUME NEW c \in Client, OnTimerInsertedAtFront(c) PROVE Armed'
  BY <1>5 DEF OnTimerInsertedAtFront
<1>6. ASSUME NEW c \in Client, NEW tm \in Timer, Cancel(c, tm) PROVE Armed'
  BY <1>6 DEF Cancel, Begin, Erased
<1>7. ASSUME NEW c \in Client, NEW tm \in Timer, Refresh(c, tm) PROVE Armed'
  BY <1>7 DEF Refresh, Begin
<1>8. ASSUME NEW c \in Client, NEW tm \in Timer, NEW ms \in Period, NEW flag \in BOOLEAN,
             ResetCompare(c, tm, ms, flag)
      PROVE  Armed'
  BY <1>8 DEF ResetCompare, Begin
<1>9. ASSUME NEW c \in Client, Reset(c) PROVE Armed'
  BY <1>9 DEF Reset, InsertTimer, NoCall, ResetStart
<1>10. ASSUME NEW l \in Looper, GetNextTimer(l) PROVE Armed'
  BY <1>10 DEF GetNextTimer
<1>11. ASSUME NEW l \in Looper, Awake(l) PROVE Armed'
  BY <1>11 DEF Awake
<1>12. ASSUME NEW l \in Looper, ListNow(l) PROVE Armed'
  BY <1>12 DEF ListNow
<1>13. ASSUME NEW l \in Looper, ListEmpty(l) PROVE Armed'
  BY <1>13 DEF ListEmpty
<1>14. ASSUME NEW l \in Looper, ListExpiredCb(l) PROVE Armed'
  BY <1>14 DEF ListExpiredCb, Expired, ClearedCallback, detectClockRollover
<1>15. CASE Dead \/ UNCHANGED vars
  BY <1>15 DEF Dead, vars
<1> HIDE DEF Armed
<1> QED
  BY <1>0, <1>1, <1>2, <1>3, <1>4, <1>5, <1>6, <1>7, <1>8, <1>9, <1>10, <1>11, <1>12, <1>13,
     <1>14, <1>15
     DEF Next, Calls, InCall, Serves

\* No looper is held up for longer than an hour between reading the clock and taking
\* the lock in listExpiredCb: the previous collection would look like a time to come,
\* and the clock as if it had been set back.
Prompt == \A l \in Looper : pc[l] = "listTake" => clock - now_ms[l] <= Hour

\* For every number of timers, loopers and clients: while the clock is not set back
\* and listExpiredCb is not held up for an hour, no callback is collected before its
\* period has passed since the timer was armed, whatever the threads read before they
\* took the lock.
THEOREM NoCallbackEarly ==
    ASSUME Back = {}
    PROVE  Spec /\ []Prompt => NotEarly
<1> DEFINE Inv == Natural /\ LiveIffQueued /\ Unborn /\ Armed
           Late == \A tm \in Timer : fired'[tm] # fired[tm] =>
                      tm \in before \/ clock >= armed[tm] + m_ms[tm]
<1>1. Init => Inv
  <2>1. Init => Unborn /\ Armed
    BY DEF Init, Unborn, Armed
  <2> QED BY <2>1, TypedInit
<1>2. Inv /\ [Next]_vars => Inv'
  BY TypedNext, LiveNext, UnbornNext, ArmedNext
<1>3. Inv /\ Prompt /\ [Next]_vars => [Late]_vars
  <2> SUFFICES ASSUME Inv, Prompt, [Next]_vars PROVE Late
    OBVIOUS
  <2>1. CASE UNCHANGED fired
    BY <2>1
  <2>2. ASSUME NEW l \in Looper, ListExpiredCb(l) PROVE Late
    <3>1. /\ pc[l] = "listTake" /\ now_ms[l] \in Int /\ now_ms[l] <= clock
          /\ m_previouse_time \in Int /\ m_previouse_time <= clock
          /\ clock \in Int /\ Hour \in Nat /\ clock - now_ms[l] <= Hour
      BY <2>2, TimerAssumption
         DEF ListExpiredCb, Natural, Typed, TypeThreads, TypeManager, Places, Armed, Prompt
    <3>2. ~detectClockRollover(now_ms[l])
      BY <3>1 DEF detectClockRollover
    <3>3. ASSUME NEW tm \in Timer, fired'[tm] # fired[tm]
          PROVE  tm \in m_timers /\ m_next[tm] <= now_ms[l]
      BY <2>2, <3>2, <3>3 DEF ListExpiredCb, Expired, Natural, Typed, TypeGhosts
    <3>4. \A tm \in m_timers : m_next[tm] = armed[tm] + m_ms[tm] /\ m_next[tm] \in Int
      BY DEF Armed, Natural, Typed, TypeInt
    <3> QED BY <3>1, <3>3, <3>4
  <2> QED BY <2>1, <2>2, OnlyListFires
<1> QED BY <1>1, <1>2, <1>3, PTL DEF Spec, NotEarly

-----------------------------------------------------------------------------
(* The m_tickled protocol.                                                  *)

\* Somebody has been or will be told of an insertion, or is awake and on the way to
\* getNextTimer().
Announced ==
    \/ notified
    \/ \E c \in Client : pc[c] = "notify"
    \/ \E l \in Looper : pc[l] # "sleep"

\* A sleeping looper comes back at once or before the first timer is due.
InTime(l) ==
    /\ wakeAt[l] # None
    /\ wakeAt[l] <= clock \/ \A tm \in m_timers : wakeAt[l] <= m_next[tm]

\* While m_tickled is set nobody needs to be told again.
TickledTold == ~crashed /\ m_tickled => Announced

Covered == ~crashed /\ m_timers # {} => Announced \/ \E l \in Looper : InTime(l)

(* getNextTimer is the only place that resets m_tickled, so as long as it is set
   the announcement it stands for has not been used up. *)
LEMMA TickledNext == Natural /\ TickledTold /\ [Next]_vars => TickledTold'
<1> SUFFICES ASSUME Natural, TickledTold, [Next]_vars PROVE TickledTold'
  OBVIOUS
<1>0. Next \/ UNCHANGED vars
  OBVIOUS
<1> USE TimerAssumption
<1> USE DEF Natural, Typed, TypeInt, TypeManager, TypeThreads, TypeGhosts, Places, TickledTold,
            Announced, timerVars, managerVars, looperVars, ghostVars
<1>1. CASE Tick
  BY <1>1 DEF Tick
<1>2. ASSUME NEW d \in Back, SetBack(d) PROVE TickledTold'
  BY <1>2 DEF SetBack
<1>3. ASSUME NEW c \in Client, NEW tm \in Timer, NEW ms \in Period, NEW flag \in BOOLEAN,
             Construct(c, tm, ms, flag)
      PROVE  TickledTold'
  BY <1>3 DEF Construct, Begin
<1>4. ASSUME NEW c \in Client, AddTimer(c) PROVE TickledTold'
  BY <1>4 DEF AddTimer, InsertTimer, Tickles
<1>5. ASSUME NEW c \in Client, OnTimerInsertedAtFront(c) PROVE TickledTold'
  BY <1>5 DEF OnTimerInsertedAtFront
<1>6. ASSUME NEW c \in Client, NEW tm \in Timer, Cancel(c, tm) PROVE TickledTold'
  BY <1>6 DEF Cancel, Begin, Erased
<1>7. ASSUME NEW c \in Client, NEW tm \in Timer, Refresh(c, tm) PROVE TickledTold'
  BY <1>7 DEF Refresh, Begin
<1>8. ASSUME NEW c \in Client, NEW tm \in Timer, NEW ms \in Period, NEW flag \in BOOLEAN,
             ResetCompare(c, tm, ms, flag)
      PROVE  TickledTold'
  BY <1>8 DEF ResetCompare, Begin
<1>9. ASSUME NEW c \in Client, Reset(c) PROVE TickledTold'
  BY ZenonT(40), <1>9 DEF Reset, InsertTimer, Tickles
<1>10. ASSUME NEW l \in Looper, GetNextTimer(l) PROVE TickledTold'
  BY <1>10 DEF GetNextTimer, NotTickled
<1>11. ASSUME NEW l \in Looper, Awake(l) PROVE TickledTold'
  BY <1>11 DEF Awake
<1>12. ASSUME NEW l \in Looper, ListNow(l) PROVE TickledTold'
  BY <1>12 DEF ListNow
<1>13. ASSUME NEW l \in Looper, ListEmpty(l) PROVE TickledTold'
  BY <1>13 DEF ListEmpty
<1>14. ASSUME NEW l \in Looper, ListExpiredCb(l) PROVE TickledTold'
  BY <1>14 DEF ListExpiredCb, Expired, ClearedCallback, detectClockRollover
<1>15. CASE Dead \/ UNCHANGED vars
  BY <1>15 DEF Dead, vars
<1> HIDE DEF TickledTold
<1> QED
  BY <1>0, <1>1, <1>2, <1>3, <1>4, <1>5, <1>6, <1>7, <1>8, <1>9, <1>10, <1>11, <1>12, <1>13,
     <1>14, <1>15
     DEF Next, Calls, InCall, Serves

(* As long as there are timers, somebody is told of a new first one or a looper
   wakes in time for it. *)
LEMMA CoveredNext ==
    ASSUME Back = {}
    PROVE  Natural /\ Unborn /\ Armed /\ TickledTold /\ Covered /\ [Next]_vars => Covered'
<1> SUFFICES ASSUME Natural, Unborn, Armed, TickledTold, Covered, [Next]_vars PROVE Covered'
  OBVIOUS
<1>0. Next \/ UNCHANGED vars
  OBVIOUS
<1> USE TimerAssumption
<1> USE DEF Natural, Typed, TypeInt, TypeManager, TypeThreads, TypeGhosts, Places, TickledTold,
            Armed, Announced, Covered, InTime, timerVars, managerVars, looperVars, ghostVars
<1>1. CASE Tick
  BY <1>1 DEF Tick
<1>2. ASSUME NEW d \in Back, SetBack(d) PROVE Covered'
  BY <1>2 DEF SetBack
<1>3. ASSUME NEW c \in Client, NEW tm \in Timer, NEW ms \in Period, NEW flag \in BOOLEAN,
             Construct(c, tm, ms, flag)
      PROVE  Covered'
  BY <1>3 DEF Construct, Begin
<1>4. ASSUME NEW c \in Client, AddTimer(c) PROVE Covered'
  <2> DEFINE tm == call[c].timer
  <2>0. /\ tm \in Timer /\ ~crashed /\ pc[c] = "insert"
        /\ m_next' = [m_next EXCEPT ![tm] = call[c].next] /\ call[c].next \in Int
        /\ UNCHANGED <<clock, wakeAt, notified, crashed>>
    BY <1>4 DEF AddTimer
  <2>1. PICK first \in AtFront(tm, m_timers, m_next') :
            /\ m_timers' = m_timers \cup {tm}
            /\ pc' = [pc EXCEPT ![c] = IF Tickles(first) THEN "notify" ELSE "idle"]
    BY <1>4 DEF AddTimer, InsertTimer
  <2>2. CASE Tickles(first)
    BY <2>0, <2>1, <2>2
  <2>3. CASE ~Tickles(first)
    <3>1. Announced => Announced'
      BY <2>0, <2>1
    <3>2. CASE first
      BY <2>0, <2>3, <3>1, <3>2 DEF Tickles
    <3>3. CASE ~first
      <4>1. PICK o \in m_timers : m_next'[o] <= m_next'[tm]
        BY <2>1, <3>3 DEF AtFront
      <4>2. ASSUME NEW l \in Looper, InTime(l), tm \notin m_timers PROVE InTime(l)'
        <5>1. \A n \in m_timers : m_next'[n] = m_next[n] /\ m_next[n] \in Int
          BY <2>0, <4>2
        <5> QED BY <2>0, <2>1, <4>1, <4>2, <5>1
      <4>3. tm \notin m_timers
        BY <1>4 DEF AddTimer, Unborn
      <4> QED BY <2>0, <3>1, <4>1, <4>2, <4>3
    <3> QED BY <3>2, <3>3
  <2> QED BY <2>2, <2>3
<1>5. ASSUME NEW c \in Client, OnTimerInsertedAtFront(c) PROVE Covered'
  BY <1>5 DEF OnTimerInsertedAtFront
<1>6. ASSUME NEW c \in Client, NEW tm \in Timer, Cancel(c, tm) PROVE Covered'
  BY <1>6 DEF Cancel, Begin, Erased
<1>7. ASSUME NEW c \in Client, NEW tm \in Timer, Refresh(c, tm) PROVE Covered'
  BY <1>7 DEF Refresh, Begin
<1>8. ASSUME NEW c \in Client, NEW tm \in Timer, NEW ms \in Period, NEW flag \in BOOLEAN,
             ResetCompare(c, tm, ms, flag)
      PROVE  Covered'
  BY <1>8 DEF ResetCompare, Begin
<1>9. ASSUME NEW c \in Client, Reset(c) PROVE Covered'
  BY <1>9 DEF Reset, InsertTimer, Tickles, AtFront, ResetStart
<1>10. ASSUME NEW l \in Looper, GetNextTimer(l) PROVE Covered'
  BY <1>10 DEF GetNextTimer, NotTickled, SleepUntil
<1>11. ASSUME NEW l \in Looper, Awake(l) PROVE Covered'
  BY <1>11 DEF Awake
<1>12. ASSUME NEW l \in Looper, ListNow(l) PROVE Covered'
  BY <1>12 DEF ListNow
<1>13. ASSUME NEW l \in Looper, ListEmpty(l) PROVE Covered'
  BY <1>13 DEF ListEmpty
<1>14. ASSUME NEW l \in Looper, ListExpiredCb(l) PROVE Covered'
  BY <1>14 DEF ListExpiredCb, Expired, ClearedCallback, detectClockRollover
<1>15. CASE Dead \/ UNCHANGED vars
  BY <1>15 DEF Dead, vars
<1> HIDE DEF Covered
<1> QED
  BY <1>0, <1>1, <1>2, <1>3, <1>4, <1>5, <1>6, <1>7, <1>8, <1>9, <1>10, <1>11, <1>12, <1>13,
     <1>14, <1>15
     DEF Next, Calls, InCall, Serves

\* For every number of timers, loopers and clients, while the clock is not set back:
\* the m_tickled protocol loses no insertion.
THEOREM NoInsertionLost ==
    ASSUME Back = {}
    PROVE  Spec => []FrontCovered
<1> DEFINE Inv == Natural /\ Unborn /\ Armed /\ TickledTold /\ Covered
<1>1. Init => Inv
  <2>1. Init => Unborn /\ Armed /\ TickledTold /\ Covered
    BY DEF Init, Unborn, Armed, TickledTold, Covered
  <2> QED BY <2>1, TypedInit
<1>2. Inv /\ [Next]_vars => Inv'
  BY TypedNext, UnbornNext, ArmedNext, TickledNext, CoveredNext
<1>3. Inv => FrontCovered
  BY DEF Covered, Announced, InTime, FrontCovered
<1> QED BY <1>1, <1>2, <1>3, PTL DEF Spec
=============================================================================
