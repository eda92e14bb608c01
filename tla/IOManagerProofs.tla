--------------------------- MODULE IOManagerProofs ---------------------------
(* Theorems about IOManager, for every set of descriptors, events, fibers  *)
(* and loopers.                                                            *)
EXTENDS IOManager, FiniteSetTheorems, TLAPS

\* No two fibers grow the vector for different descriptors at the same time.  (The
\* one that comes second may shrink it: addEvent does not look again once it has the
\* write lock.)
OneGrows ==
    \A f, g \in Fiber : pc[f] = "grow" /\ pc[g] = "grow" => call[f].fd = call[g].fd

-----------------------------------------------------------------------------
(* The inductive invariant.  As the vector never shrinks, every descriptor  *)
(* has one context for ever, the one with gen 0.                            *)

K(fd) == [fd |-> fd, gen |-> 0]

TableInv ==
    /\ size \in Nat /\ size >= InitSize
    /\ table = [fd \in Fd |-> IF fd < size THEN 0 ELSE None]
    /\ created = [fd \in Fd |-> IF fd < size THEN 1 ELSE 0]

TypeSlots ==
    /\ events \in [Context -> SUBSET Event]
    /\ slot \in [Context -> [Event -> [scheduler : BOOLEAN, cb : BOOLEAN,
                                       fiber : Fiber \cup {None}]]]

Types == TableInv /\ TypeSlots /\ TypeKernel /\ TypeFibers

\* What a fiber in the middle of a call has looked up.
Found(f) ==
    /\ pc[f] = "grow" => /\ call[f].fd \in Fd /\ call[f].event \in Event
                         /\ InitSize <= call[f].fd
                         /\ size <= call[f].fd \/ size = (3 * call[f].fd) \div 2
    /\ pc[f] \in {"add", "del", "cancel"} =>
          /\ call[f].fd \in Fd /\ call[f].event \in Event
          /\ call[f].context = K(call[f].fd) /\ call[f].fd < size
    /\ pc[f] = "closeAll" =>
          /\ call[f].fd \in Fd /\ call[f].context = K(call[f].fd) /\ call[f].fd < size
    /\ pc[f] = "close" => call[f].fd \in Fd

AllFound == \A f \in Fiber : Found(f)

\* Only contexts that the vector holds have events.
Reachable == \A x \in Context : events[x] # {} => x.gen = 0 /\ x.fd < size

\* epoll lists a descriptor with its context and the events registered there.
ListedRight ==
    \A fd \in Fd :
        /\ interest[fd] = IF events[K(fd)] = {} THEN None
                          ELSE [context |-> K(fd), events |-> events[K(fd)]]
        /\ events[K(fd)] # {} => fd \in open

\* A fiber in a slot waits, and is in no other slot; a waiting one is in a slot.
HeldOnce ==
    /\ \A x, y \in Context, d, e \in Event :
          slot[x][e].fiber # None =>
              /\ pc[slot[x][e].fiber] = "hold"
              /\ slot[y][d].fiber = slot[x][e].fiber => y = x /\ d = e
    /\ \A f \in Fiber : pc[f] = "hold" =>
          \E x \in Context, e \in Event : e \in events[x] /\ slot[x][e].fiber = f

\* A descriptor being closed has one closer, is open, nobody registers for it, and
\* between cancelAll and the close nothing is registered.
Closes ==
    \A f \in Fiber : pc[f] \in {"closeAll", "close"} =>
        /\ call[f].fd \in open
        /\ pc[f] = "close" => events[K(call[f].fd)] = {}
        /\ \A g \in Fiber :
              /\ pc[g] \in {"grow", "add"} => call[g].fd # call[f].fd
              /\ pc[g] \in {"closeAll", "close"} /\ call[g].fd = call[f].fd => g = f

\* The program's own record: an event is asked for by one fiber in addEvent, or is
\* registered, never both.
Asked ==
    /\ \A f \in Fiber : pc[f] \in {"grow", "add"} =>
          /\ [fd |-> call[f].fd, event |-> call[f].event] \in users
          /\ call[f].event \notin events[K(call[f].fd)]
          /\ \A g \in Fiber :
                /\ pc[g] \in {"grow", "add"}
                /\ call[g].fd = call[f].fd /\ call[g].event = call[f].event
                => g = f
    /\ \A fd \in Fd : \A e \in events[K(fd)] : [fd |-> fd, event |-> e] \in users

Counted == IsFiniteSet(Registered) /\ PendingExact

NoAddAbort == aborted \notin {"addEvent", "slot"}

Inv ==
    /\ Types /\ AllFound /\ Reachable /\ ListedRight /\ HeldOnce /\ Closes /\ Asked
    /\ SlotsMatch /\ Counted /\ NoAddAbort

(* The context contextResize creates for a number is the one of that number. *)
LEMMA KContext == \A fd \in Fd : K(fd) \in Context /\ K(fd).fd = fd /\ K(fd).gen = 0
  BY IOAssumption DEF K, Context

(* Before the first call the vector is empty, epoll has no interest and nobody
   waits. *)
LEMMA InvInit == Init => Inv
<1> SUFFICES ASSUME Init PROVE Inv
  OBVIOUS
<1> USE IOAssumption, NullAssumption, KContext
<1>1. TableInv
  BY DEF Init, TableInv
<1>2. TypeSlots
  BY DEF Init, TypeSlots, EmptySlot
<1>3. TypeKernel /\ TypeFibers
  BY DEF Init, TypeKernel, TypeFibers, NoCall
<1>4. AllFound /\ Closes /\ NoAddAbort
  BY DEF Init, AllFound, Found, Closes, NoAddAbort
<1>5. Reachable /\ ListedRight /\ Asked
  BY DEF Init, Reachable, ListedRight, Asked
<1>6. HeldOnce /\ SlotsMatch
  BY DEF Init, HeldOnce, SlotsMatch, EmptySlot
<1>7. Registered = {}
  BY DEF Init, Registered
<1>8. Counted
  BY <1>7, FS_EmptySet DEF Init, Counted, PendingExact
<1> QED BY <1>1, <1>2, <1>3, <1>4, <1>5, <1>6, <1>8 DEF Inv, Types

Report == [context : Context, flags : SUBSET (Event \cup {"ERR"})]

\* epoll_wait fills a batch with reports on contexts.
LEMMA BatchTyped ==
    ASSUME NEW l \in Looper, EpollWait(l), TypeKernel, batch \in [Looper -> SUBSET Report]
    PROVE  batch' \in [Looper -> SUBSET Report]
<1> DEFINE Ready == {fd \in Fd : interest[fd] # None}
<1>1. \A fd \in Ready : Reports(fd) \subseteq Report
  BY DEF Reports, TypeKernel, Report
<1>2. \E fds \in SUBSET Ready \ {{}} :
          \E report \in [fds -> UNION {Reports(fd) : fd \in fds}] :
             /\ \A fd \in fds : report[fd] \in Reports(fd)
             /\ batch' = [batch EXCEPT ![l] = {report[fd] : fd \in fds}]
  BY Zenon DEF EpollWait
<1> HIDE DEF Ready
<1>3. PICK fds \in SUBSET Ready \ {{}} :
          \E report \in [fds -> UNION {Reports(fd) : fd \in fds}] :
             /\ \A fd \in fds : report[fd] \in Reports(fd)
             /\ batch' = [batch EXCEPT ![l] = {report[fd] : fd \in fds}]
  BY <1>2, Zenon
<1>4. PICK report \in [fds -> UNION {Reports(fd) : fd \in fds}] :
          /\ \A fd \in fds : report[fd] \in Reports(fd)
          /\ batch' = [batch EXCEPT ![l] = {report[fd] : fd \in fds}]
  BY <1>3, Zenon
<1>5. {report[fd] : fd \in fds} \in SUBSET Report
  BY <1>1, <1>3, <1>4
<1> QED BY <1>4, <1>5

\* A step that leaves contexts, descriptors and fibers alone.
LEMMA Undisturbed ==
    ASSUME Inv, TypeFibers',
           UNCHANGED <<tableVars, contextVars, kernelVars, pc, call, users>>,
           NoAddAbort'
    PROVE  Inv'
<1> USE DEF tableVars, contextVars, kernelVars
<1>1. Types'
  BY DEF Inv, Types, TableInv, TypeSlots, TypeKernel
<1>2. AllFound' /\ Reachable'
  BY DEF Inv, AllFound, Found, Reachable
<1>3. ListedRight' /\ HeldOnce' /\ SlotsMatch'
  BY DEF Inv, ListedRight, HeldOnce, SlotsMatch
<1>4. Closes' /\ Asked'
  BY DEF Inv, Closes, Asked
<1>5. Counted'
  BY DEF Inv, Counted, PendingExact, Registered
<1> QED BY <1>1, <1>2, <1>3, <1>4, <1>5 DEF Inv

\* The steps that look a context up, and those that only change the environment.
LEMMA LookupSteps ==
    ASSUME ~CloseRace, Inv,
           \/ \E f \in Fiber : Calls(f)
           \/ \E fd \in Fd : Reopen(fd)
           \/ \E l \in Looper : EpollWait(l)
           \/ Dead \/ Pause \/ UNCHANGED vars
    PROVE  Inv'
<1> USE IOAssumption, NullAssumption, KContext
<1> USE DEF tableVars, contextVars, kernelVars, boundVars
<1>0. /\ TableInv /\ TypeSlots /\ TypeKernel /\ TypeFibers /\ AllFound /\ Reachable /\ ListedRight
      /\ HeldOnce /\ Closes /\ Asked /\ SlotsMatch /\ Counted /\ NoAddAbort
  BY DEF Inv, Types
<1>1. ASSUME NEW f \in Fiber, NEW fd \in Fd, NEW e \in Event, NEW cb \in BOOLEAN,
             AddLookup(f, fd, e, cb)
      PROVE  Inv'
  <2> DEFINE x == IF size > fd THEN K(fd) ELSE None
             to == IF size > fd THEN "add" ELSE "grow"
             r == [fd |-> fd, event |-> e, cb |-> cb, context |-> x]
  <2>1. /\ pc[f] = "run" /\ pc' = [pc EXCEPT ![f] = to]
        /\ UNCHANGED <<tableVars, contextVars, kernelVars, batch, aborted>>
        /\ users' = users \cup {[fd |-> fd, event |-> e]}
        /\ ~Uses(fd, e) /\ ~Closing(fd)
    BY <1>1 DEF AddLookup, Begin
  <2>2. call' = [call EXCEPT ![f] = r]
    BY <1>0, <1>1 DEF AddLookup, TableInv, K
  <2>3. /\ pc' \in [Fiber -> {"run", "grow", "add", "del", "cancel", "closeAll", "close",
                               "hold", "dropped"}]
        /\ pc'[f] = to /\ call'[f] = r
        /\ \A g \in Fiber \ {f} : pc'[g] = pc[g] /\ call'[g] = call[g]
    BY <1>0, <2>1, <2>2 DEF TypeFibers
  <2>4. /\ r.fd = fd /\ r.event = e /\ r.context = x
        /\ r \in [fd : Fd \cup {None}, event : Event \cup {None},
                   context : Context \cup {None}, cb : BOOLEAN]
    OBVIOUS
  <2> HIDE DEF r, x, to
  <2>10. TableInv'
    BY <1>0, <2>1, <2>3 DEF TableInv
  <2>11. TypeSlots'
    BY <1>0, <2>1, <2>3 DEF TypeSlots
  <2>12. TypeKernel'
    BY <1>0, <2>1, <2>3 DEF TypeKernel
  <2>13. TypeFibers'
    BY <1>0, <2>1, <2>2, <2>3, <2>4 DEF TypeFibers
  <2>14. AllFound'
    BY <1>0, <2>1, <2>3, <2>4 DEF AllFound, Found, TableInv, x, to
  <2>15. Reachable'
    BY <1>0, <2>1, <2>3 DEF Reachable
  <2>16. ListedRight'
    BY <1>0, <2>1, <2>3 DEF ListedRight
  <2>17. HeldOnce'
    BY <1>0, <2>1, <2>3 DEF HeldOnce, to
  <2>18. Closes'
    BY <1>0, <2>1, <2>3, <2>4 DEF Closes, Closing, to
  <2>19. Asked'
    BY <1>0, <2>1, <2>3, <2>4 DEF Asked, Uses, to
  <2>20. SlotsMatch'
    BY <1>0, <2>1, <2>3 DEF SlotsMatch
  <2>21. Counted'
    BY <1>0, <2>1, <2>3 DEF Counted, PendingExact, Registered
  <2>22. NoAddAbort'
    BY <1>0, <2>1, <2>3 DEF NoAddAbort
  <2> QED BY <2>10, <2>11, <2>12, <2>13, <2>14, <2>15, <2>16, <2>17, <2>18, <2>19, <2>20, <2>21, <2>22 DEF Inv, Types
<1>2. ASSUME NEW f \in Fiber, NEW fd \in Fd, NEW e \in Event, NEW next \in {"del", "cancel"},
             Lookup(f, fd, e, next), size > fd
      PROVE  Inv'
  <2> DEFINE r == [fd |-> fd, event |-> e, cb |-> FALSE, context |-> K(fd)]
  <2>1. /\ pc[f] = "run" /\ pc' = [pc EXCEPT ![f] = next]
        /\ UNCHANGED <<tableVars, contextVars, kernelVars, batch, aborted, users>>
    BY <1>0, <1>2 DEF Lookup, Begin, TableInv
  <2>2. call' = [call EXCEPT ![f] = r]
    BY <1>0, <1>2 DEF Lookup, TableInv, K
  <2>3. /\ pc' \in [Fiber -> {"run", "grow", "add", "del", "cancel", "closeAll", "close",
                               "hold", "dropped"}]
        /\ pc'[f] = next /\ call'[f] = r
        /\ \A g \in Fiber \ {f} : pc'[g] = pc[g] /\ call'[g] = call[g]
    BY <1>0, <2>1, <2>2 DEF TypeFibers
  <2>4. /\ r.fd = fd /\ r.event = e /\ r.context = K(fd)
        /\ r \in [fd : Fd \cup {None}, event : Event \cup {None},
                   context : Context \cup {None}, cb : BOOLEAN]
    OBVIOUS
  <2> HIDE DEF r
  <2>10. TableInv'
    BY <1>0, <2>1, <2>3 DEF TableInv
  <2>11. TypeSlots'
    BY <1>0, <2>1, <2>3 DEF TypeSlots
  <2>12. TypeKernel'
    BY <1>0, <2>1, <2>3 DEF TypeKernel
  <2>13. TypeFibers'
    BY <1>0, <2>1, <2>2, <2>3, <2>4 DEF TypeFibers
  <2>14. AllFound'
    BY <1>0, <1>2, <2>1, <2>3, <2>4 DEF AllFound, Found, TableInv
  <2>15. Reachable'
    BY <1>0, <2>1, <2>3 DEF Reachable
  <2>16. ListedRight'
    BY <1>0, <2>1, <2>3 DEF ListedRight
  <2>17. HeldOnce'
    BY <1>0, <2>1, <2>3 DEF HeldOnce
  <2>18. Closes'
    BY <1>0, <2>1, <2>3 DEF Closes
  <2>19. Asked'
    BY <1>0, <2>1, <2>3 DEF Asked
  <2>20. SlotsMatch'
    BY <1>0, <2>1, <2>3 DEF SlotsMatch
  <2>21. Counted'
    BY <1>0, <2>1, <2>3 DEF Counted, PendingExact, Registered
  <2>22. NoAddAbort'
    BY <1>0, <2>1, <2>3 DEF NoAddAbort
  <2> QED BY <2>10, <2>11, <2>12, <2>13, <2>14, <2>15, <2>16, <2>17, <2>18, <2>19, <2>20, <2>21, <2>22 DEF Inv, Types
<1>3. ASSUME NEW f \in Fiber, NEW fd \in Fd, CloseLookup(f, fd) PROVE Inv'
  <2> DEFINE x == IF size > fd THEN K(fd) ELSE None
             to == IF size > fd THEN "closeAll" ELSE "close"
             r == [fd |-> fd, event |-> None, cb |-> FALSE, context |-> x]
  <2>1. /\ pc[f] = "run" /\ pc' = [pc EXCEPT ![f] = to]
        /\ UNCHANGED <<tableVars, contextVars, kernelVars, batch, aborted, users>>
        /\ fd \in open /\ ~Closing(fd)
        /\ ~\E g \in Fiber : pc[g] \in {"grow", "add"} /\ call[g].fd = fd
    BY <1>3 DEF CloseLookup, Begin
  <2>2. call' = [call EXCEPT ![f] = r]
    BY <1>0, <1>3 DEF CloseLookup, TableInv, K
  <2>3. /\ pc' \in [Fiber -> {"run", "grow", "add", "del", "cancel", "closeAll", "close",
                               "hold", "dropped"}]
        /\ pc'[f] = to /\ call'[f] = r
        /\ \A g \in Fiber \ {f} : pc'[g] = pc[g] /\ call'[g] = call[g]
    BY <1>0, <2>1, <2>2 DEF TypeFibers
  <2>4. /\ r.fd = fd /\ r.context = x
        /\ r \in [fd : Fd \cup {None}, event : Event \cup {None},
                   context : Context \cup {None}, cb : BOOLEAN]
    OBVIOUS
  <2>5. to = "close" => events[K(fd)] = {}
    BY <1>0 DEF Reachable, TableInv
  <2> HIDE DEF r, x, to
  <2>10. TableInv'
    BY <1>0, <2>1, <2>3 DEF TableInv
  <2>11. TypeSlots'
    BY <1>0, <2>1, <2>3 DEF TypeSlots
  <2>12. TypeKernel'
    BY <1>0, <2>1, <2>3 DEF TypeKernel
  <2>13. TypeFibers'
    BY <1>0, <2>1, <2>2, <2>3, <2>4 DEF TypeFibers
  <2>14. AllFound'
    BY <1>0, <2>1, <2>3, <2>4 DEF AllFound, Found, TableInv, x, to
  <2>15. Reachable'
    BY <1>0, <2>1, <2>3 DEF Reachable
  <2>16. ListedRight'
    BY <1>0, <2>1, <2>3 DEF ListedRight
  <2>17. HeldOnce'
    BY <1>0, <2>1, <2>3 DEF HeldOnce, to
  <2>18. Closes'
    BY <1>0, <2>1, <2>3, <2>4, <2>5 DEF Closes, Closing, to
  <2>19. Asked'
    BY <1>0, <2>1, <2>3 DEF Asked, to
  <2>20. SlotsMatch'
    BY <1>0, <2>1, <2>3 DEF SlotsMatch
  <2>21. Counted'
    BY <1>0, <2>1, <2>3 DEF Counted, PendingExact, Registered
  <2>22. NoAddAbort'
    BY <1>0, <2>1, <2>3 DEF NoAddAbort
  <2> QED BY <2>10, <2>11, <2>12, <2>13, <2>14, <2>15, <2>16, <2>17, <2>18, <2>19, <2>20, <2>21, <2>22 DEF Inv, Types
<1>4. ASSUME NEW fd \in Fd, Reopen(fd) PROVE Inv'
  <2>1. /\ open' = open \cup {fd}
        /\ UNCHANGED <<tableVars, contextVars, interest, pc, call, batch, aborted, users>>
    BY <1>4 DEF Reopen
  <2>10. TableInv'
    BY <1>0, <2>1 DEF TableInv
  <2>11. TypeSlots'
    BY <1>0, <2>1 DEF TypeSlots
  <2>12. TypeKernel'
    BY <1>0, <2>1 DEF TypeKernel
  <2>13. TypeFibers'
    BY <1>0, <2>1 DEF TypeFibers
  <2>14. AllFound'
    BY <1>0, <2>1 DEF AllFound, Found
  <2>15. Reachable'
    BY <1>0, <2>1 DEF Reachable
  <2>16. ListedRight'
    BY <1>0, <2>1 DEF ListedRight
  <2>17. HeldOnce'
    BY <1>0, <2>1 DEF HeldOnce
  <2>18. Closes'
    BY <1>0, <2>1 DEF Closes
  <2>19. Asked'
    BY <1>0, <2>1 DEF Asked
  <2>20. SlotsMatch'
    BY <1>0, <2>1 DEF SlotsMatch
  <2>21. Counted'
    BY <1>0, <2>1 DEF Counted, PendingExact, Registered
  <2>22. NoAddAbort'
    BY <1>0, <2>1 DEF NoAddAbort
  <2> QED BY <2>10, <2>11, <2>12, <2>13, <2>14, <2>15, <2>16, <2>17, <2>18, <2>19, <2>20, <2>21, <2>22 DEF Inv, Types
<1>5. ASSUME NEW l \in Looper, EpollWait(l) PROVE Inv'
  <2>1. UNCHANGED <<tableVars, contextVars, kernelVars, pc, call, aborted, users>>
    BY <1>5 DEF EpollWait
  <2>2. batch' \in [Looper -> SUBSET Report]
    BY <1>0, <1>5, BatchTyped DEF TypeFibers, Report
  <2>3. TypeFibers' /\ NoAddAbort'
    BY <1>0, <2>1, <2>2 DEF TypeFibers, Report, NoAddAbort
  <2> QED BY <2>1, <2>3, Undisturbed
<1>6. CASE UNCHANGED vars
  <2>1. TypeFibers' /\ NoAddAbort'
    BY <1>0, <1>6 DEF vars, TypeFibers, NoAddAbort
  <2> QED BY <1>6, <2>1, Undisturbed DEF vars
<1>7. ASSUME NEW f \in Fiber, NEW fd \in Fd, NEW e \in Event, NEW next \in {"del", "cancel"},
             Lookup(f, fd, e, next), ~(size > fd)
      PROVE  Inv'
  <2>1. UNCHANGED <<tableVars, contextVars, kernelVars, pc, call, batch, aborted, users>>
    BY <1>0, <1>7 DEF Lookup, TableInv
  <2>2. TypeFibers' /\ NoAddAbort'
    BY <1>0, <2>1 DEF TypeFibers, NoAddAbort
  <2> QED BY <2>1, <2>2, Undisturbed
<1>8. CASE Dead \/ Pause
  BY <1>6, <1>8 DEF Dead, Pause
<1> QED BY <1>1, <1>2, <1>3, <1>4, <1>5, <1>6, <1>7, <1>8 DEF Calls

\* Pairs with one first member, and a subset taken away, are counted as expected.
LEMMA ProductOfOne ==
    ASSUME NEW x, NEW T, IsFiniteSet(T)
    PROVE  IsFiniteSet({x} \X T) /\ Cardinality({x} \X T) = Cardinality(T)
<1> DEFINE S == {x}
<1>1. IsFiniteSet(S) /\ Cardinality(S) = 1
  BY FS_Singleton
<1>2. Cardinality(T) \in Nat
  BY FS_CardinalityType
<1> HIDE DEF S
<1>3. IsFiniteSet(S \X T) /\ Cardinality(S \X T) = Cardinality(S) * Cardinality(T)
  BY <1>1, FS_Product, Zenon
<1>4. IsFiniteSet(S \X T) /\ Cardinality(S \X T) = Cardinality(T)
  <2> DEFINE P == Cardinality(S \X T)
  <2>1. P = Cardinality(S) * Cardinality(T)
    BY <1>3, Zenon
  <2> HIDE DEF P
  <2>2. P = Cardinality(T)
    BY <1>1, <1>2, <2>1
  <2> QED BY <1>3, <2>2, Zenon DEF P
<1> QED BY <1>4, Zenon DEF S

(* How many registrations remain when some are removed: what
   m_pendingEventCount has to follow. *)
LEMMA SubsetTaken ==
    ASSUME NEW S, NEW T, IsFiniteSet(S), T \subseteq S
    PROVE  IsFiniteSet(S \ T) /\ Cardinality(S \ T) = Cardinality(S) - Cardinality(T)
<1>1. S \cap T = T
  OBVIOUS
<1>2. IsFiniteSet(S \ T) /\ Cardinality(S \ T) = Cardinality(S) - Cardinality(S \cap T)
  BY FS_Difference, Zenon
<1> QED BY <1>1, <1>2, Zenon

\* Taking events from one context takes as many pairs from Registered.
LEMMA CountTaken ==
    ASSUME NEW x \in Context, NEW evs \in SUBSET Event, evs \subseteq events[x],
           events \in [Context -> SUBSET Event], Counted,
           events' = [events EXCEPT ![x] = events[x] \ evs],
           m_pendingEventCount' = m_pendingEventCount - Cardinality(evs)
    PROVE  Counted'
<1> DEFINE P == {x} \X evs
<1>1. Registered' = Registered \ P
  BY DEF Registered
<1>2. P \subseteq Registered
  BY DEF Registered
<1>3. IsFiniteSet(evs)
  BY IOAssumption, FS_Subset
<1>4. Cardinality(P) = Cardinality(evs)
  BY <1>3, ProductOfOne, Zenon
<1> HIDE DEF P
<1>5. IsFiniteSet(Registered \ P) /\ Cardinality(Registered \ P) = Cardinality(Registered) - Cardinality(P)
  BY <1>2, SubsetTaken, Zenon DEF Counted
<1> QED BY <1>1, <1>4, <1>5 DEF Counted, PendingExact

\* Events of one context are triggered or released: they go from the context, from
\* the interest list and from the count together, with the fibers that waited.
LEMMA TriggerStep ==
    ASSUME Inv, NEW fd \in Fd, NEW evs \in SUBSET events[K(fd)],
           UNCHANGED <<tableVars, open>>, TypeFibers', NoAddAbort',
           interest' = [interest EXCEPT ![fd] =
               IF events[K(fd)] \ evs = {} THEN None
               ELSE [context |-> K(fd), events |-> events[K(fd)] \ evs]],
           TriggerEvents(K(fd), evs),
           \A g \in Fiber : pc'[g] = "hold" <=> pc[g] = "hold" /\ g \notin Waiters(K(fd), evs),
           \A g \in Fiber :
               \/ pc'[g] = pc[g] /\ call'[g] = call[g]
               \/ pc'[g] \in {"run", "dropped"}
               \/ /\ pc[g] = "closeAll" /\ pc'[g] = "close" /\ call'[g] = call[g]
                  /\ call[g].fd = fd /\ evs = events[K(fd)]
    PROVE  Inv'
<1> USE IOAssumption, NullAssumption, KContext
<1> USE DEF tableVars
<1> DEFINE x == K(fd)
<1>0. /\ TableInv /\ TypeSlots /\ TypeKernel /\ TypeFibers /\ AllFound /\ Reachable /\ ListedRight
      /\ HeldOnce /\ Closes /\ Asked /\ SlotsMatch /\ Counted /\ NoAddAbort
  BY DEF Inv, Types
<1>1. x \in Context /\ x.fd = fd /\ evs \subseteq Event
  BY <1>0 DEF TypeSlots
<1>2. /\ events' = [events EXCEPT ![x] = events[x] \ evs]
      /\ m_pendingEventCount' = m_pendingEventCount - Cardinality(evs)
      /\ users' = {u \in users : ~(u.fd = fd /\ u.event \in evs)}
  BY <1>1 DEF TriggerEvents, Decrease, Forget
<1>3. slot' = [slot EXCEPT ![x] = [e \in Event |-> IF e \in evs THEN EmptySlot ELSE slot[x][e]]]
  BY <1>0, <1>1 DEF TriggerEvents, SlotCleared, TypeSlots
<1>4. /\ events' \in [Context -> SUBSET Event]
      /\ events'[x] = events[x] \ evs
      /\ \A y \in Context : y # x => events'[y] = events[y]
      /\ \A y \in Context : events'[y] \subseteq events[y]
  BY <1>0, <1>1, <1>2 DEF TypeSlots
<1>5. /\ \A e \in Event : slot'[x][e] = IF e \in evs THEN EmptySlot ELSE slot[x][e]
      /\ \A y \in Context : y # x => slot'[y] = slot[y]
  BY <1>0, <1>1, <1>3 DEF TypeSlots
<1>6. \A d \in Fd : d # fd => K(d) # x
  BY DEF K
<1>7. \A g \in Waiters(x, evs) : g \in Fiber /\ pc[g] = "hold" /\ \E e \in evs : slot[x][e].fiber = g
  BY <1>0, <1>1 DEF Waiters, HeldOnce, TypeSlots
<1> HIDE DEF x
<1>10. TableInv'
  BY <1>0 DEF TableInv
<1>11. TypeSlots'
  <2>1. EmptySlot \in [scheduler : BOOLEAN, cb : BOOLEAN, fiber : Fiber \cup {None}]
    BY DEF EmptySlot
  <2>2. [e \in Event |-> IF e \in evs THEN EmptySlot ELSE slot[x][e]]
           \in [Event -> [scheduler : BOOLEAN, cb : BOOLEAN, fiber : Fiber \cup {None}]]
    BY <1>0, <1>1, <2>1 DEF TypeSlots
  <2> QED BY <1>0, <1>1, <1>3, <1>4, <2>2 DEF TypeSlots
<1>12. TypeKernel'
  BY <1>0, <1>1, <1>4 DEF TypeKernel, TypeSlots, x
<1>13. AllFound'
  BY <1>0 DEF AllFound, Found
<1>14. Reachable'
  BY <1>0, <1>4 DEF Reachable
<1>15. ListedRight'
  <2>1. interest'[fd] = IF events'[x] = {} THEN None ELSE [context |-> x, events |-> events'[x]]
    BY <1>0, <1>4 DEF TypeKernel, x
  <2>2. \A d \in Fd : d # fd => interest'[d] = interest[d] /\ events'[K(d)] = events[K(d)]
    BY <1>0, <1>4, <1>6 DEF TypeKernel
  <2>3. \A d \in Fd : events'[K(d)] # {} => d \in open'
    BY <1>0, <1>4 DEF ListedRight
  <2> QED BY <1>0, <2>1, <2>2, <2>3 DEF ListedRight, x
<1>16. SlotsMatch'
  <2> SUFFICES ASSUME NEW y \in Context, NEW e \in Event
               PROVE  IF e \in events'[y]
                         THEN slot'[y][e].scheduler /\ (slot'[y][e].cb <=> slot'[y][e].fiber = None)
                         ELSE slot'[y][e] = EmptySlot
    BY DEF SlotsMatch
  <2>1. CASE y = x
    BY <1>0, <1>4, <1>5, <2>1 DEF SlotsMatch
  <2>2. CASE y # x
    BY <1>0, <1>4, <1>5, <2>2 DEF SlotsMatch
  <2> QED BY <2>1, <2>2
<1>17. HeldOnce'
  <2>1. ASSUME NEW y \in Context, NEW e \in Event, slot'[y][e].fiber # None
        PROVE  /\ slot'[y][e] = slot[y][e] /\ ~(y = x /\ e \in evs)
               /\ slot[y][e].fiber \in Fiber
    BY <1>0, <1>1, <1>5, <2>1 DEF EmptySlot, TypeSlots
  <2>2. ASSUME NEW y \in Context, NEW e \in Event, slot'[y][e].fiber # None
        PROVE  pc'[slot'[y][e].fiber] = "hold"
    <3>1. pc[slot[y][e].fiber] = "hold"
      BY <1>0, <2>1, <2>2 DEF HeldOnce
    <3>2. slot[y][e].fiber \notin Waiters(x, evs)
      BY <1>0, <1>1, <1>7, <2>1, <2>2 DEF HeldOnce
    <3> QED BY <2>1, <2>2, <3>1, <3>2 DEF x
  <2>3. ASSUME NEW y \in Context, NEW z \in Context, NEW d \in Event, NEW e \in Event,
               slot'[y][e].fiber # None, slot'[z][d].fiber = slot'[y][e].fiber
        PROVE  z = y /\ d = e
    <3>1. slot'[y][e] = slot[y][e] /\ slot'[z][d] = slot[z][d]
      BY <2>1, <2>3
    <3> QED BY <1>0, <2>3, <3>1 DEF HeldOnce
  <2>4. ASSUME NEW g \in Fiber, pc'[g] = "hold"
        PROVE  \E y \in Context, e \in Event : e \in events'[y] /\ slot'[y][e].fiber = g
    <3>1. pc[g] = "hold" /\ g \notin Waiters(x, evs)
      BY <2>4 DEF x
    <3>2. PICK y \in Context, e \in Event : e \in events[y] /\ slot[y][e].fiber = g
      BY <1>0, <3>1 DEF HeldOnce
    <3>3. ~(y = x /\ e \in evs)
      BY <3>1, <3>2 DEF Waiters
    <3>4. e \in events'[y] /\ slot'[y][e].fiber = g
      BY <1>1, <1>4, <1>5, <3>2, <3>3
    <3> QED BY <3>4
  <2> QED BY <2>2, <2>3, <2>4 DEF HeldOnce
<1>18. Closes'
  BY <1>0, <1>1, <1>4, <1>6 DEF Closes, AllFound, Found, x
<1>19. Asked'
  <2>1. ASSUME NEW f \in Fiber, pc'[f] \in {"grow", "add"}
        PROVE  /\ pc[f] = pc'[f] /\ call'[f] = call[f] /\ call[f].fd \in Fd
               /\ call[f].event \in Event
               /\ [fd |-> call[f].fd, event |-> call[f].event] \in users
               /\ call[f].event \notin events[K(call[f].fd)]
    BY <1>0, <2>1 DEF AllFound, Found, Asked
  <2>2. ASSUME NEW f \in Fiber, pc'[f] \in {"grow", "add"}
        PROVE  /\ [fd |-> call'[f].fd, event |-> call'[f].event] \in users'
               /\ call'[f].event \notin events'[K(call'[f].fd)]
    BY <1>1, <1>2, <1>4, <2>1, <2>2 DEF x
  <2>3. ASSUME NEW d \in Fd, NEW e \in events'[K(d)]
        PROVE  [fd |-> d, event |-> e] \in users'
    <3>1. e \in events[K(d)] /\ [fd |-> d, event |-> e] \in users
      BY <1>0, <1>4 DEF Asked
    <3>2. ~(d = fd /\ e \in evs)
      BY <1>4 DEF x
    <3> QED BY <1>2, <3>1, <3>2
  <2>4. ASSUME NEW f \in Fiber, NEW g \in Fiber, pc'[f] \in {"grow", "add"},
               pc'[g] \in {"grow", "add"},
               call'[g].fd = call'[f].fd, call'[g].event = call'[f].event
        PROVE  g = f
    <3>1. /\ pc[f] \in {"grow", "add"} /\ pc[g] \in {"grow", "add"}
          /\ call[g].fd = call[f].fd /\ call[g].event = call[f].event
      BY <2>1, <2>4
    <3> QED BY <1>0, <3>1 DEF Asked
  <2> QED BY <2>2, <2>3, <2>4 DEF Asked
<1>20. Counted'
  <2>1. evs \subseteq events[x]
    BY DEF x
  <2> QED BY <1>0, <1>1, <1>2, <2>1, CountTaken DEF TypeSlots
<1> QED BY <1>10, <1>11, <1>12, <1>13, <1>14, <1>15, <1>16, <1>17, <1>18, <1>19, <1>20 DEF Inv, Types

\* A fiber ends its call, or goes on to close the descriptor, and nothing is triggered.
LEMMA FiberGoesOn ==
    ASSUME Inv, NEW f \in Fiber, UNCHANGED <<tableVars, contextVars, kernelVars, batch, aborted, users>>,
           pc' \in [Fiber -> {"run", "grow", "add", "del", "cancel", "closeAll", "close",
                              "hold", "dropped"}],
           call' \in [Fiber -> [fd : Fd \cup {None}, event : Event \cup {None},
                                context : Context \cup {None}, cb : BOOLEAN]],
           \A g \in Fiber \ {f} : pc'[g] = pc[g] /\ call'[g] = call[g],
           pc[f] # "hold",
           \/ pc'[f] = "run"
           \/ /\ pc[f] = "closeAll" /\ pc'[f] = "close" /\ call'[f] = call[f]
              /\ events[K(call[f].fd)] = {}
    PROVE  Inv'
<1> USE DEF tableVars, contextVars, kernelVars
<1>1. Types'
  BY DEF Inv, Types, TableInv, TypeSlots, TypeKernel, TypeFibers
<1>2. AllFound' /\ Reachable'
  BY DEF Inv, AllFound, Found, Reachable
<1>3. ListedRight' /\ SlotsMatch' /\ NoAddAbort'
  BY DEF Inv, ListedRight, SlotsMatch, NoAddAbort
<1>4. HeldOnce'
  <2>1. HeldOnce /\ \A g \in Fiber : pc'[g] = "hold" <=> pc[g] = "hold"
    BY DEF Inv
  <2>2. \A x \in Context, e \in Event : slot[x][e].fiber \in Fiber \cup {None}
    BY DEF Inv, Types, TypeSlots
  <2> QED BY <2>1, <2>2 DEF HeldOnce
<1>5. Closes'
  <2>1. Closes
    BY DEF Inv
  <2>2. \A g \in Fiber : /\ pc'[g] \in {"closeAll", "close"} =>
                               pc[g] \in {"closeAll", "close"} /\ call'[g] = call[g]
                         /\ pc'[g] \in {"grow", "add"} => pc'[g] = pc[g] /\ call'[g] = call[g]
                         /\ pc'[g] = "close" => pc[g] = "close" \/ events[K(call[g].fd)] = {}
    OBVIOUS
  <2>3. ASSUME NEW g \in Fiber, pc'[g] \in {"closeAll", "close"}
        PROVE  /\ call'[g].fd \in open'
               /\ pc'[g] = "close" => events'[K(call'[g].fd)] = {}
    BY <2>1, <2>2, <2>3 DEF Closes
  <2>4. ASSUME NEW g \in Fiber, pc'[g] \in {"closeAll", "close"}, NEW h \in Fiber
        PROVE  /\ pc'[h] \in {"grow", "add"} => call'[h].fd # call'[g].fd
               /\ pc'[h] \in {"closeAll", "close"} /\ call'[h].fd = call'[g].fd => h = g
    BY <2>1, <2>2, <2>4 DEF Closes
  <2> QED BY <2>3, <2>4 DEF Closes
<1>6. Asked'
  BY DEF Inv, Asked
<1>7. Counted'
  BY DEF Inv, Counted, PendingExact, Registered
<1> QED BY <1>1, <1>2, <1>3, <1>4, <1>5, <1>6, <1>7 DEF Inv

\* delEvent, cancelEvent, cancelAll and the loop, with what they find.
LEMMA ReleaseSteps ==
    ASSUME Inv,
           \/ \E f \in Fiber : DelEvent(f) \/ CancelEvent(f) \/ CancelAll(f)
           \/ \E l \in Looper : \E r \in batch[l] : HandleReport(l, r)
    PROVE  Inv'
<1> USE IOAssumption, NullAssumption, KContext
<1> USE DEF tableVars, contextVars
<1>0. /\ TableInv /\ TypeSlots /\ TypeKernel /\ TypeFibers /\ AllFound /\ Reachable /\ ListedRight
      /\ HeldOnce /\ Closes /\ Asked /\ SlotsMatch /\ Counted /\ NoAddAbort
  BY DEF Inv, Types
<1> DEFINE Places == {"run", "grow", "add", "del", "cancel", "closeAll", "close", "hold", "dropped"}
           CallType == [fd : Fd \cup {None}, event : Event \cup {None},
                        context : Context \cup {None}, cb : BOOLEAN]
<1>1. NoCall \in CallType
  BY DEF NoCall
<1>2. \A x \in Context, evs \in SUBSET Event : \A g \in Waiters(x, evs) : g \in Fiber /\ pc[g] = "hold"
  BY <1>0 DEF Waiters, HeldOnce, TypeSlots
<1>3. ASSUME NEW f \in Fiber, pc[f] \in {"del", "cancel"}, DelEvent(f) \/ CancelEvent(f)
      PROVE  Inv'
  <2> DEFINE fd == call[f].fd
             x == K(fd)
             e == call[f].event
             op == Op(events[x] \ {e}, "DEL")
  <2>1. fd \in Fd /\ e \in Event /\ call[f].context = x /\ x \in Context /\ x.fd = fd
    BY <1>0, <1>3 DEF AllFound, Found
  <2>2. /\ call' = [call EXCEPT ![f] = NoCall]
        /\ UNCHANGED <<tableVars, open, batch, aborted>>
    BY <1>3 DEF DelEvent, CancelEvent
  <2>3. call' \in [Fiber -> CallType] /\ \A g \in Fiber \ {f} : call'[g] = call[g]
    BY <1>0, <1>1, <2>2 DEF TypeFibers
  <2>4. CASE e \in events[x] /\ CtlSucceeds(op, fd)
    <3>1. /\ interest' = [interest EXCEPT ![fd] = Listed(op, x, events[x] \ {e})]
          /\ TriggerEvents(x, {e})
      BY <1>3, <2>1, <2>4 DEF DelEvent, CancelEvent
    <3>2. Listed(op, x, events[x] \ {e}) = IF events[x] \ {e} = {} THEN None
                                           ELSE [context |-> x, events |-> events[x] \ {e}]
      BY DEF Listed, Op
    <3>3. /\ pc' \in [Fiber -> Places] /\ pc'[f] = "run"
          /\ \A g \in Fiber \ {f} :
                IF g \in Waiters(x, {e}) THEN pc'[g] \in {"run", "dropped"} ELSE pc'[g] = pc[g]
      <4>1. CASE DelEvent(f)
        <5>1. pc' = [g \in Fiber |-> IF g = f THEN "run"
                                     ELSE IF g \in Waiters(x, {e}) THEN "dropped" ELSE pc[g]]
          BY <2>1, <2>4, <4>1 DEF DelEvent
        <5> QED BY <1>0, <5>1 DEF TypeFibers
      <4>2. CASE CancelEvent(f)
        BY <1>0, <1>3, <2>1, <2>4, <4>2 DEF CancelEvent, Resumed, TypeFibers
      <4> QED BY <1>3, <4>1, <4>2
    <3>4. {e} \in SUBSET events[x] /\ {e} \in SUBSET Event
      BY <2>1, <2>4
    <3>5. users' \subseteq [fd : Fd, event : Event]
      BY <1>0, <3>1 DEF TriggerEvents, Forget, TypeFibers
    <3>6. TypeFibers' /\ NoAddAbort'
      BY <1>0, <2>2, <2>3, <3>3, <3>5 DEF TypeFibers, NoAddAbort
    <3>7. \A g \in Waiters(x, {e}) : g \in Fiber /\ pc[g] = "hold"
      BY <1>2, <2>1, <3>4
    <3>8. \A g \in Fiber : pc'[g] = "hold" <=> pc[g] = "hold" /\ g \notin Waiters(x, {e})
      BY <1>3, <3>3, <3>7
    <3>9. \A g \in Fiber : \/ pc'[g] = pc[g] /\ call'[g] = call[g]
                           \/ pc'[g] \in {"run", "dropped"}
      BY <2>3, <3>3
    <3> HIDE DEF fd, e, op
    <3> QED BY <2>1, <2>2, <3>1, <3>2, <3>4, <3>6, <3>8, <3>9, TriggerStep DEF x
  <2>5. CASE ~(e \in events[x] /\ CtlSucceeds(op, fd))
    <3>1. /\ pc' = [pc EXCEPT ![f] = "run"]
          /\ UNCHANGED <<contextVars, interest, users>>
      BY <1>3, <2>1, <2>5 DEF DelEvent, CancelEvent
    <3>2. /\ pc' \in [Fiber -> Places] /\ pc'[f] = "run"
          /\ \A g \in Fiber \ {f} : pc'[g] = pc[g]
      BY <1>0, <3>1 DEF TypeFibers
    <3> QED BY <1>0, <1>3, <2>2, <2>3, <3>1, <3>2, FiberGoesOn DEF TypeFibers, kernelVars
  <2> QED BY <2>4, <2>5
<1>4. ASSUME NEW f \in Fiber, CancelAll(f) PROVE Inv'
  <2> DEFINE fd == call[f].fd
             x == K(fd)
             evs == events[x]
  <2>1. /\ fd \in Fd /\ call[f].context = x /\ x \in Context /\ x.fd = fd
        /\ pc[f] = "closeAll" /\ fd \in open
    BY <1>0, <1>4 DEF AllFound, Found, CancelAll, Closes
  <2>2. UNCHANGED <<tableVars, open, batch, aborted, call>>
    BY <1>4 DEF CancelAll
  <2>3. CASE evs # {}
    <3>1. CtlSucceeds("DEL", fd)
      <4>1. interest[fd] = [context |-> x, events |-> events[x]] /\ interest[fd] # None
        BY <1>0, <2>1, <2>3 DEF ListedRight, TypeSlots
      <4> QED BY <2>1, <4>1 DEF CtlSucceeds
    <3>2. /\ interest' = [interest EXCEPT ![fd] = None]
          /\ TriggerEvents(x, evs)
          /\ pc' = [Resumed(x, evs) EXCEPT ![f] = "close"]
      BY <1>4, <2>1, <2>3, <3>1 DEF CancelAll
    <3>3. /\ pc' \in [Fiber -> Places] /\ pc'[f] = "close"
          /\ \A g \in Fiber \ {f} :
                IF g \in Waiters(x, evs) THEN pc'[g] = "run" ELSE pc'[g] = pc[g]
      BY <1>0, <3>2 DEF Resumed, TypeFibers
    <3>4. evs \in SUBSET events[x] /\ evs \in SUBSET Event /\ events[x] \ evs = {}
      BY <1>0, <2>1 DEF TypeSlots
    <3>5. users' \subseteq [fd : Fd, event : Event]
      BY <1>0, <3>2 DEF TriggerEvents, Forget, TypeFibers
    <3>6. TypeFibers' /\ NoAddAbort'
      BY <1>0, <2>2, <3>3, <3>5 DEF TypeFibers, NoAddAbort
    <3>7. \A g \in Waiters(x, evs) : g \in Fiber /\ pc[g] = "hold"
      BY <1>2, <2>1, <3>4
    <3>8. \A g \in Fiber : pc'[g] = "hold" <=> pc[g] = "hold" /\ g \notin Waiters(x, evs)
      BY <2>1, <3>3, <3>7
    <3>9. \A g \in Fiber : \/ pc'[g] = pc[g] /\ call'[g] = call[g]
                           \/ pc'[g] \in {"run", "dropped"}
                           \/ /\ pc[g] = "closeAll" /\ pc'[g] = "close" /\ call'[g] = call[g]
                              /\ call[g].fd = fd /\ evs = events[K(fd)]
      BY <2>1, <2>2, <3>3
    <3>10. interest' = [interest EXCEPT ![fd] =
               IF events[x] \ evs = {} THEN None
               ELSE [context |-> x, events |-> events[x] \ evs]]
      BY <3>2, <3>4
    <3> HIDE DEF fd, evs
    <3> QED BY <2>1, <2>2, <3>2, <3>4, <3>6, <3>8, <3>9, <3>10, TriggerStep DEF x
  <2>4. CASE evs = {}
    <3>1. /\ pc' = [pc EXCEPT ![f] = "close"]
          /\ UNCHANGED <<contextVars, interest, users>>
      BY <1>4, <2>1, <2>4 DEF CancelAll
    <3>2. /\ pc' \in [Fiber -> Places] /\ pc'[f] = "close"
          /\ \A g \in Fiber \ {f} : pc'[g] = pc[g]
      BY <1>0, <3>1 DEF TypeFibers
    <3>3. call' \in [Fiber -> CallType] /\ call' = call
      BY <1>0, <2>2 DEF TypeFibers
    <3> QED BY <1>0, <2>1, <2>2, <2>4, <3>1, <3>2, <3>3, FiberGoesOn DEF kernelVars
  <2> QED BY <2>3, <2>4
<1>5. ASSUME NEW l \in Looper, NEW r \in batch[l], HandleReport(l, r) PROVE Inv'
  <2> DEFINE x == r.context
             fd == x.fd
             real == RealEvents(r.flags)
             left == events[x] \ real
             op == Op(left, "DEL")
  <2>1. /\ r \in [context : Context, flags : SUBSET (Event \cup {"ERR"})]
        /\ x \in Context /\ fd \in Fd
    BY <1>0 DEF TypeFibers, Context
  <2>2. /\ batch' = [batch EXCEPT ![l] = @ \ {r}]
        /\ UNCHANGED <<tableVars, open, call>>
    BY <1>5 DEF HandleReport
  <2>3. batch' \in [Looper -> SUBSET [context : Context, flags : SUBSET (Event \cup {"ERR"})]]
    BY <1>0, <2>2 DEF TypeFibers
  <2>4. CASE events[x] \cap real # {} /\ CtlSucceeds(op, fd) /\ real \subseteq events[x]
    <3>1. /\ interest' = [interest EXCEPT ![fd] = Listed(op, x, left)]
          /\ TriggerEvents(x, real)
          /\ pc' = Resumed(x, real)
          /\ UNCHANGED aborted
      BY <1>5, <2>4 DEF HandleReport
    <3>2. x = K(fd)
      BY <1>0, <2>1, <2>4 DEF Reachable, Context, K
    <3>3. Listed(op, x, left) = IF left = {} THEN None
                                ELSE [context |-> x, events |-> left]
      BY DEF Listed, Op
    <3>4. /\ pc' \in [Fiber -> Places]
          /\ \A g \in Fiber : IF g \in Waiters(x, real) THEN pc'[g] = "run" ELSE pc'[g] = pc[g]
      BY <1>0, <3>1 DEF Resumed, TypeFibers
    <3>5. real \in SUBSET events[x] /\ real \in SUBSET Event
      BY <1>0, <2>1, <2>4 DEF TypeSlots
    <3>6. users' \subseteq [fd : Fd, event : Event]
      BY <1>0, <3>1 DEF TriggerEvents, Forget, TypeFibers
    <3>7. TypeFibers' /\ NoAddAbort'
      BY <1>0, <2>2, <2>3, <3>1, <3>4, <3>6 DEF TypeFibers, NoAddAbort
    <3>8. \A g \in Waiters(x, real) : g \in Fiber /\ pc[g] = "hold"
      BY <1>2, <2>1, <3>5
    <3>9. \A g \in Fiber : pc'[g] = "hold" <=> pc[g] = "hold" /\ g \notin Waiters(x, real)
      BY <3>4, <3>8
    <3>10. \A g \in Fiber : \/ pc'[g] = pc[g] /\ call'[g] = call[g]
                            \/ pc'[g] \in {"run", "dropped"}
      BY <2>2, <3>4
    <3>11. interest' = [interest EXCEPT ![fd] =
               IF events[x] \ real = {} THEN None
               ELSE [context |-> x, events |-> events[x] \ real]]
      BY <3>1, <3>3
    <3> HIDE DEF x, fd, real, left, op
    <3> QED BY <2>1, <2>2, <3>1, <3>2, <3>5, <3>7, <3>9, <3>10, <3>11, TriggerStep
  <2>5. CASE ~(events[x] \cap real # {} /\ CtlSucceeds(op, fd) /\ real \subseteq events[x])
    <3>1. /\ UNCHANGED <<contextVars, interest, pc, users>>
          /\ aborted' \in {aborted, "triggerEvent"}
      BY <1>5, <2>5 DEF HandleReport
    <3>2. TypeFibers' /\ NoAddAbort'
      BY <1>0, <2>2, <2>3, <3>1 DEF TypeFibers, NoAddAbort
    <3> QED BY <2>2, <3>1, <3>2, Undisturbed DEF kernelVars
  <2> QED BY <2>4, <2>5
<1>6. \A f \in Fiber : (DelEvent(f) => pc[f] = "del") /\ (CancelEvent(f) => pc[f] = "cancel")
  BY DEF DelEvent, CancelEvent
<1> QED BY <1>3, <1>4, <1>5, <1>6

\* addEvent's resize: as long as one descriptor at a time is grown for, the vector
\* only gets longer, and the descriptor fits.
LEMMA GrowStep == ASSUME Inv, OneGrows, NEW f \in Fiber, AddGrow(f) PROVE Inv'
<1> USE IOAssumption, NullAssumption, KContext
<1> USE DEF tableVars, contextVars, kernelVars, boundVars
<1>0. /\ TableInv /\ TypeSlots /\ TypeKernel /\ TypeFibers /\ AllFound /\ Reachable /\ ListedRight
      /\ HeldOnce /\ Closes /\ Asked /\ SlotsMatch /\ Counted /\ NoAddAbort
  BY DEF Inv, Types
<1> DEFINE fd == call[f].fd
           n == (3 * fd) \div 2
           r == [call[f] EXCEPT !.context = K(fd)]
<1>1. /\ pc[f] = "grow" /\ fd \in Fd /\ InitSize <= fd /\ (size <= fd \/ size = n)
      /\ call[f].event \in Event
  BY <1>0 DEF AddGrow, AllFound, Found
<1>2. n \in Nat /\ n > fd /\ n >= size
  <2>1. fd \in Nat /\ fd >= 2 /\ size \in Nat
    BY <1>0, <1>1 DEF TableInv
  <2> QED BY <1>1, <2>1
<1>3. size' = n /\ UNCHANGED <<contextVars, kernelVars, batch, aborted, users>>
  BY DEF AddGrow, contextResize
<1> HIDE DEF n
<1>4. table' = [d \in Fd |-> IF d < size' THEN 0 ELSE None]
  <2>1. table' = [d \in Fd |-> Resized(d, n)]
    BY DEF AddGrow, contextResize, n
  <2>2. ASSUME NEW d \in Fd PROVE Resized(d, n) = IF d < n THEN 0 ELSE None
    BY <1>0, <1>2 DEF Resized, TableInv
  <2> QED BY <1>3, <2>1, <2>2
<1>5. created' = [d \in Fd |-> IF d < size' THEN 1 ELSE 0]
  <2>1. created' = [d \in Fd |-> IF table'[d] = created[d] THEN created[d] + 1 ELSE created[d]]
    BY DEF AddGrow, contextResize
  <2>2. ASSUME NEW d \in Fd
        PROVE  (IF table'[d] = created[d] THEN created[d] + 1 ELSE created[d])
                  = IF d < n THEN 1 ELSE 0
    <3>1. table'[d] = IF d < n THEN 0 ELSE None
      BY <1>3, <1>4
    <3>2. created[d] = IF d < size THEN 1 ELSE 0
      BY <1>0 DEF TableInv
    <3>3. size \in Nat /\ d \in Nat
      BY <1>0 DEF TableInv
    <3> QED BY <1>2, <3>1, <3>2, <3>3
  <2> QED BY <1>3, <2>1, <2>2
<1>6. call' = [call EXCEPT ![f] = r]
  <2>1. table'[fd] = 0
    BY <1>1, <1>2, <1>3, <1>4
  <2> QED BY <2>1 DEF AddGrow, K
<1>7. pc' = [pc EXCEPT ![f] = "add"]
  BY DEF AddGrow
<1>8. /\ r.fd = fd /\ r.event = call[f].event /\ r.context = K(fd)
      /\ r \in [fd : Fd \cup {None}, event : Event \cup {None},
                 context : Context \cup {None}, cb : BOOLEAN]
  BY <1>0, <1>1 DEF TypeFibers
<1>9. /\ pc' \in [Fiber -> {"run", "grow", "add", "del", "cancel", "closeAll", "close",
                             "hold", "dropped"}]
      /\ pc'[f] = "add" /\ call'[f] = r
      /\ \A g \in Fiber \ {f} : pc'[g] = pc[g] /\ call'[g] = call[g]
  BY <1>0, <1>6, <1>7 DEF TypeFibers
<1> HIDE DEF r
<1>10. TableInv'
  BY <1>0, <1>2, <1>3, <1>4, <1>5 DEF TableInv
<1>11. TypeSlots' /\ TypeKernel' /\ ListedRight' /\ SlotsMatch' /\ NoAddAbort'
  BY <1>0, <1>3 DEF TypeSlots, TypeKernel, ListedRight, SlotsMatch, NoAddAbort
<1>12. TypeFibers'
  BY <1>0, <1>3, <1>6, <1>8, <1>9 DEF TypeFibers
<1>13. AllFound'
  <2>1. size \in Nat /\ size' \in Nat /\ size <= size' /\ fd < size' /\ size' = n
    BY <1>0, <1>2, <1>3 DEF TableInv
  <2>2. Found(f)'
    BY <1>1, <1>8, <1>9, <2>1 DEF Found
  <2>3. ASSUME NEW g \in Fiber \ {f} PROVE Found(g)'
    <3>1. pc'[g] = pc[g] /\ call'[g] = call[g] /\ Found(g)
      BY <1>0, <1>9 DEF AllFound
    <3>2. CASE pc[g] = "grow"
      <4>1. call[g].fd = fd
        BY <1>1, <3>2 DEF OneGrows
      <4> QED BY <1>1, <2>1, <3>1, <3>2, <4>1 DEF Found, n
    <3>3. CASE pc[g] # "grow"
      <4>1. \A d \in Fd : d < size => d < size'
        BY <2>1
      <4> QED BY <3>1, <3>3, <4>1 DEF Found
    <3> QED BY <3>2, <3>3
  <2> QED BY <2>2, <2>3 DEF AllFound
<1>14. Reachable'
  <2>1. \A x \in Context : x.fd < size => x.fd < size'
    <3>1. size \in Nat /\ size' \in Nat /\ size <= size' /\ \A x \in Context : x.fd \in Nat
      BY <1>0, <1>2, <1>3 DEF TableInv, Context
    <3> QED BY <3>1
  <2> QED BY <1>0, <1>3, <2>1 DEF Reachable
<1>15. HeldOnce'
  <2>1. \A x \in Context, e \in Event : slot[x][e].fiber \in Fiber \cup {None}
    BY <1>0 DEF TypeSlots
  <2> QED BY <1>0, <1>1, <1>3, <1>9, <2>1 DEF HeldOnce
<1>16. Closes'
  BY <1>0, <1>1, <1>3, <1>8, <1>9 DEF Closes
<1>17. Asked'
  BY <1>0, <1>1, <1>3, <1>8, <1>9 DEF Asked
<1>18. Counted'
  BY <1>0, <1>3 DEF Counted, PendingExact, Registered
<1> QED BY <1>10, <1>11, <1>12, <1>13, <1>14, <1>15, <1>16, <1>17, <1>18 DEF Inv, Types

\* close_f after cancelAll: nothing of the descriptor is registered any more.
LEMMA CloseStep == ASSUME Inv, NEW f \in Fiber, CloseFd(f) PROVE Inv'
<1> USE IOAssumption, NullAssumption, KContext
<1> USE DEF tableVars, contextVars, kernelVars, boundVars
<1>0. /\ TableInv /\ TypeSlots /\ TypeKernel /\ TypeFibers /\ AllFound /\ Reachable /\ ListedRight
      /\ HeldOnce /\ Closes /\ Asked /\ SlotsMatch /\ Counted /\ NoAddAbort
  BY DEF Inv, Types
<1> DEFINE fd == call[f].fd
<1>1. pc[f] = "close" /\ fd \in Fd /\ events[K(fd)] = {}
  BY <1>0 DEF CloseFd, AllFound, Found, Closes
<1>2. /\ pc' = [pc EXCEPT ![f] = "run"] /\ call' = [call EXCEPT ![f] = NoCall]
      /\ open' = open \ {fd} /\ UNCHANGED <<tableVars, contextVars, batch, aborted>>
      /\ users' = {u \in users : ~(u.fd = fd /\ u.event \in Event)}
  BY DEF CloseFd, Forget
<1>3. interest' = interest
  <2>1. interest[fd] = None /\ interest' = [interest EXCEPT ![fd] = None]
    BY <1>0, <1>1 DEF ListedRight, CloseFd
  <2> QED BY <1>0, <1>1, <2>1 DEF TypeKernel
<1>4. NoCall \in [fd : Fd \cup {None}, event : Event \cup {None},
                  context : Context \cup {None}, cb : BOOLEAN]
  BY DEF NoCall
<1>5. /\ pc' \in [Fiber -> {"run", "grow", "add", "del", "cancel", "closeAll", "close",
                             "hold", "dropped"}]
      /\ pc'[f] = "run"
      /\ \A g \in Fiber \ {f} : pc'[g] = pc[g] /\ call'[g] = call[g]
  BY <1>0, <1>2 DEF TypeFibers
<1> HIDE DEF fd
<1>10. TableInv' /\ TypeSlots' /\ TypeKernel' /\ Reachable' /\ SlotsMatch' /\ NoAddAbort'
  BY <1>0, <1>2, <1>3 DEF TableInv, TypeSlots, TypeKernel, Reachable, SlotsMatch, NoAddAbort
<1>11. TypeFibers'
  BY <1>0, <1>2, <1>4, <1>5 DEF TypeFibers
<1>12. AllFound'
  BY <1>0, <1>2, <1>5 DEF AllFound, Found
<1>13. ListedRight'
  BY <1>0, <1>1, <1>2, <1>3 DEF ListedRight
<1>14. HeldOnce'
  <2>1. \A x \in Context, e \in Event : slot[x][e].fiber \in Fiber \cup {None}
    BY <1>0 DEF TypeSlots
  <2> QED BY <1>0, <1>1, <1>2, <1>5, <2>1 DEF HeldOnce
<1>15. Closes'
  BY <1>0, <1>1, <1>2, <1>5 DEF Closes, fd
<1>16. Asked'
  <2>1. ASSUME NEW g \in Fiber, pc'[g] \in {"grow", "add"}
        PROVE  /\ g # f /\ pc[g] = pc'[g] /\ call'[g] = call[g] /\ call[g].fd # fd
               /\ call[g].fd \in Fd
    BY <1>0, <1>1, <1>5, <2>1 DEF Closes, fd, AllFound, Found
  <2>2. ASSUME NEW g \in Fiber, pc'[g] \in {"grow", "add"}
        PROVE  /\ [fd |-> call'[g].fd, event |-> call'[g].event] \in users'
               /\ call'[g].event \notin events'[K(call'[g].fd)]
    <3>1. [fd |-> call[g].fd, event |-> call[g].event] \in users
      BY <1>0, <2>1, <2>2 DEF Asked
    <3>2. [fd |-> call[g].fd, event |-> call[g].event] \in users'
      BY <1>2, <2>1, <2>2, <3>1
    <3>3. call[g].event \notin events[K(call[g].fd)]
      BY <1>0, <2>1, <2>2 DEF Asked
    <3> QED BY <1>2, <2>1, <2>2, <3>2, <3>3
  <2>3. ASSUME NEW g \in Fiber, NEW h \in Fiber, pc'[g] \in {"grow", "add"},
               pc'[h] \in {"grow", "add"},
               call'[h].fd = call'[g].fd, call'[h].event = call'[g].event
        PROVE  h = g
    <3>1. /\ pc[g] \in {"grow", "add"} /\ pc[h] \in {"grow", "add"}
          /\ call[h].fd = call[g].fd /\ call[h].event = call[g].event
      BY <2>1, <2>3
    <3> QED BY <1>0, <3>1 DEF Asked
  <2>4. ASSUME NEW d \in Fd, NEW e \in events'[K(d)]
        PROVE  [fd |-> d, event |-> e] \in users'
    <3>1. d # fd /\ [fd |-> d, event |-> e] \in users
      BY <1>0, <1>1, <1>2 DEF Asked
    <3> QED BY <1>2, <3>1
  <2> QED BY <2>2, <2>3, <2>4 DEF Asked
<1>17. Counted'
  BY <1>0, <1>2 DEF Counted, PendingExact, Registered
<1> QED BY <1>10, <1>11, <1>12, <1>13, <1>14, <1>15, <1>16, <1>17 DEF Inv, Types

\* The rest of addEvent: the event is not registered yet, so the assertion holds, and
\* a registration enters all the records, or epoll refuses and nothing is changed.
LEMMA AddStep == ASSUME Inv, NEW f \in Fiber, AddEvent(f) PROVE Inv'
<1> USE IOAssumption, NullAssumption, KContext
<1> USE DEF tableVars, contextVars, kernelVars, boundVars
<1>0. /\ TableInv /\ TypeSlots /\ TypeKernel /\ TypeFibers /\ AllFound /\ Reachable /\ ListedRight
      /\ HeldOnce /\ Closes /\ Asked /\ SlotsMatch /\ Counted /\ NoAddAbort
  BY DEF Inv, Types
<1> DEFINE fd == call[f].fd
           x == K(fd)
           e == call[f].event
           cb == call[f].cb
           op == Op(events[x], "ADD")
<1>1. /\ pc[f] = "add" /\ fd \in Fd /\ e \in Event /\ cb \in BOOLEAN /\ fd < size
      /\ call[f].context = x /\ x \in Context /\ x.fd = fd /\ x.gen = 0
  BY <1>0 DEF AddEvent, AllFound, Found, TypeFibers
<1>2. e \notin events[x] /\ [fd |-> fd, event |-> e] \in users
  BY <1>0, <1>1 DEF Asked
<1>3. UNCHANGED <<tableVars, open, batch>> /\ call' = [call EXCEPT ![f] = NoCall]
  BY <1>1, <1>2 DEF AddEvent
<1>4. NoCall \in [fd : Fd \cup {None}, event : Event \cup {None},
                  context : Context \cup {None}, cb : BOOLEAN]
  BY DEF NoCall
<1>5. /\ call' \in [Fiber -> [fd : Fd \cup {None}, event : Event \cup {None},
                             context : Context \cup {None}, cb : BOOLEAN]]
      /\ \A g \in Fiber \ {f} : call'[g] = call[g]
  BY <1>0, <1>3, <1>4 DEF TypeFibers
<1>6. \A y \in Context, d \in Event : slot[y][d].fiber \in Fiber \cup {None}
  BY <1>0 DEF TypeSlots
<1>7. ASSUME NEW g \in Fiber, g # f, pc[g] \in {"grow", "add"}
      PROVE  /\ ~(call[g].fd = fd /\ call[g].event = e) /\ call[g].fd \in Fd
             /\ [fd |-> call[g].fd, event |-> call[g].event] \in users
             /\ call[g].event \notin events[K(call[g].fd)] /\ call[g].event \in Event
  BY <1>0, <1>1, <1>7 DEF Asked, AllFound, Found
<1>8. ASSUME NEW g \in Fiber, NEW h \in Fiber, pc[g] \in {"grow", "add"}, pc[h] \in {"grow", "add"},
             call[h].fd = call[g].fd, call[h].event = call[g].event
      PROVE  h = g
  BY <1>0, <1>8 DEF Asked
<1>9. CASE ~CtlSucceeds(op, fd)
  <2>1. /\ pc' = [pc EXCEPT ![f] = "run"] /\ UNCHANGED <<contextVars, interest, aborted>>
        /\ users' = {u \in users : ~(u.fd = fd /\ u.event \in {e})}
    BY <1>1, <1>2, <1>9 DEF AddEvent, Forget
  <2>2. /\ pc' \in [Fiber -> {"run", "grow", "add", "del", "cancel", "closeAll", "close",
                               "hold", "dropped"}]
        /\ pc'[f] = "run" /\ \A g \in Fiber \ {f} : pc'[g] = pc[g]
    BY <1>0, <2>1 DEF TypeFibers
  <2> HIDE DEF fd, x, e, cb, op
  <2>3. TableInv' /\ TypeSlots' /\ TypeKernel' /\ Reachable' /\ SlotsMatch' /\ NoAddAbort' /\ ListedRight'
    BY <1>0, <1>3, <2>1
       DEF TableInv, TypeSlots, TypeKernel, Reachable, SlotsMatch, NoAddAbort, ListedRight
  <2>4. TypeFibers'
    BY <1>0, <1>3, <1>5, <2>1, <2>2 DEF TypeFibers
  <2>5. AllFound'
    BY <1>0, <1>3, <1>5, <2>2 DEF AllFound, Found
  <2>6. HeldOnce'
    BY <1>0, <1>1, <1>6, <2>1, <2>2 DEF HeldOnce
  <2>7. Closes'
    BY <1>0, <1>3, <1>5, <2>1, <2>2 DEF Closes
  <2>8. Asked'
    <3>1. ASSUME NEW g \in Fiber, pc'[g] \in {"grow", "add"}
          PROVE  g # f /\ pc[g] = pc'[g] /\ call'[g] = call[g]
      BY <1>5, <2>2, <3>1
    <3>2. ASSUME NEW g \in Fiber, pc'[g] \in {"grow", "add"}
          PROVE  /\ [fd |-> call'[g].fd, event |-> call'[g].event] \in users'
                 /\ call'[g].event \notin events'[K(call'[g].fd)]
      BY <1>7, <2>1, <3>1, <3>2
    <3>3. ASSUME NEW g \in Fiber, NEW h \in Fiber, pc'[g] \in {"grow", "add"},
                 pc'[h] \in {"grow", "add"},
                 call'[h].fd = call'[g].fd, call'[h].event = call'[g].event
          PROVE  h = g
      BY <1>8, <3>1, <3>3
    <3>4. ASSUME NEW d \in Fd, NEW a \in events'[K(d)]
          PROVE  [fd |-> d, event |-> a] \in users'
      <4>1. [fd |-> d, event |-> a] \in users
        BY <1>0, <2>1 DEF Asked
      <4>2. ~(d = fd /\ a = e)
        BY <1>2, <2>1 DEF x
      <4> QED BY <2>1, <4>1, <4>2
    <3> QED BY <3>2, <3>3, <3>4 DEF Asked
  <2>9. Counted'
    BY <1>0, <2>1 DEF Counted, PendingExact, Registered
  <2> QED BY <2>3, <2>4, <2>5, <2>6, <2>7, <2>8, <2>9 DEF Inv, Types
<1>10. CASE CtlSucceeds(op, fd)
  <2> DEFINE v == [scheduler |-> TRUE, cb |-> cb, fiber |-> IF cb THEN None ELSE f]
             to == IF cb THEN "run" ELSE "hold"
  <2>1. /\ pc' = [pc EXCEPT ![f] = to] /\ users' = users
        /\ m_pendingEventCount' = m_pendingEventCount + 1
        /\ events' = [events EXCEPT ![x] = events[x] \cup {e}]
        /\ interest' = [interest EXCEPT ![fd] = Listed(op, x, events[x] \cup {e})]
        /\ aborted' = IF slot[x][e] = EmptySlot THEN "no" ELSE "slot"
        /\ slot' = [slot EXCEPT ![x][e] = v]
    BY <1>1, <1>2, <1>10 DEF AddEvent
  <2>2. /\ pc' \in [Fiber -> {"run", "grow", "add", "del", "cancel", "closeAll", "close",
                               "hold", "dropped"}]
        /\ pc'[f] = to /\ \A g \in Fiber \ {f} : pc'[g] = pc[g]
    BY <1>0, <2>1 DEF TypeFibers
  <2>3. aborted' = "no"
    BY <1>0, <1>1, <1>2, <2>1 DEF SlotsMatch
  <2>4. /\ events' \in [Context -> SUBSET Event] /\ events'[x] = events[x] \cup {e}
        /\ \A y \in Context : y # x => events'[y] = events[y]
    BY <1>0, <1>1, <2>1 DEF TypeSlots
  <2>5. /\ v \in [scheduler : BOOLEAN, cb : BOOLEAN, fiber : Fiber \cup {None}]
        /\ v.scheduler /\ (v.cb <=> v.fiber = None) /\ v.fiber \in {None, f}
        /\ v.fiber = f <=> to = "hold"
        /\ to \in {"run", "hold"}
    BY <1>1
  <2>6. Listed(op, x, events[x] \cup {e}) = [context |-> x, events |-> events'[x]]
    BY <2>4 DEF Listed, Op
  <2>7. fd \in open
    BY <1>10 DEF CtlSucceeds
  <2> HIDE DEF fd, e, cb, op, v, to
  <2>8. \A d \in Fd : d # fd => K(d) # x
    BY DEF K
  <2> HIDE DEF x
  <2>9. /\ slot' \in [Context -> [Event -> [scheduler : BOOLEAN, cb : BOOLEAN,
                                            fiber : Fiber \cup {None}]]]
        /\ slot'[x][e] = v
        /\ \A y \in Context, d \in Event : ~(y = x /\ d = e) => slot'[y][d] = slot[y][d]
    BY <1>0, <1>1, <2>1, <2>5 DEF TypeSlots
  <2>10. TableInv' /\ TypeSlots' /\ NoAddAbort'
    BY <1>0, <1>3, <2>3, <2>4, <2>9 DEF TableInv, TypeSlots, NoAddAbort
  <2>11. interest' = [interest EXCEPT ![fd] = [context |-> x, events |-> events'[x]]]
    BY <2>1, <2>6
  <2>12. TypeKernel'
    BY <1>0, <1>1, <1>3, <2>4, <2>11 DEF TypeKernel
  <2>13. TypeFibers'
    BY <1>0, <1>3, <1>5, <2>1, <2>2, <2>3 DEF TypeFibers
  <2>14. AllFound'
    BY <1>0, <1>3, <1>5, <2>2, <2>5 DEF AllFound, Found
  <2>15. Reachable'
    BY <1>0, <1>1, <1>3, <2>4 DEF Reachable
  <2>16. ListedRight'
    <3>1. interest'[fd] = [context |-> x, events |-> events'[x]] /\ events'[x] # {} /\ fd \in open'
      BY <1>0, <1>1, <1>3, <2>4, <2>7, <2>11 DEF TypeKernel
    <3>2. \A d \in Fd : d # fd => interest'[d] = interest[d] /\ events'[K(d)] = events[K(d)]
      BY <1>0, <1>1, <2>4, <2>8, <2>11 DEF TypeKernel
    <3> QED BY <1>0, <1>3, <3>1, <3>2 DEF ListedRight, x
  <2>17. SlotsMatch'
    <3> SUFFICES ASSUME NEW y \in Context, NEW d \in Event
                 PROVE  IF d \in events'[y]
                           THEN slot'[y][d].scheduler /\ (slot'[y][d].cb <=> slot'[y][d].fiber = None)
                           ELSE slot'[y][d] = EmptySlot
      BY DEF SlotsMatch
    <3>1. CASE y = x /\ d = e
      BY <2>4, <2>5, <2>9, <3>1
    <3>2. CASE ~(y = x /\ d = e)
      BY SMTT(40), <1>0, <2>4, <2>9, <3>2 DEF SlotsMatch
    <3> QED BY <3>1, <3>2
  <2>18. HeldOnce'
    <3>1. \A y \in Context, d \in Event : slot[y][d].fiber # f
      BY <1>0, <1>1 DEF HeldOnce
    <3>2. ASSUME NEW y \in Context, NEW d \in Event, slot'[y][d].fiber # None
          PROVE  /\ pc'[slot'[y][d].fiber] = "hold"
                 /\ slot'[y][d].fiber = f <=> (y = x /\ d = e)
      <4>1. CASE y = x /\ d = e
        BY <2>2, <2>5, <2>9, <3>2, <4>1
      <4>2. CASE ~(y = x /\ d = e)
        <5>1. slot'[y][d] = slot[y][d]
          BY <2>9, <4>2
        <5>2. slot[y][d].fiber \in Fiber \ {f} /\ pc[slot[y][d].fiber] = "hold"
          BY <1>0, <1>6, <3>1, <3>2, <5>1 DEF HeldOnce
        <5> QED BY <2>2, <4>2, <5>1, <5>2
      <4> QED BY <4>1, <4>2
    <3>3. ASSUME NEW y \in Context, NEW z \in Context, NEW d \in Event, NEW a \in Event,
                 slot'[y][d].fiber # None, slot'[z][a].fiber = slot'[y][d].fiber
          PROVE  z = y /\ a = d
      <4>1. CASE y = x /\ d = e
        BY <2>5, <2>9, <3>2, <3>3, <4>1
      <4>2. CASE ~(y = x /\ d = e)
        <5>1. ~(z = x /\ a = e)
          BY <3>2, <3>3, <4>2
        <5>2. slot'[y][d] = slot[y][d] /\ slot'[z][a] = slot[z][a]
          BY <2>9, <4>2, <5>1
        <5> QED BY <1>0, <3>3, <5>2 DEF HeldOnce
      <4> QED BY <4>1, <4>2
    <3>4. ASSUME NEW g \in Fiber, pc'[g] = "hold"
          PROVE  \E y \in Context, d \in Event : d \in events'[y] /\ slot'[y][d].fiber = g
      <4>1. CASE g = f
        <5>1. e \in events'[x] /\ slot'[x][e].fiber = g
          BY <2>2, <2>4, <2>5, <2>9, <3>4, <4>1
        <5> QED BY <1>1, <5>1
      <4>2. CASE g # f
        <5>1. pc[g] = "hold"
          BY <2>2, <3>4, <4>2
        <5>2. PICK y \in Context, d \in Event : d \in events[y] /\ slot[y][d].fiber = g
          BY <1>0, <5>1 DEF HeldOnce
        <5>3. ~(y = x /\ d = e)
          BY <1>2, <5>2
        <5>4. d \in events'[y] /\ slot'[y][d].fiber = g
          BY <2>4, <2>9, <5>2, <5>3
        <5> QED BY <5>4
      <4> QED BY <4>1, <4>2
    <3> QED BY <3>2, <3>3, <3>4 DEF HeldOnce
  <2>19. Closes'
    <3>1. ASSUME NEW g \in Fiber, pc'[g] \in {"closeAll", "close"}
          PROVE  g # f /\ pc[g] = pc'[g] /\ call'[g] = call[g] /\ call[g].fd # fd /\ call[g].fd \in Fd
      BY <1>0, <1>1, <1>5, <2>2, <2>5, <3>1 DEF Closes, fd, AllFound, Found
    <3>2. ASSUME NEW g \in Fiber, pc'[g] \in {"closeAll", "close"}
          PROVE  /\ call'[g].fd \in open'
                 /\ pc'[g] = "close" => events'[K(call'[g].fd)] = {}
      <4>1. events'[K(call[g].fd)] = events[K(call[g].fd)]
        BY <2>4, <2>8, <3>1, <3>2
      <4> QED BY <1>0, <1>3, <3>1, <3>2, <4>1 DEF Closes
    <3>3. ASSUME NEW g \in Fiber, pc'[g] \in {"closeAll", "close"}, NEW h \in Fiber
          PROVE  /\ pc'[h] \in {"grow", "add"} => call'[h].fd # call'[g].fd
                 /\ pc'[h] \in {"closeAll", "close"} /\ call'[h].fd = call'[g].fd => h = g
      BY <1>0, <1>5, <2>2, <2>5, <3>1, <3>3 DEF Closes
    <3> QED BY <3>2, <3>3 DEF Closes
  <2>20. Asked'
    <3>1. ASSUME NEW g \in Fiber, pc'[g] \in {"grow", "add"}
          PROVE  g # f /\ pc[g] = pc'[g] /\ call'[g] = call[g]
      BY <1>5, <2>2, <2>5, <3>1
    <3>2. ASSUME NEW g \in Fiber, pc'[g] \in {"grow", "add"}
          PROVE  /\ [fd |-> call'[g].fd, event |-> call'[g].event] \in users'
                 /\ call'[g].event \notin events'[K(call'[g].fd)]
      <4>1. /\ ~(call[g].fd = fd /\ call[g].event = e) /\ call[g].fd \in Fd
            /\ [fd |-> call[g].fd, event |-> call[g].event] \in users
            /\ call[g].event \notin events[K(call[g].fd)]
        BY <1>7, <3>1, <3>2
      <4>2. call[g].event \notin events'[K(call[g].fd)]
        BY <2>4, <2>8, <4>1 DEF x
      <4> QED BY <2>1, <3>1, <3>2, <4>1, <4>2
    <3>3. ASSUME NEW g \in Fiber, NEW h \in Fiber, pc'[g] \in {"grow", "add"},
                 pc'[h] \in {"grow", "add"},
                 call'[h].fd = call'[g].fd, call'[h].event = call'[g].event
          PROVE  h = g
      BY <1>8, <3>1, <3>3
    <3>4. ASSUME NEW d \in Fd, NEW a \in events'[K(d)]
          PROVE  [fd |-> d, event |-> a] \in users'
      <4>1. a \in events[K(d)] \/ (d = fd /\ a = e)
        BY <2>4, <2>8
      <4> QED BY <1>0, <1>2, <2>1, <4>1 DEF Asked
    <3> QED BY <3>2, <3>3, <3>4 DEF Asked
  <2>21. Counted'
    <3>1. Registered' = Registered \cup {<<x, e>>} /\ <<x, e>> \notin Registered
      BY <1>1, <1>2, <2>4 DEF Registered
    <3>2. /\ IsFiniteSet(Registered \cup {<<x, e>>})
          /\ Cardinality(Registered \cup {<<x, e>>}) = Cardinality(Registered) + 1
      BY <1>0, <3>1, FS_AddElement DEF Counted
    <3> QED BY <1>0, <2>1, <3>1, <3>2 DEF Counted, PendingExact
  <2> QED BY <2>10, <2>12, <2>13, <2>14, <2>15, <2>16, <2>17, <2>18, <2>19, <2>20, <2>21 DEF Inv, Types
<1> QED BY <1>9, <1>10

(* Every step of Next, and a stutter, keeps the invariant. *)
LEMMA InvNext == ASSUME ~CloseRace, Inv, OneGrows, [Next]_vars PROVE Inv'
<1>1. \/ \/ \E f \in Fiber : Calls(f)
         \/ \E fd \in Fd : Reopen(fd)
         \/ \E l \in Looper : EpollWait(l)
         \/ Dead \/ Pause \/ UNCHANGED vars
      \/ \E f \in Fiber : AddGrow(f)
      \/ \E f \in Fiber : AddEvent(f)
      \/ \E f \in Fiber : CloseFd(f)
      \/ \/ \E f \in Fiber : DelEvent(f) \/ CancelEvent(f) \/ CancelAll(f)
         \/ \E l \in Looper : \E r \in batch[l] : HandleReport(l, r)
  BY Zenon DEF Next, InCall
<1> QED BY <1>1, LookupSteps, GrowStep, AddStep, CloseStep, ReleaseSteps

\* What the inductive invariant says of the records that the runs check.
LEMMA InvSound == ASSUME Inv PROVE EventsSound /\ WaitersHeld /\ AddAssertion
<1> USE IOAssumption, NullAssumption, KContext
<1>0. /\ TableInv /\ TypeSlots /\ TypeKernel /\ TypeFibers /\ AllFound /\ Reachable /\ ListedRight
      /\ HeldOnce /\ Closes /\ Asked /\ SlotsMatch /\ Counted /\ NoAddAbort
  BY DEF Inv, Types
<1>1. \A x \in Context : events[x] # {} => x = K(x.fd) /\ x.fd \in Fd
  BY <1>0 DEF Reachable, Context, K
<1>2. TypeTable
  BY <1>0 DEF TableInv, TypeTable
<1>3. TypeContexts
  <2>1. m_pendingEventCount \in Nat
    BY <1>0, FS_CardinalityType DEF Counted, PendingExact
  <2> QED BY <1>0, <2>1 DEF TypeSlots, TypeContexts
<1>4. KernelAgrees
  <2> SUFFICES ASSUME NEW fd \in Fd, NEW x \in Context, x.fd = fd
               PROVE  IF interest[fd] = None THEN events[x] = {}
                      ELSE events[x] = IF x = interest[fd].context THEN interest[fd].events ELSE {}
    BY DEF KernelAgrees
  <2>1. CASE events[K(fd)] = {}
    <3>1. interest[fd] = None /\ events[x] = {}
      BY <1>0, <1>1, <2>1 DEF ListedRight
    <3> QED BY <3>1
  <2>2. CASE events[K(fd)] # {}
    <3>1. interest[fd] = [context |-> K(fd), events |-> events[K(fd)]] /\ interest[fd] # None
      BY <1>0, <2>2 DEF ListedRight, TypeSlots
    <3>2. x # K(fd) => events[x] = {}
      BY <1>1
    <3> QED BY <3>1, <3>2
  <2> QED BY <2>1, <2>2
<1>5. WaitersHeld
  <2> SUFFICES ASSUME NEW f \in Fiber, pc[f] = "hold"
               PROVE  \E x \in Context, e \in Event :
                         /\ e \in events[x] /\ slot[x][e].fiber = f
                         /\ interest[x.fd] = [context |-> x, events |-> events[x]]
                         /\ \A y \in Context, d \in Event : slot[y][d].fiber = f => y = x /\ d = e
    BY DEF WaitersHeld
  <2>1. PICK x \in Context, e \in Event : e \in events[x] /\ slot[x][e].fiber = f
    BY <1>0 DEF HeldOnce
  <2>2. x = K(x.fd) /\ x.fd \in Fd /\ events[x] # {}
    BY <1>1, <2>1
  <2>3. interest[x.fd] = [context |-> x, events |-> events[x]]
    BY <1>0, <2>2 DEF ListedRight
  <2>4. \A y \in Context, d \in Event : slot[y][d].fiber = f => y = x /\ d = e
    BY <1>0, <2>1 DEF HeldOnce
  <2> QED BY <2>1, <2>3, <2>4
<1>6. AddAssertion
  BY <1>0 DEF NoAddAbort, AddAssertion
<1> QED BY <1>0, <1>2, <1>3, <1>4, <1>5, <1>6 DEF EventsSound, TypeOK, Counted

\* As long as no fiber uses a descriptor that another is closing, and the vector of
\* contexts is grown for one descriptor at a time, the four records of a wait agree.
THEOREM RecordsAgree == ASSUME ~CloseRace PROVE Spec /\ []OneGrows => []EventsSound
  BY InvInit, InvNext, InvSound, PTL DEF Spec

\* Under the same conditions a waiting fiber can still be resumed, and once only.
THEOREM WaitersAreHeld == ASSUME ~CloseRace PROVE Spec /\ []OneGrows => []WaitersHeld
  BY InvInit, InvNext, InvSound, PTL DEF Spec

\* Under the same conditions addEvent's assertion on the event's bit never fails.
THEOREM AddNeverAsserts == ASSUME ~CloseRace PROVE Spec /\ []OneGrows => []AddAssertion
  BY InvInit, InvNext, InvSound, PTL DEF Spec

==============================================================================
