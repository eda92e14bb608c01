------------------------------ MODULE IOManager ------------------------------
(***************************************************************************)
(* The fd events of sylar's IOManager (iomanager.h, iomanager.cc).         *)
(*                                                                         *)
(* Fibers register for READ or WRITE on an fd, with a callback or with     *)
(* themselves, and may delete or cancel what is registered; a hooked       *)
(* close() cancels everything first.  The loopers are the threads in       *)
(* IOManager::idle: they take a batch of events from epoll_wait and handle *)
(* them one by one, each under the mutex of its FdContext, some time after *)
(* the kernel reported them.  One hold of m_mutex, or of a context's mutex,*)
(* is one step.                                                            *)
(*                                                                         *)
(* epoll is external and modelled by its interest list.  A resumed fiber   *)
(* goes straight on: the scheduler's queue is module Scheduler.  A failed  *)
(* assertion ends the process; nothing after it is modelled.               *)
(***************************************************************************)
EXTENDS Integers, FiniteSets

CONSTANTS
    Fd,         \* the file descriptors in use
    Event,      \* the events in use, READ and WRITE
    Fiber,      \* the fibers that call the public operations
    Looper,     \* the threads in idle()
    None,       \* null pointer, absent
    InitSize,   \* the contextResize(32) of the constructor
    Errors,     \* may epoll report EPOLLERR or EPOLLHUP?
    CloseRace,  \* may fibers go on using an fd that is being closed?
    MaxGen,     \* bound: contexts created again for one fd
    MaxCalls,   \* bound: calls the fibers make
    MaxWaits    \* bound: batches the loopers take

ASSUME IOAssumption ==
    /\ Fd \subseteq Nat /\ IsFiniteSet(Fd)
    /\ IsFiniteSet(Event) /\ IsFiniteSet(Fiber)
    /\ InitSize \in Nat /\ InitSize > 1
    /\ Errors \in BOOLEAN /\ CloseRace \in BOOLEAN
    /\ MaxGen \in Nat /\ MaxCalls \in Nat /\ MaxWaits \in Nat
    /\ None \notin Fiber \cup Nat

\* The FdContext objects: the one first created for an fd, and its successors.
Context == [fd : Fd, gen : 0 .. MaxGen]

\* The null value is none of the others.
ASSUME NullAssumption ==
    None \notin Context \cup Event \cup [context : Context, events : SUBSET Event]

VARIABLES
    size,                 \* m_fdContexts.size()
    table,                \* which object m_fdContexts[fd] points to, by gen
    created,              \* how many objects were created for an fd
    events,               \* FdContext::events
    slot,                 \* FdContext::read and FdContext::write
    m_pendingEventCount,
    interest,             \* external: the interest list of m_epfd
    open,                 \* external: the open descriptors
    pc,                   \* where each fiber is
    call,                 \* a fiber's arguments and the context it has found
    batch,                \* what epoll_wait gave a looper, not handled yet
    aborted,              \* the assertion that failed
    calls, waits,         \* calls made, batches taken
    users                 \* ghost: who uses which event of which open fd

tableVars == <<size, table, created>>
contextVars == <<events, slot, m_pendingEventCount>>
kernelVars == <<interest, open>>
boundVars == <<calls, waits>>
vars == <<tableVars, contextVars, kernelVars, pc, call, batch, aborted, boundVars, users>>

EmptySlot == [scheduler |-> FALSE, fiber |-> None, cb |-> FALSE]
NoCall == [fd |-> None, event |-> None, context |-> None, cb |-> FALSE]

Init ==
    /\ size = InitSize
    /\ table = [fd \in Fd |-> IF fd < InitSize THEN 0 ELSE None]
    /\ created = [fd \in Fd |-> IF fd < InitSize THEN 1 ELSE 0]
    /\ events = [x \in Context |-> {}]
    /\ slot = [x \in Context |-> [e \in Event |-> EmptySlot]]
    /\ m_pendingEventCount = 0
    /\ interest = [fd \in Fd |-> None]
    /\ open = Fd
    /\ pc = [f \in Fiber |-> "run"]
    /\ call = [f \in Fiber |-> NoCall]
    /\ batch = [l \in Looper |-> {}]
    /\ aborted = "no"
    /\ calls = 0 /\ waits = 0
    /\ users = {}

Alive == aborted = "no"

-----------------------------------------------------------------------------
(* epoll_ctl: ADD fails for an fd that is on the interest list, MOD and DEL *)
(* for one that is not.                                                     *)

\* Faulty variant: removing one event always takes the fd off the list.
OpDeletes(registered, none) ==
    IF none = "DEL" \/ registered = {} THEN none ELSE "MOD"

\* The operation for an fd whose other events are the given ones.
Op(registered, none) == IF registered = {} THEN none ELSE "MOD"

CtlSucceeds(op, fd) == fd \in open /\ (op = "ADD" <=> interest[fd] = None)

Listed(op, x, evs) == IF op = "DEL" THEN None ELSE [context |-> x, events |-> evs]

-----------------------------------------------------------------------------
(* The calls.  users holds what a careful program knows it has outstanding: *)
(* it asks for an event of an fd once at a time.                            *)

Uses(fd, e) == \E u \in users : u.fd = fd /\ u.event = e

Closing(fd) == \E f \in Fiber : pc[f] \in {"closeAll", "close"} /\ call[f].fd = fd

Begin(f) == Alive /\ pc[f] = "run" /\ calls < MaxCalls /\ calls' = calls + 1

\* A call that looks the context up, and returns false when there is none.
Lookup(f, fd, e, next) ==
    /\ Begin(f)
    /\ IF size <= fd
          THEN UNCHANGED <<pc, call>>
          ELSE /\ pc' = [pc EXCEPT ![f] = next]
               /\ call' = [call EXCEPT ![f] = [fd |-> fd, event |-> e, cb |-> FALSE,
                                               context |-> [fd |-> fd, gen |-> table[fd]]]]
    /\ UNCHANGED <<tableVars, contextVars, kernelVars, batch, aborted, waits, users>>

\* The hooked close() does the same before cancelAll; without a context it goes on.
CloseLookup(f, fd) ==
    /\ Begin(f)
    /\ fd \in open /\ ~Closing(fd)
    /\ CloseRace \/ ~\E g \in Fiber : pc[g] \in {"grow", "add"} /\ call[g].fd = fd
    /\ pc' = [pc EXCEPT ![f] = IF size > fd THEN "closeAll" ELSE "close"]
    /\ call' = [call EXCEPT ![f] =
                   [fd |-> fd, event |-> None, cb |-> FALSE,
                    context |-> IF size > fd THEN [fd |-> fd, gen |-> table[fd]] ELSE None]]
    /\ UNCHANGED <<tableVars, contextVars, kernelVars, batch, aborted, waits, users>>

\* addEvent looks the context up under the read lock.
AddLookup(f, fd, e, cb) ==
    /\ Begin(f)
    /\ fd \in open /\ ~Uses(fd, e)
    /\ CloseRace \/ ~Closing(fd)
    /\ pc' = [pc EXCEPT ![f] = IF size > fd THEN "add" ELSE "grow"]
    /\ call' = [call EXCEPT ![f] =
                   [fd |-> fd, event |-> e, cb |-> cb,
                    context |-> IF size > fd THEN [fd |-> fd, gen |-> table[fd]] ELSE None]]
    /\ users' = users \cup {[fd |-> fd, event |-> e]}
    /\ UNCHANGED <<tableVars, contextVars, kernelVars, batch, aborted, waits>>

\* m_fdContexts[fd] after contextResize(n): what is cut off is forgotten, what is
\* missing is created.
Resized(fd, n) ==
    IF n <= fd THEN None ELSE IF table[fd] # None THEN table[fd] ELSE created[fd]

contextResize(n) ==
    /\ size' = n
    /\ table' = [fd \in Fd |-> Resized(fd, n)]
    /\ created' = [fd \in Fd |-> IF table'[fd] = created[fd] THEN created[fd] + 1
                                                             ELSE created[fd]]
    /\ \A fd \in Fd : created'[fd] <= MaxGen + 1

\* The vector is too short: resize it to fd * 1.5 under the write lock.
AddGrow(f) ==
    LET fd == call[f].fd IN
    /\ Alive /\ pc[f] = "grow"
    /\ contextResize((3 * fd) \div 2)
    /\ call' = [call EXCEPT ![f].context = [fd |-> fd, gen |-> table'[fd]]]
    /\ pc' = [pc EXCEPT ![f] = "add"]
    /\ UNCHANGED <<contextVars, kernelVars, batch, aborted, boundVars, users>>

Forget(fd, evs) == {u \in users : ~(u.fd = fd /\ u.event \in evs)}

Decrease(n) == m_pendingEventCount - n

\* The rest of addEvent, under the context's mutex.  A fiber that registered itself
\* yields; the window before it has really left its thread is Scheduler's subject.
AddEvent(f) ==
    LET x == call[f].context
        e == call[f].event
        op == Op(events[x], "ADD") IN
    /\ Alive /\ pc[f] = "add"
    /\ \/ /\ e \in events[x]
          /\ aborted' = "addEvent"
          /\ UNCHANGED <<contextVars, interest, pc, call, users>>
       \/ /\ e \notin events[x] /\ ~CtlSucceeds(op, x.fd)
          /\ pc' = [pc EXCEPT ![f] = "run"]
          /\ call' = [call EXCEPT ![f] = NoCall]
          /\ users' = Forget(x.fd, {e})
          /\ UNCHANGED <<contextVars, interest, aborted>>
       \/ /\ e \notin events[x] /\ CtlSucceeds(op, x.fd)
          /\ interest' = [interest EXCEPT ![x.fd] = Listed(op, x, events[x] \cup {e})]
          /\ m_pendingEventCount' = m_pendingEventCount + 1
          /\ events' = [events EXCEPT ![x] = @ \cup {e}]
          /\ aborted' = IF slot[x][e] = EmptySlot THEN "no" ELSE "slot"
          /\ slot' = [slot EXCEPT ![x][e] =
                         [scheduler |-> TRUE, cb |-> call[f].cb,
                          fiber |-> IF call[f].cb THEN None ELSE f]]
          /\ pc' = [pc EXCEPT ![f] = IF call[f].cb THEN "run" ELSE "hold"]
          /\ call' = [call EXCEPT ![f] = NoCall]
          /\ UNCHANGED users
    /\ UNCHANGED <<tableVars, open, batch, boundVars>>

\* resetContext, and what schedule() and triggerEvent leave of the context.
SlotCleared(x, evs) ==
    [slot EXCEPT ![x] = [e \in Event |-> IF e \in evs THEN EmptySlot ELSE @[e]]]

\* The fibers that evs of x were registered for.
Waiters(x, evs) == {slot[x][e].fiber : e \in evs} \ {None}

\* What triggerEvent does for each event in evs: its bit is cleared, its callback or
\* its fiber goes to the scheduler.
TriggerEvents(x, evs) ==
    /\ events' = [events EXCEPT ![x] = @ \ evs]
    /\ slot' = SlotCleared(x, evs)
    /\ m_pendingEventCount' = Decrease(Cardinality(evs))
    /\ users' = Forget(x.fd, evs)

\* delEvent: the callback or the fiber is released and never runs.
DelEvent(f) ==
    LET x == call[f].context
        e == call[f].event
        op == Op(events[x] \ {e}, "DEL") IN
    /\ Alive /\ pc[f] = "del"
    /\ IF e \in events[x] /\ CtlSucceeds(op, x.fd)
          THEN /\ interest' = [interest EXCEPT ![x.fd] = Listed(op, x, events[x] \ {e})]
               /\ TriggerEvents(x, {e})
               /\ pc' = [g \in Fiber |-> IF g = f THEN "run"
                                         ELSE IF g \in Waiters(x, {e}) THEN "dropped"
                                         ELSE pc[g]]
          ELSE /\ pc' = [pc EXCEPT ![f] = "run"]
               /\ UNCHANGED <<contextVars, interest, users>>
    /\ call' = [call EXCEPT ![f] = NoCall]
    /\ UNCHANGED <<tableVars, open, batch, aborted, boundVars>>

\* Faulty variant: the event goes without its fiber.
NotResumed(x, evs) == pc

\* Where a fiber is once the events it waits for were triggered.
Resumed(x, evs) ==
    [g \in Fiber |-> IF g \in Waiters(x, evs) THEN "run" ELSE pc[g]]

\* cancelEvent: the event is triggered by hand.
CancelEvent(f) ==
    LET x == call[f].context
        e == call[f].event
        op == Op(events[x] \ {e}, "DEL") IN
    /\ Alive /\ pc[f] = "cancel"
    /\ IF e \in events[x] /\ CtlSucceeds(op, x.fd)
          THEN /\ interest' = [interest EXCEPT ![x.fd] = Listed(op, x, events[x] \ {e})]
               /\ TriggerEvents(x, {e})
               /\ pc' = [Resumed(x, {e}) EXCEPT ![f] = "run"]
          ELSE /\ pc' = [pc EXCEPT ![f] = "run"]
               /\ UNCHANGED <<contextVars, interest, users>>
    /\ call' = [call EXCEPT ![f] = NoCall]
    /\ UNCHANGED <<tableVars, open, batch, aborted, boundVars>>

\* Faulty variant: close() without cancelAll.
NoCancelAll(f) ==
    /\ Alive /\ pc[f] = "closeAll"
    /\ pc' = [pc EXCEPT ![f] = "close"]
    /\ UNCHANGED <<tableVars, contextVars, kernelVars, call, batch, aborted, boundVars,
                   users>>

\* cancelAll, called by the hooked close().
CancelAll(f) ==
    LET x == call[f].context IN
    /\ Alive /\ pc[f] = "closeAll"
    /\ IF events[x] # {} /\ CtlSucceeds("DEL", x.fd)
          THEN /\ interest' = [interest EXCEPT ![x.fd] = None]
               /\ TriggerEvents(x, events[x])
               /\ pc' = [Resumed(x, events[x]) EXCEPT ![f] = "close"]
          ELSE /\ pc' = [pc EXCEPT ![f] = "close"]
               /\ UNCHANGED <<contextVars, interest, users>>
    /\ UNCHANGED <<tableVars, open, call, batch, aborted, boundVars>>

\* close_f: the kernel forgets the fd, and the program what it asked of it.
CloseFd(f) ==
    LET fd == call[f].fd IN
    /\ Alive /\ pc[f] = "close"
    /\ open' = open \ {fd}
    /\ interest' = [interest EXCEPT ![fd] = None]
    /\ users' = Forget(fd, Event)
    /\ pc' = [pc EXCEPT ![f] = "run"]
    /\ call' = [call EXCEPT ![f] = NoCall]
    /\ UNCHANGED <<tableVars, contextVars, batch, aborted, boundVars>>

\* The next socket() or accept() gets the lowest free number again.
Reopen(fd) ==
    /\ Alive /\ fd \notin open
    /\ open' = open \cup {fd}
    /\ UNCHANGED <<tableVars, contextVars, interest, pc, call, batch, aborted, boundVars,
                   users>>

-----------------------------------------------------------------------------
(* idle().                                                                  *)

\* What epoll_wait may report of an entry of the interest list.
Reports(fd) ==
    {[context |-> interest[fd].context, flags |-> fl] :
        fl \in SUBSET (interest[fd].events \cup (IF Errors THEN {"ERR"} ELSE {})) \ {{}}}

EpollWait(l) ==
    /\ Alive /\ batch[l] = {} /\ waits < MaxWaits
    /\ \E fds \in SUBSET {fd \in Fd : interest[fd] # None} \ {{}} :
          \E report \in [fds -> UNION {Reports(fd) : fd \in fds}] :
             /\ \A fd \in fds : report[fd] \in Reports(fd)
             /\ batch' = [batch EXCEPT ![l] = {report[fd] : fd \in fds}]
    /\ waits' = waits + 1
    /\ UNCHANGED <<tableVars, contextVars, kernelVars, pc, call, aborted, calls, users>>

\* real_events: an error counts as both events.
RealEvents(flags) == IF "ERR" \in flags THEN Event ELSE flags

\* One report of the batch, under the mutex of its context.
HandleReport(l, r) ==
    LET x == r.context
        real == RealEvents(r.flags)
        left == events[x] \ real
        op == Op(left, "DEL") IN
    /\ Alive
    /\ r \in batch[l]
    /\ batch' = [batch EXCEPT ![l] = @ \ {r}]
    /\ \/ /\ events[x] \cap real = {} \/ ~CtlSucceeds(op, x.fd)
          /\ UNCHANGED <<contextVars, interest, pc, aborted, users>>
       \/ /\ events[x] \cap real # {} /\ CtlSucceeds(op, x.fd)
          /\ IF real \subseteq events[x]
                THEN /\ interest' = [interest EXCEPT ![x.fd] = Listed(op, x, left)]
                     /\ TriggerEvents(x, real)
                     /\ pc' = Resumed(x, real)
                     /\ UNCHANGED aborted
                ELSE /\ aborted' = "triggerEvent"
                     /\ UNCHANGED <<contextVars, interest, pc, users>>
    /\ UNCHANGED <<tableVars, open, call, boundVars>>

\* A dead process takes no step.
Dead == ~Alive /\ UNCHANGED vars

-----------------------------------------------------------------------------
Calls(f) ==
    \E fd \in Fd :
        \/ \E e \in Event :
              \/ \E cb \in BOOLEAN : AddLookup(f, fd, e, cb)
              \/ Lookup(f, fd, e, "del")
              \/ Lookup(f, fd, e, "cancel")
        \/ CloseLookup(f, fd)

InCall(f) ==
    AddGrow(f) \/ AddEvent(f) \/ DelEvent(f) \/ CancelEvent(f) \/ CancelAll(f) \/ CloseFd(f)

\* The program may leave everything as it is.
Pause == (\A f \in Fiber : pc[f] \in {"run", "hold", "dropped"}) /\ UNCHANGED vars

Next ==
    \/ \E f \in Fiber : Calls(f) \/ InCall(f)
    \/ \E fd \in Fd : Reopen(fd)
    \/ \E l \in Looper : EpollWait(l) \/ \E r \in batch[l] : HandleReport(l, r)
    \/ Dead
    \/ Pause

Spec == Init /\ [][Next]_vars

-----------------------------------------------------------------------------
(* Properties.                                                              *)

Registered == {p \in Context \X Event : p[2] \in events[p[1]]}

TypeTable ==
    /\ size \in Nat
    /\ table \in [Fd -> 0 .. MaxGen \cup {None}]
    /\ created \in [Fd -> 0 .. MaxGen + 1]
    /\ \A fd \in Fd : table[fd] # None => fd < size /\ table[fd] < created[fd]

TypeContexts ==
    /\ events \in [Context -> SUBSET Event]
    /\ slot \in [Context -> [Event -> [scheduler : BOOLEAN, cb : BOOLEAN,
                                       fiber : Fiber \cup {None}]]]
    /\ m_pendingEventCount \in Nat

TypeKernel ==
    /\ open \subseteq Fd
    /\ interest \in [Fd -> {None} \cup [context : Context, events : SUBSET Event]]

TypeFibers ==
    /\ pc \in [Fiber -> {"run", "grow", "add", "del", "cancel", "closeAll", "close",
                         "hold", "dropped"}]
    /\ call \in [Fiber -> [fd : Fd \cup {None}, event : Event \cup {None},
                           context : Context \cup {None}, cb : BOOLEAN]]
    /\ batch \in [Looper -> SUBSET [context : Context,
                                    flags : SUBSET (Event \cup {"ERR"})]]
    /\ aborted \in {"no", "addEvent", "slot", "triggerEvent"}
    /\ users \subseteq [fd : Fd, event : Event]

\* The variables keep the types of the members they stand for; the unsigned
\* m_pendingEventCount does not wrap below zero.
TypeOK == TypeTable /\ TypeContexts /\ TypeKernel /\ TypeFibers

\* m_pendingEventCount, which stopping() relies on to keep the loop alive, is the
\* number of events registered, whichever of the four paths removed the others.
PendingExact == m_pendingEventCount = Cardinality(Registered)

\* An event is registered exactly while its EventContext holds a scheduler and either
\* a fiber or a callback: no second trigger finds an old fiber, and the assertion of
\* addEvent on an unused context holds.
SlotsMatch ==
    \A x \in Context, e \in Event :
        IF e \in events[x]
           THEN slot[x][e].scheduler /\ (slot[x][e].cb <=> slot[x][e].fiber = None)
           ELSE slot[x][e] = EmptySlot

\* A fiber that waits is held by exactly one registered event, of which the kernel
\* has to report, so an event or a cancel can still resume it, once.
WaitersHeld ==
    Alive => \A f \in Fiber : pc[f] = "hold" =>
        \E x \in Context, e \in Event :
            /\ e \in events[x] /\ slot[x][e].fiber = f
            /\ interest[x.fd] = [context |-> x, events |-> events[x]]
            /\ \A y \in Context, d \in Event : slot[y][d].fiber = f => y = x /\ d = e

\* The interest list of epoll and the contexts agree: every registered event is
\* listed with the context that cancelEvent and the loop will find, and nothing else.
KernelAgrees ==
    Alive => \A fd \in Fd :
        IF interest[fd] = None
           THEN \A x \in Context : x.fd = fd => events[x] = {}
           ELSE \A x \in Context : x.fd = fd =>
                   events[x] = IF x = interest[fd].context THEN interest[fd].events ELSE {}

\* SYLAR_ASSERT(events & event) of FdContext::triggerEvent.
TriggerAssertion == aborted # "triggerEvent"

\* SYLAR_ASSERT(!(fd_ctx->events & event)) of addEvent, for programs that ask for an
\* event of an open fd once at a time: whichever path removed the last registration,
\* its bit is gone.  With CloseRace a bit set between cancelAll and close_f stays, and
\* the next owner of the fd number meets it.
AddAssertion == aborted # "addEvent"

\* "cancelEvent ... first triggers the event, then deletes it" (iomanager.h, in
\* translation): it can, for every event that is registered, because m_fdContexts still
\* holds the context.  Two calls that both found the vector too short break it: the
\* second contextResize, for the smaller fd, cuts the first one's context off.
CancelFinds ==
    \A x \in Context : events[x] # {} => size > x.fd /\ table[x.fd] = x.gen

\* The four records of a wait agree: the count of pending events, the events and slots
\* of the contexts and epoll's interest list, on every path that adds or removes one.
EventsSound == TypeOK /\ PendingExact /\ SlotsMatch /\ KernelAgrees

==============================================================================
