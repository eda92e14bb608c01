-------------------------------- MODULE HookIO --------------------------------
(***************************************************************************)
(* Blocking socket calls made by fibers: the hooked system calls of        *)
(* hook.cc, the table of FdCtx objects behind them (fd_manager.cc) and the *)
(* Socket objects on top (socket.cc).                                      *)
(*                                                                         *)
(* A fiber that would block registers for the event, arms a condition      *)
(* timer if the socket has a time-out, and holds; epoll, the timer, a      *)
(* cancel or a close resumes it, and it tries again or gives up.  The      *)
(* kernel's files, epoll and the passing of time are external.  What       *)
(* addEvent, cancelEvent and cancelAll do inside is module IOManager: here *)
(* they are steps on the registered waiters.                               *)
(*                                                                         *)
(* With Parallel the fibers run on several threads and interleave between  *)
(* any two steps; without, one thread runs a fiber until it holds or       *)
(* returns, and timers and events are handled in between.                  *)
(***************************************************************************)
EXTENDS Integers, FiniteSets

CONSTANTS
    Fiber,      \* fibers with the hook enabled
    Sock,       \* Socket objects
    Accepted,   \* the accepted ones among them, with their descriptors
    Fd,         \* descriptors the kernel gives out, 0 ..
    TableSize,  \* m_datas.size(), 64 in the code
    None,
    Parallel,   \* several threads?
    Reuse,      \* may the kernel give a closed descriptor out again?
    Cancels,    \* events a fiber may cancel on another's socket
    FIONBIOArgs,\* arguments of ioctl(FIONBIO)
    MaxCalls,   \* bound: calls made
    MaxArrivals \* bound: times a file becomes ready

Event == {"READ", "WRITE"}
Bad == -1       \* m_sock of a closed Socket

ASSUME HookAssumption ==
    /\ IsFiniteSet(Fiber) /\ IsFiniteSet(Sock) /\ None \notin Fiber
    /\ DOMAIN Accepted \subseteq Sock /\ \A s \in DOMAIN Accepted : Accepted[s] \in Fd
    /\ \A s, r \in DOMAIN Accepted : Accepted[s] = Accepted[r] => s = r
    /\ Fd \subseteq Nat /\ IsFiniteSet(Fd) /\ TableSize \in Nat
    /\ {Parallel, Reuse} \subseteq BOOLEAN
    /\ Cancels \subseteq Event /\ FIONBIOArgs \subseteq BOOLEAN
    /\ MaxCalls \in Nat /\ MaxArrivals \in Nat

VARIABLES
    file,       \* external: the kernel's file behind a descriptor
    table,      \* FdManager::m_datas
    sock,       \* the Socket objects: m_sock and m_isConnected
    waiter,     \* IOManager: the fiber registered for an event of a descriptor
    timers,     \* armed timers, by fiber and call
    expired,    \* callbacks of expired timers, scheduled and not run yet
    pc, call,   \* where each fiber is in its call, and the call's locals
    running,    \* the fiber that has the only thread
    fault,      \* an index outside m_datas, or a failed assertion
    cut,        \* ghost: fibers whose last wait ended by a cancel, not an event
    serial, arrivals

vars == <<file, table, sock, waiter, timers, expired, cut, pc, call, running, fault,
          serial, arrivals>>

\* link is the state of the connection, gen tells files on a descriptor apart.
NoFile == [open |-> FALSE, gen |-> 0, nonblock |-> FALSE, ready |-> {}, link |-> "none"]
NoCtx == [present |-> FALSE, gen |-> 0, user |-> FALSE, timeout |-> [e \in Event |-> FALSE]]
NoSock == [fd |-> Bad, connected |-> FALSE]
NoCall == [op |-> "none", s |-> None, fd |-> Bad, event |-> "READ", timed |-> FALSE,
           cancelled |-> FALSE, n |-> 0, gen |-> 0]

isConnected(s) == sock[s].connected
isValid(s) == sock[s].fd # Bad

\* A server's situation: some sockets accepted and connected (Socket::init).
Init ==
    /\ file = [d \in Fd |->
                 IF \E s \in DOMAIN Accepted : Accepted[s] = d
                 THEN [open |-> TRUE, gen |-> 1, nonblock |-> TRUE, ready |-> {}, link |-> "up"]
                 ELSE NoFile]
    /\ table = [d \in Fd |-> IF file[d].open THEN [NoCtx EXCEPT !.present = TRUE, !.gen = 1]
                             ELSE NoCtx]
    /\ sock = [s \in Sock |-> IF s \in DOMAIN Accepted
                              THEN [fd |-> Accepted[s], connected |-> TRUE] ELSE NoSock]
    /\ waiter = [d \in Fd |-> [e \in Event |-> None]]
    /\ timers = {} /\ expired = {} /\ cut = {}
    /\ pc = [f \in Fiber |-> "idle"]
    /\ call = [f \in Fiber |-> NoCall]
    /\ running = None
    /\ fault = "no"
    /\ serial = 0 /\ arrivals = 0

------------------------------------------------------------------------------
(* A fiber's steps *)

kernelVars == <<file, arrivals>>
timerVars == <<timers, expired, cut>>
tableVars == <<table, sock>>

\* The fiber has a thread to go on with.
Turn(f) == fault = "no" /\ (Parallel \/ running \in {None, f})

Goto(f, to) ==
    /\ pc' = [pc EXCEPT ![f] = to]
    /\ running' = IF Parallel \/ to \in {"idle", "wait", "sleep"} THEN None ELSE f

At(f, from) == Turn(f) /\ pc[f] = from

\* The call returns; its timer_info goes with it.
Return(f) ==
    /\ Goto(f, "idle")
    /\ call' = [call EXCEPT ![f] = NoCall]

Begin(f, op, s, event, to) ==
    /\ At(f, "idle") /\ serial < MaxCalls
    /\ serial' = serial + 1
    /\ call' = [call EXCEPT ![f] = [NoCall EXCEPT !.op = op, !.s = s, !.event = event,
                                                  !.n = serial + 1]]
    /\ Goto(f, to)
    /\ UNCHANGED <<kernelVars, timerVars, tableVars, waiter, fault>>

\* Two fibers never wait for one event of a socket: addEvent asserts it.
Free(s, event) ==
    \A g \in Fiber : pc[g] # "idle" => call[g].s # s \/ call[g].event # event

\* The fibers that wait for the events of a descriptor.
Waiting(d, events) == {waiter[d][e] : e \in events} \ {None}

\* cancelEvent, cancelAll or epoll resumes them.
Wake(d, events) ==
    /\ waiter' = [waiter EXCEPT ![d] = [e \in Event |-> IF e \in events THEN None ELSE @[e]]]
    /\ pc' = [g \in Fiber |-> IF g \in Waiting(d, events) THEN "woken" ELSE pc[g]]

\* epoll_ctl fails on a closed descriptor, and nobody is resumed.
Cancel(d, events) ==
    IF d # Bad /\ file[d].open
    THEN Wake(d, events) /\ cut' = cut \cup Waiting(d, events)
    ELSE UNCHANGED <<waiter, pc, cut>>

\* FdManager::get reads m_datas[fd] for every fd below its size: also for -1.
OutOfTable(d) == d = Bad

------------------------------------------------------------------------------
(* do_io: read .. recvmsg, write .. sendmsg, accept *)

\* Socket::recv, Socket::send: isConnected() first, m_sock after it.
Recv(f, s) == isConnected(s) /\ Free(s, "READ") /\ Begin(f, "recv", s, "READ", "enter")
Send(f, s) == isConnected(s) /\ Free(s, "WRITE") /\ Begin(f, "send", s, "WRITE", "enter")

\* A call without FdCtx, or on a socket the user made non-blocking, goes
\* straight to the system.
Direct(ctx) == ~ctx.present \/ ctx.user

Enter(f) ==
    LET d == sock[call[f].s].fd
        e == call[f].event
    IN  /\ At(f, "enter")
        /\ IF OutOfTable(d)
           THEN fault' = "index" /\ UNCHANGED <<call, pc, running>>
           ELSE /\ call' = [call EXCEPT ![f].fd = d, ![f].gen = file[d].gen,
                                        ![f].timed = table[d].timeout[e]]
                /\ Goto(f, IF Direct(table[d]) THEN "direct" ELSE "try")
                /\ UNCHANGED fault
        /\ UNCHANGED <<kernelVars, timerVars, tableVars, waiter, serial>>

\* A system call that succeeds may use the readiness up.
Consume(d, e) ==
    \/ UNCHANGED file
    \/ file' = [file EXCEPT ![d].ready = @ \ {e}]

\* What fun(fd, ...) answers, on a file that may meanwhile be another one.
SystemCall(f, again) ==
    LET d == call[f].fd
        e == call[f].event
    IN  \/ /\ ~file[d].open
           /\ Return(f)
           /\ UNCHANGED file
        \/ /\ file[d].open /\ e \in file[d].ready
           /\ Consume(d, e)
           /\ Return(f)
        \/ /\ file[d].open /\ e \notin file[d].ready /\ file[d].nonblock
           /\ again
           /\ UNCHANGED file

\* Tried without a wait: EAGAIN is the user's business.
TryDirect(f) ==
    /\ At(f, "direct")
    /\ SystemCall(f, Return(f))
    /\ UNCHANGED <<timerVars, tableVars, waiter, fault, serial, arrivals>>

\* EINTR is tried again at once, which changes nothing here.
Try(f) ==
    /\ At(f, "try")
    /\ SystemCall(f, Goto(f, "arm") /\ UNCHANGED call)
    /\ UNCHANGED <<timerVars, tableVars, waiter, fault, serial, arrivals>>

\* Faulty variant: without the timer.
ArmNothing(f) ==
    /\ At(f, "arm")
    /\ timers' = timers
    /\ Goto(f, "add")
    /\ UNCHANGED <<kernelVars, expired, cut, tableVars, waiter, call, fault, serial>>

\* addConditionTimer with the weak reference to this call's timer_info.
Arm(f) ==
    /\ At(f, "arm")
    /\ timers' = IF call[f].timed THEN timers \cup {[f |-> f, n |-> call[f].n]} ELSE timers
    /\ Goto(f, "add")
    /\ UNCHANGED <<kernelVars, expired, cut, tableVars, waiter, call, fault, serial>>

Disarm(f) == timers' = {t \in timers : t.f # f}

AddEvent(f) ==
    LET d == call[f].fd
        e == call[f].event
    IN  /\ At(f, "add")
        /\ IF waiter[d][e] # None
           THEN fault' = "assertion" /\ UNCHANGED <<waiter, timers, cut, pc, call, running>>
           ELSE IF file[d].open
           THEN /\ waiter' = [waiter EXCEPT ![d][e] = f]
                /\ cut' = cut \ {f}
                /\ Goto(f, "wait")
                /\ UNCHANGED <<timers, call, fault>>
           ELSE /\ Disarm(f)
                /\ IF call[f].op = "connect" THEN Goto(f, "soerror") /\ UNCHANGED call
                                            ELSE Return(f)
                /\ UNCHANGED <<waiter, cut, fault>>
        /\ UNCHANGED <<kernelVars, expired, tableVars, serial>>

\* After the wait: the time-out, or another try.  Socket::connect closes the
\* socket when the connection fails.
Resume(f) ==
    IF call[f].cancelled /\ call[f].op # "connect" THEN Return(f)
    ELSE /\ Goto(f, CASE call[f].op # "connect" -> "try"
                     [] call[f].cancelled -> "close"
                     [] OTHER -> "soerror")
         /\ UNCHANGED call

\* timer->cancel() first.
Woken(f) ==
    /\ At(f, "woken")
    /\ Disarm(f)
    /\ Resume(f)
    /\ UNCHANGED <<kernelVars, expired, cut, tableVars, waiter, fault, serial>>

------------------------------------------------------------------------------
(* The environment: timers, epoll, the peer *)

Idle == fault = "no" /\ (Parallel \/ running = None)

Expire(t) ==
    /\ Idle
    /\ timers' = timers \ {t}
    /\ expired' = expired \cup {t}
    /\ UNCHANGED <<kernelVars, cut, tableVars, waiter, pc, call, running, fault, serial>>

\* Whose call is still the one the timer was armed in: its timer_info lives.
Lives(t) == call[t.f].n = t.n

\* A callback: a sleeper is scheduled; a call that the timer belongs to, as live
\* says, is marked and its event cancelled.
Callback(t, live) ==
    /\ Idle
    /\ expired' = expired \ {t}
    /\ IF pc[t.f] = "sleep" /\ Lives(t)
       THEN pc' = [pc EXCEPT ![t.f] = "awake"] /\ UNCHANGED <<call, waiter, cut>>
       ELSE IF live /\ ~call[t.f].cancelled
       THEN /\ call' = [call EXCEPT ![t.f].cancelled = TRUE]
            /\ Cancel(call[t.f].fd, {call[t.f].event})
       ELSE UNCHANGED <<call, waiter, pc, cut>>
    /\ UNCHANGED <<kernelVars, timers, tableVars, running, fault, serial>>

\* The condition timer's callback: cancelled = ETIMEDOUT, then cancelEvent.
Timeout(t) == Callback(t, Lives(t))

\* epoll reports an event and IOManager::idle triggers its fiber.
Deliver(d, e) ==
    /\ Idle
    /\ file[d].open /\ e \in file[d].ready /\ waiter[d][e] # None
    /\ Wake(d, {e})
    /\ UNCHANGED <<kernelVars, timerVars, tableVars, call, running, fault, serial>>

\* Data or room in the send buffer; a pending connection that ends.
Arrive(d) ==
    /\ Idle /\ arrivals < MaxArrivals
    /\ arrivals' = arrivals + 1
    /\ file[d].open
    /\ \/ /\ file[d].link = "up"
          /\ \E e \in Event \ file[d].ready : file' = [file EXCEPT ![d].ready = @ \cup {e}]
       \/ /\ file[d].link = "pending"
          /\ \E link \in {"up", "refused"} :
                file' = [file EXCEPT ![d].link = link, ![d].ready = {"WRITE"}]
    /\ UNCHANGED <<timerVars, tableVars, waiter, pc, call, running, fault, serial>>

------------------------------------------------------------------------------
(* socket(), connect(): Socket::connect on a Socket that may be new *)

Connect(f, s) == Free(s, "WRITE") /\ ~isConnected(s)
                 /\ Begin(f, "connect", s, "WRITE", IF isValid(s) THEN "connect" ELSE "socket")

\* socket_f: the kernel gives out a descriptor, or refuses.
NewSock(f) ==
    /\ At(f, "socket")
    /\ \/ \E d \in Fd :
            /\ ~file[d].open /\ (file[d].gen = 0 \/ Reuse)
            /\ file' = [file EXCEPT ![d] = [NoFile EXCEPT !.open = TRUE,
                                                        !.gen = file[d].gen + 1]]
            /\ call' = [call EXCEPT ![f].fd = d]
            /\ Goto(f, "get")
       \/ /\ Return(f)
          /\ UNCHANGED file
    /\ UNCHANGED <<timerVars, tableVars, waiter, fault, serial, arrivals>>

\* FdManager::get(fd, true) under the read lock.
Get(f) ==
    /\ At(f, "get")
    /\ Goto(f, IF call[f].fd < TableSize /\ table[call[f].fd].present THEN "made" ELSE "create")
    /\ UNCHANGED <<kernelVars, timerVars, tableVars, waiter, call, fault, serial>>

\* A context as FdCtx::init leaves it: the descriptor is now non-blocking.
NewCtx(d) == [NoCtx EXCEPT !.present = TRUE, !.gen = file[d].gen]

\* ... and under the write lock, without looking again or growing the vector.
Create(f) ==
    LET d == call[f].fd
    IN  /\ At(f, "create")
        /\ IF d >= TableSize
           THEN fault' = "index" /\ UNCHANGED <<table, file, pc, running>>
           ELSE /\ table' = [table EXCEPT ![d] = NewCtx(d)]
                /\ file' = [file EXCEPT ![d].nonblock = TRUE]
                /\ Goto(f, "made")
                /\ UNCHANGED fault
        /\ UNCHANGED <<timerVars, sock, waiter, call, serial, arrivals>>

Made(f) ==
    /\ At(f, "made")
    /\ sock' = [sock EXCEPT ![call[f].s].fd = call[f].fd]
    /\ Goto(f, "connect")
    /\ UNCHANGED <<kernelVars, timerVars, table, waiter, call, fault, serial>>

\* connect_with_timeout: EBADF without a context (whose isClose() is never true); else
\* connect_f is done, refused or EINPROGRESS, and the last is an error like any other
\* when the user has made the socket non-blocking.
TryConnect(f) ==
    LET d == sock[call[f].s].fd
    IN  /\ At(f, "connect")
        /\ \/ /\ OutOfTable(d)
              /\ fault' = "index"
              /\ UNCHANGED <<file, call, pc, running>>
           \/ /\ ~OutOfTable(d)
              /\ ~table[d].present \/ ~file[d].open \/ file[d].link # "none"
              /\ Goto(f, "close")
              /\ UNCHANGED <<file, call, fault>>
           \/ /\ ~OutOfTable(d)
              /\ table[d].present /\ file[d].open /\ file[d].link = "none"
              /\ \E link \in {"up", "refused", "pending"} :
                   /\ file' = [file EXCEPT ![d].link = link,
                                           ![d].ready = IF link = "pending" THEN {}
                                                        ELSE {"WRITE"}]
                   /\ Goto(f, CASE link = "up" -> "connected"
                                [] link = "pending" /\ ~table[d].user -> "arm"
                                [] OTHER -> "close")
              /\ \E timed \in BOOLEAN :
                   call' = [call EXCEPT ![f].fd = d, ![f].timed = timed,
                                        ![f].gen = file[d].gen]
              /\ UNCHANGED fault
        /\ UNCHANGED <<timerVars, tableVars, waiter, serial, arrivals>>

\* Faulty variant: resumed for WRITE taken as connected.
SoErrorIgnored(f) ==
    /\ At(f, "soerror")
    /\ Goto(f, "connected")
    /\ UNCHANGED <<kernelVars, timerVars, tableVars, waiter, call, fault, serial>>

\* getsockopt(SO_ERROR): no error while the connection is still pending.
SoError(f) ==
    /\ At(f, "soerror")
    /\ Goto(f, IF file[call[f].fd].open /\ file[call[f].fd].link # "refused"
               THEN "connected" ELSE "close")
    /\ UNCHANGED <<kernelVars, timerVars, tableVars, waiter, call, fault, serial>>

Connected(f) ==
    /\ At(f, "connected")
    /\ sock' = [sock EXCEPT ![call[f].s].connected = TRUE]
    /\ Return(f)
    /\ UNCHANGED <<kernelVars, timerVars, table, waiter, fault, serial>>

------------------------------------------------------------------------------
(* close() *)

Close(f, s) == isValid(s) /\ Begin(f, "close", s, "READ", "close")

\* close() once Socket::close has a descriptor to close: the waiting fibers are
\* taken off the descriptor and resumed.
Shut(f, d, dropped, resumed) ==
    IF d = Bad THEN Return(f) /\ UNCHANGED <<waiter, cut>>
    ELSE /\ call' = [call EXCEPT ![f].fd = d]
         /\ cut' = cut \cup resumed
         /\ waiter' = [waiter EXCEPT ![d] = [e \in Event |->
                          IF @[e] \in dropped THEN None ELSE @[e]]]
         /\ pc' = [g \in Fiber |-> IF g = f THEN "del"
                                   ELSE IF g \in resumed THEN "woken" ELSE pc[g]]
         /\ running' = IF Parallel THEN None ELSE f

\* cancelAll: every waiter, if the descriptor has a context and is open.
Cancelled(d) ==
    IF d # Bad /\ file[d].open /\ table[d].present
    THEN Waiting(d, Event) ELSE {}

\* Faulty variant: without cancelAll.
CloseOnly(f) ==
    LET d == sock[call[f].s].fd
    IN  /\ At(f, "close")
        /\ sock' = [sock EXCEPT ![call[f].s].connected = FALSE]
        /\ Shut(f, d, {}, {})
        /\ UNCHANGED <<kernelVars, timers, expired, table, fault, serial>>

\* Faulty variant: waiters are dropped and not resumed.
CloseForgets(f) ==
    LET d == sock[call[f].s].fd
    IN  /\ At(f, "close")
        /\ sock' = [sock EXCEPT ![call[f].s].connected = FALSE]
        /\ Shut(f, d, Cancelled(d), {})
        /\ UNCHANGED <<kernelVars, timers, expired, table, fault, serial>>

\* Socket::close clears m_isConnected; the hooked close() cancels everything,
CloseCancel(f) ==
    LET d == sock[call[f].s].fd
    IN  /\ At(f, "close")
        /\ sock' = [sock EXCEPT ![call[f].s].connected = FALSE]
        /\ Shut(f, d, Cancelled(d), Cancelled(d))
        /\ UNCHANGED <<kernelVars, timers, expired, table, fault, serial>>

\* Faulty variant: without FdManager::del.
DelNothing(f) ==
    /\ At(f, "del")
    /\ Goto(f, "close_f")
    /\ UNCHANGED <<kernelVars, timerVars, tableVars, waiter, call, fault, serial>>

\* ... forgets the context ...
Del(f) ==
    /\ At(f, "del")
    /\ table' = [table EXCEPT ![call[f].fd] = NoCtx]
    /\ Goto(f, "close_f")
    /\ UNCHANGED <<kernelVars, timerVars, sock, waiter, call, fault, serial>>

\* ... and closes the file;
CloseFile(f) ==
    /\ At(f, "close_f")
    /\ file' = [file EXCEPT ![call[f].fd] = [NoFile EXCEPT !.gen = file[call[f].fd].gen]]
    /\ Goto(f, "closed")
    /\ UNCHANGED <<timerVars, tableVars, waiter, call, fault, serial, arrivals>>

\* back in Socket::close: m_sock = -1.
Closed(f) ==
    /\ At(f, "closed")
    /\ sock' = [sock EXCEPT ![call[f].s].fd = Bad]
    /\ Return(f)
    /\ UNCHANGED <<kernelVars, timerVars, table, waiter, fault, serial>>

------------------------------------------------------------------------------
(* Calls that do not block *)

\* Socket::cancelRead, cancelWrite, cancelAccept.
CancelCall(f, s, e) ==
    /\ At(f, "idle") /\ serial < MaxCalls /\ serial' = serial + 1
    /\ isValid(s)
    /\ Cancel(sock[s].fd, {e})
    /\ UNCHANGED <<kernelVars, timers, expired, tableVars, call, running, fault>>

\* setsockopt(SO_RCVTIMEO, SO_SNDTIMEO): the context keeps the time-out too.
setsockopt(d, e) == table' = [table EXCEPT ![d].timeout[e] = TRUE]

\* Socket::setRecvTimeout, Socket::setSendTimeout.
SetTimeout(f, s, e) ==
    /\ At(f, "idle") /\ serial < MaxCalls /\ serial' = serial + 1
    /\ isValid(s) /\ table[sock[s].fd].present
    /\ setsockopt(sock[s].fd, e)
    /\ UNCHANGED <<kernelVars, timerVars, sock, waiter, pc, call, running, fault>>

\* fcntl(F_SETFL): the user's flag is kept in the context, the file stays
\* non-blocking.
SetFlags(f, s, nonblock) ==
    /\ At(f, "idle") /\ serial < MaxCalls /\ serial' = serial + 1
    /\ isValid(s) /\ table[sock[s].fd].present
    /\ table' = [table EXCEPT ![sock[s].fd].user = nonblock]
    /\ UNCHANGED <<kernelVars, timerVars, sock, waiter, pc, call, running, fault>>

\* ioctl(FIONBIO): the argument also goes to the system as it is.
Ioctl(f, s, nonblock) ==
    /\ At(f, "idle") /\ serial < MaxCalls /\ serial' = serial + 1
    /\ isValid(s) /\ table[sock[s].fd].present
    /\ table' = [table EXCEPT ![sock[s].fd].user = nonblock]
    /\ file' = [file EXCEPT ![sock[s].fd].nonblock = nonblock]
    /\ UNCHANGED <<timerVars, sock, waiter, pc, call, running, fault, arrivals>>

\* sleep, usleep, nanosleep: a timer that schedules the fiber, then a hold.
Sleep(f) ==
    /\ At(f, "idle") /\ serial < MaxCalls /\ serial' = serial + 1
    /\ call' = [call EXCEPT ![f] = [NoCall EXCEPT !.op = "sleep", !.n = serial + 1]]
    /\ timers' = timers \cup {[f |-> f, n |-> serial + 1]}
    /\ Goto(f, "sleep")
    /\ UNCHANGED <<kernelVars, expired, cut, tableVars, waiter, fault>>

Awake(f) ==
    /\ At(f, "awake")
    /\ Return(f)
    /\ UNCHANGED <<kernelVars, timerVars, tableVars, waiter, fault, serial>>

------------------------------------------------------------------------------
\* The steps a fiber takes on its own once it is in a call.
Step(f) ==
    \/ Enter(f) \/ TryDirect(f) \/ Try(f) \/ Arm(f) \/ AddEvent(f) \/ Woken(f)
    \/ NewSock(f) \/ Get(f) \/ Create(f) \/ Made(f) \/ TryConnect(f) \/ SoError(f)
    \/ Connected(f) \/ CloseCancel(f) \/ Del(f) \/ CloseFile(f) \/ Closed(f)
    \/ Awake(f)

Call(f) ==
    \/ Sleep(f)
    \/ \E s \in Sock :
         \/ Recv(f, s) \/ Send(f, s) \/ Connect(f, s) \/ Close(f, s)
         \/ \E e \in Cancels : CancelCall(f, s, e)
         \/ \E e \in Event : SetTimeout(f, s, e)
         \/ \E nonblock \in BOOLEAN : SetFlags(f, s, nonblock)
         \/ \E nonblock \in FIONBIOArgs : Ioctl(f, s, nonblock)

Next ==
    \/ \E f \in Fiber : Step(f) \/ Call(f)
    \/ \E t \in timers : Expire(t)
    \/ \E t \in expired : Timeout(t)
    \/ \E d \in Fd : Arrive(d) \/ \E e \in Event : Deliver(d, e)

Spec == Init /\ [][Next]_vars

\* A fiber that can run does, timers expire and their callbacks run, and epoll
\* delivers: what the scheduler, the timer set and the idle loop do.
Fairness ==
    /\ \A f \in Fiber : WF_vars(Step(f))
    /\ WF_vars(\E t \in timers : Expire(t))
    /\ WF_vars(\E t \in expired : Timeout(t))
    /\ \A d \in Fd, e \in Event : WF_vars(Deliver(d, e))

FairSpec == Spec /\ Fairness

------------------------------------------------------------------------------
(* Properties *)

\* The table of contexts follows the kernel: the context of an open descriptor
\* was made for the file that is open now, and that file is non-blocking, so no
\* hooked call can block its thread, whatever flags the user set.
ContextsTrue ==
    \A d \in Fd : table[d].present =>
        /\ file[d].open
        /\ table[d].gen = file[d].gen
        /\ file[d].nonblock

\* The file a call was made on is still the one behind its descriptor.
HasFile(f) == file[call[f].fd].open /\ file[call[f].fd].gen = call[f].gen

\* connect() reports success only for a connection that is there, whatever threads,
\* time-outs and closes do meanwhile: the wait that SO_ERROR relies on was ended by the
\* event.  The exception is a wait that another fiber's cancelWrite or cancelAll ended:
\* SO_ERROR knows of no error then, and the connect counts as done (see ConnectsUp).
ConnectMeansConnected ==
    \A f \in Fiber :
        pc[f] = "connected" /\ HasFile(f) => file[call[f].fd].link = "up" \/ f \in cut

\* Without the exception: what a caller of Socket::connect takes its true for.
ConnectsUp ==
    \A f \in Fiber : pc[f] = "connected" /\ HasFile(f) => file[call[f].fd].link = "up"

\* A call fails with ETIMEDOUT only if its own socket and direction have a
\* time-out: no timer left by an earlier call of the same fiber ends a later one,
\* because its weak reference to the earlier timer_info is dead.
TimeoutsOwn == \A f \in Fiber : call[f].cancelled => call[f].timed

\* A call that waits, or tries again after its wait, still has the file it was
\* made on behind its descriptor, or none.  (Not so when the kernel gives the
\* number out again between the close and the retry: Reuse.)
RetriesOwnFile ==
    \A f \in Fiber :
        pc[f] \in {"try", "arm", "add", "wait", "woken"} /\ file[call[f].fd].open
            => file[call[f].fd].gen = call[f].gen

\* A waiting fiber is registered where it waits and nowhere else, and a fiber
\* that is registered waits: nobody is resumed twice or forgotten.
WaitersTrue ==
    \A f \in Fiber, d \in Fd, e \in Event :
        waiter[d][e] = f <=> pc[f] = "wait" /\ call[f].fd = d /\ call[f].event = e

\* Nothing is read from outside the table, and addEvent's assertion holds.
NoFault == fault = "no"

\* With one thread a blocked call ends if its socket has a time-out, and a sleep
\* ends.
TimedCallsEnd ==
    \A f \in Fiber :
        (pc[f] = "sleep" \/ (pc[f] = "wait" /\ call[f].timed)) ~> pc[f] = "idle"

\* With one thread close() ends the calls that wait on its descriptor.
CloseEndsCalls ==
    \A f \in Fiber :
        (/\ pc[f] = "wait"
         /\ \E g \in Fiber : pc[g] = "close" /\ sock[call[g].s].fd = call[f].fd)
            ~> pc[f] = "idle"

\* A call's wait is its own: registered once where it waits, resumed once, and ended by
\* a time-out only if its own socket and direction have one.
WaitsOwn == TimeoutsOwn /\ WaitersTrue

==============================================================================
