----------------------------- MODULE HookIOProofs -----------------------------
(***************************************************************************)
(* Proofs about the blocking calls of fibers, for any number of fibers,    *)
(* sockets, descriptors and calls.                                         *)
(***************************************************************************)
EXTENDS HookIO, TLAPS

------------------------------------------------------------------------------
(* What a call is in, at each of its steps *)

PC == {"idle", "enter", "direct", "try", "arm", "add", "wait", "woken", "socket", "get",
       "create", "made", "connect", "soerror", "connected", "close", "del", "close_f",
       "closed", "sleep", "awake"}

CallRec == [op : {"none", "recv", "send", "connect", "close", "sleep"}, s : Sock \cup {None},
            fd : Fd \cup {Bad}, event : Event, timed : BOOLEAN, cancelled : BOOLEAN,
            n : Nat, gen : Nat]

FileRec == [open : BOOLEAN, gen : Nat, nonblock : BOOLEAN, ready : SUBSET Event,
            link : {"none", "up", "refused", "pending"}]

CtxRec == [present : BOOLEAN, gen : Nat, user : BOOLEAN, timeout : [Event -> BOOLEAN]]

SockRec == [fd : Fd \cup {Bad}, connected : BOOLEAN]

\* Where a call has its descriptor, and where it has not armed a timer yet.
WithFd == {"direct", "try", "arm", "add", "wait", "woken", "soerror", "get", "create", "made",
           "connected", "del", "close_f", "closed"}
Unarmed == {"enter", "direct", "socket", "get", "create", "made", "connect"}

\* Fiber f at p in call c, when the timers T are armed or expired and ser calls were made: a
\* timer of this very call is the sleep's own, or that of a call with a time-out.
FiberRight(f, p, c, T, ser) ==
    /\ p \in PC /\ c \in CallRec /\ c.n <= ser /\ (p # "idle" => 1 <= c.n)
    /\ p \in WithFd => c.fd \in Fd
    /\ p \notin {"idle", "sleep", "awake"} => c.s \in Sock /\ c.op # "sleep"
    /\ c.cancelled => c.timed /\ p \notin Unarmed
    /\ \A t \in T : t.f = f /\ t.n = c.n =>
          /\ p \notin Unarmed
          /\ c.op = "sleep" => p = "sleep"
          /\ c.op # "sleep" => c.timed

TypeKernel ==
    /\ file \in [Fd -> FileRec]
    /\ table \in [Fd -> CtxRec]
    /\ sock \in [Sock -> SockRec]
    /\ serial \in Nat

TypeWaits ==
    /\ waiter \in [Fd -> [Event -> Fiber \cup {None}]]
    /\ timers \cup expired \subseteq [f : Fiber, n : Nat]
    /\ \A t \in timers \cup expired : 1 <= t.n /\ t.n <= serial
    /\ pc \in [Fiber -> PC] /\ call \in [Fiber -> CallRec]

Fibers == \A f \in Fiber : FiberRight(f, pc[f], call[f], timers \cup expired, serial)

Waits == TypeKernel /\ TypeWaits /\ Fibers /\ WaitersTrue

\* Every fiber is idle at first and no timer is armed.
LEMMA WaitsInit == Init => Waits
  <1> SUFFICES ASSUME Init PROVE Waits
    OBVIOUS
  <1>1. NoCall \in CallRec /\ NoCall.n = 0 /\ NoCall.cancelled = FALSE
    BY DEF NoCall, CallRec, Event, Bad
  <1>2. NoFile \in FileRec /\ NoCtx \in CtxRec /\ NoSock \in SockRec
    BY DEF NoFile, NoCtx, NoSock, FileRec, CtxRec, SockRec, Event
  <1>3. file \in [Fd -> FileRec] /\ sock \in [Sock -> SockRec] /\ serial \in Nat
    BY <1>2, HookAssumption DEF Init, FileRec, SockRec
  <1>4. table \in [Fd -> CtxRec]
    BY <1>2 DEF Init, NoCtx, CtxRec
  <1>5. waiter \in [Fd -> [Event -> Fiber \cup {None}]] /\ timers = {} /\ expired = {}
        /\ pc = [f \in Fiber |-> "idle"] /\ call = [f \in Fiber |-> NoCall]
    BY DEF Init
  <1>6. TypeWaits
    BY <1>1, <1>5 DEF TypeWaits, PC
  <1>7. Fibers
    BY <1>1, <1>3, <1>5 DEF Fibers, FiberRight, PC, WithFd, Init
  <1>8. WaitersTrue
    BY <1>5, HookAssumption DEF WaitersTrue, Init
  <1> QED BY <1>3, <1>4, <1>6, <1>7, <1>8 DEF Waits, TypeKernel

\* A step of one fiber that neither begins nor ends a wait.
LEMMA FiberMoves ==
  ASSUME Waits, TypeKernel', serial <= serial', NEW f \in Fiber, NEW to \in PC, NEW c \in CallRec,
         pc[f] # "wait", to # "wait",
         pc' = [pc EXCEPT ![f] = to], call' = [call EXCEPT ![f] = c], waiter' = waiter,
         \A t \in timers' \cup expired' :
            t \in timers \cup expired \/ (t = [f |-> f, n |-> c.n] /\ 1 <= c.n),
         FiberRight(f, to, c, timers' \cup expired', serial')
  PROVE  Waits'
  <1>0. /\ TypeKernel /\ TypeWaits /\ Fibers /\ WaitersTrue
    BY DEF Waits
  <1>1. pc'[f] = to /\ call'[f] = c
        /\ \A g \in Fiber : g # f => pc'[g] = pc[g] /\ call'[g] = call[g]
    BY <1>0 DEF TypeWaits
  <1>2. c.n <= serial' /\ c.n \in Nat /\ serial' \in Nat /\ serial \in Nat
    BY <1>0 DEF FiberRight, CallRec, TypeKernel
  <1>3. TypeWaits'
    <2>1. \A t \in timers' \cup expired' : t \in [f : Fiber, n : Nat] /\ 1 <= t.n /\ t.n <= serial'
      <3> SUFFICES ASSUME NEW t \in timers' \cup expired'
                   PROVE  t \in [f : Fiber, n : Nat] /\ 1 <= t.n /\ t.n <= serial'
        OBVIOUS
      <3>1. CASE t \in timers \cup expired
        <4>1. t \in [f : Fiber, n : Nat] /\ 1 <= t.n /\ t.n <= serial /\ t.n \in Nat
          BY <3>1, <1>0 DEF TypeWaits
        <4> QED BY <4>1, <1>2
      <3>2. CASE t = [f |-> f, n |-> c.n] /\ 1 <= c.n
        BY <3>2, <1>2
      <3> QED BY <3>1, <3>2
    <2>2. pc' \in [Fiber -> PC] /\ call' \in [Fiber -> CallRec]
      BY <1>0 DEF TypeWaits
    <2>3. waiter' \in [Fd -> [Event -> Fiber \cup {None}]]
      BY <1>0 DEF TypeWaits
    <2> QED BY <2>1, <2>2, <2>3 DEF TypeWaits
  <1>4. Fibers'
    <2> SUFFICES ASSUME NEW g \in Fiber
                 PROVE  FiberRight(g, pc'[g], call'[g], timers' \cup expired', serial')
      BY DEF Fibers
    <2>1. CASE g = f
      BY <2>1, <1>1
    <2>2. CASE g # f
      <3>1. FiberRight(g, pc[g], call[g], timers \cup expired, serial)
        BY <1>0 DEF Fibers
      <3>2. \A t \in timers' \cup expired' : t.f = g => t \in timers \cup expired
        BY <2>2
      <3>3. call[g].n <= serial' /\ call[g].n \in Nat
        <4>1. call[g].n <= serial /\ call[g].n \in Nat
          BY <3>1 DEF FiberRight, CallRec
        <4> QED BY <4>1, <1>2
      <3> QED BY <3>1, <3>2, <3>3, <2>2, <1>1 DEF FiberRight
    <2> QED BY <2>1, <2>2
  <1>5. WaitersTrue'
    BY <1>0, <1>1 DEF WaitersTrue
  <1> QED BY <1>3, <1>4, <1>5 DEF Waits

\* The same when no timer is added.
LEMMA FiberGoes ==
  ASSUME Waits, TypeKernel', serial <= serial', NEW f \in Fiber, NEW to \in PC, NEW c \in CallRec,
         pc[f] # "wait", to # "wait",
         pc' = [pc EXCEPT ![f] = to], call' = [call EXCEPT ![f] = c], waiter' = waiter,
         timers' \cup expired' \subseteq timers \cup expired,
         FiberRight(f, to, c, timers' \cup expired', serial')
  PROVE  Waits'
  <1>1. \A t \in timers' \cup expired' :
           t \in timers \cup expired \/ (t = [f |-> f, n |-> c.n] /\ 1 <= c.n)
    OBVIOUS
  <1> QED BY <1>1, FiberMoves

\* A step of the kernel or the table: no fiber moves.
LEMMA NobodyMoves ==
  ASSUME Waits, TypeKernel', serial <= serial', UNCHANGED <<pc, call, waiter>>,
         timers' \cup expired' \subseteq timers \cup expired
  PROVE  Waits'
  <1>0. /\ TypeKernel /\ TypeWaits /\ Fibers /\ WaitersTrue
    BY DEF Waits
  <1>1. serial' \in Nat /\ serial \in Nat
    BY <1>0 DEF TypeKernel
  <1>2. TypeWaits'
    <2>1. \A t \in timers' \cup expired' : t \in [f : Fiber, n : Nat] /\ 1 <= t.n /\ t.n <= serial'
      <3> SUFFICES ASSUME NEW t \in timers' \cup expired'
                   PROVE  t \in [f : Fiber, n : Nat] /\ 1 <= t.n /\ t.n <= serial'
        OBVIOUS
      <3>1. t \in [f : Fiber, n : Nat] /\ 1 <= t.n /\ t.n <= serial /\ t.n \in Nat
        BY <1>0 DEF TypeWaits
      <3> QED BY <3>1, <1>1
    <2> QED BY <2>1, <1>0 DEF TypeWaits
  <1>3. Fibers'
    <2> SUFFICES ASSUME NEW g \in Fiber
                 PROVE  FiberRight(g, pc'[g], call'[g], timers' \cup expired', serial')
      BY DEF Fibers
    <2>1. FiberRight(g, pc[g], call[g], timers \cup expired, serial)
      BY <1>0 DEF Fibers
    <2>2. call[g].n <= serial'
      <3>1. call[g].n <= serial /\ call[g].n \in Nat
        BY <2>1 DEF FiberRight, CallRec
      <3> QED BY <3>1, <1>1
    <2> QED BY <2>1, <2>2 DEF FiberRight
  <1>4. WaitersTrue'
    BY <1>0 DEF WaitersTrue
  <1> QED BY <1>2, <1>3, <1>4 DEF Waits

\* The waiters of some events of a descriptor are taken off it and resumed; the call of one
\* fiber h may be marked as cancelled, or h itself, which does not wait, may go to p.
LEMMA Resumed ==
  ASSUME Waits, TypeKernel', serial' = serial, timers' \cup expired' \subseteq timers \cup expired,
         NEW d \in Fd, NEW events \in SUBSET Event,
         waiter' = [waiter EXCEPT ![d] = [e \in Event |-> IF e \in events THEN None ELSE @[e]]],
         call' \in [Fiber -> CallRec], pc' \in [Fiber -> PC],
         \A g \in Fiber : \/ call'[g].fd = call[g].fd /\ call'[g].event = call[g].event
                          \/ pc[g] # "wait",
         \A g \in Fiber : \/ (g \in {waiter[d][e] : e \in events} /\ pc'[g] = "woken")
                          \/ g \notin {waiter[d][e] : e \in events} /\ pc'[g] = pc[g]
                          \/ pc[g] # "wait" /\ pc'[g] # "wait",
         \A g \in Fiber : \/ FiberRight(g, pc'[g], call'[g], timers \cup expired, serial)
                          \/ call'[g] = call[g] /\ pc'[g] = pc[g]
                          \/ call'[g] = call[g] /\ pc[g] = "wait" /\ pc'[g] = "woken"
  PROVE  Waits'
  <1>0. /\ TypeKernel /\ TypeWaits /\ Fibers /\ WaitersTrue
    BY DEF Waits
  <1>1. waiter' \in [Fd -> [Event -> Fiber \cup {None}]]
    BY <1>0 DEF TypeWaits
  <1>2. TypeWaits'
    BY <1>0, <1>1 DEF TypeWaits
  <1>3. Fibers'
    <2> SUFFICES ASSUME NEW g \in Fiber
                 PROVE  FiberRight(g, pc'[g], call'[g], timers' \cup expired', serial')
      BY DEF Fibers
    <2>1. FiberRight(g, pc[g], call[g], timers \cup expired, serial)
      BY <1>0 DEF Fibers
    <2>2. FiberRight(g, pc'[g], call'[g], timers \cup expired, serial)
      <3>1. CASE call'[g] = call[g] /\ pc[g] = "wait" /\ pc'[g] = "woken"
        BY <3>1, <2>1 DEF FiberRight, PC, WithFd, Unarmed
      <3> QED BY <3>1, <2>1
    <2> QED BY <2>2 DEF FiberRight
  <1>4. WaitersTrue'
    <2> SUFFICES ASSUME NEW g \in Fiber, NEW x \in Fd, NEW e \in Event
                 PROVE  waiter'[x][e] = g <=> pc'[g] = "wait" /\ call'[g].fd = x /\ call'[g].event = e
      BY DEF WaitersTrue
    <2>1. waiter'[x][e] = IF x = d /\ e \in events THEN None ELSE waiter[x][e]
      BY <1>0 DEF TypeWaits
    <2>2. waiter[x][e] = g <=> pc[g] = "wait" /\ call[g].fd = x /\ call[g].event = e
      BY <1>0 DEF WaitersTrue
    <2>3. g # None
      BY HookAssumption
    <2>4. CASE \E y \in events : waiter[d][y] = g
      <3>1. PICK y \in events : waiter[d][y] = g
        BY <2>4
      <3>2. pc[g] = "wait" /\ call[g].fd = d /\ call[g].event = y
        BY <3>1, <1>0 DEF WaitersTrue
      <3>3. pc'[g] = "woken"
        BY <3>1, <3>2, <2>3
      <3> QED BY <3>2, <3>3, <2>1, <2>2, <2>3
    <2>5. CASE ~\E y \in events : waiter[d][y] = g
      <3>1. pc'[g] = pc[g] \/ (pc[g] # "wait" /\ pc'[g] # "wait")
        BY <2>5
      <3>2. waiter'[x][e] = g <=> waiter[x][e] = g
        BY <2>1, <2>3, <2>5
      <3> QED BY <3>1, <3>2, <2>2
    <2> QED BY <2>4, <2>5
  <1> QED BY <1>2, <1>3, <1>4 DEF Waits

\* A file whose connection changes its state is a file.
LEMMA Relinked ==
  ASSUME NEW d, NEW link \in {"none", "up", "refused", "pending"}, NEW ready \in SUBSET Event,
         file \in [Fd -> FileRec]
  PROVE  [file EXCEPT ![d].link = link, ![d].ready = ready] \in [Fd -> FileRec]
  <1> DEFINE G == [file EXCEPT ![d].link = link]
  <1>1. G \in [Fd -> FileRec]
    BY DEF FileRec
  <1>2. [file EXCEPT ![d].link = link, ![d].ready = ready] = [G EXCEPT ![d].ready = ready]
    OBVIOUS
  <1> HIDE DEF G
  <1>3. [G EXCEPT ![d].ready = ready] \in [Fd -> FileRec]
    BY <1>1 DEF FileRec
  <1> QED BY <1>2, <1>3

\* A file made blocking or non-blocking is a file.
LEMMA Flagged ==
  ASSUME NEW r \in FileRec, NEW b \in BOOLEAN PROVE [r EXCEPT !.nonblock = b] \in FileRec
  BY DEF FileRec

\* A context that keeps the user's flag is a context.
LEMMA UserKept ==
  ASSUME NEW r \in CtxRec, NEW b \in BOOLEAN PROVE [r EXCEPT !.user = b] \in CtxRec
  BY DEF CtxRec

\* connect() on an open file that has no connection yet changes only its link and what is
\* ready; in every other case it changes no file.
LEMMA TryConnectLinks ==
  ASSUME NEW f \in Fiber, sock[call[f].s].fd \in Fd \cup {Bad}, TryConnect(f)
  PROVE  file' = file \/ \E d \in Fd \cup {Bad} : \E link \in {"up", "refused", "pending"} :
            file' = [file EXCEPT ![d].link = link,
                                 ![d].ready = IF link = "pending" THEN {} ELSE {"WRITE"}]
  <1>1. CASE OutOfTable(sock[call[f].s].fd)
    BY <1>1 DEF TryConnect
  <1>2. CASE ~OutOfTable(sock[call[f].s].fd)
    <2> DEFINE d == sock[call[f].s].fd
               Linked == \E link \in {"up", "refused", "pending"} :
                            file' = [file EXCEPT ![d].link = link,
                                                 ![d].ready = IF link = "pending" THEN {}
                                                              ELSE {"WRITE"}]
    <2>1. UNCHANGED file \/ Linked
      BY <1>2, Zenon DEF TryConnect
    <2> QED BY <2>1, Zenon
  <1> QED BY <1>1, <1>2, Zenon

\* The types of files, contexts and sockets; calls are only ever counted up.
LEMMA KernelNext ==
  ASSUME Waits, [Next]_vars
  PROVE  TypeKernel' /\ serial <= serial'
  <1>0. /\ TypeKernel /\ TypeWaits /\ Fibers
        /\ file \in [Fd -> FileRec] /\ table \in [Fd -> CtxRec] /\ sock \in [Sock -> SockRec]
        /\ serial \in Nat /\ Fd \subseteq Nat
    BY HookAssumption DEF Waits, TypeKernel
  <1>1. \A f \in Fiber : /\ call[f] \in CallRec /\ (pc[f] \in WithFd => call[f].fd \in Fd)
                         /\ (pc[f] \notin {"idle", "sleep", "awake"} => call[f].s \in Sock)
    BY <1>0 DEF Fibers, FiberRight
  <1>2. NoFile \in FileRec /\ NoCtx \in CtxRec /\ NoSock \in SockRec
    BY DEF NoFile, NoCtx, NoSock, FileRec, CtxRec, SockRec, Event
  <1>3. ASSUME serial' \in {serial, serial + 1}, file' \in [Fd -> FileRec],
               table' \in [Fd -> CtxRec], sock' \in [Sock -> SockRec]
        PROVE  TypeKernel' /\ serial <= serial'
    BY <1>3, <1>0 DEF TypeKernel
  <1>4. ASSUME serial' \in {serial, serial + 1}, UNCHANGED <<file, table, sock>>
        PROVE  TypeKernel' /\ serial <= serial'
    BY <1>4, <1>3, <1>0
  <1>5. ASSUME NEW f \in Fiber, Step(f) PROVE TypeKernel' /\ serial <= serial'
    <2>1. CASE \/ Enter(f) \/ Arm(f) \/ AddEvent(f) \/ Woken(f) \/ Get(f) \/ SoError(f) \/ Awake(f)
      BY <2>1, <1>4 DEF Enter, Arm, AddEvent, Woken, Get, SoError, Awake, kernelVars, tableVars
    <2>2. CASE TryDirect(f) \/ Try(f)
      <3>1. file' = file \/ file' = [file EXCEPT ![call[f].fd].ready = @ \ {call[f].event}]
        BY <2>2 DEF TryDirect, Try, SystemCall, Consume
      <3>2. file' \in [Fd -> FileRec]
        BY <3>1, <1>0 DEF FileRec
      <3>3. UNCHANGED <<table, sock, serial>>
        BY <2>2 DEF TryDirect, Try, tableVars
      <3> QED BY <3>2, <3>3, <1>3, <1>0
    <2>3. CASE NewSock(f)
      <3>1. \/ file' = file
            \/ \E d \in Fd : file' = [file EXCEPT ![d] = [NoFile EXCEPT !.open = TRUE,
                                                                      !.gen = file[d].gen + 1]]
        BY <2>3, Zenon DEF NewSock
      <3>2. file' \in [Fd -> FileRec]
        <4>1. ASSUME NEW d \in Fd
              PROVE  [NoFile EXCEPT !.open = TRUE, !.gen = file[d].gen + 1] \in FileRec
          <5>1. file[d].gen + 1 \in Nat
            BY <1>0 DEF FileRec
          <5> QED BY <5>1 DEF FileRec, NoFile
        <4> QED BY <3>1, <4>1, <1>0, Zenon
      <3>3. UNCHANGED <<table, sock, serial>>
        BY <2>3, Zenon DEF NewSock, tableVars
      <3> QED BY <3>2, <3>3, <1>3, <1>0
    <2>4. CASE Create(f)
      <3>1. pc[f] = "create" /\ call[f].fd \in Fd
        BY <2>4, <1>1 DEF Create, At, WithFd
      <3>2. NewCtx(call[f].fd) \in CtxRec
        BY <3>1, <1>0 DEF NewCtx, NoCtx, CtxRec, FileRec
      <3>3. table' = table \/ table' = [table EXCEPT ![call[f].fd] = NewCtx(call[f].fd)]
        BY <2>4 DEF Create
      <3>4. file' = file \/ file' = [file EXCEPT ![call[f].fd].nonblock = TRUE]
        BY <2>4 DEF Create
      <3>5. table' \in [Fd -> CtxRec]
        BY <3>2, <3>3, <1>0
      <3>6. file' \in [Fd -> FileRec]
        <4>1. [file[call[f].fd] EXCEPT !.nonblock = TRUE] \in FileRec
          BY <3>1, <1>0, Flagged
        <4>2. file' = file \/ file' = [file EXCEPT ![call[f].fd]
                                          = [file[call[f].fd] EXCEPT !.nonblock = TRUE]]
          BY <3>4
        <4> QED BY <4>1, <4>2, <1>0
      <3>7. UNCHANGED <<sock, serial>>
        BY <2>4 DEF Create
      <3> QED BY <3>5, <3>6, <3>7, <1>3, <1>0
    <2>5. CASE Made(f)
      <3>1. pc[f] = "made" /\ call[f].fd \in Fd /\ sock' = [sock EXCEPT ![call[f].s].fd = call[f].fd]
        BY <2>5, <1>1 DEF Made, At, WithFd
      <3>2. sock' \in [Sock -> SockRec]
        BY <3>1, <1>0 DEF SockRec
      <3>3. UNCHANGED <<file, table, serial>>
        BY <2>5 DEF Made, kernelVars
      <3> QED BY <3>2, <3>3, <1>3, <1>0
    <2>6. CASE TryConnect(f)
      <3>1. file' = file \/ \E d \in Fd \cup {Bad} : \E link \in {"up", "refused", "pending"} :
                  file' = [file EXCEPT ![d].link = link,
                                       ![d].ready = IF link = "pending" THEN {} ELSE {"WRITE"}]
        <4>1. call[f].s \in Sock
          BY <2>6, <1>1, Zenon DEF TryConnect, At
        <4>2. sock[call[f].s].fd \in Fd \cup {Bad}
          BY <4>1, <1>0 DEF SockRec
        <4> QED BY <4>2, <2>6, TryConnectLinks
      <3>2. file' \in [Fd -> FileRec]
        <4>1. ASSUME NEW d, NEW link \in {"up", "refused", "pending"},
                     file' = [file EXCEPT ![d].link = link,
                                          ![d].ready = IF link = "pending" THEN {} ELSE {"WRITE"}]
              PROVE  file' \in [Fd -> FileRec]
          <5>1. (IF link = "pending" THEN {} ELSE {"WRITE"}) \in SUBSET Event
            BY DEF Event
          <5> QED BY <5>1, <4>1, <1>0, Relinked
        <4> QED BY <3>1, <4>1, <1>0
      <3>3. UNCHANGED <<table, sock, serial>>
        BY <2>6, Zenon DEF TryConnect, tableVars
      <3> QED BY <3>2, <3>3, <1>3, <1>0
    <2>7. CASE Connected(f) \/ CloseCancel(f)
      <3>1. \E b \in BOOLEAN : sock' = [sock EXCEPT ![call[f].s].connected = b]
        BY <2>7 DEF Connected, CloseCancel
      <3>2. sock' \in [Sock -> SockRec]
        BY <3>1, <1>0 DEF SockRec
      <3>3. UNCHANGED <<file, table, serial>>
        BY <2>7 DEF Connected, CloseCancel, kernelVars
      <3> QED BY <3>2, <3>3, <1>3, <1>0
    <2>8. CASE Del(f)
      <3>1. table' \in [Fd -> CtxRec]
        BY <2>8, <1>0, <1>2 DEF Del
      <3> QED BY <3>1, <2>8, <1>3, <1>0 DEF Del, kernelVars
    <2>9. CASE CloseFile(f)
      <3>1. pc[f] = "close_f" /\ call[f].fd \in Fd
        BY <2>9, <1>1 DEF CloseFile, At, WithFd
      <3>2. [NoFile EXCEPT !.gen = file[call[f].fd].gen] \in FileRec
        BY <3>1, <1>0 DEF NoFile, FileRec
      <3>3. file' \in [Fd -> FileRec]
        BY <3>2, <2>9, <1>0 DEF CloseFile
      <3> QED BY <3>3, <2>9, <1>3, <1>0 DEF CloseFile, tableVars
    <2>10. CASE Closed(f)
      <3>1. sock' \in [Sock -> SockRec]
        BY <2>10, <1>0 DEF Closed, SockRec
      <3> QED BY <3>1, <2>10, <1>3, <1>0 DEF Closed, kernelVars
    <2> QED BY <1>5, <2>1, <2>2, <2>3, <2>4, <2>5, <2>6, <2>7, <2>8, <2>9, <2>10 DEF Step
  <1>6. ASSUME NEW f \in Fiber, Call(f) PROVE TypeKernel' /\ serial <= serial'
    <2>1. CASE Sleep(f)
      BY <2>1, <1>4 DEF Sleep, kernelVars, tableVars
    <2>2. ASSUME NEW s \in Sock, Recv(f, s) \/ Send(f, s) \/ Connect(f, s) \/ Close(f, s)
          PROVE  TypeKernel' /\ serial <= serial'
      BY <2>2, <1>4 DEF Recv, Send, Connect, Close, Begin, kernelVars, tableVars
    <2>3. ASSUME NEW s \in Sock, NEW e \in Cancels, CancelCall(f, s, e)
          PROVE  TypeKernel' /\ serial <= serial'
      BY <2>3, <1>4 DEF CancelCall, kernelVars, tableVars
    <2>4. ASSUME NEW s \in Sock, NEW e \in Event, SetTimeout(f, s, e)
          PROVE  TypeKernel' /\ serial <= serial'
      <3>1. table' = [table EXCEPT ![sock[s].fd].timeout[e] = TRUE]
            /\ UNCHANGED <<file, sock>> /\ serial' = serial + 1
        BY <2>4 DEF SetTimeout, setsockopt, kernelVars
      <3>2. table' \in [Fd -> CtxRec]
        BY <3>1, <1>0 DEF CtxRec
      <3> QED BY <3>1, <3>2, <1>3, <1>0
    <2>5. ASSUME NEW s \in Sock, NEW b \in BOOLEAN, SetFlags(f, s, b) \/ Ioctl(f, s, b)
          PROVE  TypeKernel' /\ serial <= serial'
      <3>1. table' = [table EXCEPT ![sock[s].fd].user = b]
            /\ (file' = file \/ file' = [file EXCEPT ![sock[s].fd].nonblock = b])
            /\ UNCHANGED sock /\ serial' = serial + 1
        BY <2>5 DEF SetFlags, Ioctl, kernelVars
      <3>2. table' \in [Fd -> CtxRec]
        BY <3>1, <1>0, UserKept
      <3>3. file' \in [Fd -> FileRec]
        BY <3>1, <1>0 DEF FileRec
      <3> QED BY <3>1, <3>2, <3>3, <1>3, <1>0
    <2>6. FIONBIOArgs \subseteq BOOLEAN
      BY HookAssumption
    <2> QED BY <1>6, <2>1, <2>2, <2>3, <2>4, <2>5, <2>6 DEF Call
  <1>7. ASSUME NEW t, Expire(t) \/ Timeout(t) PROVE TypeKernel' /\ serial <= serial'
    BY <1>7, <1>4 DEF Expire, Timeout, Callback, kernelVars, tableVars
  <1>8. ASSUME NEW d \in Fd, Arrive(d) PROVE TypeKernel' /\ serial <= serial'
    <2>1. \/ \E e \in Event : file' = [file EXCEPT ![d].ready = @ \cup {e}]
          \/ \E link \in {"up", "refused"} : file' = [file EXCEPT ![d].link = link, ![d].ready = {"WRITE"}]
      BY <1>8 DEF Arrive
    <2>2. file' \in [Fd -> FileRec]
      <3>1. CASE \E e \in Event : file' = [file EXCEPT ![d].ready = @ \cup {e}]
        BY <3>1, <1>0 DEF FileRec
      <3>2. ASSUME NEW link \in {"up", "refused"},
                   file' = [file EXCEPT ![d].link = link, ![d].ready = {"WRITE"}]
            PROVE  file' \in [Fd -> FileRec]
        <4>1. {"WRITE"} \in SUBSET Event
          BY DEF Event
        <4> QED BY <4>1, <3>2, <1>0, Relinked
      <3> QED BY <2>1, <3>1, <3>2
    <2>3. UNCHANGED <<table, sock, serial>>
      BY <1>8 DEF Arrive, tableVars
    <2> QED BY <2>2, <2>3, <1>3, <1>0
  <1>9. ASSUME NEW d \in Fd, NEW e \in Event, Deliver(d, e) PROVE TypeKernel' /\ serial <= serial'
    BY <1>9, <1>4 DEF Deliver, kernelVars, tableVars
  <1>10. ASSUME UNCHANGED vars PROVE TypeKernel' /\ serial <= serial'
    BY <1>10, <1>4 DEF vars
  <1> QED BY <1>5, <1>6, <1>7, <1>8, <1>9, <1>10 DEF Next

\* A call returns: no timer is of the call that is not there.
LEMMA ReturnMoves ==
  ASSUME Waits, TypeKernel', serial <= serial', NEW f \in Fiber, pc[f] # "wait", Return(f),
         waiter' = waiter, timers' \cup expired' \subseteq timers \cup expired
  PROVE  Waits'
  <1>1. NoCall \in CallRec /\ NoCall.n = 0 /\ NoCall.cancelled = FALSE
    BY DEF NoCall, CallRec, Event, Bad
  <1>2. \A t \in timers' \cup expired' : t \in timers \cup expired /\ t.n # 0
    BY DEF Waits, TypeWaits
  <1>3. FiberRight(f, "idle", NoCall, timers' \cup expired', serial')
    <2>1. 0 <= serial'
      BY DEF TypeKernel
    <2> QED BY <1>1, <1>2, <2>1 DEF FiberRight, PC, WithFd
  <1>4. pc' = [pc EXCEPT ![f] = "idle"] /\ call' = [call EXCEPT ![f] = NoCall]
    BY DEF Return, Goto
  <1>5. "idle" \in PC /\ "idle" # "wait"
    BY DEF PC
  <1> QED BY <1>1, <1>3, <1>4, <1>5, FiberGoes

\* A call goes on to its next step with what it has.
LEMMA GotoMoves ==
  ASSUME Waits, TypeKernel', serial <= serial', NEW f \in Fiber,
         pc[f] \notin {"idle", "wait", "sleep", "awake"},
         NEW to \in PC \ {"idle", "wait", "sleep", "awake"},
         to \in WithFd => call[f].fd \in Fd, to \in Unarmed => pc[f] \in Unarmed,
         Goto(f, to), call' = call, waiter' = waiter,
         timers' \cup expired' \subseteq timers \cup expired
  PROVE  Waits'
  <1>1. FiberRight(f, pc[f], call[f], timers \cup expired, serial)
    BY DEF Waits, Fibers
  <1>2. call[f].n <= serial' /\ call[f] \in CallRec
    <2>1. call[f].n <= serial /\ call[f].n \in Nat /\ serial \in Nat /\ serial' \in Nat
      BY <1>1 DEF FiberRight, CallRec, Waits, TypeKernel
    <2> QED BY <1>1, <2>1 DEF FiberRight
  <1>3. FiberRight(f, to, call[f], timers' \cup expired', serial')
    <2>1. \A t \in timers' \cup expired' : t.f = f /\ t.n = call[f].n =>
             to \notin Unarmed /\ call[f].op # "sleep" /\ call[f].timed
      BY <1>1 DEF FiberRight
    <2> QED BY <1>1, <1>2, <2>1 DEF FiberRight
  <1>4. pc' = [pc EXCEPT ![f] = to] /\ call' = [call EXCEPT ![f] = call[f]]
    BY DEF Goto, Waits, TypeWaits
  <1> QED BY <1>2, <1>3, <1>4, FiberGoes

\* A call takes a new record c, and the timers are those there were.
LEMMA CallMoves ==
  ASSUME Waits, TypeKernel', serial <= serial', NEW f \in Fiber, NEW to \in PC, NEW c \in CallRec,
         pc[f] # "wait", to \notin {"idle", "wait", "sleep", "awake"}, 1 <= c.n, c.n <= serial',
         pc' = [pc EXCEPT ![f] = to], call' = [call EXCEPT ![f] = c], waiter' = waiter,
         timers' \cup expired' \subseteq timers \cup expired,
         c.fd \in Fd \/ to \notin WithFd, c.s \in Sock, c.op # "sleep", ~c.cancelled,
         \A t \in timers \cup expired : ~(t.f = f /\ t.n = c.n)
  PROVE  Waits'
  <1>1. FiberRight(f, to, c, timers' \cup expired', serial')
    BY DEF FiberRight
  <1> QED BY <1>1, FiberGoes

\* The steps of a call up to its wait.
LEMMA TryMoves ==
  ASSUME Waits, TypeKernel', serial <= serial', NEW f \in Fiber,
         Enter(f) \/ TryDirect(f) \/ Try(f) \/ Arm(f)
  PROVE  Waits'
  <1>0. /\ FiberRight(f, pc[f], call[f], timers \cup expired, serial)
        /\ serial \in Nat /\ serial' \in Nat /\ pc \in [Fiber -> PC] /\ call \in [Fiber -> CallRec]
    BY Zenon DEF Waits, Fibers, TypeKernel, TypeWaits
  <1>1. CASE Enter(f)
    <2> DEFINE d == sock[call[f].s].fd
               c == [call[f] EXCEPT !.fd = d, !.gen = file[d].gen,
                                    !.timed = table[d].timeout[call[f].event]]
               to == IF Direct(table[d]) THEN "direct" ELSE "try"
    <2>1. pc[f] = "enter" /\ UNCHANGED <<timers, expired, waiter, serial>>
      BY <1>1, Zenon DEF Enter, At, timerVars
    <2>2. CASE OutOfTable(d)
      <3>1. UNCHANGED <<pc, call>>
        BY <2>2, <1>1 DEF Enter
      <3> QED BY <3>1, <2>1, NobodyMoves
    <2>3. CASE ~OutOfTable(d)
      <3>1. call' = [call EXCEPT ![f] = c] /\ pc' = [pc EXCEPT ![f] = to]
        BY <2>3, <1>0, <1>1 DEF Enter, Goto
      <3>2. /\ call[f].s \in Sock /\ call[f].op # "sleep" /\ call[f] \in CallRec
            /\ call[f].event \in Event /\ ~call[f].cancelled /\ call[f].n <= serial /\ 1 <= call[f].n
            /\ \A t \in timers \cup expired : ~(t.f = f /\ t.n = call[f].n)
        BY <1>0, <2>1 DEF FiberRight, CallRec, Unarmed
      <3>3. d \in Fd
        BY <2>3, <3>2 DEF OutOfTable, Waits, TypeKernel, SockRec
      <3>4. file[d].gen \in Nat /\ table[d].timeout[call[f].event] \in BOOLEAN
        BY <3>2, <3>3 DEF Waits, TypeKernel, FileRec, CtxRec
      <3>5. to \in PC /\ to \notin {"idle", "wait", "sleep", "awake"}
        BY SMTT(30) DEF PC
      <3>6. /\ c \in CallRec /\ c.n = call[f].n /\ c.s = call[f].s /\ c.op = call[f].op /\ c.fd = d
            /\ c.cancelled = call[f].cancelled
        BY <3>2, <3>3, <3>4 DEF CallRec
      <3> HIDE DEF c, to, d
      <3>7. c.n <= serial' /\ 1 <= c.n /\ timers' \cup expired' \subseteq timers \cup expired
        BY <3>2, <3>6, <2>1
      <3>8. \A t \in timers \cup expired : ~(t.f = f /\ t.n = c.n)
        BY <3>2, <3>6
      <3>9. pc[f] # "wait" /\ waiter' = waiter /\ (c.fd \in Fd \/ to \notin WithFd)
            /\ c.s \in Sock /\ c.op # "sleep" /\ ~c.cancelled
        BY <3>2, <3>3, <3>6, <2>1
      <3> QED BY <3>1, <3>5, <3>6, <3>7, <3>8, <3>9, CallMoves
    <2> QED BY <2>2, <2>3
  <1>2. CASE TryDirect(f) \/ Try(f)
    <2>1. pc[f] \in {"direct", "try"} /\ UNCHANGED <<timers, expired, waiter, serial>>
      BY <1>2 DEF TryDirect, Try, At, timerVars
    <2>2. Return(f) \/ (pc[f] = "try" /\ Goto(f, "arm") /\ call' = call)
      BY <1>2 DEF TryDirect, Try, SystemCall, At
    <2>3. CASE Return(f)
      BY <2>1, <2>3, ReturnMoves
    <2>4. CASE pc[f] = "try" /\ Goto(f, "arm") /\ call' = call
      <3>1. call[f].fd \in Fd
        BY <2>4, <1>0 DEF FiberRight, WithFd
      <3>2. "arm" \in PC \ {"idle", "wait", "sleep", "awake"} /\ "arm" \notin Unarmed
        BY DEF PC, Unarmed
      <3> QED BY <3>1, <3>2, <2>1, <2>4, GotoMoves
    <2> QED BY <2>2, <2>3, <2>4
  <1>3. CASE Arm(f)
    <2>1. /\ pc[f] = "arm" /\ UNCHANGED <<expired, waiter, serial, call>> /\ Goto(f, "add")
          /\ timers' = IF call[f].timed THEN timers \cup {[f |-> f, n |-> call[f].n]} ELSE timers
      BY <1>3 DEF Arm, At
    <2>2. /\ call[f].fd \in Fd /\ call[f].s \in Sock /\ call[f].op # "sleep" /\ call[f] \in CallRec
      BY <2>1, <1>0 DEF FiberRight, WithFd
    <2>3. "add" \in PC \ {"idle", "wait", "sleep", "awake"} /\ "add" \notin Unarmed /\ "add" \in WithFd
      BY DEF PC, Unarmed, WithFd
    <2>4. CASE ~call[f].timed
      <3>1. timers' = timers
        BY <2>1, <2>4
      <3> QED BY <3>1, <2>1, <2>2, <2>3, GotoMoves
    <2>5. CASE call[f].timed
      <3>1. timers' = timers \cup {[f |-> f, n |-> call[f].n]}
        BY <2>1, <2>5
      <3>2. FiberRight(f, "add", call[f], timers' \cup expired', serial')
        <4>1. call[f].n <= serial' /\ 1 <= call[f].n
          BY <2>1, <1>0 DEF FiberRight
        <4> QED BY <4>1, <2>2, <2>3, <2>5 DEF FiberRight
      <3>3. 1 <= call[f].n
        BY <2>1, <1>0 DEF FiberRight
      <3>4. pc' = [pc EXCEPT ![f] = "add"] /\ call' = [call EXCEPT ![f] = call[f]]
        BY <2>1, <1>0 DEF Goto
      <3>5. \A t \in timers' \cup expired' : t \in timers \cup expired \/ t = [f |-> f, n |-> call[f].n]
        BY <3>1, <2>1
      <3> QED BY <3>2, <3>3, <3>4, <3>5, <2>1, <2>2, <2>3, FiberMoves
    <2> QED BY <2>4, <2>5
  <1> QED BY <1>1, <1>2, <1>3

\* addEvent: the fiber is registered and holds, or goes on without a wait.
LEMMA AddMoves ==
  ASSUME Waits, TypeKernel', serial <= serial', NEW f \in Fiber, AddEvent(f)
  PROVE  Waits'
  <1> DEFINE d == call[f].fd
             e == call[f].event
  <1>0. /\ FiberRight(f, pc[f], call[f], timers \cup expired, serial) /\ TypeWaits /\ WaitersTrue /\ Fibers
        /\ serial \in Nat /\ serial' \in Nat /\ pc \in [Fiber -> PC] /\ call \in [Fiber -> CallRec]
    BY DEF Waits, Fibers, TypeKernel, TypeWaits
  <1>1. pc[f] = "add" /\ UNCHANGED <<expired, serial>>
    BY DEF AddEvent, At
  <1>2. d \in Fd /\ e \in Event /\ call[f].s \in Sock /\ call[f].op # "sleep"
    BY <1>0, <1>1 DEF FiberRight, WithFd, CallRec
  <1>3. CASE waiter[d][e] # None
    <2>1. UNCHANGED <<waiter, timers, pc, call>>
      BY <1>3 DEF AddEvent
    <2> QED BY <2>1, <1>1, NobodyMoves
  <1>4. CASE waiter[d][e] = None /\ ~file[d].open
    <2>1. /\ waiter' = waiter /\ timers' \subseteq timers
          /\ (Goto(f, "soerror") /\ call' = call) \/ Return(f)
      BY <1>4 DEF AddEvent, Disarm
    <2>2. timers' \cup expired' \subseteq timers \cup expired
      BY <2>1, <1>1
    <2>3. "soerror" \in PC \ {"idle", "wait", "sleep", "awake"} /\ "soerror" \notin Unarmed
      BY DEF PC, Unarmed
    <2>4. CASE Return(f)
      BY <2>1, <2>2, <2>4, <1>1, ReturnMoves
    <2>5. CASE Goto(f, "soerror") /\ call' = call
      BY <2>1, <2>2, <2>3, <2>5, <1>1, <1>2, GotoMoves
    <2> QED BY <2>1, <2>4, <2>5
  <1>5. CASE waiter[d][e] = None /\ file[d].open
    <2>1. /\ waiter' = [waiter EXCEPT ![d][e] = f] /\ pc' = [pc EXCEPT ![f] = "wait"]
          /\ UNCHANGED <<timers, call>>
      BY <1>5 DEF AddEvent, Goto
    <2> HIDE DEF d, e
    <2>2. /\ waiter' \in [Fd -> [Event -> Fiber \cup {None}]]
          /\ \A x \in Fd, y \in Event : waiter'[x][y] = IF x = d /\ y = e THEN f ELSE waiter[x][y]
      BY <2>1, <1>0, <1>2 DEF TypeWaits
    <2>3. pc'[f] = "wait" /\ \A g \in Fiber : g # f => pc'[g] = pc[g]
      BY <2>1, <1>0
    <2>4. TypeWaits'
      BY <2>1, <2>2, <1>0, <1>1 DEF TypeWaits, PC
    <2>5. Fibers'
      <3>1. FiberRight(f, "wait", call[f], timers \cup expired, serial)
        BY <1>0, <1>1, <1>2 DEF FiberRight, PC, WithFd, Unarmed
      <3> QED BY <3>1, <2>1, <2>3, <1>0, <1>1 DEF Fibers
    <2>6. WaitersTrue'
      <3> SUFFICES ASSUME NEW g \in Fiber, NEW x \in Fd, NEW y \in Event
                   PROVE  waiter'[x][y] = g <=> pc'[g] = "wait" /\ call'[g].fd = x /\ call'[g].event = y
        BY DEF WaitersTrue
      <3>1. waiter[x][y] = g <=> pc[g] = "wait" /\ call[g].fd = x /\ call[g].event = y
        BY <1>0 DEF WaitersTrue
      <3>2. waiter'[x][y] = IF x = d /\ y = e THEN f ELSE waiter[x][y]
        BY <2>2
      <3>3. g # None /\ call'[g] = call[g]
        BY <2>1, HookAssumption
      <3>4. CASE g = f
        <4>1. waiter[x][y] # f
          BY <3>1, <3>4, <1>1
        <4> QED BY <3>2, <3>3, <3>4, <4>1, <2>3 DEF d, e
      <3>5. CASE g # f
        <4>1. pc'[g] = pc[g]
          BY <3>5, <2>3
        <4>2. x = d /\ y = e => waiter[x][y] # g
          BY <3>3, <1>5
        <4> QED BY <3>1, <3>2, <3>3, <3>5, <4>1, <4>2
      <3> QED BY <3>4, <3>5
    <2> QED BY <2>4, <2>5, <2>6 DEF Waits
  <1> QED BY <1>3, <1>4, <1>5

\* After the wait, and the steps of connect() and close() that touch one fiber only.
LEMMA OtherMoves ==
  ASSUME Waits, TypeKernel', serial <= serial', NEW f \in Fiber,
         \/ Woken(f) \/ NewSock(f) \/ Get(f) \/ Create(f) \/ Made(f) \/ TryConnect(f)
         \/ SoError(f) \/ Connected(f) \/ Del(f) \/ CloseFile(f) \/ Closed(f) \/ Awake(f)
  PROVE  Waits'
  <1>0. /\ FiberRight(f, pc[f], call[f], timers \cup expired, serial)
        /\ serial \in Nat /\ serial' \in Nat /\ pc \in [Fiber -> PC] /\ call \in [Fiber -> CallRec]
    BY DEF Waits, Fibers, TypeKernel, TypeWaits
  <1>1. CASE Awake(f) \/ Connected(f) \/ Closed(f)
    BY <1>1, ReturnMoves DEF Awake, Connected, Closed, At, timerVars
  <1>2. ASSUME NEW from \in PC \ {"idle", "wait", "sleep", "awake"},
               NEW to \in PC \ {"idle", "wait", "sleep", "awake"}, pc[f] = from,
               from \in WithFd \/ to \notin WithFd, from \in Unarmed \/ to \notin Unarmed,
               Goto(f, to), UNCHANGED <<call, waiter, expired>>, timers' \subseteq timers
        PROVE  Waits'
    <2>1. call[f].fd \in Fd \/ to \notin WithFd
      BY <1>2, <1>0 DEF FiberRight
    <2>2. timers' \cup expired' \subseteq timers \cup expired
      BY <1>2
    <2> QED BY <1>2, <2>1, <2>2, GotoMoves
  <1>3. CASE Woken(f)
    <2>1. /\ pc[f] = "woken" /\ UNCHANGED <<waiter, expired, serial>> /\ timers' \subseteq timers
          /\ \/ Return(f)
             \/ call' = call /\ \E to \in {"try", "close", "soerror"} : Goto(f, to)
      BY <1>3 DEF Woken, At, Disarm, Resume
    <2>2. timers' \cup expired' \subseteq timers \cup expired
      BY <2>1
    <2>3. CASE Return(f)
      BY <2>1, <2>2, <2>3, ReturnMoves
    <2>4. ASSUME call' = call, NEW to \in {"try", "close", "soerror"}, Goto(f, to) PROVE Waits'
      BY <2>1, <2>4, <1>2 DEF PC, WithFd, Unarmed
    <2> QED BY <2>1, <2>3, <2>4
  <1>4. CASE Get(f)
    BY <1>4, <1>2 DEF Get, At, PC, WithFd, Unarmed, timerVars
  <1>5. CASE Create(f)
    <2>1. pc[f] = "create" /\ UNCHANGED <<timers, expired, waiter, call, serial>>
      BY <1>5 DEF Create, At, timerVars
    <2>2. UNCHANGED pc \/ Goto(f, "made")
      BY <1>5 DEF Create
    <2>3. CASE UNCHANGED pc
      BY <2>1, <2>3, NobodyMoves
    <2>4. CASE Goto(f, "made")
      BY <2>1, <2>4, <1>2 DEF PC, WithFd, Unarmed
    <2> QED BY <2>2, <2>3, <2>4
  <1>6. CASE Made(f)
    BY <1>6, <1>2 DEF Made, At, PC, WithFd, Unarmed, timerVars
  <1>7. CASE SoError(f)
    <2>1. pc[f] = "soerror" /\ UNCHANGED <<timers, expired, waiter, call, serial>>
          /\ \E to \in {"connected", "close"} : Goto(f, to)
      BY <1>7 DEF SoError, At, timerVars
    <2> QED BY <2>1, <1>2 DEF PC, WithFd, Unarmed
  <1>8. CASE Del(f) \/ CloseFile(f)
    BY <1>8, <1>2 DEF Del, CloseFile, At, PC, WithFd, Unarmed, timerVars
  <1>9. CASE NewSock(f)
    <2>1. pc[f] = "socket" /\ UNCHANGED <<timers, expired, waiter, serial>>
      BY <1>9, Zenon DEF NewSock, At, timerVars
    <2>2. CASE Return(f)
      BY <2>1, <2>2, ReturnMoves
    <2>3. ASSUME NEW d \in Fd, call' = [call EXCEPT ![f].fd = d], Goto(f, "get") PROVE Waits'
      <3> DEFINE c == [call[f] EXCEPT !.fd = d]
      <3>1. call' = [call EXCEPT ![f] = c] /\ pc' = [pc EXCEPT ![f] = "get"]
        BY <2>3, <1>0 DEF Goto
      <3>2. /\ call[f].s \in Sock /\ call[f].op # "sleep" /\ call[f] \in CallRec
            /\ ~call[f].cancelled /\ call[f].n <= serial' /\ 1 <= call[f].n
            /\ \A t \in timers \cup expired : ~(t.f = f /\ t.n = call[f].n)
        BY <1>0, <2>1 DEF FiberRight, Unarmed
      <3>3. /\ c \in CallRec /\ c.n = call[f].n /\ c.s = call[f].s /\ c.op = call[f].op /\ c.fd = d
            /\ c.cancelled = call[f].cancelled
        BY <3>2 DEF CallRec
      <3> HIDE DEF c
      <3>4. "get" \in PC /\ "get" \notin {"idle", "wait", "sleep", "awake"}
        BY DEF PC
      <3>5. \A t \in timers \cup expired : ~(t.f = f /\ t.n = c.n)
        BY <3>2, <3>3
      <3>6. pc[f] # "wait" /\ waiter' = waiter /\ c.fd \in Fd
            /\ c.s \in Sock /\ c.op # "sleep" /\ ~c.cancelled /\ c.n <= serial' /\ 1 <= c.n
            /\ timers' \cup expired' \subseteq timers \cup expired
        BY <3>2, <3>3, <2>1
      <3> QED BY <3>1, <3>3, <3>4, <3>5, <3>6, CallMoves
    <2> QED BY <1>9, <2>2, <2>3, Zenon DEF NewSock
  <1>10. CASE TryConnect(f)
    <2> DEFINE d == sock[call[f].s].fd
    <2>1. pc[f] = "connect" /\ UNCHANGED <<timers, expired, waiter, serial>>
      BY <1>10, Zenon DEF TryConnect, At, timerVars
    <2>2. \/ UNCHANGED <<pc, call>>
          \/ Goto(f, "close") /\ call' = call
          \/ /\ ~OutOfTable(d)
             /\ \E to \in {"connected", "close", "arm"} : Goto(f, to)
             /\ \E timed \in BOOLEAN :
                  call' = [call EXCEPT ![f].fd = d, ![f].timed = timed, ![f].gen = file[d].gen]
      BY <1>10, Zenon DEF TryConnect
    <2>3. CASE UNCHANGED <<pc, call>>
      BY <2>1, <2>3, NobodyMoves
    <2>4. CASE Goto(f, "close") /\ call' = call
      BY <2>1, <2>4, <1>2 DEF PC, WithFd, Unarmed
    <2>5. ASSUME ~OutOfTable(d), NEW to \in {"connected", "close", "arm"}, Goto(f, to),
                 NEW timed \in BOOLEAN,
                 call' = [call EXCEPT ![f].fd = d, ![f].timed = timed, ![f].gen = file[d].gen]
          PROVE  Waits'
      <3> DEFINE c == [call[f] EXCEPT !.fd = d, !.timed = timed, !.gen = file[d].gen]
      <3>1. call' = [call EXCEPT ![f] = c] /\ pc' = [pc EXCEPT ![f] = to]
        BY <2>5, <1>0 DEF Goto
      <3>2. /\ call[f].s \in Sock /\ call[f].op # "sleep" /\ call[f] \in CallRec
            /\ ~call[f].cancelled /\ call[f].n <= serial' /\ 1 <= call[f].n
            /\ \A t \in timers \cup expired : ~(t.f = f /\ t.n = call[f].n)
        BY <1>0, <2>1 DEF FiberRight, Unarmed
      <3>3. d \in Fd /\ file[d].gen \in Nat
        <4>1. d \in Fd
          BY <2>5, <3>2 DEF OutOfTable, Waits, TypeKernel, SockRec
        <4> QED BY <4>1 DEF Waits, TypeKernel, FileRec
      <3>4. /\ c \in CallRec /\ c.n = call[f].n /\ c.s = call[f].s /\ c.op = call[f].op /\ c.fd = d
            /\ c.cancelled = call[f].cancelled
        BY <2>5, <3>2, <3>3 DEF CallRec
      <3> HIDE DEF c, d
      <3>5. to \in PC /\ to \notin {"idle", "wait", "sleep", "awake"}
        BY <2>5 DEF PC
      <3>6. \A t \in timers \cup expired : ~(t.f = f /\ t.n = c.n)
        BY <3>2, <3>4
      <3>7. pc[f] # "wait" /\ waiter' = waiter /\ c.fd \in Fd
            /\ c.s \in Sock /\ c.op # "sleep" /\ ~c.cancelled /\ c.n <= serial' /\ 1 <= c.n
            /\ timers' \cup expired' \subseteq timers \cup expired
        BY <3>2, <3>3, <3>4, <2>1
      <3> QED BY <3>1, <3>4, <3>5, <3>6, <3>7, CallMoves
    <2> HIDE DEF d
    <2> QED BY <2>2, <2>3, <2>4, <2>5, Zenon
  <1> QED BY <1>1, <1>3, <1>4, <1>5, <1>6, <1>7, <1>8, <1>9, <1>10

\* A sleep has one timer, which is armed or has expired, not both.
SleepOnce == \A f \in Fiber : pc[f] = "sleep" =>
                [f |-> f, n |-> call[f].n] \notin timers \cap expired

\* cancelEvent, cancelAll and epoll: the waiters of some events are resumed.
LEMMA WakeMoves ==
  ASSUME Waits, TypeKernel', serial <= serial', NEW d \in Fd, NEW events \in SUBSET Event,
         Wake(d, events), call' \in [Fiber -> CallRec],
         timers' \cup expired' \subseteq timers \cup expired,
         \A g \in Fiber : call'[g] = call[g] \/
                          (/\ call'[g].fd = call[g].fd /\ call'[g].event = call[g].event
                           /\ FiberRight(g, pc[g], call'[g], timers \cup expired, serial))
  PROVE  Waits'
  <1>0. /\ TypeWaits /\ Fibers /\ WaitersTrue /\ serial \in Nat /\ serial' \in Nat
    BY DEF Waits, TypeKernel
  <1> DEFINE W == {waiter[d][e] : e \in events}
  <1>1. \A g \in Fiber : pc'[g] = IF g \in W THEN "woken" ELSE pc[g]
    BY HookAssumption DEF Wake, Waiting
  <1>2. pc' \in [Fiber -> PC]
    BY <1>0 DEF Wake, TypeWaits, PC
  <1>3. \A g \in Fiber : g \in W => pc[g] = "wait"
    BY <1>0 DEF WaitersTrue
  <1>4. /\ waiter' = [waiter EXCEPT ![d] = [e \in Event |-> IF e \in events THEN None ELSE @[e]]]
    BY DEF Wake
  <1>5. \A g \in Fiber : FiberRight(g, pc'[g], call'[g], timers \cup expired, serial)
    <2> SUFFICES ASSUME NEW g \in Fiber
                 PROVE  FiberRight(g, pc'[g], call'[g], timers \cup expired, serial)
      OBVIOUS
    <2>1. FiberRight(g, pc[g], call'[g], timers \cup expired, serial)
      BY <1>0 DEF Fibers
    <2>2. CASE g \notin W
      BY <2>1, <2>2, <1>1
    <2>3. CASE g \in W
      <3>1. pc[g] = "wait" /\ pc'[g] = "woken"
        BY <2>3, <1>1, <1>3
      <3> QED BY <2>1, <3>1 DEF FiberRight, PC, WithFd, Unarmed
    <2> QED BY <2>2, <2>3
  <1>6. TypeWaits'
    <2>1. waiter' \in [Fd -> [Event -> Fiber \cup {None}]]
      BY <1>0, <1>4 DEF TypeWaits
    <2>2. \A t \in timers' \cup expired' : t \in [f : Fiber, n : Nat] /\ 1 <= t.n /\ t.n <= serial'
      <3> SUFFICES ASSUME NEW t \in timers' \cup expired'
                   PROVE  t \in [f : Fiber, n : Nat] /\ 1 <= t.n /\ t.n <= serial'
        OBVIOUS
      <3>1. t \in [f : Fiber, n : Nat] /\ 1 <= t.n /\ t.n <= serial /\ t.n \in Nat
        BY <1>0 DEF TypeWaits
      <3> QED BY <3>1, <1>0
    <2> QED BY <2>1, <2>2, <1>2 DEF TypeWaits
  <1>7. Fibers'
    <2> SUFFICES ASSUME NEW g \in Fiber
                 PROVE  FiberRight(g, pc'[g], call'[g], timers' \cup expired', serial')
      BY DEF Fibers
    <2>1. FiberRight(g, pc'[g], call'[g], timers \cup expired, serial)
      BY <1>5
    <2>2. call'[g].n <= serial'
      <3>1. call'[g].n <= serial /\ call'[g].n \in Nat
        BY <2>1 DEF FiberRight, CallRec
      <3> QED BY <3>1, <1>0
    <2> QED BY <2>1, <2>2 DEF FiberRight
  <1>8. WaitersTrue'
    <2> SUFFICES ASSUME NEW g \in Fiber, NEW x \in Fd, NEW e \in Event
                 PROVE  waiter'[x][e] = g <=> pc'[g] = "wait" /\ call'[g].fd = x /\ call'[g].event = e
      BY DEF WaitersTrue
    <2>1. waiter'[x][e] = IF x = d /\ e \in events THEN None ELSE waiter[x][e]
      BY <1>0, <1>4 DEF TypeWaits
    <2>2. waiter[x][e] = g <=> pc[g] = "wait" /\ call[g].fd = x /\ call[g].event = e
      BY <1>0 DEF WaitersTrue
    <2>3. g # None /\ call'[g].fd = call[g].fd /\ call'[g].event = call[g].event
      BY HookAssumption
    <2>4. CASE g \in W
      <3>1. PICK y \in events : waiter[d][y] = g
        BY <2>4
      <3>2. call[g].fd = d /\ call[g].event = y
        BY <3>1, <1>0 DEF WaitersTrue
      <3>3. pc'[g] = "woken"
        BY <2>4, <1>1
      <3> QED BY <3>1, <3>2, <3>3, <2>1, <2>2, <2>3
    <2>5. CASE g \notin W
      <3>1. pc'[g] = pc[g]
        BY <2>5, <1>1
      <3>2. waiter'[x][e] = g <=> waiter[x][e] = g
        BY <2>1, <2>3, <2>5
      <3> QED BY <3>1, <3>2, <2>2, <2>3
    <2> QED BY <2>4, <2>5
  <1> QED BY <1>6, <1>7, <1>8 DEF Waits

\* The environment: a timer expires, a callback runs, epoll delivers.
LEMMA EnvironmentMoves ==
  ASSUME Waits, SleepOnce, TypeKernel', serial <= serial',
         \/ \E t \in timers : Expire(t)
         \/ \E t \in expired : Timeout(t)
         \/ \E d \in Fd : Arrive(d) \/ \E e \in Event : Deliver(d, e)
  PROVE  Waits'
  <1>0. /\ TypeWaits /\ Fibers /\ WaitersTrue /\ serial \in Nat /\ serial' \in Nat
        /\ call \in [Fiber -> CallRec] /\ pc \in [Fiber -> PC]
    BY DEF Waits, TypeKernel, TypeWaits
  <1>1. ASSUME NEW t \in timers, Expire(t) PROVE Waits'
    BY <1>1, NobodyMoves DEF Expire
  <1>2. ASSUME NEW d \in Fd, Arrive(d) PROVE Waits'
    BY <1>2, NobodyMoves DEF Arrive, timerVars
  <1>3. ASSUME NEW d \in Fd, NEW e \in Event, Deliver(d, e) PROVE Waits'
    <2>1. Wake(d, {e}) /\ {e} \in SUBSET Event /\ UNCHANGED <<timers, expired, call>>
      BY <1>3 DEF Deliver, timerVars
    <2> QED BY <2>1, <1>0, WakeMoves
  <1>4. ASSUME NEW t \in expired, Timeout(t) PROVE Waits'
    <2> DEFINE f == t.f
               c == [call[f] EXCEPT !.cancelled = TRUE]
    <2>1. /\ expired' = expired \ {t} /\ UNCHANGED <<timers, serial>>
          /\ t \in [f : Fiber, n : Nat] /\ f \in Fiber /\ t = [f |-> f, n |-> t.n]
      BY <1>4, <1>0 DEF Timeout, Callback, TypeWaits
    <2>2. timers' \cup expired' \subseteq timers \cup expired
      BY <2>1
    <2>3. FiberRight(f, pc[f], call[f], timers \cup expired, serial)
      BY <2>1, <1>0 DEF Fibers
    <2>4. CASE pc[f] = "sleep" /\ Lives(t)
      <3>1. pc' = [pc EXCEPT ![f] = "awake"] /\ UNCHANGED <<call, waiter>>
        BY <2>4, <1>4 DEF Timeout, Callback
      <3>2. \A x \in timers' \cup expired' : ~(x.f = f /\ x.n = call[f].n)
        <4> SUFFICES ASSUME NEW x \in timers' \cup expired', x.f = f, x.n = call[f].n PROVE FALSE
          OBVIOUS
        <4>1. x \in [f : Fiber, n : Nat]
          BY <2>2, <1>0 DEF TypeWaits
        <4>2. x = t /\ t.n = call[f].n
          BY <4>1, <2>1, <2>4 DEF Lives
        <4>3. t \notin timers
          BY <4>2, <2>1, <2>4 DEF SleepOnce
        <4> QED BY <4>2, <4>3, <2>1
      <3>3. FiberRight(f, "awake", call[f], timers' \cup expired', serial')
        <4>1. call[f] \in CallRec /\ 1 <= call[f].n /\ call[f].n <= serial'
          BY <2>1, <2>3, <2>4 DEF FiberRight
        <4> QED BY <4>1, <3>2, <2>3 DEF FiberRight, PC, WithFd, Unarmed
      <3>4. call' = [call EXCEPT ![f] = call[f]] /\ call[f] \in CallRec
        BY <3>1, <2>1, <1>0
      <3>5. "awake" \in PC
        BY DEF PC
      <3> HIDE DEF f
      <3> QED BY <3>1, <3>3, <3>4, <3>5, <2>1, <2>2, <2>4, FiberGoes
    <2>5. CASE ~(pc[f] = "sleep" /\ Lives(t)) /\ Lives(t) /\ ~call[f].cancelled
      <3>1. call' = [call EXCEPT ![f].cancelled = TRUE] /\ Cancel(call[f].fd, {call[f].event})
        BY <2>5, <1>4 DEF Timeout, Callback
      <3>2. call[f].timed /\ pc[f] \notin Unarmed
        <4>1. t \in timers \cup expired /\ t.f = f /\ t.n = call[f].n /\ pc[f] # "sleep"
          BY <2>5 DEF Lives
        <4> QED BY <4>1, <2>3 DEF FiberRight
      <3>3. /\ c \in CallRec /\ c.fd = call[f].fd /\ c.event = call[f].event /\ c.n = call[f].n
            /\ c.s = call[f].s /\ c.op = call[f].op /\ c.timed = call[f].timed
        <4>1. call[f] \in CallRec
          BY <2>1, <1>0
        <4> HIDE DEF f
        <4>2. c \in CallRec
          BY <4>1 DEF CallRec
        <4> QED BY <4>1, <4>2 DEF CallRec
      <3>4. call' = [call EXCEPT ![f] = c] /\ call[f].event \in Event /\ call[f].fd \in Fd \cup {Bad}
        BY <3>1, <2>1, <1>0 DEF CallRec
      <3> HIDE DEF c
      <3>5. FiberRight(f, pc[f], c, timers \cup expired, serial)
        BY <2>3, <3>2, <3>3 DEF FiberRight
      <3>6. call' \in [Fiber -> CallRec] /\ call'[f] = c /\ \A g \in Fiber : g # f => call'[g] = call[g]
        BY <3>3, <3>4, <2>1, <1>0
      <3> HIDE DEF f
      <3>7. CASE call[f].fd # Bad /\ file[call[f].fd].open
        <4>1. Wake(call[f].fd, {call[f].event}) /\ {call[f].event} \in SUBSET Event /\ call[f].fd \in Fd
          BY <3>1, <3>4, <3>7 DEF Cancel
        <4>2. \A g \in Fiber : call'[g] = call[g] \/
                          (/\ call'[g].fd = call[g].fd /\ call'[g].event = call[g].event
                           /\ FiberRight(g, pc[g], call'[g], timers \cup expired, serial))
          BY <3>3, <3>5, <3>6
        <4> QED BY <4>1, <4>2, <3>6, <2>2, WakeMoves
      <3>8. CASE ~(call[f].fd # Bad /\ file[call[f].fd].open)
        <4>1. UNCHANGED <<waiter, pc>>
          BY <3>1, <3>8 DEF Cancel
        <4>2. TypeWaits'
          BY <4>1, <3>6, <2>1, <1>0 DEF TypeWaits
        <4>3. Fibers'
          <5> SUFFICES ASSUME NEW g \in Fiber
                       PROVE  FiberRight(g, pc'[g], call'[g], timers' \cup expired', serial')
            BY DEF Fibers
          <5>1. FiberRight(g, pc[g], call'[g], timers \cup expired, serial)
            BY <3>5, <3>6, <1>0 DEF Fibers
          <5> QED BY <5>1, <4>1, <2>1, <2>2 DEF FiberRight
        <4>4. WaitersTrue'
          <5>1. \A g \in Fiber : call'[g].fd = call[g].fd /\ call'[g].event = call[g].event
            BY <3>3, <3>6
          <5> QED BY <5>1, <4>1, <1>0 DEF WaitersTrue
        <4> QED BY <4>2, <4>3, <4>4 DEF Waits
      <3> QED BY <3>7, <3>8
    <2>6. CASE ~(pc[f] = "sleep" /\ Lives(t)) /\ ~(Lives(t) /\ ~call[f].cancelled)
      <3>1. UNCHANGED <<call, waiter, pc>>
        BY <2>6, <1>4 DEF Timeout, Callback
      <3> QED BY <3>1, <2>2, NobodyMoves
    <2> QED BY <2>4, <2>5, <2>6
  <1> QED BY <1>1, <1>2, <1>3, <1>4

\* close(): every waiter of the descriptor is resumed, the closing fiber goes on.
LEMMA CloseMoves ==
  ASSUME Waits, TypeKernel', serial <= serial', NEW f \in Fiber, CloseCancel(f)
  PROVE  Waits'
  <1> DEFINE d == sock[call[f].s].fd
             D == Cancelled(d)
             c == [call[f] EXCEPT !.fd = d]
             events == {e \in Event : waiter[d][e] \in D}
  <1>0. /\ TypeWaits /\ Fibers /\ WaitersTrue /\ serial \in Nat /\ serial' \in Nat
        /\ FiberRight(f, pc[f], call[f], timers \cup expired, serial)
        /\ call \in [Fiber -> CallRec] /\ pc \in [Fiber -> PC]
    BY DEF Waits, Fibers, TypeKernel, TypeWaits
  <1>1. pc[f] = "close" /\ Shut(f, d, D, D) /\ UNCHANGED <<timers, expired, serial>>
    BY DEF CloseCancel, At, timerVars
  <1>2. CASE d = Bad
    <2>1. Return(f) /\ waiter' = waiter
      BY <1>1, <1>2 DEF Shut
    <2> QED BY <2>1, <1>1, ReturnMoves
  <1>3. CASE d # Bad
    <2>1. /\ call' = [call EXCEPT ![f] = c]
          /\ waiter' = [waiter EXCEPT ![d] = [e \in Event |-> IF @[e] \in D THEN None ELSE @[e]]]
          /\ pc' = [g \in Fiber |-> IF g = f THEN "del" ELSE IF g \in D THEN "woken" ELSE pc[g]]
      BY <1>0, <1>1, <1>3 DEF Shut
    <2>2. call[f].s \in Sock /\ call[f].op # "sleep" /\ call[f] \in CallRec
      BY <1>0, <1>1 DEF FiberRight
    <2>3. d \in Fd
      BY <1>3, <2>2 DEF Waits, TypeKernel, SockRec
    <2>4. D \subseteq Fiber /\ \A g \in D : pc[g] = "wait" /\ \E e \in Event : waiter[d][e] = g
      <3>1. \A g \in D : \E e \in Event : waiter[d][e] = g /\ g # None
        BY DEF Cancelled, Waiting
      <3>2. \A e \in Event : waiter[d][e] \in Fiber \cup {None}
        BY <2>3, <1>0 DEF TypeWaits
      <3>3. D \subseteq Fiber
        BY <3>1, <3>2
      <3> QED BY <3>1, <3>3, <2>3, <1>0 DEF WaitersTrue
    <2>5. /\ c \in CallRec /\ c.fd = d /\ c.n = call[f].n /\ c.s = call[f].s /\ c.op = call[f].op
          /\ c.timed = call[f].timed /\ c.cancelled = call[f].cancelled
      BY <2>2, <2>3 DEF CallRec
    <2> HIDE DEF c, D, d
    <2>6. FiberRight(f, "del", c, timers \cup expired, serial)
      BY <2>2, <2>3, <2>5, <1>0, <1>1 DEF FiberRight, PC, Unarmed, WithFd
    <2>7. events \in SUBSET Event
          /\ waiter' = [waiter EXCEPT ![d] = [e \in Event |-> IF e \in events THEN None ELSE @[e]]]
      BY <2>1
    <2>8. \A g : g \in {waiter[d][e] : e \in events} <=> g \in D
      BY <2>4
    <2> HIDE DEF events
    <2>9. pc' \in [Fiber -> PC] /\ call' \in [Fiber -> CallRec]
      BY <2>1, <2>5, <1>0 DEF PC
    <2>10. /\ pc'[f] = "del" /\ call'[f] = c /\ f \notin D
           /\ \A g \in Fiber : g # f => call'[g] = call[g]
                                       /\ pc'[g] = IF g \in D THEN "woken" ELSE pc[g]
      BY <2>1, <2>4, <1>0, <1>1
    <2>11. \A g \in Fiber : \/ call'[g].fd = call[g].fd /\ call'[g].event = call[g].event
                            \/ pc[g] # "wait"
      BY <2>10, <1>1
    <2>12. \A g \in Fiber : \/ (g \in {waiter[d][e] : e \in events} /\ pc'[g] = "woken")
                            \/ g \notin {waiter[d][e] : e \in events} /\ pc'[g] = pc[g]
                            \/ pc[g] # "wait" /\ pc'[g] # "wait"
      BY <2>8, <2>10, <1>1
    <2>13. \A g \in Fiber : \/ FiberRight(g, pc'[g], call'[g], timers \cup expired, serial)
                            \/ call'[g] = call[g] /\ pc'[g] = pc[g]
                            \/ call'[g] = call[g] /\ pc[g] = "wait" /\ pc'[g] = "woken"
      BY <2>4, <2>6, <2>10
    <2>14. timers' \cup expired' \subseteq timers \cup expired /\ serial' = serial
      BY <1>1
    <2> QED BY <2>3, <2>7, <2>9, <2>11, <2>12, <2>13, <2>14, Resumed
  <1> QED BY <1>2, <1>3

\* A fiber makes a call: its number is new, so no timer is of it.
LEMMA CallsMove ==
  ASSUME Waits, TypeKernel', serial <= serial', NEW f \in Fiber, Call(f)
  PROVE  Waits'
  <1>0. /\ TypeWaits /\ serial \in Nat /\ serial' \in Nat
        /\ call \in [Fiber -> CallRec] /\ pc \in [Fiber -> PC]
    BY DEF Waits, TypeKernel, TypeWaits
  <1>1. NoCall \in CallRec /\ NoCall.cancelled = FALSE
    BY DEF NoCall, CallRec, Event, Bad
  <1>2. \A t \in timers \cup expired : t.n # serial + 1
    <2> SUFFICES ASSUME NEW t \in timers \cup expired PROVE t.n # serial + 1
      OBVIOUS
    <2>1. t.n \in Nat /\ t.n <= serial
      BY <1>0 DEF TypeWaits
    <2> QED BY <2>1, <1>0
  <1>3. serial + 1 \in Nat /\ 1 <= serial + 1
    BY <1>0
  <1>4. ASSUME NEW op \in {"recv", "send", "connect", "close"}, NEW s \in Sock, NEW event \in Event,
               NEW to \in {"enter", "connect", "socket", "close"}, Begin(f, op, s, event, to)
        PROVE  Waits'
    <2> DEFINE c == [NoCall EXCEPT !.op = op, !.s = s, !.event = event, !.n = serial + 1]
    <2>1. /\ pc[f] = "idle" /\ serial' = serial + 1 /\ call' = [call EXCEPT ![f] = c]
          /\ pc' = [pc EXCEPT ![f] = to] /\ UNCHANGED <<timers, expired, waiter>>
      BY <1>4 DEF Begin, At, Goto, timerVars
    <2>2. /\ c \in CallRec /\ c.n = serial + 1 /\ c.s = s /\ c.op = op /\ c.cancelled = FALSE
      BY <1>3, <1>4 DEF NoCall, CallRec, Bad
    <2> HIDE DEF c
    <2>3. to \in PC /\ to \notin {"idle", "wait", "sleep", "awake"} /\ to \notin WithFd
      BY <1>4 DEF PC, WithFd
    <2>4. \A t \in timers \cup expired : ~(t.f = f /\ t.n = c.n)
      BY <1>2, <2>2
    <2>5. pc[f] # "wait" /\ waiter' = waiter /\ c.s \in Sock /\ c.op # "sleep" /\ ~c.cancelled
          /\ c.n <= serial' /\ 1 <= c.n /\ timers' \cup expired' \subseteq timers \cup expired
      BY <2>1, <2>2, <1>3, <1>4
    <2> QED BY <2>1, <2>2, <2>3, <2>4, <2>5, CallMoves
  <1>5. CASE Sleep(f)
    <2> DEFINE c == [NoCall EXCEPT !.op = "sleep", !.n = serial + 1]
    <2>1. /\ pc[f] = "idle" /\ serial' = serial + 1 /\ call' = [call EXCEPT ![f] = c]
          /\ pc' = [pc EXCEPT ![f] = "sleep"] /\ UNCHANGED <<expired, waiter>>
          /\ timers' = timers \cup {[f |-> f, n |-> serial + 1]}
      BY <1>5 DEF Sleep, At, Goto
    <2>2. /\ c \in CallRec /\ c.n = serial + 1 /\ c.op = "sleep" /\ c.cancelled = FALSE
      BY <1>3 DEF NoCall, CallRec, Bad, Event
    <2> HIDE DEF c
    <2>3. "sleep" \in PC /\ "sleep" \notin WithFd /\ "sleep" \notin Unarmed /\ "sleep" # "wait"
      BY DEF PC, WithFd, Unarmed
    <2>4. c.n <= serial' /\ 1 <= c.n
      BY <2>1, <2>2, <1>0
    <2>5. FiberRight(f, "sleep", c, timers' \cup expired', serial')
      BY <2>2, <2>3, <2>4 DEF FiberRight
    <2>6. \A t \in timers' \cup expired' :
             t \in timers \cup expired \/ (t = [f |-> f, n |-> c.n] /\ 1 <= c.n)
      BY <2>1, <2>2, <2>4
    <2> QED BY <2>1, <2>2, <2>3, <2>5, <2>6, FiberMoves
  <1>6. ASSUME NEW s \in Sock, NEW e \in Event, CancelCall(f, s, e) PROVE Waits'
    <2>1. Cancel(sock[s].fd, {e}) /\ UNCHANGED <<timers, expired, call>>
      BY <1>6 DEF CancelCall, timerVars
    <2>2. sock[s].fd \in Fd \cup {Bad}
      BY DEF Waits, TypeKernel, SockRec
    <2>3. CASE sock[s].fd # Bad /\ file[sock[s].fd].open
      <3>1. Wake(sock[s].fd, {e}) /\ sock[s].fd \in Fd /\ {e} \in SUBSET Event
        BY <2>1, <2>2, <2>3 DEF Cancel
      <3> QED BY <3>1, <2>1, <1>0, WakeMoves
    <2>4. CASE ~(sock[s].fd # Bad /\ file[sock[s].fd].open)
      <3>1. UNCHANGED <<waiter, pc>>
        BY <2>1, <2>4 DEF Cancel
      <3> QED BY <3>1, <2>1, NobodyMoves
    <2> QED BY <2>3, <2>4
  <1>7. ASSUME NEW s \in Sock, NEW e \in Event, SetTimeout(f, s, e) PROVE Waits'
    BY <1>7, NobodyMoves DEF SetTimeout, timerVars
  <1>8. ASSUME NEW s \in Sock, NEW b \in BOOLEAN, SetFlags(f, s, b) \/ Ioctl(f, s, b) PROVE Waits'
    BY <1>8, NobodyMoves DEF SetFlags, Ioctl, timerVars
  <1>9. ASSUME NEW s \in Sock, Recv(f, s) \/ Send(f, s) \/ Connect(f, s) \/ Close(f, s) PROVE Waits'
    <2>1. \E op \in {"recv", "send", "connect", "close"}, event \in Event,
             to \in {"enter", "connect", "socket", "close"} : Begin(f, op, s, event, to)
      BY <1>9 DEF Recv, Send, Connect, Close, Event
    <2> QED BY <2>1, <1>4
  <1>10. Cancels \subseteq Event /\ FIONBIOArgs \subseteq BOOLEAN
    BY HookAssumption
  <1> QED BY <1>5, <1>6, <1>7, <1>8, <1>9, <1>10 DEF Call

\* Every step.
LEMMA WaitsNext == ASSUME Waits, SleepOnce, [Next]_vars PROVE Waits'
  <1>1. TypeKernel' /\ serial <= serial'
    BY KernelNext
  <1>2. CASE UNCHANGED vars
    BY <1>1, <1>2, NobodyMoves DEF vars
  <1>3. ASSUME NEW f \in Fiber, Step(f) PROVE Waits'
    BY <1>1, <1>3, TryMoves, AddMoves, OtherMoves, CloseMoves DEF Step
  <1>4. ASSUME NEW f \in Fiber, Call(f) PROVE Waits'
    BY <1>1, <1>4, CallsMove
  <1> QED BY <1>1, <1>2, <1>3, <1>4, EnvironmentMoves DEF Next

\* The timer of a sleep moves from the armed to the expired ones, and is a new one.
LEMMA SleepOnceNext == ASSUME Waits, SleepOnce, [Next]_vars PROVE SleepOnce'
  <1>0. /\ TypeWaits /\ WaitersTrue /\ serial \in Nat /\ call \in [Fiber -> CallRec] /\ pc \in [Fiber -> PC]
    BY DEF Waits, TypeKernel, TypeWaits
  <1>1. ASSUME timers' \cap expired' \subseteq timers \cap expired,
               \A g \in Fiber : pc'[g] = "sleep" => pc[g] = "sleep" /\ call'[g].n = call[g].n
        PROVE  SleepOnce'
    BY <1>1 DEF SleepOnce
  <1>2. ASSUME NEW f \in Fiber, Step(f) PROVE SleepOnce'
    <2>1. pc[f] \notin {"sleep", "wait"}
      BY <1>2, Zenon DEF Step, Enter, TryDirect, Try, Arm, AddEvent, Woken, NewSock, Get, Create, Made,
                  TryConnect, SoError, Connected, CloseCancel, Del, CloseFile, Closed, Awake, At
    <2>2. CASE Arm(f)
      <3>1. /\ UNCHANGED <<expired, call>> /\ pc' = [pc EXCEPT ![f] = "add"]
            /\ timers' \subseteq timers \cup {[f |-> f, n |-> call[f].n]}
        BY <2>2 DEF Arm, Goto
      <3>2. \A g \in Fiber : pc'[g] = "sleep" => pc[g] = "sleep" /\ g # f
        BY <3>1, <1>0
      <3> QED BY <3>1, <3>2 DEF SleepOnce
    <2>3. CASE CloseCancel(f)
      <3> DEFINE d == sock[call[f].s].fd
      <3>1. /\ UNCHANGED <<timers, expired>>
            /\ \A g \in Fiber : pc'[g] = pc[g] \/ pc'[g] \in {"idle", "woken", "del"}
        BY <2>3, <1>0 DEF CloseCancel, timerVars, Shut, Return, Goto
      <3>2. \A g \in Fiber : g # f => call'[g] = call[g]
        BY <2>3, <1>0 DEF CloseCancel, Shut, Return
      <3> QED BY <3>1, <3>2, <2>1, <1>1
    <2>4. CASE ~Arm(f) /\ ~CloseCancel(f)
      <3>1. /\ timers' \subseteq timers /\ expired' = expired
        BY <1>2, <2>4, Zenon DEF Step, Enter, TryDirect, Try, AddEvent, Woken, NewSock, Get, Create, Made,
                  TryConnect, SoError, Connected, Del, CloseFile, Closed, Awake, timerVars, Disarm
      <3>2. pc' = pc \/ \E to \in PC \ {"sleep"} : pc' = [pc EXCEPT ![f] = to]
        <4>1. CASE Enter(f) \/ TryDirect(f) \/ Try(f)
          BY <4>1 DEF Enter, TryDirect, Try, SystemCall, Goto, Return, PC
        <4>2. CASE AddEvent(f) \/ Woken(f)
          BY <4>2 DEF AddEvent, Woken, Resume, Goto, Return, PC
        <4>3. CASE NewSock(f) \/ Get(f) \/ Create(f) \/ Made(f)
          BY <4>3, Zenon DEF NewSock, Get, Create, Made, Goto, Return, PC
        <4>4. CASE TryConnect(f)
          BY <4>4, Zenon DEF TryConnect, Goto, PC
        <4>5. CASE SoError(f) \/ Connected(f) \/ Del(f) \/ CloseFile(f) \/ Closed(f) \/ Awake(f)
          BY <4>5 DEF SoError, Connected, Del, CloseFile, Closed, Awake, Goto, Return, PC
        <4> QED BY <1>2, <2>4, <4>1, <4>2, <4>3, <4>4, <4>5 DEF Step
      <3>3. \A g \in Fiber : g # f => call'[g] = call[g]
        <4>1. call' = call \/ \E c : call' = [call EXCEPT ![f] = c]
          <5>1. CASE Enter(f)
            BY <5>1 DEF Enter
          <5>2. CASE TryDirect(f) \/ Try(f) \/ AddEvent(f) \/ Woken(f)
            BY <5>2 DEF TryDirect, Try, SystemCall, AddEvent, Woken, Resume, Return
          <5>3. CASE NewSock(f) \/ Get(f) \/ Create(f) \/ Made(f)
            BY <5>3, Zenon DEF NewSock, Get, Create, Made, Return
          <5>4. CASE TryConnect(f)
            BY <5>4, Zenon DEF TryConnect
          <5>5. CASE SoError(f) \/ Connected(f) \/ Del(f) \/ CloseFile(f) \/ Closed(f) \/ Awake(f)
            BY <5>5 DEF SoError, Connected, Del, CloseFile, Closed, Awake, Return
          <5> QED BY <1>2, <2>4, <5>1, <5>2, <5>3, <5>4, <5>5 DEF Step
        <4> QED BY <4>1, <1>0
      <3>4. \A g \in Fiber : pc'[g] = "sleep" => pc[g] = "sleep" /\ g # f
        BY <3>2, <2>1, <1>0
      <3> QED BY <3>1, <3>3, <3>4, <1>1
    <2> QED BY <2>2, <2>3, <2>4
  <1>3. ASSUME NEW f \in Fiber, Call(f) PROVE SleepOnce'
    <2>1. CASE Sleep(f)
      <3>1. /\ timers' = timers \cup {[f |-> f, n |-> serial + 1]} /\ UNCHANGED expired
            /\ call' = [call EXCEPT ![f] = [NoCall EXCEPT !.op = "sleep", !.n = serial + 1]]
            /\ pc' = [pc EXCEPT ![f] = "sleep"] /\ pc[f] = "idle"
        BY <2>1 DEF Sleep, Goto, At
      <3>2. call'[f].n = serial + 1 /\ \A g \in Fiber : g # f => call'[g] = call[g] /\ pc'[g] = pc[g]
        BY <3>1, <1>0 DEF NoCall
      <3>3. [f |-> f, n |-> serial + 1] \notin expired
        <4>1. \A t \in expired : t.n \in Nat /\ t.n <= serial
          BY <1>0 DEF TypeWaits
        <4> QED BY <4>1, <1>0
      <3> QED BY <3>1, <3>2, <3>3 DEF SleepOnce
    <2>2. CASE \E s \in Sock : Recv(f, s) \/ Send(f, s) \/ Connect(f, s) \/ Close(f, s)
      <3>1. UNCHANGED <<timers, expired>>
            /\ \E to \in {"enter", "connect", "socket", "close"} : pc' = [pc EXCEPT ![f] = to]
        BY <2>2 DEF Recv, Send, Connect, Close, Begin, timerVars, Goto
      <3>2. \E c : call' = [call EXCEPT ![f] = c]
        BY <2>2 DEF Recv, Send, Connect, Close, Begin
      <3>3. \A g \in Fiber : pc'[g] = "sleep" => pc[g] = "sleep" /\ g # f
        BY <3>1, <1>0
      <3> QED BY <3>1, <3>2, <3>3, <1>0, <1>1
    <2>3. ASSUME NEW s \in Sock, NEW e \in Cancels, CancelCall(f, s, e) PROVE SleepOnce'
      <3>1. /\ UNCHANGED <<timers, expired, call>>
            /\ \A g \in Fiber : pc'[g] = pc[g] \/ pc'[g] = "woken"
        BY <2>3, <1>0 DEF CancelCall, Cancel, Wake, timerVars
      <3> QED BY <3>1, <1>1
    <2>4. ASSUME NEW s \in Sock, \/ \E e \in Event : SetTimeout(f, s, e)
                                 \/ \E b : SetFlags(f, s, b) \/ Ioctl(f, s, b)
          PROVE  SleepOnce'
      BY <2>4 DEF SetTimeout, SetFlags, Ioctl, timerVars, SleepOnce
    <2> QED BY <1>3, <2>1, <2>2, <2>3, <2>4 DEF Call
  <1>4. ASSUME NEW t \in timers, Expire(t) PROVE SleepOnce'
    BY <1>4 DEF Expire, SleepOnce
  <1>5. ASSUME NEW t \in expired, Timeout(t) PROVE SleepOnce'
    <2>1. /\ timers' = timers /\ expired' \subseteq expired
      BY <1>5 DEF Timeout, Callback
    <2>2. t.f \in Fiber
      BY <1>0 DEF TypeWaits
    <2>3. \A g \in Fiber : pc'[g] = "sleep" => pc[g] = "sleep"
      BY <1>5, <1>0, <2>2 DEF Timeout, Callback, Cancel, Wake
    <2>4. \A g \in Fiber : call'[g].n = call[g].n
      BY <1>5, <1>0, <2>2 DEF Timeout, Callback, CallRec
    <2> QED BY <2>1, <2>3, <2>4, <1>1
  <1>6. ASSUME NEW d \in Fd, Arrive(d) \/ \E e \in Event : Deliver(d, e) PROVE SleepOnce'
    <2>1. /\ UNCHANGED <<timers, expired, call>>
          /\ \A g \in Fiber : pc'[g] = pc[g] \/ pc'[g] = "woken"
      BY <1>6, <1>0 DEF Arrive, Deliver, Wake, timerVars
    <2> QED BY <2>1, <1>1
  <1>7. CASE UNCHANGED vars
    BY <1>7 DEF vars, SleepOnce
  <1> QED BY <1>2, <1>3, <1>4, <1>5, <1>6, <1>7 DEF Next

\* A fiber that waits is registered exactly where it waits and is resumed once, and a call
\* ends with ETIMEDOUT only if its own socket and direction have a time-out: for any
\* fibers on one or many threads, descriptors given out again, and events cancelled.
THEOREM WaitsAreOwn == Spec => []WaitsOwn
  <1>1. Init => SleepOnce
    BY DEF Init, SleepOnce
  <1>2. Waits => WaitsOwn
    BY DEF Waits, Fibers, FiberRight, WaitsOwn, TimeoutsOwn
  <1> QED BY <1>1, <1>2, WaitsInit, WaitsNext, SleepOnceNext, PTL DEF Spec

------------------------------------------------------------------------------
(* The contexts and the files they were made for *)

\* Where a call is about to make, name or give up the file of its descriptor.
Naming == {"get", "create", "made", "del", "close_f", "closed"}

\* The context goes before the file.
ContextGone == \A f \in Fiber : pc[f] = "close_f" => ~table[call[f].fd].present

\* A context is made for an open file that no Socket has yet, and by one fiber only.
MadeAlone ==
    \A f \in Fiber : pc[f] \in {"get", "create"} =>
        /\ file[call[f].fd].open
        /\ \A s \in Sock : sock[s].fd # call[f].fd
        /\ \A g \in Fiber : g # f /\ pc[g] \in Naming => call[g].fd # call[f].fd

\* A descriptor that a Socket or a call has was given out: without Reuse it never comes
\* back for another file.
GivenOut ==
    /\ \A s \in Sock : sock[s].fd # Bad => file[sock[s].fd].gen # 0
    /\ \A f \in Fiber : pc[f] \in Naming => file[call[f].fd].gen # 0

\* With one thread: a fiber keeps it while it makes or closes a file, so at any other
\* time, and but for the last step of a close, a Socket's descriptor is open and its own.
OneThread ==
    /\ \A f \in Fiber : pc[f] \in Naming => running = f
    /\ \A s, r \in Sock : sock[s].fd = sock[r].fd /\ sock[s].fd # Bad => s = r
    /\ \A s \in Sock : sock[s].fd # Bad =>
          file[sock[s].fd].open \/ \E f \in Fiber : pc[f] = "closed" /\ call[f].s = s
    /\ \A f \in Fiber : pc[f] \in {"del", "close_f", "closed"} => sock[call[f].s].fd = call[f].fd
    /\ \A f \in Fiber : pc[f] \in {"get", "create", "made"} =>
          file[call[f].fd].open /\ \A s \in Sock : sock[s].fd # call[f].fd

Contexts ==
    /\ FALSE \notin FIONBIOArgs => ContextsTrue
    /\ ContextGone /\ MadeAlone
    /\ ~Reuse => GivenOut
    /\ ~Parallel => OneThread

\* A step that opens and closes no file, makes and forgets no context, gives no Socket
\* another descriptor, and brings no fiber to a place in Naming.
Quiet ==
    /\ \A d \in Fd : /\ file'[d].open = file[d].open /\ file'[d].gen = file[d].gen
                     /\ table'[d].present = table[d].present /\ table'[d].gen = table[d].gen
    /\ \A s \in Sock : sock'[s].fd = sock[s].fd
    /\ \A f \in Fiber : pc'[f] \in Naming =>
          /\ pc'[f] = pc[f] \/ (pc[f] = "get" /\ pc'[f] \in {"create", "made"})
          /\ call'[f].fd = call[f].fd /\ call'[f].s = call[f].s
          /\ ~Parallel /\ running = f => running' = f
    /\ \A f \in Fiber : pc[f] = "closed" => pc'[f] = "closed" /\ call'[f].s = call[f].s

\* Only ioctl makes a file blocking.
Unblocked == FALSE \notin FIONBIOArgs => \A d \in Fd : file[d].nonblock => file'[d].nonblock

\* Such a step keeps what Contexts says.
LEMMA QuietKeeps == ASSUME Waits, Contexts, Quiet, Unblocked PROVE Contexts'
  <1>0. /\ \A s \in Sock : sock[s].fd \in Fd \cup {Bad}
        /\ \A f \in Fiber : pc[f] \in Naming => call[f].fd \in Fd /\ call[f].s \in Sock
    <2>1. \A s \in Sock : sock[s].fd \in Fd \cup {Bad}
      BY DEF Waits, TypeKernel, SockRec
    <2>2. ASSUME NEW f \in Fiber, pc[f] \in Naming PROVE call[f].fd \in Fd /\ call[f].s \in Sock
      BY <2>2 DEF Waits, Fibers, FiberRight, Naming, WithFd
    <2> QED BY <2>1, <2>2
  <1>1. \A f \in Fiber : pc'[f] \in Naming => pc[f] \in Naming
    BY DEF Quiet, Naming
  <1>2. FALSE \notin FIONBIOArgs => ContextsTrue'
    BY DEF Contexts, ContextsTrue, Quiet, Unblocked
  <1>3. ContextGone'
    <2> SUFFICES ASSUME NEW f \in Fiber, pc'[f] = "close_f" PROVE ~table'[call'[f].fd].present
      BY DEF ContextGone
    <2>1. pc[f] = "close_f" /\ call'[f].fd = call[f].fd /\ call[f].fd \in Fd
      BY <1>0 DEF Quiet, Naming
    <2> QED BY <2>1 DEF Contexts, ContextGone, Quiet
  <1>4. MadeAlone'
    <2> SUFFICES ASSUME NEW f \in Fiber, pc'[f] \in {"get", "create"}
                 PROVE  /\ file'[call'[f].fd].open
                        /\ \A s \in Sock : sock'[s].fd # call'[f].fd
                        /\ \A g \in Fiber : g # f /\ pc'[g] \in Naming => call'[g].fd # call'[f].fd
      BY DEF MadeAlone
    <2>1. pc[f] \in {"get", "create"} /\ call'[f].fd = call[f].fd /\ call[f].fd \in Fd
      BY <1>0 DEF Quiet, Naming
    <2>2. \A g \in Fiber : pc'[g] \in Naming => pc[g] \in Naming /\ call'[g].fd = call[g].fd
      BY <1>1 DEF Quiet
    <2> QED BY <2>1, <2>2 DEF Contexts, MadeAlone, Quiet
  <1>5. ~Reuse => GivenOut'
    BY <1>0, <1>1 DEF Contexts, GivenOut, Quiet
  <1>6. ~Parallel => OneThread'
    <2> SUFFICES ASSUME ~Parallel, OneThread PROVE OneThread'
      BY DEF Contexts
    <2>1. \A f \in Fiber : pc'[f] \in Naming => running' = f
      BY <1>1 DEF OneThread, Quiet
    <2>2. \A s, r \in Sock : sock'[s].fd = sock'[r].fd /\ sock'[s].fd # Bad => s = r
      BY DEF OneThread, Quiet
    <2>3. ASSUME NEW s \in Sock, sock'[s].fd # Bad
          PROVE  file'[sock'[s].fd].open \/ \E f \in Fiber : pc'[f] = "closed" /\ call'[f].s = s
      <3>1. sock'[s].fd = sock[s].fd /\ sock[s].fd \in Fd
        BY <2>3, <1>0 DEF Quiet
      <3>2. file[sock[s].fd].open \/ \E f \in Fiber : pc[f] = "closed" /\ call[f].s = s
        BY <2>3, <3>1 DEF OneThread
      <3> QED BY <3>1, <3>2 DEF Quiet
    <2>4. ASSUME NEW f \in Fiber, pc'[f] \in {"del", "close_f", "closed"}
          PROVE  sock'[call'[f].s].fd = call'[f].fd
      <3>1. pc[f] \in {"del", "close_f", "closed"} /\ call'[f].fd = call[f].fd /\ call'[f].s = call[f].s
            /\ call[f].s \in Sock
        BY <2>4, <1>0 DEF Quiet, Naming
      <3> QED BY <3>1 DEF OneThread, Quiet
    <2>5. ASSUME NEW f \in Fiber, pc'[f] \in {"get", "create", "made"}
          PROVE  file'[call'[f].fd].open /\ \A s \in Sock : sock'[s].fd # call'[f].fd
      <3>1. pc[f] \in {"get", "create", "made"} /\ call'[f].fd = call[f].fd /\ call[f].fd \in Fd
        BY <2>5, <1>0 DEF Quiet, Naming
      <3> QED BY <3>1 DEF OneThread, Quiet
    <2> QED BY <2>1, <2>2, <2>3, <2>4, <2>5 DEF OneThread
  <1> QED BY <1>2, <1>3, <1>4, <1>5, <1>6 DEF Contexts

\* A fiber's own step to a place outside of Naming.
LEMMA QuietMove ==
  ASSUME Waits, NEW f \in Fiber, Turn(f), pc[f] # "closed",
         pc' = pc \/ (\E to \in PC \ Naming : pc' = [pc EXCEPT ![f] = to]),
         call' = call \/ (\E c : call' = [call EXCEPT ![f] = c]),
         pc' = pc => call' = call /\ running' = running,
         table' = table, \A s \in Sock : sock'[s].fd = sock[s].fd,
         \A d \in Fd : /\ file'[d].open = file[d].open /\ file'[d].gen = file[d].gen
                       /\ file'[d].nonblock = file[d].nonblock
  PROVE  Quiet /\ Unblocked
  <1>1. pc \in [Fiber -> PC] /\ call \in [Fiber -> CallRec]
    BY DEF Waits, TypeWaits
  <1>2. \A g \in Fiber : g # f => pc'[g] = pc[g] /\ call'[g] = call[g]
    BY <1>1
  <1>3. ~Parallel => \A g \in Fiber : g # f => running # g
    BY HookAssumption DEF Turn
  <1>4. ASSUME NEW g \in Fiber, pc'[g] \in Naming
        PROVE  /\ pc'[g] = pc[g] /\ call'[g] = call[g]
               /\ ~Parallel /\ running = g => running' = g
    <2>1. CASE pc' = pc
      BY <2>1
    <2>2. CASE \E to \in PC \ Naming : pc' = [pc EXCEPT ![f] = to]
      <3>1. g # f
        BY <2>2, <1>1, <1>4
      <3> QED BY <3>1, <1>2, <1>3
    <2> QED BY <2>1, <2>2
  <1>5. \A g \in Fiber : pc[g] = "closed" => pc'[g] = "closed" /\ call'[g] = call[g]
    BY <1>2
  <1> QED BY <1>4, <1>5 DEF Quiet, Unblocked

\* The steps of do_io and connect_with_timeout.
LEMMA TriesQuiet ==
  ASSUME Waits, NEW f \in Fiber,
         \/ Enter(f) \/ TryDirect(f) \/ Try(f) \/ Arm(f) \/ AddEvent(f) \/ Woken(f)
         \/ TryConnect(f) \/ SoError(f) \/ Connected(f) \/ Awake(f)
  PROVE  Quiet /\ Unblocked
  <1>0. /\ file \in [Fd -> FileRec] /\ sock \in [Sock -> SockRec]
        /\ pc \in [Fiber -> PC] /\ call \in [Fiber -> CallRec]
    BY DEF Waits, TypeKernel, TypeWaits
  <1>1. Turn(f) /\ pc[f] # "closed"
    <2>1. CASE Enter(f) \/ TryDirect(f) \/ Try(f) \/ Arm(f)
      BY <2>1, Zenon DEF Enter, TryDirect, Try, Arm, At
    <2>2. CASE AddEvent(f) \/ Woken(f) \/ TryConnect(f)
      BY <2>2, Zenon DEF AddEvent, Woken, TryConnect, At
    <2>3. CASE SoError(f) \/ Connected(f) \/ Awake(f)
      BY <2>3 DEF SoError, Connected, Awake, At
    <2> QED BY <2>1, <2>2, <2>3
  <1>2. pc' = pc \/ (\E to \in PC \ Naming : pc' = [pc EXCEPT ![f] = to])
    <2>1. CASE Enter(f) \/ TryDirect(f) \/ Try(f) \/ Arm(f)
      BY <2>1, Zenon DEF Enter, TryDirect, Try, Arm, SystemCall, Goto, Return, PC, Naming
    <2>2. CASE AddEvent(f) \/ Woken(f)
      BY <2>2 DEF AddEvent, Woken, Resume, Goto, Return, PC, Naming
    <2>3. CASE TryConnect(f)
      BY <2>3, Zenon DEF TryConnect, Goto, PC, Naming
    <2>4. CASE SoError(f) \/ Connected(f) \/ Awake(f)
      BY <2>4, SMTT(30) DEF SoError, Connected, Awake, Goto, Return, PC, Naming
    <2> QED BY <2>1, <2>2, <2>3, <2>4
  <1>3. call' = call \/ (\E c : call' = [call EXCEPT ![f] = c])
    <2>1. CASE Enter(f)
      BY <2>1 DEF Enter
    <2>2. CASE TryDirect(f) \/ Try(f) \/ Arm(f)
      BY <2>2 DEF TryDirect, Try, Arm, SystemCall, Return
    <2>3. CASE AddEvent(f) \/ Woken(f)
      BY <2>3 DEF AddEvent, Woken, Resume, Return
    <2>4. CASE TryConnect(f)
      BY <2>4, Zenon DEF TryConnect
    <2>5. CASE SoError(f) \/ Connected(f) \/ Awake(f)
      BY <2>5 DEF SoError, Connected, Awake, Return
    <2> QED BY <2>1, <2>2, <2>3, <2>4, <2>5
  <1>4. pc' = pc => call' = call /\ running' = running
    <2> SUFFICES ASSUME pc' = pc PROVE call' = call /\ running' = running
      OBVIOUS
    <2>1. \A to \in PC : pc' = [pc EXCEPT ![f] = to] => pc[f] = to
      BY <1>0, SMTT(30)
    <2>2. CASE Enter(f)
      BY <2>1, <2>2 DEF Enter, Goto, At, PC
    <2>3. CASE TryDirect(f) \/ Try(f) \/ Arm(f)
      BY <2>1, <2>3 DEF TryDirect, Try, Arm, SystemCall, Return, Goto, At, PC
    <2>4. CASE AddEvent(f)
      BY <2>1, <2>4 DEF AddEvent, Return, Goto, At, PC
    <2>5. CASE Woken(f)
      BY <2>1, <2>5 DEF Woken, Resume, Return, Goto, At, PC
    <2>6. CASE TryConnect(f)
      BY <2>1, <2>6, Zenon DEF TryConnect, Goto, At, PC
    <2>7. CASE SoError(f) \/ Connected(f) \/ Awake(f)
      BY <2>1, <2>7 DEF SoError, Connected, Awake, Return, Goto, At, PC
    <2> QED BY <2>2, <2>3, <2>4, <2>5, <2>6, <2>7
  <1>5. table' = table
    <2>1. CASE Enter(f) \/ TryDirect(f) \/ Try(f) \/ Arm(f)
      BY <2>1, Zenon DEF Enter, TryDirect, Try, Arm, tableVars
    <2>2. CASE AddEvent(f) \/ Woken(f) \/ TryConnect(f)
      BY <2>2, Zenon DEF AddEvent, Woken, TryConnect, tableVars
    <2>3. CASE SoError(f) \/ Connected(f) \/ Awake(f)
      BY <2>3 DEF SoError, Connected, Awake, tableVars
    <2> QED BY <2>1, <2>2, <2>3
  <1>6. \A s \in Sock : sock'[s].fd = sock[s].fd
    <2>1. CASE Connected(f)
      BY <2>1, <1>0 DEF Connected, SockRec
    <2>2. CASE Enter(f) \/ TryDirect(f) \/ Try(f) \/ Arm(f)
      BY <2>2, Zenon DEF Enter, TryDirect, Try, Arm, tableVars
    <2>3. CASE AddEvent(f) \/ Woken(f) \/ TryConnect(f)
      BY <2>3, Zenon DEF AddEvent, Woken, TryConnect, tableVars
    <2>4. CASE SoError(f) \/ Awake(f)
      BY <2>4 DEF SoError, Awake, tableVars
    <2> QED BY <2>1, <2>2, <2>3, <2>4
  <1>7. \A d \in Fd : /\ file'[d].open = file[d].open /\ file'[d].gen = file[d].gen
                      /\ file'[d].nonblock = file[d].nonblock
    <2>1. CASE TryDirect(f) \/ Try(f)
      BY <2>1, <1>0 DEF TryDirect, Try, SystemCall, Consume, FileRec
    <2>2. CASE TryConnect(f)
      <3>0. sock[call[f].s].fd \in Fd \cup {Bad}
        <4>1. pc[f] = "connect"
          BY <2>2, Zenon DEF TryConnect, At
        <4>2. call[f].s \in Sock
          BY <4>1 DEF Waits, Fibers, FiberRight
        <4> QED BY <4>2, <1>0 DEF SockRec
      <3>1. file' = file \/ \E d, link, ready :
               file' = [file EXCEPT ![d].link = link, ![d].ready = ready]
        BY <2>2, <3>0, TryConnectLinks
      <3>2. ASSUME NEW d, NEW link, NEW ready,
                   file' = [file EXCEPT ![d].link = link, ![d].ready = ready], NEW x \in Fd
            PROVE  /\ file'[x].open = file[x].open /\ file'[x].gen = file[x].gen
                   /\ file'[x].nonblock = file[x].nonblock
        BY <3>2, <1>0 DEF FileRec
      <3> QED BY <3>1, <3>2
    <2>3. CASE ~TryDirect(f) /\ ~Try(f) /\ ~TryConnect(f)
      <3>1. file' = file
        BY <2>3 DEF Enter, Arm, AddEvent, Woken, SoError, Connected, Awake, kernelVars
      <3> QED BY <3>1
    <2> QED BY <2>1, <2>2, <2>3
  <1> QED BY <1>1, <1>2, <1>3, <1>4, <1>5, <1>6, <1>7, QuietMove

\* Whoever is resumed was waiting.
LEMMA WokenWaited ==
  ASSUME Waits, NEW d \in Fd, NEW events \in SUBSET Event
  PROVE  \A g \in Fiber : g \in Waiting(d, events) => pc[g] = "wait"
  BY DEF Waits, WaitersTrue, Waiting

\* Beginning a call, and the calls that do not block.
LEMMA CallsQuiet ==
  ASSUME Waits, NEW f \in Fiber, Call(f) PROVE Quiet /\ Unblocked
  <1>0. /\ file \in [Fd -> FileRec] /\ table \in [Fd -> CtxRec]
        /\ pc \in [Fiber -> PC] /\ call \in [Fiber -> CallRec]
        /\ \A s \in Sock : isValid(s) => sock[s].fd \in Fd
    <2>1. \A s \in Sock : sock[s].fd \in Fd \cup {Bad}
      BY DEF Waits, TypeKernel, SockRec
    <2> QED BY <2>1 DEF Waits, TypeKernel, TypeWaits, isValid
  <1>1. CASE Sleep(f) \/ \E s \in Sock : Recv(f, s) \/ Send(f, s) \/ Connect(f, s) \/ Close(f, s)
    <2>1. /\ Turn(f) /\ table' = table /\ sock' = sock /\ file' = file /\ pc[f] = "idle"
          /\ \E c : call' = [call EXCEPT ![f] = c]
      BY <1>1, Zenon DEF Sleep, Recv, Send, Connect, Close, Begin, At, tableVars, kernelVars
    <2>2. \E to \in PC \ (Naming \cup {"idle"}) : pc' = [pc EXCEPT ![f] = to]
      BY <1>1, Zenon DEF Sleep, Recv, Send, Connect, Close, Begin, Goto, PC, Naming
    <2>3. pc' # pc
      BY <2>1, <2>2, <1>0
    <2>4. pc' = pc \/ \E to \in PC \ Naming : pc' = [pc EXCEPT ![f] = to]
      BY <2>2
    <2> QED BY <2>1, <2>3, <2>4, QuietMove
  <1>2. ASSUME NEW s \in Sock, NEW e \in Cancels, CancelCall(f, s, e) PROVE Quiet /\ Unblocked
    <2>1. /\ UNCHANGED <<file, table, sock, call, running>> /\ sock[s].fd \in Fd
          /\ \A g \in Fiber : \/ pc'[g] = pc[g]
                              \/ pc'[g] = "woken" /\ g \in Waiting(sock[s].fd, {e})
      <3>1. /\ UNCHANGED <<file, table, sock, call, running>> /\ sock[s].fd \in Fd
        BY <1>2, <1>0 DEF CancelCall, tableVars, kernelVars
      <3>2. pc' = pc \/ Wake(sock[s].fd, {e})
        BY <1>2 DEF CancelCall, Cancel
      <3>3. ASSUME NEW g \in Fiber
            PROVE  pc'[g] = pc[g] \/ (pc'[g] = "woken" /\ g \in Waiting(sock[s].fd, {e}))
        BY <3>2, Zenon DEF Wake
      <3> QED BY <3>1, <3>3
    <2>2. {e} \in SUBSET Event
      BY HookAssumption
    <2>3. \A g \in Fiber : pc'[g] = pc[g] \/ (pc'[g] = "woken" /\ pc[g] = "wait")
      BY <2>1, <2>2, WokenWaited
    <2> QED BY <2>1, <2>3 DEF Quiet, Unblocked, Naming
  <1>3. ASSUME NEW s \in Sock, NEW e \in Event, SetTimeout(f, s, e) PROVE Quiet /\ Unblocked
    <2>1. UNCHANGED <<file, sock, pc, call, running>>
      BY <1>3 DEF SetTimeout, kernelVars
    <2>2. \A d \in Fd : table'[d].present = table[d].present /\ table'[d].gen = table[d].gen
      BY <1>3, <1>0 DEF SetTimeout, setsockopt, CtxRec
    <2> QED BY <2>1, <2>2 DEF Quiet, Unblocked
  <1>4. ASSUME NEW s \in Sock, NEW b \in BOOLEAN, SetFlags(f, s, b) PROVE Quiet /\ Unblocked
    <2>1. UNCHANGED <<file, sock, pc, call, running>>
      BY <1>4 DEF SetFlags, kernelVars
    <2>2. \A d \in Fd : table'[d].present = table[d].present /\ table'[d].gen = table[d].gen
      BY <1>4, <1>0 DEF SetFlags, CtxRec
    <2> QED BY <2>1, <2>2 DEF Quiet, Unblocked
  <1>5. ASSUME NEW s \in Sock, NEW b \in FIONBIOArgs, Ioctl(f, s, b) PROVE Quiet /\ Unblocked
    <2>0. FALSE \notin FIONBIOArgs => b = TRUE
      BY HookAssumption
    <2>1. UNCHANGED <<sock, pc, call, running>> /\ sock[s].fd \in Fd
      BY <1>5, <1>0 DEF Ioctl
    <2>2. \A d \in Fd : table'[d].present = table[d].present /\ table'[d].gen = table[d].gen
      BY <1>5, <1>0 DEF Ioctl, CtxRec
    <2>3. file' = [file EXCEPT ![sock[s].fd].nonblock = b]
      BY <1>5 DEF Ioctl
    <2>4. \A d \in Fd : file'[d].open = file[d].open /\ file'[d].gen = file[d].gen
      BY <2>1, <2>3, <1>0 DEF FileRec
    <2>5. \A d \in Fd : file'[d].nonblock = b \/ file'[d].nonblock = file[d].nonblock
      BY <2>1, <2>3, <1>0 DEF FileRec
    <2> QED BY <2>0, <2>1, <2>2, <2>4, <2>5 DEF Quiet, Unblocked
  <1> QED BY <1>1, <1>2, <1>3, <1>4, <1>5 DEF Call

\* Timers, epoll and the peers.
LEMMA EnvironmentQuiet ==
  ASSUME Waits,
         \/ \E t \in timers : Expire(t)
         \/ \E t \in expired : Timeout(t)
         \/ \E d \in Fd : Arrive(d) \/ \E e \in Event : Deliver(d, e)
         \/ UNCHANGED vars
  PROVE  Quiet /\ Unblocked
  <1>0. /\ file \in [Fd -> FileRec] /\ pc \in [Fiber -> PC] /\ call \in [Fiber -> CallRec]
    BY DEF Waits, TypeKernel, TypeWaits
  <1>1. ASSUME NEW t \in timers, Expire(t) PROVE Quiet /\ Unblocked
    BY <1>1 DEF Expire, Quiet, Unblocked, kernelVars, tableVars
  <1>2. ASSUME NEW t \in expired, Timeout(t) PROVE Quiet /\ Unblocked
    <2>1. UNCHANGED <<file, table, sock, running>> /\ t.f \in Fiber
      BY <1>2 DEF Timeout, Callback, kernelVars, tableVars, Waits, TypeWaits
    <2>2. \A g \in Fiber : pc'[g] = pc[g] \/ (pc'[g] \in {"woken", "awake"} /\ pc[g] \in {"wait", "sleep"})
      <3>1. CASE pc[t.f] = "sleep" /\ Lives(t)
        BY <3>1, <1>2, <1>0, <2>1 DEF Timeout, Callback
      <3>2. CASE ~(pc[t.f] = "sleep" /\ Lives(t))
        <4> DEFINE d == call[t.f].fd
                   e == call[t.f].event
        <4>1. pc' = pc \/ (d # Bad /\ Wake(d, {e}))
          BY <3>2, <1>2 DEF Timeout, Callback, Cancel
        <4>2. d \in Fd \cup {Bad} /\ {e} \in SUBSET Event
          BY <1>0, <2>1 DEF CallRec
        <4> QED BY <4>1, <4>2, <1>0, WokenWaited DEF Wake
      <3> QED BY <3>1, <3>2
    <2>3. \A g \in Fiber : call'[g].fd = call[g].fd /\ call'[g].s = call[g].s
      BY <1>2, <1>0, <2>1 DEF Timeout, Callback, CallRec
    <2> QED BY <2>1, <2>2, <2>3 DEF Quiet, Unblocked, Naming
  <1>3. ASSUME NEW d \in Fd, Arrive(d) PROVE Quiet /\ Unblocked
    <2>1. UNCHANGED <<table, sock, pc, call, running>>
      BY <1>3 DEF Arrive, tableVars
    <2>2. \A x \in Fd : /\ file'[x].open = file[x].open /\ file'[x].gen = file[x].gen
                        /\ file'[x].nonblock = file[x].nonblock
      BY <1>3, <1>0 DEF Arrive, FileRec
    <2> QED BY <2>1, <2>2 DEF Quiet, Unblocked
  <1>4. ASSUME NEW d \in Fd, NEW e \in Event, Deliver(d, e) PROVE Quiet /\ Unblocked
    <2>1. /\ UNCHANGED <<file, table, sock, call, running>>
          /\ \A g \in Fiber : pc'[g] = pc[g] \/ (pc'[g] = "woken" /\ g \in Waiting(d, {e}))
      BY <1>4, <1>0 DEF Deliver, Wake, tableVars, kernelVars
    <2>2. \A g \in Fiber : pc'[g] = pc[g] \/ (pc'[g] = "woken" /\ pc[g] = "wait")
      BY <2>1, WokenWaited
    <2> QED BY <2>1, <2>2 DEF Quiet, Unblocked, Naming
  <1>5. CASE UNCHANGED vars
    BY <1>5 DEF vars, Quiet, Unblocked
  <1> QED BY <1>1, <1>2, <1>3, <1>4, <1>5

\* What a descriptor that a step uses may be.
LEMMA Named ==
  ASSUME Waits
  PROVE  /\ \A s \in Sock : sock[s].fd \in Fd \cup {Bad}
         /\ \A f \in Fiber : pc[f] \in Naming => call[f].fd \in Fd /\ call[f].s \in Sock
         /\ Bad \notin Fd
  <1>1. \A s \in Sock : sock[s].fd \in Fd \cup {Bad}
    BY DEF Waits, TypeKernel, SockRec
  <1>2. ASSUME NEW f \in Fiber, pc[f] \in Naming PROVE call[f].fd \in Fd /\ call[f].s \in Sock
    BY <1>2 DEF Waits, Fibers, FiberRight, Naming, WithFd
  <1>3. Bad \notin Fd
    BY HookAssumption DEF Bad
  <1> QED BY <1>1, <1>2, <1>3

\* With one thread nobody else is at such a place when a fiber takes a step.
LEMMA Alone ==
  ASSUME OneThread, ~Parallel, NEW f \in Fiber, Turn(f)
  PROVE  \A g \in Fiber : g # f => pc[g] \notin Naming
  BY HookAssumption DEF OneThread, Turn

\* The kernel gives out a descriptor that no Socket has and no call makes or closes: with
\* Reuse because a thread of its own brings every close to its end.
LEMMA NewSockKeeps ==
  ASSUME Waits, Contexts, ~Reuse \/ ~Parallel, NEW f \in Fiber, NewSock(f)
  PROVE  Contexts'
  <1>0. /\ file \in [Fd -> FileRec] /\ sock \in [Sock -> SockRec] /\ Turn(f)
        /\ pc \in [Fiber -> PC] /\ call \in [Fiber -> CallRec] /\ pc[f] = "socket"
        /\ table' = table /\ sock' = sock
    BY Zenon DEF Waits, TypeKernel, TypeWaits, NewSock, At, tableVars
  <1>1. CASE Return(f) /\ UNCHANGED file
    <2>1. /\ pc' = [pc EXCEPT ![f] = "idle"] /\ call' = [call EXCEPT ![f] = NoCall] /\ file' = file
      BY <1>1 DEF Return, Goto
    <2>2. pc' # pc /\ "idle" \in PC \ Naming
      BY <2>1, <1>0 DEF PC, Naming
    <2>3. Quiet /\ Unblocked
      BY <1>0, <2>1, <2>2, QuietMove
    <2> QED BY <2>3, QuietKeeps
  <1>2. ASSUME NEW d \in Fd, ~file[d].open, file[d].gen = 0 \/ Reuse,
               file' = [file EXCEPT ![d] = [NoFile EXCEPT !.open = TRUE, !.gen = file[d].gen + 1]],
               call' = [call EXCEPT ![f].fd = d], Goto(f, "get")
        PROVE  Contexts'
    <2>1. /\ file'[d].open /\ file'[d].gen # 0
          /\ \A x \in Fd : x # d => file'[x] = file[x]
      BY <1>0, <1>2 DEF NoFile, FileRec
    <2>2. /\ pc'[f] = "get" /\ call'[f].fd = d
          /\ \A g \in Fiber : g # f => pc'[g] = pc[g] /\ call'[g] = call[g]
      BY <1>0, <1>2 DEF Goto, CallRec
    <2>3. /\ \A s \in Sock : sock[s].fd # d
          /\ \A g \in Fiber : g # f /\ pc[g] \in Naming => call[g].fd # d
      <3>1. CASE ~Reuse
        BY <3>1, <1>2, Named DEF Contexts, GivenOut
      <3>2. CASE ~Parallel
        <4>1. OneThread
          BY <3>2 DEF Contexts
        <4>2. \A g \in Fiber : g # f => pc[g] \notin Naming
          BY <4>1, <3>2, <1>0, Alone
        <4>3. \A g \in Fiber : pc[g] # "closed"
          BY <4>2, <1>0 DEF Naming
        <4> QED BY <4>1, <4>2, <4>3, <1>2, Named DEF OneThread
      <3> QED BY <3>1, <3>2
    <2>4. FALSE \notin FIONBIOArgs => ~table[d].present
      BY <1>2 DEF Contexts, ContextsTrue
    <2>5. FALSE \notin FIONBIOArgs => ContextsTrue'
      BY <1>0, <2>1, <2>4 DEF Contexts, ContextsTrue
    <2>6. ContextGone'
      BY <1>0, <2>2 DEF Contexts, ContextGone
    <2>7. MadeAlone'
      <3> SUFFICES ASSUME NEW g \in Fiber, pc'[g] \in {"get", "create"}
                   PROVE  /\ file'[call'[g].fd].open
                          /\ \A s \in Sock : sock'[s].fd # call'[g].fd
                          /\ \A h \in Fiber : h # g /\ pc'[h] \in Naming
                                                  => call'[h].fd # call'[g].fd
        BY DEF MadeAlone
      <3>1. CASE g = f
        BY <3>1, <1>0, <2>1, <2>2, <2>3
      <3>2. CASE g # f
        <4>1. pc[g] \in {"get", "create"} /\ call'[g] = call[g] /\ pc[g] \in Naming
          BY <3>2, <2>2 DEF Naming
        <4>2. call[g].fd # d /\ call[g].fd \in Fd
          BY <3>2, <4>1, <2>3, Named
        <4> QED BY <4>1, <4>2, <1>0, <2>1, <2>2 DEF Contexts, MadeAlone
      <3> QED BY <3>1, <3>2
    <2>8. ~Reuse => GivenOut'
      <3>1. \A s \in Sock : sock'[s].fd # Bad => sock[s].fd \in Fd /\ sock[s].fd # d
        BY <1>0, <2>3, Named
      <3>2. \A g \in Fiber : pc'[g] \in Naming =>
               g = f \/ (pc[g] \in Naming /\ call'[g] = call[g] /\ call[g].fd \in Fd /\ call[g].fd # d)
        BY <2>2, <2>3, Named
      <3> QED BY <3>1, <3>2, <1>0, <2>1, <2>2 DEF Contexts, GivenOut
    <2>9. ~Parallel => OneThread'
      <3> SUFFICES ASSUME ~Parallel, OneThread PROVE OneThread'
        BY DEF Contexts
      <3>1. \A g \in Fiber : pc'[g] \in Naming => g = f
        BY <1>0, <2>2, Alone
      <3>2. running' = f
        BY <1>2 DEF Goto
      <3>3. \A s \in Sock : sock[s].fd # Bad => /\ sock[s].fd \in Fd /\ sock[s].fd # d
                                               /\ file[sock[s].fd].open
        <4>1. \A g \in Fiber : pc[g] # "closed"
          BY <1>0, Alone DEF Naming
        <4> QED BY <4>1, <2>3, Named DEF OneThread
      <3>4. \A g \in Fiber : pc'[g] \notin {"del", "close_f", "closed"}
        BY <3>1, <2>2 DEF Naming
      <3>5. \A g \in Fiber : pc'[g] \in {"get", "create", "made"} => g = f
        BY <3>1 DEF Naming
      <3> QED BY <3>1, <3>2, <3>3, <3>4, <3>5, <1>0, <2>1, <2>2, <2>3 DEF OneThread
    <2> QED BY <2>5, <2>6, <2>7, <2>8, <2>9 DEF Contexts
  <1> QED BY <1>1, <1>2, Zenon DEF NewSock

\* FdManager::get makes a context for the file it was called for.
LEMMA GetCreateKeep ==
  ASSUME Waits, Contexts, NEW f \in Fiber, Get(f) \/ Create(f)
  PROVE  Contexts'
  <1>0. /\ file \in [Fd -> FileRec] /\ table \in [Fd -> CtxRec] /\ Turn(f) /\ pc[f] \in Naming
        /\ pc \in [Fiber -> PC] /\ sock' = sock /\ call' = call
    BY DEF Waits, TypeKernel, TypeWaits, Get, Create, At, tableVars, Naming
  <1>1. CASE Get(f)
    <2>1. /\ file' = file /\ table' = table /\ pc[f] = "get"
          /\ \E to \in {"create", "made"} : Goto(f, to)
      BY <1>1 DEF Get, At, kernelVars, tableVars
    <2>2. /\ pc'[f] \in {"create", "made"} /\ (~Parallel => running' = f)
          /\ \A g \in Fiber : g # f => pc'[g] = pc[g]
      BY <2>1, <1>0 DEF Goto
    <2>3. ~Parallel => \A g \in Fiber : g # f => running # g
      BY <1>0, HookAssumption DEF Turn
    <2>4. Quiet /\ Unblocked
      BY <2>1, <2>2, <2>3, <1>0 DEF Quiet, Unblocked
    <2> QED BY <2>4, QuietKeeps
  <1>2. CASE Create(f) /\ call[f].fd >= TableSize
    <2>1. UNCHANGED <<file, table, pc, running>>
      BY <1>2 DEF Create
    <2>2. Quiet /\ Unblocked
      BY <2>1, <1>0 DEF Quiet, Unblocked
    <2> QED BY <2>2, QuietKeeps
  <1>3. CASE Create(f) /\ ~(call[f].fd >= TableSize)
    <2> DEFINE d == call[f].fd
    <2>1. /\ table' = [table EXCEPT ![d] = NewCtx(d)]
          /\ file' = [file EXCEPT ![d].nonblock = TRUE]
          /\ pc[f] = "create" /\ Goto(f, "made")
      BY <1>3 DEF Create, At
    <2>2. d \in Fd
      BY <1>0, Named
    <2> HIDE DEF d
    <2>3. /\ table'[d] = NewCtx(d) /\ \A x \in Fd : x # d => table'[x] = table[x]
          /\ \A x \in Fd : file'[x].open = file[x].open /\ file'[x].gen = file[x].gen
          /\ file'[d].nonblock /\ \A x \in Fd : x # d => file'[x] = file[x]
      BY <2>1, <2>2, <1>0 DEF FileRec
    <2>4. NewCtx(d).present /\ NewCtx(d).gen = file[d].gen
      BY DEF NewCtx, NoCtx
    <2>5. /\ pc'[f] = "made" /\ (~Parallel => running' = f)
          /\ \A g \in Fiber : g # f => pc'[g] = pc[g]
      BY <2>1, <1>0 DEF Goto
    <2>6. /\ file[d].open /\ \A s \in Sock : sock[s].fd # d
          /\ \A g \in Fiber : g # f /\ pc[g] \in Naming => call[g].fd # d
      BY <2>1 DEF Contexts, MadeAlone, d
    <2>7. FALSE \notin FIONBIOArgs => ContextsTrue'
      BY <2>3, <2>4, <2>6 DEF Contexts, ContextsTrue
    <2>8. ContextGone'
      <3> SUFFICES ASSUME NEW g \in Fiber, pc'[g] = "close_f" PROVE ~table'[call[g].fd].present
        BY <1>0 DEF ContextGone
      <3>1. g # f /\ pc[g] = "close_f" /\ pc[g] \in Naming
        BY <2>5 DEF Naming
      <3>2. call[g].fd \in Fd /\ call[g].fd # d
        BY <3>1, <2>6, Named
      <3> QED BY <3>1, <3>2, <2>3 DEF Contexts, ContextGone
    <2>9. MadeAlone'
      <3>1. \A g \in Fiber : pc'[g] \in {"get", "create"} => pc[g] \in {"get", "create"}
        BY <2>5
      <3>2. \A g \in Fiber : pc'[g] \in Naming => pc[g] \in Naming
        BY <2>5, <1>0
      <3>3. \A g \in Fiber : pc[g] \in {"get", "create"} => call[g].fd \in Fd
        BY Named DEF Naming
      <3> QED BY <3>1, <3>2, <3>3, <1>0, <2>3 DEF Contexts, MadeAlone
    <2>10. ~Reuse => GivenOut'
      <3>1. \A g \in Fiber : pc'[g] \in Naming => pc[g] \in Naming
        BY <2>5, <1>0
      <3> QED BY <3>1, <2>3, <1>0, Named DEF Contexts, GivenOut
    <2>11. ~Parallel => OneThread'
      <3> SUFFICES ASSUME ~Parallel, OneThread PROVE OneThread'
        BY DEF Contexts
      <3>1. \A g \in Fiber : pc'[g] \in Naming => g = f
        BY <1>0, <2>5, Alone
      <3>2. \A g \in Fiber : pc'[g] \notin {"del", "close_f", "closed"}
        BY <3>1, <2>5 DEF Naming
      <3>3. \A g \in Fiber : pc'[g] \in {"get", "create", "made"} => g = f
        BY <3>1 DEF Naming
      <3>4. \A s \in Sock : sock'[s].fd # Bad => file'[sock'[s].fd].open
        <4>1. \A g \in Fiber : pc[g] # "closed"
          BY <1>0, <2>1, Alone DEF Naming
        <4> QED BY <4>1, <1>0, <2>3, Named DEF OneThread
      <3>5. file'[call'[f].fd].open /\ \A s \in Sock : sock'[s].fd # call'[f].fd
        BY <1>0, <2>2, <2>3, <2>6 DEF d
      <3> QED BY <3>1, <3>2, <3>3, <3>4, <3>5, <1>0, <2>5 DEF OneThread
    <2> QED BY <2>7, <2>8, <2>9, <2>10, <2>11 DEF Contexts
  <1> QED BY <1>1, <1>2, <1>3

\* The Socket gets the descriptor that was made for it.
LEMMA MadeKeeps ==
  ASSUME Waits, Contexts, NEW f \in Fiber, Made(f) PROVE Contexts'
  <1> DEFINE d == call[f].fd
             s == call[f].s
  <1>0. /\ sock \in [Sock -> SockRec] /\ Turn(f) /\ pc[f] = "made" /\ pc[f] \in Naming
        /\ pc \in [Fiber -> PC] /\ file' = file /\ table' = table /\ call' = call
        /\ Goto(f, "connect") /\ sock' = [sock EXCEPT ![s].fd = d]
    BY DEF Waits, TypeKernel, TypeWaits, Made, At, kernelVars, Naming
  <1>1. d \in Fd /\ s \in Sock
    BY <1>0, Named
  <1>2. /\ pc'[f] = "connect" /\ \A g \in Fiber : g # f => pc'[g] = pc[g]
        /\ \A g \in Fiber : pc'[g] \in Naming => g # f /\ pc[g] \in Naming
    BY <1>0 DEF Goto, Naming
  <1>3. sock'[s].fd = d /\ \A r \in Sock : r # s => sock'[r] = sock[r]
    BY <1>0, <1>1 DEF SockRec
  <1>4. FALSE \notin FIONBIOArgs => ContextsTrue'
    BY <1>0 DEF Contexts, ContextsTrue
  <1>5. ContextGone'
    BY <1>0, <1>2 DEF Contexts, ContextGone
  <1>6. MadeAlone'
    <2> SUFFICES ASSUME NEW g \in Fiber, pc'[g] \in {"get", "create"}
                 PROVE  /\ file'[call'[g].fd].open
                        /\ \A r \in Sock : sock'[r].fd # call'[g].fd
                        /\ \A h \in Fiber : h # g /\ pc'[h] \in Naming => call'[h].fd # call'[g].fd
      BY DEF MadeAlone
    <2>1. g # f /\ pc[g] \in {"get", "create"}
      BY <1>2
    <2>2. call[g].fd # d
      BY <2>1, <1>0 DEF Contexts, MadeAlone
    <2> QED BY <2>1, <2>2, <1>0, <1>2, <1>3 DEF Contexts, MadeAlone
  <1>7. ~Reuse => GivenOut'
    BY <1>0, <1>2, <1>3 DEF Contexts, GivenOut
  <1>8. ~Parallel => OneThread'
    <2> SUFFICES ASSUME ~Parallel, OneThread PROVE OneThread'
      BY DEF Contexts
    <2>1. \A g \in Fiber : pc'[g] \notin Naming
      BY <1>0, <1>2, Alone
    <2>2. \A g \in Fiber : pc'[g] \notin {"get", "create", "made", "del", "close_f", "closed"}
      BY <2>1 DEF Naming
    <2>3. file[d].open /\ \A r \in Sock : sock[r].fd # d
      BY <1>0 DEF OneThread
    <2>4. \A r \in Sock : sock[r].fd # Bad => file[sock[r].fd].open
      <3>1. \A g \in Fiber : pc[g] # "closed"
        BY <1>0, Alone DEF Naming
      <3> QED BY <3>1 DEF OneThread
    <2> QED BY <2>1, <2>2, <2>3, <2>4, <1>0, <1>3 DEF OneThread
  <1> QED BY <1>4, <1>5, <1>6, <1>7, <1>8 DEF Contexts

\* close() takes the waiters off a descriptor that is a Socket's.
LEMMA CloseCancelKeeps ==
  ASSUME Waits, Contexts, NEW f \in Fiber, CloseCancel(f) PROVE Contexts'
  <1> DEFINE s == call[f].s
             d == sock[s].fd
  <1>0. /\ sock \in [Sock -> SockRec] /\ Turn(f) /\ pc[f] = "close" /\ call[f] \in CallRec
        /\ pc \in [Fiber -> PC] /\ call \in [Fiber -> CallRec] /\ file' = file /\ table' = table
        /\ sock' = [sock EXCEPT ![s].connected = FALSE] /\ s \in Sock
    <2>1. s \in Sock
      BY DEF CloseCancel, At, Waits, Fibers, FiberRight
    <2> QED BY <2>1 DEF Waits, TypeKernel, TypeWaits, CloseCancel, At, kernelVars
  <1>1. \A r \in Sock : sock'[r].fd = sock[r].fd
    BY <1>0 DEF SockRec
  <1>2. CASE d = Bad
    <2>1. Return(f)
      BY <1>2 DEF CloseCancel, Shut
    <2>2. /\ pc' = [pc EXCEPT ![f] = "idle"] /\ call' = [call EXCEPT ![f] = NoCall]
      BY <2>1 DEF Return, Goto
    <2>3. pc' # pc /\ "idle" \in PC \ Naming
      BY <2>2, <1>0 DEF PC, Naming
    <2>4. Quiet /\ Unblocked
      BY <1>0, <1>1, <2>2, <2>3, QuietMove
    <2> QED BY <2>4, QuietKeeps
  <1>3. CASE d # Bad
    <2>1. /\ call' = [call EXCEPT ![f].fd = d]
          /\ running' = IF Parallel THEN None ELSE f
          /\ pc' = [g \in Fiber |-> IF g = f THEN "del"
                                    ELSE IF g \in Cancelled(d) THEN "woken" ELSE pc[g]]
      BY <1>3 DEF CloseCancel, Shut
    <2>2. /\ pc'[f] = "del" /\ call'[f].fd = d /\ call'[f].s = s
          /\ \A g \in Fiber : g # f => (pc'[g] = pc[g] \/ pc'[g] = "woken") /\ call'[g] = call[g]
      BY <2>1, <1>0 DEF CallRec
    <2>3. \A g \in Fiber : pc'[g] \in Naming => g = f \/ (pc'[g] = pc[g] /\ call'[g] = call[g])
      BY <2>2 DEF Naming
    <2>4. d \in Fd
      BY <1>0, <1>3, Named
    <2>5. FALSE \notin FIONBIOArgs => ContextsTrue'
      BY <1>0 DEF Contexts, ContextsTrue
    <2>6. ContextGone'
      BY <1>0, <2>2, <2>3 DEF Contexts, ContextGone, Naming
    <2>7. MadeAlone'
      <3> SUFFICES ASSUME NEW g \in Fiber, pc'[g] \in {"get", "create"}
                   PROVE  /\ file'[call'[g].fd].open
                          /\ \A r \in Sock : sock'[r].fd # call'[g].fd
                          /\ \A h \in Fiber : h # g /\ pc'[h] \in Naming
                                                  => call'[h].fd # call'[g].fd
        BY DEF MadeAlone
      <3>1. pc[g] \in {"get", "create"} /\ call'[g] = call[g]
        BY <2>2, <2>3 DEF Naming
      <3>2. call[g].fd # d
        BY <3>1, <1>0 DEF Contexts, MadeAlone
      <3> QED BY <3>1, <3>2, <1>0, <1>1, <2>2, <2>3 DEF Contexts, MadeAlone
    <2>8. ~Reuse => GivenOut'
      BY <1>0, <1>1, <1>3, <2>2, <2>3 DEF Contexts, GivenOut
    <2>9. ~Parallel => OneThread'
      <3> SUFFICES ASSUME ~Parallel, OneThread PROVE OneThread'
        BY DEF Contexts
      <3>1. \A g \in Fiber : pc'[g] \in Naming => g = f
        BY <1>0, <2>3, Alone
      <3>2. \A g \in Fiber : pc'[g] \notin {"get", "create", "made"}
        BY <3>1, <2>2 DEF Naming
      <3>3. \A g \in Fiber : pc'[g] \in {"del", "close_f", "closed"} => g = f
        BY <3>1 DEF Naming
      <3>4. sock'[call'[f].s].fd = call'[f].fd
        BY <1>0, <1>1, <2>2
      <3>5. \A r \in Sock : sock[r].fd # Bad => file[sock[r].fd].open
        <4>1. \A g \in Fiber : pc[g] # "closed"
          BY <1>0, Alone DEF Naming
        <4> QED BY <4>1 DEF OneThread
      <3> QED BY <3>1, <3>2, <3>3, <3>4, <3>5, <1>0, <1>1, <2>1 DEF OneThread
    <2> QED BY <2>5, <2>6, <2>7, <2>8, <2>9 DEF Contexts
  <1> QED BY <1>2, <1>3

\* FdManager::del forgets the context.
LEMMA DelKeeps ==
  ASSUME Waits, Contexts, NEW f \in Fiber, Del(f) PROVE Contexts'
  <1> DEFINE d == call[f].fd
  <1>0. /\ table \in [Fd -> CtxRec] /\ Turn(f) /\ pc[f] = "del" /\ pc[f] \in Naming
        /\ pc \in [Fiber -> PC] /\ file' = file /\ sock' = sock /\ call' = call
        /\ Goto(f, "close_f") /\ table' = [table EXCEPT ![d] = NoCtx]
    BY DEF Waits, TypeKernel, TypeWaits, Del, At, kernelVars, Naming
  <1>1. d \in Fd
    BY <1>0, Named
  <1>2. /\ pc'[f] = "close_f" /\ \A g \in Fiber : g # f => pc'[g] = pc[g]
        /\ \A g \in Fiber : pc'[g] \in Naming => pc[g] \in Naming
        /\ ~Parallel => running' = f
    BY <1>0 DEF Goto
  <1>3. ~table'[d].present /\ \A x \in Fd : x # d => table'[x] = table[x]
    BY <1>0, <1>1 DEF NoCtx
  <1>4. FALSE \notin FIONBIOArgs => ContextsTrue'
    BY <1>0, <1>3 DEF Contexts, ContextsTrue
  <1>5. ContextGone'
    <2> SUFFICES ASSUME NEW g \in Fiber, pc'[g] = "close_f" PROVE ~table'[call[g].fd].present
      BY <1>0 DEF ContextGone
    <2>1. call[g].fd \in Fd
      BY <1>2, Named DEF Naming
    <2>2. g = f \/ pc[g] = "close_f"
      BY <1>2
    <2> QED BY <2>1, <2>2, <1>3 DEF Contexts, ContextGone
  <1>6. MadeAlone'
    <2>1. \A g \in Fiber : pc'[g] \in {"get", "create"} => pc[g] \in {"get", "create"}
      BY <1>2
    <2> QED BY <2>1, <1>0, <1>2 DEF Contexts, MadeAlone
  <1>7. ~Reuse => GivenOut'
    BY <1>0, <1>2 DEF Contexts, GivenOut
  <1>8. ~Parallel => OneThread'
    <2> SUFFICES ASSUME ~Parallel, OneThread PROVE OneThread'
      BY DEF Contexts
    <2>1. \A g \in Fiber : pc'[g] \in Naming => g = f
      BY <1>0, <1>2, Alone
    <2>2. \A g \in Fiber : pc'[g] \notin {"get", "create", "made"}
      BY <2>1, <1>2 DEF Naming
    <2>3. \A g \in Fiber : pc'[g] \in {"del", "close_f", "closed"} => g = f
      BY <2>1 DEF Naming
    <2> QED BY <2>1, <2>2, <2>3, <1>0, <1>2 DEF OneThread
  <1> QED BY <1>4, <1>5, <1>6, <1>7, <1>8 DEF Contexts

\* close_f closes a file whose context has gone.
LEMMA CloseFileKeeps ==
  ASSUME Waits, Contexts, NEW f \in Fiber, CloseFile(f) PROVE Contexts'
  <1> DEFINE d == call[f].fd
             s == call[f].s
  <1>0. /\ file \in [Fd -> FileRec] /\ Turn(f)
        /\ pc[f] = "close_f" /\ pc[f] \in Naming
        /\ pc \in [Fiber -> PC] /\ table' = table /\ sock' = sock /\ call' = call
        /\ Goto(f, "closed")
        /\ file' = [file EXCEPT ![d] = [NoFile EXCEPT !.gen = file[d].gen]]
    BY DEF Waits, TypeKernel, TypeWaits, CloseFile, At, tableVars, Naming
  <1>1. d \in Fd /\ s \in Sock
    BY <1>0, Named
  <1>2. /\ pc'[f] = "closed" /\ \A g \in Fiber : g # f => pc'[g] = pc[g]
        /\ \A g \in Fiber : pc'[g] \in Naming => pc[g] \in Naming
        /\ ~Parallel => running' = f
    BY <1>0 DEF Goto
  <1>3. /\ file'[d].gen = file[d].gen /\ \A x \in Fd : x # d => file'[x] = file[x]
    BY <1>0, <1>1 DEF NoFile
  <1>4. ~table[d].present
    BY <1>0 DEF Contexts, ContextGone
  <1>5. FALSE \notin FIONBIOArgs => ContextsTrue'
    BY <1>0, <1>3, <1>4 DEF Contexts, ContextsTrue
  <1>6. ContextGone'
    BY <1>0, <1>2 DEF Contexts, ContextGone
  <1>7. MadeAlone'
    <2> SUFFICES ASSUME NEW g \in Fiber, pc'[g] \in {"get", "create"}
                 PROVE  /\ file'[call[g].fd].open
                        /\ \A r \in Sock : sock[r].fd # call[g].fd
                        /\ \A h \in Fiber : h # g /\ pc'[h] \in Naming => call[h].fd # call[g].fd
      BY <1>0 DEF MadeAlone
    <2>1. g # f /\ pc[g] \in {"get", "create"}
      BY <1>2
    <2>2. call[g].fd # d /\ call[g].fd \in Fd
      BY <2>1, <1>0, Named DEF Contexts, MadeAlone, Naming
    <2> QED BY <2>1, <2>2, <1>2, <1>3 DEF Contexts, MadeAlone
  <1>8. ~Reuse => GivenOut'
    <2>1. \A x \in Fd : file'[x].gen = file[x].gen
      BY <1>3
    <2> QED BY <2>1, <1>0, <1>2, Named DEF Contexts, GivenOut
  <1>9. ~Parallel => OneThread'
    <2> SUFFICES ASSUME ~Parallel, OneThread PROVE OneThread'
      BY DEF Contexts
    <2>1. \A g \in Fiber : pc'[g] \in Naming => g = f
      BY <1>0, <1>2, Alone
    <2>2. \A g \in Fiber : pc'[g] \notin {"get", "create", "made"}
      BY <2>1, <1>2 DEF Naming
    <2>3. \A g \in Fiber : pc'[g] \in {"del", "close_f", "closed"} => g = f
      BY <2>1 DEF Naming
    <2>4. sock[s].fd = d
      BY <1>0 DEF OneThread
    <2>5. ASSUME NEW r \in Sock, sock[r].fd # Bad
          PROVE  file'[sock[r].fd].open \/ \E g \in Fiber : pc'[g] = "closed" /\ call[g].s = r
      <3>1. CASE r = s
        BY <3>1, <1>2
      <3>2. CASE r # s
        <4>1. sock[r].fd \in Fd /\ sock[r].fd # d
          BY <3>2, <2>4, <2>5, <1>1, Named DEF OneThread
        <4>2. file[sock[r].fd].open
          BY <2>5, <1>0, Alone DEF OneThread, Naming
        <4> QED BY <4>1, <4>2, <1>3
      <3> QED BY <3>1, <3>2
    <2> QED BY <2>1, <2>2, <2>3, <2>4, <2>5, <1>0, <1>2 DEF OneThread
  <1> QED BY <1>5, <1>6, <1>7, <1>8, <1>9 DEF Contexts

\* The Socket gives its number up.
LEMMA ClosedKeeps ==
  ASSUME Waits, Contexts, NEW f \in Fiber, Closed(f) PROVE Contexts'
  <1> DEFINE s == call[f].s
  <1>0. /\ sock \in [Sock -> SockRec] /\ Turn(f)
        /\ pc[f] = "closed" /\ pc[f] \in Naming
        /\ pc \in [Fiber -> PC] /\ call \in [Fiber -> CallRec] /\ table' = table /\ file' = file
        /\ Return(f) /\ sock' = [sock EXCEPT ![s].fd = Bad]
    BY DEF Waits, TypeKernel, TypeWaits, Closed, At, kernelVars, Naming
  <1>1. s \in Sock
    BY <1>0, Named
  <1>2. /\ pc'[f] = "idle" /\ \A g \in Fiber : g # f => pc'[g] = pc[g] /\ call'[g] = call[g]
        /\ \A g \in Fiber : pc'[g] \in Naming => g # f /\ pc[g] \in Naming
    BY <1>0 DEF Return, Goto, Naming
  <1>3. sock'[s].fd = Bad /\ \A r \in Sock : r # s => sock'[r] = sock[r]
    BY <1>0, <1>1 DEF SockRec
  <1>4. FALSE \notin FIONBIOArgs => ContextsTrue'
    BY <1>0 DEF Contexts, ContextsTrue
  <1>5. ContextGone'
    BY <1>0, <1>2 DEF Contexts, ContextGone
  <1>6. MadeAlone'
    <2> SUFFICES ASSUME NEW g \in Fiber, pc'[g] \in {"get", "create"}
                 PROVE  /\ file[call'[g].fd].open
                        /\ \A r \in Sock : sock'[r].fd # call'[g].fd
                        /\ \A h \in Fiber : h # g /\ pc'[h] \in Naming => call'[h].fd # call'[g].fd
      BY <1>0 DEF MadeAlone
    <2>1. g # f /\ pc[g] \in {"get", "create"} /\ call'[g] = call[g]
      BY <1>2
    <2>2. call[g].fd \in Fd /\ call[g].fd # Bad
      BY <2>1, Named DEF Naming
    <2> QED BY <2>1, <2>2, <1>2, <1>3 DEF Contexts, MadeAlone
  <1>7. ~Reuse => GivenOut'
    <2>1. \A r \in Sock : sock'[r].fd # Bad => sock'[r].fd = sock[r].fd
      BY <1>3
    <2>2. \A g \in Fiber : pc'[g] \in Naming => pc[g] \in Naming /\ call'[g].fd = call[g].fd
      BY <1>2
    <2> QED BY <2>1, <2>2, <1>0 DEF Contexts, GivenOut
  <1>8. ~Parallel => OneThread'
    <2> SUFFICES ASSUME ~Parallel, OneThread PROVE OneThread'
      BY DEF Contexts
    <2>1. \A g \in Fiber : pc'[g] \notin Naming
      BY <1>0, <1>2, Alone
    <2>2. \A g \in Fiber : pc'[g] \notin {"get", "create", "made", "del", "close_f", "closed"}
      BY <2>1 DEF Naming
    <2>3. \A r \in Sock : sock'[r].fd # Bad => r # s /\ sock'[r].fd = sock[r].fd
      BY <1>3
    <2>4. \A r \in Sock : sock'[r].fd # Bad => file[sock[r].fd].open
      BY <2>3, <1>0, Alone DEF OneThread, Naming
    <2> QED BY <2>1, <2>2, <2>3, <2>4, <1>0 DEF OneThread
  <1> QED BY <1>4, <1>5, <1>6, <1>7, <1>8 DEF Contexts

\* The accepted sockets have their own files and contexts, and nobody is in a call.
LEMMA ContextsInit == Init => Contexts
  <1> SUFFICES ASSUME Init PROVE Contexts
    OBVIOUS
  <1>1. /\ \A d \in Fd : file[d] = IF \E s \in DOMAIN Accepted : Accepted[s] = d
               THEN [open |-> TRUE, gen |-> 1, nonblock |-> TRUE, ready |-> {}, link |-> "up"]
               ELSE NoFile
        /\ \A d \in Fd : table[d] = IF file[d].open
               THEN [NoCtx EXCEPT !.present = TRUE, !.gen = 1] ELSE NoCtx
    BY DEF Init
  <1>2. ContextsTrue
    <2>1. \A d \in Fd : file[d].open => file[d].gen = 1 /\ file[d].nonblock
      BY <1>1 DEF NoFile
    <2>2. NoCtx.present = FALSE /\ [NoCtx EXCEPT !.present = TRUE, !.gen = 1].gen = 1
      BY DEF NoCtx
    <2>3. \A d \in Fd : IF file[d].open THEN table[d].gen = 1 ELSE table[d].present = FALSE
      BY <1>1, <2>2
    <2> QED BY <2>1, <2>3 DEF ContextsTrue
  <1>3. \A f \in Fiber : pc[f] \notin Naming /\ pc[f] = "idle"
    BY DEF Init, Naming
  <1>4. \A s \in Sock : sock[s].fd = IF s \in DOMAIN Accepted THEN Accepted[s] ELSE Bad
    BY DEF Init, NoSock
  <1>5. \A s \in Sock : sock[s].fd # Bad =>
           /\ s \in DOMAIN Accepted /\ sock[s].fd = Accepted[s]
           /\ file[sock[s].fd].open /\ file[sock[s].fd].gen # 0
    BY <1>1, <1>4, HookAssumption
  <1>6. GivenOut
    BY <1>3, <1>5 DEF GivenOut
  <1>7. OneThread
    BY <1>3, <1>5, HookAssumption DEF OneThread
  <1> QED BY <1>2, <1>3, <1>6, <1>7 DEF Contexts, ContextGone, MadeAlone

\* Every step keeps Contexts.
LEMMA ContextsNext ==
  ASSUME Waits, Contexts, ~Parallel \/ ~Reuse, [Next]_vars PROVE Contexts'
  <1>1. ASSUME NEW f \in Fiber, Step(f) PROVE Contexts'
    <2>1. CASE NewSock(f) \/ Get(f) \/ Create(f) \/ Made(f)
      BY <2>1, NewSockKeeps, GetCreateKeep, MadeKeeps
    <2>2. CASE CloseCancel(f) \/ Del(f) \/ CloseFile(f) \/ Closed(f)
      BY <2>2, CloseCancelKeeps, DelKeeps, CloseFileKeeps, ClosedKeeps
    <2>3. CASE \/ Enter(f) \/ TryDirect(f) \/ Try(f) \/ Arm(f) \/ AddEvent(f) \/ Woken(f)
               \/ TryConnect(f) \/ SoError(f) \/ Connected(f) \/ Awake(f)
      BY <2>3, TriesQuiet, QuietKeeps
    <2> QED BY <1>1, <2>1, <2>2, <2>3 DEF Step
  <1>2. ASSUME NEW f \in Fiber, Call(f) PROVE Contexts'
    BY <1>2, CallsQuiet, QuietKeeps
  <1>3. CASE \/ \E t \in timers : Expire(t)
             \/ \E t \in expired : Timeout(t)
             \/ \E d \in Fd : Arrive(d) \/ \E e \in Event : Deliver(d, e)
             \/ UNCHANGED vars
    BY <1>3, EnvironmentQuiet, QuietKeeps
  <1> QED BY <1>1, <1>2, <1>3 DEF Next

\* The table of contexts follows the kernel's files: on one thread whatever the kernel
\* gives out again, and on any number of threads as long as it does not; for any fibers,
\* sockets and calls, provided ioctl is not asked to make a file blocking.
THEOREM ContextsFollowFiles ==
  ASSUME ~Parallel \/ ~Reuse, FALSE \notin FIONBIOArgs
  PROVE  Spec => []ContextsTrue
  <1>1. Init => SleepOnce
    BY DEF Init, SleepOnce
  <1>2. Contexts => ContextsTrue
    BY DEF Contexts
  <1> QED BY <1>1, <1>2, WaitsInit, WaitsNext, SleepOnceNext, ContextsInit, ContextsNext, PTL
          DEF Spec

------------------------------------------------------------------------------
(* Connecting *)

\* Where connect() has an attempt behind it, and where only connect() comes.
Attempted == {"arm", "add", "wait", "woken", "soerror", "connected"}
OnlyConnect == {"socket", "get", "create", "made", "connect", "soerror", "connected"}

\* The attempt on the call's file is over, or the wait for it was ended by a cancel.
Settled(f) == file[call[f].fd].link \in {"up", "refused"} \/ f \in cut

\* A call's file was there when the call was: a number given out again has a later file.
\* The attempt was begun, and a wait ends with it settled.
ConnectRight(f) ==
    /\ pc[f] \in OnlyConnect => call[f].op = "connect"
    /\ call[f].op = "connect" =>
         /\ call[f].event = "WRITE" /\ pc[f] \notin {"enter", "direct", "try"}
         /\ pc[f] \in Attempted =>
              /\ call[f].gen <= file[call[f].fd].gen
              /\ HasFile(f) => file[call[f].fd].link # "none"
         /\ pc[f] \in {"woken", "soerror"} /\ HasFile(f) => Settled(f)
         /\ pc[f] = "connected" /\ HasFile(f) => file[call[f].fd].link = "up" \/ f \in cut

\* A file can be written to only when its attempt to connect is over.
LinksRight == \A d \in Fd : "WRITE" \in file[d].ready => file[d].link \in {"up", "refused"}

Connects == LinksRight /\ \A f \in Fiber : ConnectRight(f)

\* What a step may do to a file: a later one comes on the number, or it is closed, or an
\* attempt begins or ends.
LinkStep ==
    \A d \in Fd :
        /\ file[d].gen <= file'[d].gen
        /\ file'[d].open /\ file'[d].gen = file[d].gen =>
             /\ file[d].open
             /\ file[d].link \in {"up", "refused"} => file'[d].link = file[d].link
             /\ file[d].link # "none" => file'[d].link # "none"

\* Steps that change at most what is ready and the mode of files.
LEMMA LinksKept ==
  ASSUME Waits, LinksRight,
         \A d \in Fd : /\ file'[d].open = file[d].open /\ file'[d].gen = file[d].gen
                       /\ file'[d].link = file[d].link /\ file'[d].ready \subseteq file[d].ready
  PROVE  LinksRight' /\ LinkStep
  <1>1. \A d \in Fd : file[d].gen \in Nat
    BY DEF Waits, TypeKernel, FileRec
  <1> QED BY <1>1 DEF LinksRight, LinkStep

\* Every step is a LinkStep.
LEMMA LinksNext ==
  ASSUME Waits, LinksRight, [Next]_vars PROVE LinksRight' /\ LinkStep
  <1>0. /\ file \in [Fd -> FileRec] /\ sock \in [Sock -> SockRec]
        /\ \A d \in Fd : file[d].gen \in Nat
    BY DEF Waits, TypeKernel, FileRec
  <1>1. CASE file' = file
    BY <1>1, LinksKept
  <1>2. ASSUME NEW f \in Fiber, TryDirect(f) \/ Try(f) PROVE LinksRight' /\ LinkStep
    <2>1. file' = file \/ file' = [file EXCEPT ![call[f].fd].ready = @ \ {call[f].event}]
      BY <1>2 DEF TryDirect, Try, SystemCall, Consume
    <2>2. ASSUME NEW d \in Fd
          PROVE  /\ file'[d].open = file[d].open /\ file'[d].gen = file[d].gen
                 /\ file'[d].link = file[d].link /\ file'[d].ready \subseteq file[d].ready
      BY <2>1, <1>0 DEF FileRec
    <2> QED BY <2>2, LinksKept
  <1>3. ASSUME NEW x, NEW b, file' = [file EXCEPT ![x].nonblock = b] PROVE LinksRight' /\ LinkStep
    <2>1. ASSUME NEW d \in Fd
          PROVE  /\ file'[d].open = file[d].open /\ file'[d].gen = file[d].gen
                 /\ file'[d].link = file[d].link /\ file'[d].ready \subseteq file[d].ready
      BY <1>3, <1>0 DEF FileRec
    <2> QED BY <2>1, LinksKept
  <1>4. ASSUME NEW f \in Fiber, NewSock(f) \/ CloseFile(f) PROVE LinksRight' /\ LinkStep
    <2>1. \/ file' = file
          \/ \E d \in Fd : file' = [file EXCEPT ![d] = [NoFile EXCEPT !.open = TRUE,
                                                                    !.gen = file[d].gen + 1]]
          \/ file' = [file EXCEPT ![call[f].fd] = [NoFile EXCEPT !.gen = file[call[f].fd].gen]]
      BY <1>4, Zenon DEF NewSock, CloseFile
    <2>2. ASSUME NEW x \in Fd,
                 file' = [file EXCEPT ![x] = [NoFile EXCEPT !.open = TRUE, !.gen = file[x].gen + 1]]
          PROVE  LinksRight' /\ LinkStep
      <3>1. /\ file'[x].gen = file[x].gen + 1 /\ file'[x].ready = {}
            /\ \A d \in Fd : d # x => file'[d] = file[d]
        BY <2>2, <1>0 DEF NoFile
      <3> QED BY <3>1, <1>0 DEF LinksRight, LinkStep
    <2>3. ASSUME NEW x, file' = [file EXCEPT ![x] = [NoFile EXCEPT !.gen = file[x].gen]]
          PROVE  LinksRight' /\ LinkStep
      <3>1. \A d \in Fd : \/ file'[d] = file[d]
                          \/ file'[d].open = FALSE /\ file'[d].gen = file[d].gen /\ file'[d].ready = {}
        BY <2>3, <1>0 DEF NoFile
      <3> QED BY <3>1, <1>0 DEF LinksRight, LinkStep
    <2> QED BY <1>1, <2>1, <2>2, <2>3
  <1>5. ASSUME NEW x \in Fd, NEW link \in {"up", "refused", "pending"}, NEW ready \in SUBSET Event,
               "WRITE" \in ready => link # "pending",
               file[x].link = "none" \/ (file[x].link = "pending" /\ link # "pending"),
               file' = [file EXCEPT ![x].link = link, ![x].ready = ready]
        PROVE  LinksRight' /\ LinkStep
    <2>1. /\ file'[x].open = file[x].open /\ file'[x].gen = file[x].gen
          /\ file'[x].link = link /\ file'[x].ready = ready
          /\ \A d \in Fd : d # x => file'[d] = file[d]
      BY <1>5, <1>0 DEF FileRec
    <2> QED BY <2>1, <1>0, <1>5 DEF LinksRight, LinkStep
  <1>6. ASSUME NEW f \in Fiber, TryConnect(f) PROVE LinksRight' /\ LinkStep
    <2> DEFINE d == sock[call[f].s].fd
    <2>1. pc[f] = "connect"
      BY <1>6, Zenon DEF TryConnect, At
    <2>2. d \in Fd \cup {Bad}
      BY <2>1, <1>0 DEF Waits, Fibers, FiberRight, SockRec
    <2>3. \/ file' = file
          \/ /\ d # Bad /\ file[d].link = "none"
             /\ \E link \in {"up", "refused", "pending"} :
                   file' = [file EXCEPT ![d].link = link,
                                        ![d].ready = IF link = "pending" THEN {} ELSE {"WRITE"}]
      BY <1>6, Zenon DEF TryConnect, OutOfTable
    <2>4. ASSUME NEW link \in {"up", "refused", "pending"}, d # Bad, file[d].link = "none",
                 file' = [file EXCEPT ![d].link = link,
                                      ![d].ready = IF link = "pending" THEN {} ELSE {"WRITE"}]
          PROVE  LinksRight' /\ LinkStep
      <3> DEFINE ready == IF link = "pending" THEN {} ELSE {"WRITE"}
      <3>1. d \in Fd /\ ready \in SUBSET Event /\ ("WRITE" \in ready => link # "pending")
            /\ file' = [file EXCEPT ![d].link = link, ![d].ready = ready]
        BY <2>2, <2>4 DEF Event
      <3> HIDE DEF ready, d
      <3> QED BY <3>1, <2>4, <1>5
    <2> QED BY <1>1, <2>3, <2>4
  <1>7. ASSUME NEW x \in Fd, Arrive(x) PROVE LinksRight' /\ LinkStep
    <2>1. CASE file[x].link = "up"
      <3>1. \E e \in Event : file' = [file EXCEPT ![x].ready = @ \cup {e}]
        BY <1>7, <2>1 DEF Arrive
      <3>2. /\ file'[x].open = file[x].open /\ file'[x].gen = file[x].gen
            /\ file'[x].link = file[x].link
            /\ \A d \in Fd : d # x => file'[d] = file[d]
        BY <3>1, <1>0 DEF FileRec
      <3> QED BY <3>2, <2>1, <1>0 DEF LinksRight, LinkStep
    <2>2. ASSUME NEW link \in {"up", "refused"}, file[x].link = "pending",
                 file' = [file EXCEPT ![x].link = link, ![x].ready = {"WRITE"}]
          PROVE  LinksRight' /\ LinkStep
      <3>1. {"WRITE"} \in SUBSET Event /\ link \in {"up", "refused", "pending"} /\ link # "pending"
        BY DEF Event
      <3> QED BY <3>1, <2>2, <1>5
    <2> QED BY <1>7, <2>1, <2>2 DEF Arrive
  <1>8. ASSUME NEW f \in Fiber, Step(f) PROVE LinksRight' /\ LinkStep
    <2>1. CASE Create(f)
      BY <2>1, <1>1, <1>3 DEF Create
    <2>2. CASE \/ Enter(f) \/ Arm(f) \/ AddEvent(f) \/ Woken(f) \/ Get(f) \/ Made(f) \/ SoError(f)
               \/ Connected(f) \/ CloseCancel(f) \/ Del(f) \/ Closed(f) \/ Awake(f)
      <3>1. file' = file
        BY <2>2 DEF Enter, Arm, AddEvent, Woken, Get, Made, SoError, Connected, CloseCancel, Del,
                    Closed, Awake, kernelVars
      <3> QED BY <3>1, <1>1
    <2> QED BY <1>8, <2>1, <2>2, <1>2, <1>4, <1>6 DEF Step
  <1>9. ASSUME NEW f \in Fiber, Call(f) PROVE LinksRight' /\ LinkStep
    <2>1. file' = file \/ \E x, b : file' = [file EXCEPT ![x].nonblock = b]
      BY <1>9, Zenon DEF Call, Sleep, Recv, Send, Connect, Close, Begin, CancelCall, SetTimeout,
                         SetFlags, Ioctl, kernelVars
    <2> QED BY <2>1, <1>1, <1>3
  <1>10. CASE \/ \E t \in timers : Expire(t)
              \/ \E t \in expired : Timeout(t)
              \/ \E d \in Fd, e \in Event : Deliver(d, e)
              \/ UNCHANGED vars
    <2>1. file' = file
      BY <1>10 DEF Expire, Timeout, Callback, Deliver, vars, kernelVars
    <2> QED BY <2>1, <1>1
  <1> QED BY <1>7, <1>8, <1>9, <1>10 DEF Next

\* The call is the same but for its mark.
SameCall(f) ==
    /\ call'[f].op = call[f].op /\ call'[f].event = call[f].event
    /\ call'[f].fd = call[f].fd /\ call'[f].gen = call[f].gen

\* A file that is the call's after a step was it before.
LEMMA HadFile ==
  ASSUME Waits, LinkStep, TypeKernel', NEW f \in Fiber, ConnectRight(f), SameCall(f),
         call[f].op = "connect", pc[f] \in Attempted
  PROVE  /\ call'[f].gen <= file'[call'[f].fd].gen
         /\ HasFile(f)' => /\ HasFile(f)
                           /\ file[call[f].fd].link \in {"up", "refused"}
                                => file'[call[f].fd].link = file[call[f].fd].link
                           /\ file'[call[f].fd].link # "none"
  <1> DEFINE d == call[f].fd
  <1>1. d \in Fd /\ call[f].gen \in Nat
    BY DEF Waits, Fibers, FiberRight, Attempted, WithFd, CallRec
  <1>2. file[d].gen \in Nat /\ file'[d].gen \in Nat
    BY <1>1 DEF Waits, TypeKernel, FileRec
  <1>3. call[f].gen <= file[d].gen /\ file[d].gen <= file'[d].gen
        /\ (HasFile(f) => file[d].link # "none")
    BY <1>1 DEF ConnectRight, LinkStep
  <1>4. call'[f].gen = call[f].gen /\ call'[f].fd = d
    BY DEF SameCall
  <1>5. ASSUME HasFile(f)' PROVE file'[d].open /\ file'[d].gen = file[d].gen /\ file[d].gen = call[f].gen
    BY <1>5, <1>2, <1>3, <1>4, <1>1 DEF HasFile
  <1>6. ASSUME HasFile(f)' PROVE HasFile(f)
    BY <1>1, <1>5, <1>6 DEF HasFile, LinkStep
  <1> HIDE DEF d
  <1>7. ASSUME HasFile(f)' PROVE /\ file[d].link \in {"up", "refused"} => file'[d].link = file[d].link
                                 /\ file'[d].link # "none"
    BY <1>1, <1>3, <1>5, <1>6, <1>7 DEF LinkStep
  <1>8. call'[f].gen <= file'[d].gen
    BY <1>1, <1>2, <1>3, <1>4
  <1> QED BY <1>4, <1>6, <1>7, <1>8 DEF d

\* A fiber that does not move.
LEMMA ConnectStays ==
  ASSUME Waits, LinkStep, TypeKernel', NEW f \in Fiber, ConnectRight(f), SameCall(f),
         pc'[f] = pc[f], f \in cut => f \in cut' \/ pc[f] \in {"add", "wait"}
  PROVE  ConnectRight(f)'
  <1>1. CASE call[f].op # "connect"
    BY <1>1 DEF ConnectRight, SameCall
  <1>2. CASE call[f].op = "connect" /\ pc[f] \notin Attempted
    BY <1>2 DEF ConnectRight, SameCall, Attempted
  <1>3. CASE call[f].op = "connect" /\ pc[f] \in Attempted
    <2>1. /\ call'[f].gen <= file'[call'[f].fd].gen
          /\ HasFile(f)' => /\ HasFile(f)
                            /\ file[call[f].fd].link \in {"up", "refused"}
                                 => file'[call[f].fd].link = file[call[f].fd].link
                            /\ file'[call[f].fd].link # "none"
      BY <1>3, HadFile
    <2> QED BY <1>3, <2>1 DEF ConnectRight, SameCall, Settled
  <1> QED BY <1>1, <1>2, <1>3

\* A fiber whose wait ends by a cancel, or by the event it waits for.
LEMMA ConnectWoken ==
  ASSUME Waits, LinkStep, LinksRight', TypeKernel', NEW f \in Fiber, ConnectRight(f), SameCall(f),
         pc[f] = "wait", pc'[f] = "woken",
         f \in cut' \/ call[f].event \in file'[call[f].fd].ready
  PROVE  ConnectRight(f)'
  <1>1. CASE call[f].op # "connect"
    BY <1>1 DEF ConnectRight, SameCall, OnlyConnect
  <1>2. CASE call[f].op = "connect"
    <2>0. pc[f] \in Attempted /\ call[f].fd \in Fd
      BY DEF Waits, Fibers, FiberRight, Attempted, WithFd
    <2>1. /\ call'[f].gen <= file'[call'[f].fd].gen
          /\ HasFile(f)' => file'[call[f].fd].link # "none"
      BY <1>2, <2>0, HadFile
    <2>2. Settled(f)'
      BY <1>2, <2>0 DEF ConnectRight, SameCall, Settled, LinksRight
    <2> QED BY <1>2, <2>0, <2>1, <2>2 DEF ConnectRight, SameCall, OnlyConnect, Attempted
  <1> QED BY <1>1, <1>2

\* A fiber that goes to where no attempt is behind it.
LEMMA ConnectLeaves ==
  ASSUME NEW f \in Fiber, NEW to, pc'[f] = to, to \notin Attempted,
         to \in OnlyConnect => call'[f].op = "connect",
         call'[f].op = "connect" => call'[f].event = "WRITE" /\ to \notin {"enter", "direct", "try"}
  PROVE  ConnectRight(f)'
  BY DEF ConnectRight, Attempted

\* But for close(), a fiber's step moves no other fiber.
LEMMA OthersStay ==
  ASSUME Waits, NEW f \in Fiber, Step(f), ~CloseCancel(f), NEW g \in Fiber, g # f
  PROVE  pc'[g] = pc[g] /\ call'[g] = call[g] /\ (g \in cut => g \in cut')
  <1>0. pc \in [Fiber -> PC] /\ call \in [Fiber -> CallRec]
    BY DEF Waits, TypeWaits
  <1>1. pc' = pc \/ \E to : pc' = [pc EXCEPT ![f] = to]
    <2>1. CASE Enter(f) \/ TryDirect(f) \/ Try(f) \/ Arm(f)
      BY <2>1 DEF Enter, TryDirect, Try, Arm, SystemCall, Goto, Return
    <2>2. CASE AddEvent(f) \/ Woken(f)
      BY <2>2 DEF AddEvent, Woken, Resume, Goto, Return
    <2>3. CASE NewSock(f) \/ Get(f) \/ Create(f) \/ Made(f) \/ TryConnect(f)
      BY <2>3, Zenon DEF NewSock, Get, Create, Made, TryConnect, Goto, Return
    <2>4. CASE SoError(f) \/ Connected(f) \/ Del(f) \/ CloseFile(f) \/ Closed(f) \/ Awake(f)
      BY <2>4 DEF SoError, Connected, Del, CloseFile, Closed, Awake, Goto, Return
    <2> QED BY <2>1, <2>2, <2>3, <2>4 DEF Step
  <1>2. call' = call \/ \E c : call' = [call EXCEPT ![f] = c]
    <2>1. CASE Enter(f)
      BY <2>1 DEF Enter
    <2>2. CASE TryDirect(f) \/ Try(f) \/ Arm(f) \/ AddEvent(f) \/ Woken(f)
      BY <2>2 DEF TryDirect, Try, Arm, SystemCall, AddEvent, Woken, Resume, Return
    <2>3. CASE NewSock(f) \/ Get(f) \/ Create(f) \/ Made(f)
      BY <2>3, Zenon DEF NewSock, Get, Create, Made, Return
    <2>4. CASE TryConnect(f)
      BY <2>4, Zenon DEF TryConnect
    <2>5. CASE SoError(f) \/ Connected(f) \/ Del(f) \/ CloseFile(f) \/ Closed(f) \/ Awake(f)
      BY <2>5 DEF SoError, Connected, Del, CloseFile, Closed, Awake, Return
    <2> QED BY <2>1, <2>2, <2>3, <2>4, <2>5 DEF Step
  <1>3. cut' = cut \/ cut' = cut \ {f}
    <2>1. CASE Enter(f) \/ TryDirect(f) \/ Try(f) \/ Arm(f) \/ AddEvent(f) \/ Woken(f)
      BY <2>1 DEF Enter, TryDirect, Try, Arm, AddEvent, Woken, timerVars
    <2>2. CASE NewSock(f) \/ Get(f) \/ Create(f) \/ Made(f) \/ TryConnect(f)
      BY <2>2, Zenon DEF NewSock, Get, Create, Made, TryConnect, timerVars
    <2>3. CASE SoError(f) \/ Connected(f) \/ Del(f) \/ CloseFile(f) \/ Closed(f) \/ Awake(f)
      BY <2>3 DEF SoError, Connected, Del, CloseFile, Closed, Awake, timerVars
    <2> QED BY <2>1, <2>2, <2>3 DEF Step
  <1> QED BY <1>0, <1>1, <1>2, <1>3

\* The fiber that takes a step of its call.
LEMMA ConnectGoes ==
  ASSUME Waits, LinkStep, TypeKernel', NEW f \in Fiber, ConnectRight(f), Step(f)
  PROVE  ConnectRight(f)'
  <1>0. pc \in [Fiber -> PC] /\ call \in [Fiber -> CallRec] /\ file \in [Fd -> FileRec]
        /\ sock \in [Sock -> SockRec]
    BY DEF Waits, TypeKernel, TypeWaits
  <1>1. ASSUME Return(f) PROVE ConnectRight(f)'
    <2>1. pc'[f] = "idle" /\ call'[f].op = "none"
      BY <1>0, <1>1 DEF Return, Goto, NoCall
    <2> QED BY <2>1, ConnectLeaves DEF Attempted, OnlyConnect
  <1>2. ASSUME NEW to \in PC, Goto(f, to), call' = call, to \notin Attempted,
               to \in OnlyConnect => call[f].op = "connect",
               call[f].op = "connect" => to \notin {"enter", "direct", "try"}
        PROVE  ConnectRight(f)'
    <2>1. pc'[f] = to /\ call'[f] = call[f]
      BY <1>0, <1>2 DEF Goto
    <2>2. call[f].op = "connect" => call[f].event = "WRITE"
      BY DEF ConnectRight
    <2> QED BY <1>2, <2>1, <2>2, ConnectLeaves
  <1>3. CASE TryDirect(f) \/ Try(f)
    <2>1. pc[f] \in {"direct", "try"}
      BY <1>3 DEF TryDirect, Try, At
    <2>2. call[f].op # "connect"
      BY <2>1 DEF ConnectRight
    <2>3. Return(f) \/ (Goto(f, "arm") /\ call' = call)
      BY <1>3 DEF TryDirect, Try, SystemCall
    <2>4. ASSUME Goto(f, "arm"), call' = call PROVE ConnectRight(f)'
      BY <1>0, <2>2, <2>4 DEF Goto, ConnectRight, OnlyConnect
    <2> QED BY <2>3, <2>4, <1>1
  <1>4. CASE Enter(f)
    <2>1. pc[f] = "enter"
      BY <1>4 DEF Enter, At
    <2>2. call[f].op # "connect"
      BY <2>1 DEF ConnectRight
    <2>3. call'[f].op = call[f].op
      BY <1>4, <1>0 DEF Enter, CallRec
    <2>4. pc'[f] \in {"enter", "direct", "try"}
      BY <1>4, <1>0, <2>1 DEF Enter, Goto
    <2> QED BY <2>2, <2>3, <2>4 DEF ConnectRight, OnlyConnect
  <1>5. CASE Arm(f)
    <2>1. /\ pc[f] = "arm" /\ pc'[f] = "add" /\ call' = call /\ file' = file /\ cut' = cut
      BY <1>5, <1>0 DEF Arm, At, Goto, kernelVars
    <2> QED BY <2>1 DEF ConnectRight, OnlyConnect, Attempted, HasFile
  <1>6. CASE AddEvent(f)
    <2> DEFINE d == call[f].fd
    <2>1. pc[f] = "add" /\ file' = file
      BY <1>6 DEF AddEvent, At, kernelVars
    <2>2. \/ pc' = pc /\ call' = call /\ cut' = cut
          \/ Goto(f, "wait") /\ call' = call
          \/ Return(f)
          \/ /\ ~file[d].open /\ call[f].op = "connect" /\ Goto(f, "soerror") /\ call' = call
      BY <1>6 DEF AddEvent
    <2>3. CASE pc' = pc /\ call' = call /\ cut' = cut
      BY <2>1, <2>3, ConnectStays DEF SameCall
    <2>4. CASE Goto(f, "wait") /\ call' = call
      <3>1. pc'[f] = "wait"
        BY <1>0, <2>4 DEF Goto
      <3> QED BY <2>1, <2>4, <3>1 DEF ConnectRight, OnlyConnect, Attempted, HasFile
    <2>5. CASE ~file[d].open /\ call[f].op = "connect" /\ Goto(f, "soerror") /\ call' = call
      <3>1. pc'[f] = "soerror" /\ ~HasFile(f)'
        BY <1>0, <2>1, <2>5 DEF Goto, HasFile
      <3> QED BY <2>1, <2>5, <3>1 DEF ConnectRight, OnlyConnect, Attempted
    <2> QED BY <2>2, <2>3, <2>4, <2>5, <1>1
  <1>7. CASE Woken(f)
    <2>1. pc[f] = "woken" /\ file' = file /\ cut' = cut
      BY <1>7 DEF Woken, At, kernelVars
    <2>2. \/ Return(f)
          \/ call[f].op # "connect" /\ Goto(f, "try") /\ call' = call
          \/ call[f].op = "connect" /\ Goto(f, "close") /\ call' = call
          \/ call[f].op = "connect" /\ Goto(f, "soerror") /\ call' = call
      BY <1>7 DEF Woken, Resume
    <2>3. CASE call[f].op # "connect" /\ Goto(f, "try") /\ call' = call
      BY <2>3, <1>2 DEF PC, Attempted, OnlyConnect
    <2>4. CASE call[f].op = "connect" /\ Goto(f, "close") /\ call' = call
      BY <2>4, <1>2 DEF PC, Attempted, OnlyConnect
    <2>5. CASE call[f].op = "connect" /\ Goto(f, "soerror") /\ call' = call
      <3>1. pc'[f] = "soerror"
        BY <1>0, <2>5 DEF Goto
      <3> QED BY <2>1, <2>5, <3>1 DEF ConnectRight, OnlyConnect, Attempted, HasFile, Settled
    <2> QED BY <2>2, <2>3, <2>4, <2>5, <1>1
  <1>8. CASE SoError(f)
    <2>1. /\ pc[f] = "soerror" /\ file' = file /\ cut' = cut /\ call' = call
          /\ call[f].op = "connect"
      BY <1>8 DEF SoError, At, kernelVars, timerVars, ConnectRight, OnlyConnect
    <2>2. CASE file[call[f].fd].open /\ file[call[f].fd].link # "refused"
      <3>1. pc'[f] = "connected"
        BY <1>0, <1>8, <2>2 DEF SoError, Goto
      <3> QED BY <2>1, <2>2, <3>1 DEF ConnectRight, OnlyConnect, Attempted, HasFile, Settled
    <2>3. CASE ~(file[call[f].fd].open /\ file[call[f].fd].link # "refused")
      <3>1. Goto(f, "close")
        BY <1>8, <2>3 DEF SoError
      <3> QED BY <3>1, <2>1, <1>2 DEF PC, Attempted, OnlyConnect
    <2> QED BY <2>2, <2>3
  <1>9. CASE NewSock(f)
    <2>1. pc[f] = "socket" /\ call[f].op = "connect" /\ call[f].event = "WRITE"
      BY <1>9, Zenon DEF NewSock, At, ConnectRight, OnlyConnect
    <2>2. Return(f) \/ (Goto(f, "get") /\ \E d \in Fd : call' = [call EXCEPT ![f].fd = d])
      BY <1>9, Zenon DEF NewSock
    <2>3. ASSUME Goto(f, "get"), NEW d \in Fd, call' = [call EXCEPT ![f].fd = d]
          PROVE  ConnectRight(f)'
      <3>1. pc'[f] = "get" /\ call'[f].op = "connect" /\ call'[f].event = "WRITE"
        BY <1>0, <2>1, <2>3 DEF Goto, CallRec
      <3> QED BY <3>1, ConnectLeaves DEF Attempted
    <2> QED BY <2>2, <2>3, <1>1
  <1>10. CASE Get(f) \/ Create(f) \/ Made(f)
    <2>1. pc[f] \in {"get", "create", "made"} /\ call' = call
      BY <1>10 DEF Get, Create, Made, At
    <2>2. call[f].op = "connect" /\ call[f].event = "WRITE"
      BY <2>1 DEF ConnectRight, OnlyConnect
    <2>3. pc'[f] \in {"create", "made", "connect"}
      BY <1>10, <1>0 DEF Get, Create, Made, Goto, At
    <2> QED BY <2>1, <2>2, <2>3, ConnectLeaves DEF Attempted
  <1>11. CASE TryConnect(f)
    <2> DEFINE d == sock[call[f].s].fd
    <2>1. pc[f] = "connect" /\ call[f].op = "connect" /\ call[f].event = "WRITE"
      BY <1>11, Zenon DEF TryConnect, At, ConnectRight, OnlyConnect
    <2>2. d \in Fd \cup {Bad}
      BY <2>1, <1>0 DEF Waits, Fibers, FiberRight, SockRec
    <2>3. \/ pc' = pc /\ call' = call
          \/ Goto(f, "close") /\ call' = call
          \/ /\ d # Bad
             /\ \E link \in {"up", "refused", "pending"} :
                   /\ file' = [file EXCEPT ![d].link = link,
                                           ![d].ready = IF link = "pending" THEN {}
                                                        ELSE {"WRITE"}]
                   /\ Goto(f, CASE link = "up" -> "connected"
                                [] link = "pending" /\ ~table[d].user -> "arm"
                                [] OTHER -> "close")
             /\ \E timed \in BOOLEAN :
                   call' = [call EXCEPT ![f].fd = d, ![f].timed = timed, ![f].gen = file[d].gen]
      BY <1>11, Zenon DEF TryConnect, OutOfTable
    <2>4. CASE pc' = pc /\ call' = call
      BY <2>1, <2>4, ConnectLeaves DEF Attempted
    <2>5. CASE Goto(f, "close") /\ call' = call
      BY <2>1, <2>5, <1>2 DEF PC, Attempted, OnlyConnect
    <2>6. ASSUME d # Bad, NEW link \in {"up", "refused", "pending"}, NEW ready, NEW timed,
                 file' = [file EXCEPT ![d].link = link, ![d].ready = ready],
                 Goto(f, CASE link = "up" -> "connected"
                           [] link = "pending" /\ ~table[d].user -> "arm"
                           [] OTHER -> "close"),
                 call' = [call EXCEPT ![f].fd = d, ![f].timed = timed, ![f].gen = file[d].gen]
          PROVE  ConnectRight(f)'
      <3>0. d \in Fd
        BY <2>2, <2>6
      <3> HIDE DEF d
      <3>1. /\ call'[f].op = "connect" /\ call'[f].event = "WRITE" /\ call'[f].fd = d
            /\ call'[f].gen = file[d].gen
        BY <1>0, <2>1, <2>6 DEF CallRec
      <3>2. file'[d].link = link /\ file'[d].gen = file[d].gen /\ file[d].gen \in Nat
        BY <1>0, <3>0, <2>6 DEF FileRec
      <3>3. pc'[f] \in {"connected", "arm", "close"} /\ (pc'[f] = "connected" => link = "up")
        BY <1>0, <2>6 DEF Goto
      <3> QED BY <3>1, <3>2, <3>3 DEF ConnectRight
    <2> QED BY <2>3, <2>4, <2>5, <2>6, Zenon
  <1>12. CASE CloseCancel(f)
    <2> DEFINE d == sock[call[f].s].fd
    <2>1. pc[f] = "close" /\ Shut(f, d, Cancelled(d), Cancelled(d))
      BY <1>12 DEF CloseCancel, At
    <2>2. CASE d = Bad
      BY <2>1, <2>2, <1>1 DEF Shut
    <2>3. CASE d # Bad
      <3>1. pc'[f] = "del" /\ call' = [call EXCEPT ![f].fd = d]
        BY <2>1, <2>3 DEF Shut
      <3>2. call'[f].op = call[f].op /\ call'[f].event = call[f].event
        BY <3>1, <1>0 DEF CallRec
      <3> QED BY <3>1, <3>2, ConnectLeaves DEF Attempted, OnlyConnect, ConnectRight
    <2> QED BY <2>2, <2>3
  <1>13. CASE Del(f) \/ CloseFile(f)
    <2>1. call' = call /\ \E to \in {"close_f", "closed"} : Goto(f, to)
      BY <1>13 DEF Del, CloseFile
    <2> QED BY <2>1, <1>2 DEF PC, Attempted, OnlyConnect
  <1>14. CASE Connected(f) \/ Closed(f) \/ Awake(f)
    BY <1>14, <1>1 DEF Connected, Closed, Awake
  <1> QED BY <1>3, <1>4, <1>5, <1>6, <1>7, <1>8, <1>9, <1>10, <1>11, <1>12, <1>13, <1>14 DEF Step

\* Waiting fibers that a cancel resumes are in cut; the others stay.
LEMMA CancelConnects ==
  ASSUME Waits, LinkStep, LinksRight', TypeKernel', NEW d \in Fd, NEW events \in SUBSET Event,
         NEW g \in Fiber, ConnectRight(g), SameCall(g), cut' = cut \cup Waiting(d, events),
         pc'[g] = IF g \in Waiting(d, events) THEN "woken" ELSE pc[g]
  PROVE  ConnectRight(g)'
  <1>1. CASE g \in Waiting(d, events)
    <2>1. pc[g] = "wait"
      BY <1>1, WokenWaited
    <2> QED BY <1>1, <2>1, ConnectWoken
  <1>2. CASE g \notin Waiting(d, events)
    BY <1>2, ConnectStays
  <1> QED BY <1>1, <1>2

\* The same for cancelEvent, which does nothing on a closed descriptor.
LEMMA CancelledConnects ==
  ASSUME Waits, LinkStep, LinksRight', TypeKernel', NEW d \in Fd \cup {Bad}, NEW e \in Event,
         Cancel(d, {e}), NEW g \in Fiber, ConnectRight(g), SameCall(g)
  PROVE  ConnectRight(g)'
  <1>1. CASE d # Bad /\ file[d].open
    <2>1. Wake(d, {e}) /\ cut' = cut \cup Waiting(d, {e})
      BY <1>1 DEF Cancel
    <2>2. pc'[g] = IF g \in Waiting(d, {e}) THEN "woken" ELSE pc[g]
      BY <2>1, Zenon DEF Wake
    <2>3. {e} \in SUBSET Event /\ d \in Fd
      BY <1>1
    <2> QED BY <2>1, <2>2, <2>3, CancelConnects
  <1>2. CASE ~(d # Bad /\ file[d].open)
    <2>1. pc' = pc /\ cut' = cut
      BY <1>2 DEF Cancel
    <2> QED BY <2>1, ConnectStays
  <1> QED BY <1>1, <1>2

\* Every step of a fiber.
LEMMA StepConnects ==
  ASSUME Waits, Connects, LinkStep, LinksRight', TypeKernel', NEW f \in Fiber, Step(f),
         NEW g \in Fiber
  PROVE  ConnectRight(g)'
  <1>0. ConnectRight(g) /\ call \in [Fiber -> CallRec]
    BY DEF Connects, Waits, TypeWaits
  <1>1. CASE g = f
    BY <1>0, <1>1, ConnectGoes
  <1>2. CASE g # f /\ ~CloseCancel(f)
    BY <1>0, <1>2, OthersStay, ConnectStays DEF SameCall
  <1>3. CASE g # f /\ CloseCancel(f)
    <2> DEFINE d == sock[call[f].s].fd
    <2>1. Shut(f, d, Cancelled(d), Cancelled(d)) /\ pc[f] = "close" /\ timers' = timers
      BY <1>3 DEF CloseCancel, At
    <2>2. d \in Fd \cup {Bad}
      BY <2>1 DEF Waits, TypeKernel, Fibers, FiberRight, SockRec
    <2>3. call'[g] = call[g]
      BY <1>0, <1>3, <2>1 DEF Shut, Return
    <2>4. CASE d = Bad
      <3>1. pc'[g] = pc[g] /\ cut' = cut
        BY <1>3, <2>1, <2>4 DEF Shut, Return, Goto, Waits, TypeWaits
      <3> QED BY <1>0, <2>3, <3>1, ConnectStays DEF SameCall
    <2>5. CASE d # Bad
      <3>1. /\ cut' = cut \cup Cancelled(d)
            /\ pc'[g] = IF g \in Cancelled(d) THEN "woken" ELSE pc[g]
        BY <1>3, <2>1, <2>5 DEF Shut
      <3>2. \E events \in SUBSET Event : Cancelled(d) = Waiting(d, events)
        <4>1. Waiting(d, {}) = {}
          BY DEF Waiting
        <4> QED BY <4>1 DEF Cancelled
      <3>3. PICK events \in SUBSET Event : Cancelled(d) = Waiting(d, events)
        BY <3>2
      <3> QED BY <1>0, <2>2, <2>3, <2>5, <3>1, <3>3, CancelConnects DEF SameCall
    <2> QED BY <2>4, <2>5
  <1> QED BY <1>1, <1>2, <1>3

\* Every call that is made.
LEMMA CallConnects ==
  ASSUME Waits, Connects, LinkStep, LinksRight', TypeKernel', NEW f \in Fiber, Call(f),
         NEW g \in Fiber
  PROVE  ConnectRight(g)'
  <1>0. /\ ConnectRight(g) /\ call \in [Fiber -> CallRec] /\ pc \in [Fiber -> PC]
        /\ sock \in [Sock -> SockRec]
    BY DEF Connects, Waits, TypeWaits, TypeKernel
  <1>1. ASSUME call' = call, pc' = pc, cut' = cut PROVE ConnectRight(g)'
    BY <1>0, <1>1, ConnectStays DEF SameCall
  <1>2. ASSUME cut' = cut, NEW to \in PC, NEW c, pc' = [pc EXCEPT ![f] = to],
               call' = [call EXCEPT ![f] = c], to \notin Attempted,
               to \in OnlyConnect => c.op = "connect",
               c.op = "connect" => c.event = "WRITE" /\ to \notin {"enter", "direct", "try"}
        PROVE  ConnectRight(g)'
    <2>1. CASE g = f
      BY <2>1, <1>0, <1>2, ConnectLeaves
    <2>2. CASE g # f
      BY <2>2, <1>0, <1>2, ConnectStays DEF SameCall
    <2> QED BY <2>1, <2>2
  <1>3. CASE Sleep(f)
    <2> DEFINE c == [NoCall EXCEPT !.op = "sleep", !.n = serial + 1]
    <2>1. cut' = cut /\ pc' = [pc EXCEPT ![f] = "sleep"] /\ call' = [call EXCEPT ![f] = c]
      BY <1>3 DEF Sleep, Goto
    <2>2. c.op = "sleep" /\ "sleep" \in PC /\ "sleep" \notin Attempted \cup OnlyConnect
      BY DEF NoCall, PC, Attempted, OnlyConnect
    <2> HIDE DEF c
    <2> QED BY <2>1, <2>2, <1>2
  <1>4. ASSUME NEW op \in {"recv", "send", "connect", "close"}, NEW s, NEW event,
               NEW to \in {"enter", "connect", "socket", "close"}, Begin(f, op, s, event, to),
               op = "connect" <=> to \in {"connect", "socket"},
               op = "connect" => event = "WRITE"
        PROVE  ConnectRight(g)'
    <2> DEFINE c == [NoCall EXCEPT !.op = op, !.s = s, !.event = event, !.n = serial + 1]
    <2>1. cut' = cut /\ pc' = [pc EXCEPT ![f] = to] /\ call' = [call EXCEPT ![f] = c]
      BY <1>4 DEF Begin, Goto, timerVars
    <2>2. c.op = op /\ c.event = event
      BY DEF NoCall
    <2>3. to \in PC /\ to \notin Attempted /\ (to \in OnlyConnect => to \in {"connect", "socket"})
      BY <1>4 DEF PC, Attempted, OnlyConnect
    <2> HIDE DEF c
    <2>4. to \in OnlyConnect => c.op = "connect"
      BY <1>4, <2>2, <2>3
    <2>5. c.op = "connect" => c.event = "WRITE" /\ to \notin {"enter", "direct", "try"}
      BY <1>4, <2>2, <2>3
    <2> QED BY <2>1, <2>3, <2>4, <2>5, <1>2
  <1>5. ASSUME NEW s \in Sock, Recv(f, s) \/ Send(f, s) \/ Connect(f, s) \/ Close(f, s)
        PROVE  ConnectRight(g)'
    <2>1. CASE Recv(f, s) \/ Send(f, s) \/ Close(f, s)
      <3>1. \E op \in {"recv", "send", "close"}, event \in Event, to \in {"enter", "close"} :
               Begin(f, op, s, event, to)
        BY <2>1, Zenon DEF Recv, Send, Close, Event
      <3> QED BY <3>1, <1>4
    <2>2. CASE Connect(f, s)
      <3>1. \E to \in {"connect", "socket"} : Begin(f, "connect", s, "WRITE", to)
        BY <2>2 DEF Connect
      <3> QED BY <3>1, <1>4
    <2> QED BY <1>5, <2>1, <2>2
  <1>6. ASSUME NEW s \in Sock, NEW e \in Cancels, CancelCall(f, s, e) PROVE ConnectRight(g)'
    <2>1. Cancel(sock[s].fd, {e}) /\ call' = call
      BY <1>6 DEF CancelCall
    <2>2. sock[s].fd \in Fd \cup {Bad} /\ e \in Event
      BY <1>0, HookAssumption DEF SockRec
    <2> QED BY <2>1, <2>2, <1>0, CancelledConnects DEF SameCall
  <1>7. ASSUME NEW s \in Sock, \/ \E e \in Event : SetTimeout(f, s, e)
                               \/ \E b : SetFlags(f, s, b) \/ Ioctl(f, s, b)
        PROVE  ConnectRight(g)'
    BY <1>7, <1>1 DEF SetTimeout, SetFlags, Ioctl, timerVars
  <1> QED BY <1>3, <1>5, <1>6, <1>7 DEF Call

\* Timers, epoll and the peers.
LEMMA EnvironmentConnects ==
  ASSUME Waits, Connects, LinkStep, LinksRight', TypeKernel',
         \/ \E t \in timers : Expire(t)
         \/ \E t \in expired : Timeout(t)
         \/ \E d \in Fd : Arrive(d) \/ \E e \in Event : Deliver(d, e)
         \/ UNCHANGED vars,
         NEW g \in Fiber
  PROVE  ConnectRight(g)'
  <1>0. /\ ConnectRight(g) /\ call \in [Fiber -> CallRec] /\ pc \in [Fiber -> PC]
    BY DEF Connects, Waits, TypeWaits
  <1>1. ASSUME UNCHANGED <<call, pc, cut>> PROVE ConnectRight(g)'
    BY <1>0, <1>1, ConnectStays DEF SameCall
  <1>2. ASSUME NEW t \in expired, Timeout(t) PROVE ConnectRight(g)'
    <2>0. t.f \in Fiber
      BY DEF Waits, TypeWaits
    <2>1. SameCall(g)
      BY <1>2, <1>0, <2>0 DEF Timeout, Callback, CallRec, SameCall
    <2>2. CASE pc[t.f] = "sleep" /\ Lives(t)
      <3>1. pc' = [pc EXCEPT ![t.f] = "awake"] /\ cut' = cut /\ call' = call
        BY <1>2, <2>2 DEF Timeout, Callback
      <3>2. CASE g = t.f
        <4>1. pc'[g] = "awake" /\ (call[g].op = "connect" => call[g].event = "WRITE")
          BY <1>0, <3>1, <3>2 DEF ConnectRight
        <4> QED BY <4>1, <3>1, ConnectLeaves DEF Attempted, OnlyConnect
      <3>3. CASE g # t.f
        BY <1>0, <2>1, <3>1, <3>3, ConnectStays
      <3> QED BY <3>2, <3>3
    <2>3. CASE ~(pc[t.f] = "sleep" /\ Lives(t))
      <3>1. \/ Cancel(call[t.f].fd, {call[t.f].event})
            \/ pc' = pc /\ cut' = cut
        BY <1>2, <2>3 DEF Timeout, Callback
      <3>2. call[t.f].fd \in Fd \cup {Bad} /\ call[t.f].event \in Event
        BY <1>0, <2>0 DEF CallRec
      <3>3. CASE Cancel(call[t.f].fd, {call[t.f].event})
        BY <1>0, <2>1, <3>2, <3>3, CancelledConnects
      <3>4. CASE pc' = pc /\ cut' = cut
        BY <1>0, <2>1, <3>4, ConnectStays
      <3> QED BY <3>1, <3>3, <3>4
    <2> QED BY <2>2, <2>3
  <1>3. ASSUME NEW d \in Fd, NEW e \in Event, Deliver(d, e) PROVE ConnectRight(g)'
    <2>1. /\ Wake(d, {e}) /\ cut' = cut /\ file' = file /\ call' = call
          /\ e \in file[d].ready
      BY <1>3 DEF Deliver, timerVars, kernelVars
    <2>2. pc'[g] = IF g \in Waiting(d, {e}) THEN "woken" ELSE pc[g]
      BY <2>1, Zenon DEF Wake
    <2>3. CASE g \in Waiting(d, {e})
      <3>1. pc[g] = "wait" /\ call[g].fd = d /\ call[g].event = e
        BY <2>3 DEF Waiting, Waits, WaitersTrue
      <3> QED BY <1>0, <2>1, <2>2, <2>3, <3>1, ConnectWoken DEF SameCall
    <2>4. CASE g \notin Waiting(d, {e})
      BY <1>0, <2>1, <2>2, <2>4, ConnectStays DEF SameCall
    <2> QED BY <2>3, <2>4
  <1>4. ASSUME NEW t \in timers, Expire(t) PROVE ConnectRight(g)'
    BY <1>4, <1>1 DEF Expire
  <1>5. ASSUME NEW d \in Fd, Arrive(d) PROVE ConnectRight(g)'
    BY <1>5, <1>1 DEF Arrive, timerVars
  <1>6. CASE UNCHANGED vars
    BY <1>6, <1>1 DEF vars
  <1> QED BY <1>2, <1>3, <1>4, <1>5, <1>6

\* Every step keeps Connects.
LEMMA ConnectsNext == ASSUME Waits, Connects, [Next]_vars PROVE Connects'
  <1>1. LinksRight' /\ LinkStep /\ TypeKernel'
    BY LinksNext, KernelNext DEF Connects
  <1>2. ASSUME NEW g \in Fiber PROVE ConnectRight(g)'
    BY <1>1, StepConnects, CallConnects, EnvironmentConnects DEF Next
  <1> QED BY <1>1, <1>2 DEF Connects

\* connect() reports success only for a connection that is there, or when a cancel ended
\* its wait: for any threads, fibers, sockets and descriptors, whichever numbers the
\* kernel gives out again and whatever is cancelled, closed or timed out meanwhile.
THEOREM ConnectIsTrue == Spec => []ConnectMeansConnected
  <1>1. Init => SleepOnce
    BY DEF Init, SleepOnce
  <1>2. Init => Connects
    <2> SUFFICES ASSUME Init PROVE Connects
      OBVIOUS
    <2>1. \A d \in Fd : file[d].ready = {}
      BY DEF Init, NoFile
    <2>2. \A f \in Fiber : pc[f] = "idle" /\ call[f].op = "none"
      BY DEF Init, NoCall
    <2> QED BY <2>1, <2>2 DEF Connects, LinksRight, ConnectRight, OnlyConnect
  <1>3. Connects => ConnectMeansConnected
    BY DEF Connects, ConnectRight, OnlyConnect, ConnectMeansConnected
  <1> QED BY <1>1, <1>2, <1>3, WaitsInit, WaitsNext, SleepOnceNext, ConnectsNext, PTL DEF Spec

==============================================================================
