------------------------------ MODULE TcpServer ------------------------------
(***************************************************************************)
(* TcpServer: bind, start, the accept fibers, stop and its task.           *)
(*                                                                         *)
(* m_acceptWorker has several threads (Parallel: by default it is          *)
(* IOManager::GetThis(), which has two in every test), or one: then its    *)
(* fibers and the task of stop() change places only where accept() waits.  *)
(* bind, start, stop and the clients belong to other threads.  What a      *)
(* connection's fiber does is up to the module that extends this one       *)
(* (handleClient is virtual).                                              *)
(***************************************************************************)
EXTENDS Integers, FiniteSets

CONSTANTS Socks,        \* listening sockets, each bound at most once
          Clients,      \* one connection each
          MaxStarts,    \* calls of start() (a bound of the model)
          Parallel,     \* the accept worker has several threads
          Env           \* what may happen to the server that it does not survive: a
                        \* subset of EnvChoices

EnvChoices == {"bind_started", "restart", "stale_context", "pipelining", "body_stall", "cut"}

ASSUME EnvAssumption == Env \subseteq EnvChoices /\ Parallel \in BOOLEAN

VARIABLES
    m_isStop, m_socks,
    lst,        \* every socket: "unused", "listening", "closed"
    acc,        \* the fibers in startAccept, with their socket and where they are
    task,       \* the task of stop(): "none", "queued", the call it makes next
                \* ("cancelAll", "close", "close_f"), "done"
    todo,       \* the sockets it has not closed yet
    starts,     \* calls of start() that had an effect
    fails,      \* the caller's vector of addresses that could not be bound
    bound,      \* bind's last result, and whether every address was really bound
    stage,      \* a connection: "out", "backlog", "head", "body", "handle", "reply",
                \* "closed", or "lost" (accepted and forgotten)
    via         \* the socket a connection came by

tcpVars == <<m_isStop, m_socks, lst, acc, task, todo, starts, fails, bound, stage, via>>

InitTcp ==
    /\ m_isStop = TRUE
    /\ m_socks = {}
    /\ lst = [s \in Socks |-> "unused"]
    /\ acc = {}
    /\ task = "none"
    /\ todo = {}
    /\ starts = 0
    /\ fails = {}
    /\ bound = [result |-> TRUE, real |-> TRUE]
    /\ stage = [c \in Clients |-> "out"]
    /\ via = [c \in Clients |-> CHOOSE s \in Socks : TRUE]

Backlog(s) == {c \in Clients : stage[c] = "backlog" /\ via[c] = s}

Alive(a) == a.at # "ended"

\* It is registered for READ: "late" if it registered between the cancelAll and the
\* close_f of the hooked close(), which leaves it to nobody.
Waits(a) == a.at \in {"waiting", "late"}

TaskRuns == task \in {"cancelAll", "close", "close_f"}

\* stop() has been called and its task is not over.
Stopping == task = "queued" \/ TaskRuns

\* Sockets some accept fiber still refers to.
Held == {a.sock : a \in {x \in acc : Alive(x)}}

\* Closing a listening socket ends the connections nobody has accepted.
Refuse(closed) ==
    stage' = [c \in Clients |->
                IF stage[c] = "backlog" /\ via[c] \in closed THEN "closed" ELSE stage[c]]

\* bind() of some addresses, of which bad cannot be bound.  One failure and m_socks is
\* cleared, earlier sockets included; a socket nobody else refers to is closed.  The
\* vector with the failures is a new one, or the one the caller has used before.
Bind(ss, bad, reuse) ==
    LET failed == IF reuse THEN fails \cup bad ELSE bad
        dropped == IF failed = {} THEN {} ELSE (m_socks \cup ss) \ Held
    IN  /\ (m_isStop /\ ~Stopping) \/ "bind_started" \in Env
        /\ \A s \in ss : lst[s] = "unused"
        /\ fails' = failed
        /\ m_socks' = IF failed = {} THEN m_socks \cup ss ELSE {}
        /\ lst' = [s \in Socks |-> IF s \in dropped THEN "closed"
                                   ELSE IF s \in ss THEN "listening" ELSE lst[s]]
        /\ bound' = [result |-> failed = {}, real |-> bad = {}]
        /\ Refuse(dropped)
        /\ UNCHANGED <<m_isStop, acc, task, todo, starts, via>>

\* A call when the server is started already returns at once.
Start ==
    /\ m_isStop /\ starts < MaxStarts
    /\ "restart" \in Env \/ (~Stopping /\ \A a \in acc : ~Alive(a))
    /\ m_isStop' = FALSE
    /\ starts' = starts + 1
    /\ acc' = acc \cup {[sock |-> s, run |-> starts + 1, at |-> "check"] : s \in m_socks}
    /\ UNCHANGED <<m_socks, lst, task, todo, fails, bound, stage, via>>

\* Not called again before its task is over (a bound of the model), nor where it would
\* change nothing: on a stopped server without sockets.
Stop ==
    /\ ~Stopping /\ (~m_isStop \/ m_socks # {})
    /\ m_isStop' = TRUE
    /\ task' = "queued"
    /\ UNCHANGED <<m_socks, lst, acc, todo, starts, fails, bound, stage, via>>

Moved(a, at) == (acc \ {a}) \cup {[a EXCEPT !.at = at]}


\* IOManager::cancelAll: a fiber that waits in accept() on the socket goes on.
CancelAll(s) ==
    {IF a.sock = s /\ Waits(a) THEN [a EXCEPT !.at = "ready"] ELSE a : a \in acc}

\* Faulty variant: a socket that is not connected is taken for a closed one.
LeaveOpen(s) == UNCHANGED <<lst, stage>>

\* close_f of a listening socket.
CloseFile(s) == lst' = [lst EXCEPT ![s] = "closed"] /\ Refuse({s})

\* The socket the loop of the task has come to.
sock == CHOOSE s \in todo : TRUE

TaskBegins ==
    /\ task = "queued"
    /\ task' = "cancelAll"
    /\ todo' = m_socks
    /\ UNCHANGED <<m_isStop, m_socks, lst, acc, starts, fails, bound, stage, via>>

\* Socket::cancelAll, then the cancelAll of the hooked close().
TaskCancels ==
    /\ task \in {"cancelAll", "close"} /\ todo # {}
    /\ acc' = CancelAll(sock)
    /\ task' = IF task = "cancelAll" THEN "close" ELSE "close_f"
    /\ UNCHANGED <<m_isStop, m_socks, lst, todo, starts, fails, bound, stage, via>>

TaskCloses ==
    /\ task = "close_f"
    /\ CloseFile(sock)
    /\ task' = "cancelAll"
    /\ todo' = todo \ {sock}
    /\ UNCHANGED <<m_isStop, m_socks, acc, starts, fails, bound, via>>

\* m_socks.clear()
TaskEnds ==
    /\ task = "cancelAll" /\ todo = {}
    /\ task' = "done"
    /\ m_socks' = {}
    /\ UNCHANGED <<m_isStop, lst, acc, todo, starts, fails, bound, stage, via>>

StopTask == TaskBegins \/ TaskCancels \/ TaskCloses \/ TaskEnds

\* What becomes of an accepted connection: its fiber is scheduled, or init() finds the
\* context of an earlier file in its place and nobody has the new descriptor.
Accepted == IF "stale_context" \in Env THEN {"head", "lost"} ELSE {"head"}

Registered(s) == IF task = "close_f" /\ s = sock THEN "late" ELSE "waiting"

\* accept(): an error on a closed socket, a client whose fiber is scheduled, or a wait.
Accept(a) ==
    \/ /\ lst[a.sock] = "closed"
       /\ acc' = Moved(a, "check")
       /\ UNCHANGED stage
    \/ \E c \in Backlog(a.sock), st \in Accepted :
        /\ acc' = Moved(a, "check")
        /\ stage' = [stage EXCEPT ![c] = st]
    \/ /\ lst[a.sock] # "closed" /\ Backlog(a.sock) = {}
       /\ acc' = Moved(a, Registered(a.sock))
       /\ UNCHANGED stage

\* One turn of the loop in startAccept.
Turn(a) ==
    /\ a.at = "check"
    /\ IF m_isStop THEN acc' = Moved(a, "ended") /\ UNCHANGED stage ELSE Accept(a)
    /\ UNCHANGED <<m_isStop, m_socks, lst, task, todo, starts, fails, bound, via>>

\* The fiber wakes inside accept() and tries again.
Retry(a) ==
    /\ a.at = "ready" \/ (Waits(a) /\ Backlog(a.sock) # {})
    /\ Accept(a)
    /\ UNCHANGED <<m_isStop, m_socks, lst, task, todo, starts, fails, bound, via>>

AcceptStep(s) ==
    /\ Parallel \/ ~TaskRuns
    /\ \E a \in acc : a.sock = s /\ (Turn(a) \/ Retry(a))

Connect(c, s) ==
    /\ stage[c] = "out" /\ lst[s] = "listening"
    /\ stage' = [stage EXCEPT ![c] = "backlog"]
    /\ via' = [via EXCEPT ![c] = s]
    /\ UNCHANGED <<m_isStop, m_socks, lst, acc, task, todo, starts, fails, bound>>

UserStep(socks) ==
    \/ \E ss \in SUBSET socks \ {{}} : \E bad \in SUBSET ss, reuse \in BOOLEAN : Bind(ss, bad, reuse)
    \/ Start
    \/ Stop
    \/ \E c \in Clients, s \in Socks : Connect(c, s)

------------------------------------------------------------------------------
\* bind() returns true exactly when it has bound every address it was given: a caller
\* that tries again until it is told so gets a server that listens.  (Refuted: the
\* failures of an earlier call are still in the vector.)
BindTold == bound.result = bound.real

\* The server has what listens in its name: no socket listens that stop() would not
\* close, and m_socks has none that does not listen, but for the ones the task of stop()
\* has closed.  And bind() never claims a success it did not have.
ListenersTrue ==
    /\ \A s \in Socks : lst[s] = "listening" => s \in m_socks
    /\ \A s \in m_socks : lst[s] = "listening" \/ (TaskRuns /\ s \notin todo)
    /\ bound.result => bound.real

==============================================================================
