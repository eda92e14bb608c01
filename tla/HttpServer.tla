------------------------------ MODULE HttpServer ------------------------------
(***************************************************************************)
(* HttpServer on TcpServer: the fiber of a connection takes a request from *)
(* the stream (HttpSession::recvRequest), has a servlet answer it and      *)
(* sends the response.                                                     *)
(*                                                                         *)
(* A request is HeadLen units of header and as many units of body as its   *)
(* content-length says; a connection's stream is the requests one after    *)
(* the other, and a read takes any number of units that are there and fit. *)
(* The parser (module HttpParser) consumes the units of the header; a read *)
(* that ends inside a token loses part of it ("cut" in Env), one that ends *)
(* between tokens does not.                                                *)
(***************************************************************************)
EXTENDS TcpServer, ServletDispatch

CONSTANTS HeadLen,      \* units of a header
          MaxBody,      \* most units of a body
          Limits,       \* bounds of the model; a behaviour keeps to one of them: requests
                        \* of a client, their paths and bodies, sockets, servlets added
          BufSize       \* http.request.buffer_size

ASSUME SizeAssumption == HeadLen \in Nat \ {0} /\ BufSize \in Nat \ {0} /\ MaxBody \in Nat
ASSUME LimitsAssumption == \A l \in Limits : l.socks \subseteq Socks /\ l.paths \subseteq Paths

VARIABLES
    limit,      \* the bounds of this behaviour
    m_isKeepalive,
    msgs,       \* client: the requests it has sent, with their path, their content-length
                \* and the place of the stream where they start
    gone,       \* client: it has closed its side
    unsent,     \* client: units it left out of its last request when it closed
    pos,        \* units the server has read from the stream
    rcv,        \* recvRequest and readFixSize: see NewRecv
    answers,    \* the responses sent
    broken,     \* the connections on which a write has failed
    killed      \* SIGPIPE has ended the process

vars == <<tcpVars, dispatchVars, limit, m_isKeepalive, msgs, gone, unsent, pos, rcv, answers,
          broken, killed>>

connVars == <<msgs, gone, unsent, pos, rcv, answers, broken, killed>>

\* recvRequest starts: no header parsed, none cut, no body; left counts what
\* readFixSize waits for and under the places it has gone before its buffer.
NewRecv == [h |-> 0, whole |-> TRUE, req |-> 0, body |-> 0, once |-> TRUE, left |-> 0,
            under |-> 0, slt |-> 0]

Init ==
    /\ InitTcp
    /\ InitDispatch
    /\ limit \in Limits
    /\ m_isKeepalive \in BOOLEAN
    /\ msgs = [c \in Clients |-> <<>>]
    /\ gone = [c \in Clients |-> FALSE]
    /\ unsent = [c \in Clients |-> 0]
    /\ pos = [c \in Clients |-> 0]
    /\ rcv = [c \in Clients |-> NewRecv]
    /\ answers = [c \in Clients |-> <<>>]
    /\ broken = {}
    /\ killed = FALSE

Total(c) ==
    LET ms == msgs[c] IN
    IF ms = <<>> THEN 0 ELSE ms[Len(ms)].start + HeadLen + ms[Len(ms)].body

\* Where the client's request i starts in its stream; the one after the last, where it ends.
Begins(c, i) == IF i <= Len(msgs[c]) THEN msgs[c][i].start ELSE Total(c)

Avail(c) == Total(c) - unsent[c] - pos[c]

Least(a, b) == IF a <= b THEN a ELSE b

\* The request a place of the stream belongs to.
At(c, place) ==
    CHOOSE i \in 1 .. Len(msgs[c]) :
        Begins(c, i) <= place /\ place < Begins(c, i + 1)

Goto(c, st) == stage' = [stage EXCEPT ![c] = st]

KeepTcp == UNCHANGED <<m_isStop, m_socks, lst, acc, task, todo, starts, fails, bound, via>>

KeepServer == KeepTcp /\ UNCHANGED <<dispatchVars, limit, m_isKeepalive>>

------------------------------------------------------------------------------
(* The client *)

\* Without pipelining it waits for the answer before the next request.
Send(c, p, b) ==
    /\ stage[c] \notin {"out", "closed"} /\ ~gone[c]
    /\ Len(msgs[c]) < limit.reqs /\ p \in limit.paths /\ b <= limit.body
    /\ Len(answers[c]) = Len(msgs[c]) \/ "pipelining" \in Env
    /\ msgs' = [msgs EXCEPT ![c] = Append(@, [path |-> p, body |-> b, start |-> Total(c)])]
    /\ UNCHANGED <<tcpVars, dispatchVars, limit, m_isKeepalive, gone, unsent, pos, rcv, answers,
                   broken, killed>>

\* It closes, maybe before it has sent the last n units of a request; or it falls silent
\* there ("body_stall").
Leave(c, n) ==
    /\ stage[c] # "out" /\ ~gone[c] /\ unsent[c] = 0 /\ n <= Avail(c)
    /\ gone' = [gone EXCEPT ![c] = "body_stall" \notin Env]
    /\ unsent' = [unsent EXCEPT ![c] = n]
    /\ UNCHANGED <<tcpVars, dispatchVars, limit, m_isKeepalive, msgs, pos, rcv, answers, broken,
                   killed>>

------------------------------------------------------------------------------
(* recvRequest *)

\* The header of request i has ended; so many units of the body are here, so many left.
Ended(c, i, here, left) ==
    [rcv[c] EXCEPT !.h = HeadLen, !.req = i, !.body = here, !.once = left <= 0,
                   !.left = IF left > 0 THEN left ELSE 0]

Behind(c, n) == n - (HeadLen - rcv[c].h)

\* Faulty variant: the length of the part already here is not subtracted.
FinishedKeepLength(c, n, i) ==
    Ended(c, i, Least(msgs[c][i].body, Behind(c, n)),
          IF msgs[c][i].body > Behind(c, n) THEN msgs[c][i].body ELSE 0)

\* Faulty variant: the rest of a body is not read.
FinishedSkipRest(c, n, i) == Ended(c, i, Least(msgs[c][i].body, Behind(c, n)), 0)

\* Faulty variant: the last unit of the body is missed.
FinishedShort(c, n, i) ==
    Ended(c, i, Least(msgs[c][i].body, Behind(c, n) - 1), msgs[c][i].body - Behind(c, n))

\* The header ends in this read of n units: what is left of them is the body or its
\* beginning, and what is left over after that is dropped.  The rest of the body is
\* read behind the end of the string, whose size stays.
Finished(c, n, i) ==
    Ended(c, i, Least(msgs[c][i].body, Behind(c, n)), msgs[c][i].body - Behind(c, n))

\* One turn of the loop: a read and the parser over it.  A stream that does not go on
\* with the header expected is a parse error, which ends the connection.
Recv(c, n) ==
    LET i == At(c, pos[c])
        k == pos[c] - Begins(c, i)
        r == IF rcv[c].h + n < HeadLen
             THEN [rcv[c] EXCEPT !.h = @ + n, !.whole = @ /\ "cut" \notin Env]
             ELSE Finished(c, n, i)
    IN  /\ stage[c] = "head"
        /\ n \in 1 .. Least(Avail(c), BufSize)
        /\ pos' = [pos EXCEPT ![c] = @ + n]
        /\ IF k # rcv[c].h
           THEN Goto(c, "closed") /\ UNCHANGED rcv
           ELSE /\ rcv' = [rcv EXCEPT ![c] = r]
                /\ Goto(c, IF r.h < HeadLen THEN "head" ELSE IF r.left > 0 THEN "body" ELSE "handle")
        /\ KeepServer
        /\ UNCHANGED <<msgs, gone, unsent, answers, broken, killed>>

\* One turn of readFixSize.
RecvBody(c, n) ==
    /\ stage[c] = "body"
    /\ n \in 1 .. Least(Avail(c), rcv[c].left)
    /\ pos' = [pos EXCEPT ![c] = @ + n]
    /\ rcv' = [rcv EXCEPT ![c].left = @ - n]
    /\ Goto(c, IF rcv[c].left = n THEN "handle" ELSE "body")
    /\ KeepServer
    /\ UNCHANGED <<msgs, gone, unsent, answers, broken, killed>>

\* read() returns 0: the peer has closed.
Eof(c) ==
    /\ stage[c] \in {"head", "body"} /\ gone[c] /\ Avail(c) = 0
    /\ Goto(c, "closed")
    /\ KeepServer
    /\ UNCHANGED connVars

\* read() returns -1 after m_recvTimeout.  recvRequest gives up; readFixSize takes the
\* -1 for a size_t: its offset goes one back and one more is left to read.
Timeout(c) ==
    /\ stage[c] \in {"head", "body"} /\ ~gone[c] /\ Avail(c) = 0
    /\ IF stage[c] = "head"
       THEN Goto(c, "closed") /\ UNCHANGED rcv
       ELSE /\ rcv[c].under < MaxBody
            /\ rcv' = [rcv EXCEPT ![c].left = @ + 1, ![c].under = @ + 1]
            /\ UNCHANGED stage
    /\ KeepServer
    /\ UNCHANGED <<msgs, gone, unsent, pos, answers, broken, killed>>

------------------------------------------------------------------------------
(* handleClient *)

\* ServletDispatch::handle: the look-up, under the lock.
Handle(c) ==
    /\ stage[c] = "handle"
    /\ rcv' = [rcv EXCEPT ![c].slt = getMatchedServlet(msgs[c][rcv[c].req].path)]
    /\ Goto(c, "reply")
    /\ KeepServer
    /\ UNCHANGED <<msgs, gone, unsent, pos, answers, broken, killed>>

\* The servlet has run and sendResponse writes all of the response (the client reads it,
\* or has not reset the connection yet); then another request or close().  The request's
\* m_close is always true, so the response announces the end in any case.
Respond(c) ==
    /\ stage[c] = "reply" /\ c \notin broken
    /\ answers' = [answers EXCEPT ![c] =
            Append(@, [req |-> rcv[c].req, whole |-> rcv[c].whole, body |-> rcv[c].body,
                       once |-> rcv[c].once, close |-> TRUE])]
    /\ rcv' = [rcv EXCEPT ![c] = NewRecv]
    /\ Goto(c, IF m_isKeepalive THEN "head" ELSE "closed")
    /\ KeepServer
    /\ UNCHANGED <<msgs, gone, unsent, pos, broken, killed>>

\* The client has gone and write() returns -1: writeFixSize takes it for a size_t, has
\* one more to write from one place before, and calls write() again.  The connection
\* stays reset; EPIPE comes with SIGPIPE, which nobody handles.
WriteFails(c) ==
    /\ stage[c] = "reply" /\ gone[c]
    /\ \/ c \notin broken /\ broken' = broken \cup {c} /\ UNCHANGED killed
       \/ killed' = TRUE /\ UNCHANGED broken
    /\ KeepServer
    /\ UNCHANGED <<stage, msgs, gone, unsent, pos, rcv, answers>>

ConnStep(c) ==
    \/ \E n \in 1 .. BufSize : Recv(c, n)
    \/ \E n \in 1 .. MaxBody : RecvBody(c, n)
    \/ Eof(c)
    \/ Timeout(c)
    \/ Handle(c)
    \/ Respond(c)
    \/ WriteFails(c)

ClientStep ==
    \E c \in Clients :
        \/ \E p \in Paths, b \in 0 .. MaxBody : Send(c, p, b)
        \/ \E n \in 0 .. HeadLen + MaxBody : Leave(c, n)

Others == UNCHANGED <<dispatchVars, limit, m_isKeepalive, connVars>>

Step ==
    \/ UserStep(limit.socks) /\ Others
    \/ StopTask /\ Others
    \/ \E s \in Socks : AcceptStep(s) /\ Others
    \/ ChangeServlets(limit.adds) /\ UNCHANGED <<tcpVars, limit, m_isKeepalive, connVars>>
    \/ ClientStep
    \/ \E c \in Clients : ConnStep(c)

Next == ~killed /\ Step

\* The schedulers run every fiber that can go on and the timers run out.
Spec ==
    /\ Init /\ [][Next]_vars
    /\ WF_vars(~killed /\ StopTask /\ Others)
    /\ \A s \in Socks : WF_vars(~killed /\ AcceptStep(s) /\ Others)
    /\ \A c \in Clients : WF_vars(~killed /\ ConnStep(c))

------------------------------------------------------------------------------
(* Properties *)

\* Whenever the server starts to wait for a request, the next unit of the stream is the
\* first of one (or there is none): no request's bytes are left over or taken by another.
StreamAligned ==
    \A c \in Clients :
        stage[c] = "head" /\ rcv[c].h = 0 =>
            \E i \in 1 .. Len(msgs[c]) + 1 : pos[c] = Begins(c, i)

\* The answers are in the order of the requests, one each, none skipped, and a servlet
\* sees its own request: the header as it was sent and as much of the body as came with
\* it, which is all of it if the body was there.
AnswersInOrder ==
    \A c \in Clients : \A j \in 1 .. Len(answers[c]) :
        LET a == answers[c][j] IN
        /\ a.req = j /\ a.whole
        /\ a.body <= msgs[c][j].body
        /\ a.once => a.body = msgs[c][j].body

\* readFixSize and writeFixSize return when a read or a write fails: neither goes on
\* with a -1 it takes for a length.  (Refuted, by either.)
ErrorsReturned ==
    \A c \in Clients :
        /\ stage[c] = "body" => rcv[c].under = 0
        /\ stage[c] = "reply" => c \notin broken

\* The body a servlet sees is the body that was sent.  (Refuted: see Finished.)
BodiesWhole ==
    \A c \in Clients : \A j \in 1 .. Len(answers[c]) :
        answers[c][j].body = msgs[c][answers[c][j].req].body

\* A response that announces the end of the connection is followed by it.
CloseKept ==
    \A c \in Clients : \A j \in 1 .. Len(answers[c]) :
        answers[c][j].close => stage[c] = "closed"

\* A request that was sent is answered, or the connection ends: a client never waits
\* for ever, whatever the pieces its request arrives in and whenever the server stops.
RequestsAnswered ==
    \A c \in Clients : \A j \in {l.reqs : l \in Limits} :
        (Len(msgs[c]) >= j /\ stage[c] # "backlog")
            ~> (Len(answers[c]) >= j \/ stage[c] = "closed" \/ killed)

\* A connection that was accepted does not outlive its client.
ConnectionsEnd ==
    \A c \in Clients : (gone[c] /\ stage[c] # "backlog") ~> (stage[c] = "closed" \/ killed)

\* A client gets its answer or the end of its connection, and its connection ends when
\* it goes, at whatever point of a request it does; if it goes before its answer has
\* been written, that may end the server's process instead (WriteFails).
ClientsServed == RequestsAnswered /\ ConnectionsEnd


\* After stop() nothing waits on a listening socket for ever.  (Refuted where the accept
\* worker has several threads: see StopEnds.)
AcceptsReturn ==
    \A s \in Socks :
        (task = "queued" /\ lst[s] = "listening")
            ~> (killed \/ (lst[s] = "closed" /\ \A a \in acc : a.sock = s => ~Alive(a)))

==============================================================================
