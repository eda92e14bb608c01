--------------------------- MODULE HttpServerProofs ---------------------------
(***************************************************************************)
(* Proofs about HttpServer and the TcpServer and ServletDispatch it is made *)
(* of, for any number of sockets, clients, requests and servlets.          *)
(***************************************************************************)
EXTENDS HttpServer, SequencesExt, SequenceTheorems, WellFoundedInduction, TLAPS

\* The list left by erase(it), m_globs', is the rest of it, in order.
LEMMA RemoveAtProperties ==
    ASSUME NEW S, NEW s \in Seq(S), NEW i \in 1 .. Len(s)
    PROVE  /\ RemoveAt(s, i) \in Seq(S)
           /\ Len(RemoveAt(s, i)) = Len(s) - 1
           /\ \A k \in 1 .. Len(s) - 1 :
                 RemoveAt(s, i)[k] = IF k < i THEN s[k] ELSE s[k + 1]
<1> DEFINE a == SubSeq(s, 1, i - 1)
           b == SubSeq(s, i + 1, Len(s))
<1>0. Len(s) \in Nat /\ i \in Nat /\ \A k \in 1 .. Len(s) : s[k] \in S
  BY LenProperties, ElementOfSeq
<1>1. /\ a \in Seq(S)
      /\ Len(a) = i - 1
      /\ \A k \in 1 .. i - 1 : a[k] = s[k]
  <2>1. \A k \in 1 .. i - 1 : s[k] \in S
    BY <1>0
  <2>2. /\ a \in Seq(S)
        /\ Len(a) = IF 1 <= i - 1 THEN i - 1 - 1 + 1 ELSE 0
        /\ \A k \in 1 .. i - 1 - 1 + 1 : a[k] = s[1 + k - 1]
    BY <2>1, <1>0, SubSeqProperties
  <2> QED BY <2>2, <1>0
<1>2. /\ b \in Seq(S)
      /\ Len(b) = Len(s) - i
      /\ \A k \in 1 .. Len(s) - i : b[k] = s[i + k]
  <2>1. \A k \in i + 1 .. Len(s) : s[k] \in S
    BY <1>0
  <2>2. /\ b \in Seq(S)
        /\ Len(b) = IF i + 1 <= Len(s) THEN Len(s) - (i + 1) + 1 ELSE 0
        /\ \A k \in 1 .. Len(s) - (i + 1) + 1 : b[k] = s[(i + 1) + k - 1]
    BY <2>1, <1>0, SubSeqProperties
  <2> QED BY <2>2, <1>0
<1> HIDE DEF a, b
<1>3. /\ a \o b \in Seq(S)
      /\ Len(a \o b) = Len(a) + Len(b)
      /\ \A k \in 1 .. Len(a) + Len(b) :
            (a \o b)[k] = IF k <= Len(a) THEN a[k] ELSE b[k - Len(a)]
  BY <1>1, <1>2, ConcatProperties
<1>4. RemoveAt(s, i) = a \o b
  BY DEF RemoveAt, a, b
<1>5. Len(a) + Len(b) = Len(s) - 1
  BY <1>0, <1>1, <1>2
<1>6. ASSUME NEW k \in 1 .. Len(s) - 1
      PROVE  (a \o b)[k] = IF k < i THEN s[k] ELSE s[k + 1]
  <2>1. CASE k < i
    <3>1. k \in 1 .. i - 1 /\ k <= Len(a) /\ k \in 1 .. Len(a) + Len(b)
      BY <2>1, <1>0, <1>1, <1>5
    <3> QED BY <3>1, <2>1, <1>1, <1>3
  <2>2. CASE ~(k < i)
    <3>1. /\ k - Len(a) \in 1 .. Len(s) - i /\ ~(k <= Len(a))
          /\ k \in 1 .. Len(a) + Len(b) /\ i + (k - Len(a)) = k + 1
      BY <2>2, <1>0, <1>1, <1>5
    <3> QED BY <3>1, <2>2, <1>2, <1>3
  <2> QED BY <2>1, <2>2
<1> QED BY <1>3, <1>4, <1>5, <1>6

\* A set of naturals that is not empty has a least one: the first of a search.
LEMMA LeastExists ==
    ASSUME NEW S \in SUBSET Nat, S # {}
    PROVE  \E i \in S : \A j \in S : i <= j
<1> DEFINE R == OpToRel(<, Nat)
<1>1. IsWellFoundedOn(R, Nat)
  BY NatLessThanWellFounded
<1>2. \A x, y \in Nat : x < y => <<x, y>> \in R
  BY DEF OpToRel
<1> HIDE DEF R
<1>3. PICK i \in S : \A y \in S : ~(<<y, i>> \in R)
  BY <1>1, WFMin
<1>4. \A j \in S : ~(j < i)
  BY <1>2, <1>3
<1>5. \A j \in S : i <= j
  <2> SUFFICES ASSUME NEW j \in S PROVE i <= j
    OBVIOUS
  <2>1. ~(j < i) /\ i \in Nat /\ j \in Nat
    BY <1>4
  <2> QED BY <2>1
<1> QED BY <1>5

------------------------------------------------------------------------------
(* The listening sockets *)

\* The types of what TcpServer keeps of its sockets.
TypeTcp ==
    /\ limit \in Limits
    /\ m_isStop \in BOOLEAN
    /\ starts \in Nat
    /\ lst \in [Socks -> {"unused", "listening", "closed"}]
    /\ acc \in SUBSET [sock : Socks, run : Nat, at : {"check", "waiting", "late", "ready", "ended"}]

\* m_socks are sockets that were bound, among them every one that listens; one that does
\* not has been closed by the task of stop().
Accounted ==
    /\ \A s \in m_socks : s \in Socks /\ lst[s] # "unused"
    /\ \A s \in Socks : lst[s] = "listening" => s \in m_socks
    /\ \A s \in m_socks : lst[s] = "listening" \/ (TaskRuns /\ s \notin todo)

\* The task has every socket that listens before it, and one at hand when it closes.
TaskRight ==
    /\ todo \subseteq Socks
    /\ TaskRuns => \A s \in Socks : lst[s] = "listening" => s \in todo
    /\ task \in {"close", "close_f"} => todo # {}

\* An accept fiber has a socket that was bound; once stop() has done its work, a fiber
\* that has not returned yet holds a closed one.
AcceptOn ==
    /\ \A a \in acc : lst[a.sock] # "unused"
    /\ m_isStop /\ ~Stopping => \A a \in acc : Alive(a) => lst[a.sock] = "closed"

\* bind() has not claimed a success it did not have.
NotBoasted == bound.result => bound.real

Owned == TypeTcp /\ Accounted /\ TaskRight /\ AcceptOn /\ NotBoasted

\* So it is before the first call, when there is no socket and no fiber.
LEMMA OwnedInit == Init => Owned
  BY DEF Init, InitTcp, Owned, TypeTcp, Accounted, TaskRight, TaskRuns, AcceptOn, NotBoasted

\* bind(): what fails is closed, for no fiber holds it; what succeeds is kept.
LEMMA BindOwned ==
  ASSUME "bind_started" \notin Env, Owned, NEW ss \in SUBSET limit.socks,
         NEW bad \in SUBSET ss, NEW reuse \in BOOLEAN, Bind(ss, bad, reuse), Others
  PROVE  Owned'
  <1> USE DEF Owned
  <1> DEFINE failed == IF reuse THEN fails \cup bad ELSE bad
  <1>1. ss \subseteq Socks /\ bad \subseteq ss
    BY LimitsAssumption DEF TypeTcp
  <1>2. m_isStop /\ ~Stopping /\ ~TaskRuns
    BY DEF Bind, Stopping
  <1>3. \A a \in acc : Alive(a) => a.sock \notin m_socks \cup ss
    BY <1>1, <1>2 DEF Bind, AcceptOn, Accounted, TypeTcp
  <1>4. (m_socks \cup ss) \ Held = m_socks \cup ss
    BY <1>3 DEF Held
  <1>5. UNCHANGED <<m_isStop, acc, task, todo, starts, limit>> /\ ~TaskRuns' /\ ~Stopping'
    BY <1>2 DEF Bind, Others, TaskRuns, Stopping
  <1>5a. \A s \in ss : lst[s] = "unused"
    BY DEF Bind
  <1>5b. bad \subseteq failed
    OBVIOUS
  <1>5c. bound' = [result |-> failed = {}, real |-> bad = {}]
    BY DEF Bind
  <1>5d. NotBoasted'
    BY <1>5b, <1>5c DEF NotBoasted
  <1>5e. TaskRight'
    BY <1>5 DEF TaskRight, TaskRuns
  <1>6. CASE failed = {}
    <2>1. /\ m_socks' = m_socks \cup ss
          /\ lst' = [s \in Socks |-> IF s \in ss THEN "listening" ELSE lst[s]]
      BY <1>6 DEF Bind
    <2>2. TypeTcp'
      BY <2>1, <1>5 DEF TypeTcp
    <2>3. Accounted'
      BY <2>1, <1>1, <1>2, <1>5 DEF Accounted, TypeTcp
    <2>4. \A a \in acc : lst'[a.sock] = lst[a.sock]
      BY <2>1, <1>5a, <1>1 DEF AcceptOn, TypeTcp
    <2>5. AcceptOn'
      BY <2>4, <1>2, <1>5 DEF AcceptOn, Alive
    <2> QED BY <2>2, <2>3, <2>5, <1>5d, <1>5e
  <1>7. CASE failed # {}
    <2>1. /\ m_socks' = {}
          /\ lst' = [s \in Socks |-> IF s \in m_socks \cup ss THEN "closed" ELSE lst[s]]
      <3>1. /\ m_socks' = {}
            /\ lst' = [s \in Socks |-> IF s \in m_socks \cup ss THEN "closed"
                                       ELSE IF s \in ss THEN "listening" ELSE lst[s]]
        BY <1>7, <1>4 DEF Bind
      <3> QED BY <3>1
    <2>2. TypeTcp'
      BY <2>1, <1>5 DEF TypeTcp
    <2>3. Accounted'
      BY <2>1, <1>1, <1>5 DEF Accounted, TypeTcp
    <2>4. \A a \in acc : lst[a.sock] # "unused" => lst'[a.sock] # "unused"
      BY <2>1 DEF TypeTcp
    <2>4a. \A a \in acc : lst[a.sock] = "closed" => lst'[a.sock] = "closed"
      BY <2>1 DEF TypeTcp
    <2>5. AcceptOn'
      BY <2>4, <2>4a, <1>2, <1>5 DEF AcceptOn, Alive
    <2> QED BY <2>2, <2>3, <2>5, <1>5d, <1>5e
  <1> QED BY <1>6, <1>7

\* An accept fiber moves; none that has returned comes back.
LEMMA MovedOwned ==
  ASSUME Owned, NEW a \in acc, Alive(a), NEW at \in {"check", "waiting", "late", "ended"},
         acc' = Moved(a, at), UNCHANGED <<m_isStop, m_socks, lst, task, todo, starts, bound, limit>>
  PROVE  Owned'
  <1> USE DEF Owned
  <1> DEFINE b == [a EXCEPT !.at = at]
  <1>1. b \in [sock : Socks, run : Nat, at : {"check", "waiting", "late", "ready", "ended"}]
        /\ b.sock = a.sock
    BY DEF TypeTcp
  <1>2. \A x \in acc' : x \in acc \/ x = b
    BY DEF Moved
  <1> HIDE DEF b
  <1>3. TypeTcp'
    BY <1>1, <1>2 DEF TypeTcp
  <1>4. AcceptOn'
    BY <1>1, <1>2 DEF AcceptOn, Alive, Stopping, TaskRuns
  <1>5. Accounted' /\ TaskRight' /\ NotBoasted'
    BY DEF Accounted, TaskRight, TaskRuns, NotBoasted
  <1> QED BY <1>3, <1>4, <1>5

\* The steps of the task of stop(): a socket leaves todo when it has been closed, and
\* m_socks is cleared when none is left.
LEMMA TaskOwned ==
  ASSUME Owned, StopTask, Others
  PROVE  Owned'
  <1> USE DEF Owned
  <1>1. ASSUME TaskBegins PROVE Owned'
    <2>1. /\ task = "queued" /\ task' = "cancelAll" /\ todo' = m_socks
          /\ UNCHANGED <<m_isStop, m_socks, lst, acc, starts, bound, limit>>
      BY <1>1 DEF TaskBegins, Others
    <2>2. ~TaskRuns /\ TaskRuns' /\ Stopping'
      BY <2>1 DEF TaskRuns, Stopping
    <2>3. TypeTcp' /\ NotBoasted'
      BY <2>1 DEF TypeTcp, NotBoasted
    <2>4. Accounted'
      BY <2>1, <2>2 DEF Accounted
    <2>5. TaskRight'
      BY <2>1, <2>2 DEF TaskRight, Accounted
    <2>6. AcceptOn'
      BY <2>1, <2>2 DEF AcceptOn
    <2> QED BY <2>3, <2>4, <2>5, <2>6
  <1>2. ASSUME TaskCancels PROVE Owned'
    <2> DEFINE Woken(a) == IF a.sock = sock /\ Waits(a)
                           THEN [a EXCEPT !.at = "ready"] ELSE a
    <2>1. /\ task \in {"cancelAll", "close"} /\ todo # {}
          /\ acc' = {Woken(a) : a \in acc}
          /\ task' \in {"close", "close_f"}
          /\ UNCHANGED <<m_isStop, m_socks, lst, todo, starts, bound, limit>>
      BY <1>2 DEF TaskCancels, CancelAll, Others
    <2>2. TaskRuns /\ TaskRuns' /\ Stopping'
      BY <2>1 DEF TaskRuns, Stopping
    <2>3. \A a \in acc : Woken(a) \in [sock : Socks, run : Nat,
                                       at : {"check", "waiting", "late", "ready", "ended"}]
                         /\ Woken(a).sock = a.sock
      BY DEF TypeTcp
    <2> HIDE DEF Woken
    <2>4. TypeTcp' /\ NotBoasted'
      BY <2>1, <2>3 DEF TypeTcp, NotBoasted
    <2>5. AcceptOn'
      BY <2>1, <2>2, <2>3 DEF AcceptOn
    <2>6. Accounted' /\ TaskRight'
      BY <2>1, <2>2 DEF Accounted, TaskRight
    <2> QED BY <2>4, <2>5, <2>6
  <1>3. ASSUME TaskCloses PROVE Owned'
    <2>1. /\ task = "close_f" /\ task' = "cancelAll" /\ todo' = todo \ {sock}
          /\ lst' = [lst EXCEPT ![sock] = "closed"]
          /\ UNCHANGED <<m_isStop, m_socks, acc, starts, bound, limit>>
      BY <1>3 DEF TaskCloses, CloseFile, Others
    <2>2. TaskRuns /\ TaskRuns' /\ Stopping'
      BY <2>1 DEF TaskRuns, Stopping
    <2>3. sock \in todo /\ sock \in Socks
      BY <2>1 DEF TaskRight, sock
    <2>4. TypeTcp' /\ NotBoasted'
      BY <2>1, <2>3 DEF TypeTcp, NotBoasted
    <2>5. Accounted'
      BY <2>1, <2>2, <2>3 DEF Accounted, TypeTcp
    <2>6. TaskRight'
      BY <2>1, <2>2, <2>3 DEF TaskRight, TypeTcp
    <2>7. AcceptOn'
      BY <2>1, <2>2, <2>3 DEF AcceptOn, TypeTcp
    <2> QED BY <2>4, <2>5, <2>6, <2>7
  <1>4. ASSUME TaskEnds PROVE Owned'
    <2>1. /\ task = "cancelAll" /\ todo = {} /\ task' = "done" /\ m_socks' = {}
          /\ UNCHANGED <<m_isStop, lst, acc, todo, starts, bound, limit>>
      BY <1>4 DEF TaskEnds, Others
    <2>2. TaskRuns /\ ~TaskRuns'
      BY <2>1 DEF TaskRuns
    <2>3. \A s \in Socks : lst[s] # "listening"
      BY <2>1, <2>2 DEF TaskRight
    <2>4. TypeTcp' /\ NotBoasted'
      BY <2>1 DEF TypeTcp, NotBoasted
    <2>5. Accounted'
      BY <2>1, <2>3 DEF Accounted
    <2>6. TaskRight'
      BY <2>1, <2>2 DEF TaskRight
    <2>7. AcceptOn'
      BY <2>1, <2>3 DEF AcceptOn, TypeTcp
    <2> QED BY <2>4, <2>5, <2>6, <2>7
  <1> QED BY <1>1, <1>2, <1>3, <1>4 DEF StopTask

\* Every step of the server keeps its sockets accounted for.
LEMMA OwnedNext ==
  ASSUME "bind_started" \notin Env, Owned, [Next]_vars
  PROVE  Owned'
  <1> USE DEF Owned
  <1>0. ASSUME UNCHANGED <<m_isStop, m_socks, lst, acc, task, todo, starts, bound, limit>>
        PROVE  Owned'
    BY <1>0 DEF TypeTcp, Accounted, TaskRight, TaskRuns, Stopping, AcceptOn, Alive, NotBoasted
  <1>1. ASSUME NEW ss \in SUBSET limit.socks, NEW bad \in SUBSET ss, NEW reuse \in BOOLEAN,
               Bind(ss, bad, reuse), Others
        PROVE  Owned'
    BY <1>1, BindOwned
  <1>2. ASSUME Start, Others PROVE Owned'
    <2>1. acc' = acc \cup {[sock |-> s, run |-> starts + 1, at |-> "check"] : s \in m_socks}
          /\ m_isStop' = FALSE /\ starts' = starts + 1
          /\ UNCHANGED <<m_socks, lst, task, todo, bound, limit>>
      BY <1>2 DEF Start, Others
    <2> DEFINE New(s) == [sock |-> s, run |-> starts + 1, at |-> "check"]
    <2>2. \A s \in m_socks : New(s) \in [sock : Socks, run : Nat,
                                         at : {"check", "waiting", "late", "ready", "ended"}]
                             /\ New(s).sock = s /\ lst[s] # "unused"
      BY DEF TypeTcp, Accounted
    <2>3. acc' = acc \cup {New(s) : s \in m_socks}
      BY <2>1
    <2> HIDE DEF New
    <2>4. \A a \in acc' : a \in acc \/ \E s \in m_socks : a = New(s)
      BY <2>3
    <2>5. acc' \in SUBSET [sock : Socks, run : Nat, at : {"check", "waiting", "late", "ready", "ended"}]
      BY <2>2, <2>4 DEF TypeTcp
    <2>6. TypeTcp'
      <3>1. starts' \in Nat
        BY <2>1 DEF TypeTcp
      <3>2. m_isStop' \in BOOLEAN /\ limit' \in Limits
            /\ lst' \in [Socks -> {"unused", "listening", "closed"}]
        BY <2>1 DEF TypeTcp
      <3> QED BY <3>1, <3>2, <2>5 DEF TypeTcp
    <2>7. AcceptOn'
      BY <2>1, <2>2, <2>4 DEF AcceptOn
    <2>8. Accounted' /\ TaskRight' /\ NotBoasted'
      BY <2>1 DEF Accounted, TaskRight, TaskRuns, NotBoasted
    <2> QED BY <2>6, <2>7, <2>8
  <1>3. ASSUME Stop, Others PROVE Owned'
    <2>1. /\ ~TaskRuns /\ m_isStop' = TRUE /\ task' = "queued"
          /\ UNCHANGED <<m_socks, lst, acc, todo, starts, bound, limit>>
      BY <1>3 DEF Stop, Others, Stopping
    <2>2. ~TaskRuns' /\ Stopping'
      BY <2>1 DEF TaskRuns, Stopping
    <2> QED BY <2>1, <2>2 DEF TypeTcp, Accounted, TaskRight, AcceptOn, NotBoasted
  <1>4. ASSUME NEW c \in Clients, NEW s \in Socks, Connect(c, s), Others PROVE Owned'
    BY <1>4, <1>0 DEF Connect, Others
  <1>5. ASSUME StopTask, Others PROVE Owned'
    BY <1>5, TaskOwned
  <1>6. ASSUME NEW s \in Socks, AcceptStep(s), Others PROVE Owned'
    <2>1. PICK a \in acc : Turn(a) \/ Retry(a)
      BY <1>6 DEF AcceptStep
    <2>2. Alive(a)
      BY <2>1 DEF Turn, Retry, Alive, Waits
    <2>3. \E at \in {"check", "waiting", "late", "ended"} : acc' = Moved(a, at)
      BY <2>1 DEF Turn, Retry, Accept, Registered
    <2>4. UNCHANGED <<m_isStop, m_socks, lst, task, todo, starts, bound, limit>>
      BY <2>1, <1>6 DEF Turn, Retry, Others
    <2> QED BY <2>2, <2>3, <2>4, MovedOwned
  <1>7. ASSUME ChangeServlets(limit.adds), UNCHANGED <<tcpVars, limit, m_isKeepalive, connVars>>
        PROVE  Owned'
    BY <1>7, <1>0 DEF tcpVars
  <1>8. ASSUME ClientStep PROVE Owned'
    BY <1>8, <1>0 DEF ClientStep, Send, Leave, tcpVars
  <1>9. ASSUME NEW c \in Clients, ConnStep(c) PROVE Owned'
    <2>1. KeepServer
      BY <1>9 DEF ConnStep, Recv, RecvBody, Eof, Timeout, Handle, Respond, WriteFails
    <2> QED BY <2>1, <1>0 DEF KeepServer, KeepTcp
  <1>10. ASSUME UNCHANGED vars PROVE Owned'
    BY <1>10, <1>0 DEF vars, tcpVars
  <1> HIDE DEF Owned
  <1>11. ASSUME UserStep(limit.socks), Others PROVE Owned'
    BY <1>11, <1>1, <1>2, <1>3, <1>4 DEF UserStep
  <1> QED BY <1>5, <1>6, <1>7, <1>8, <1>9, <1>10, <1>11 DEF Next, Step

\* When nobody binds while the server runs, every socket that listens is in m_socks, where
\* stop() finds it, and bind() never claims a success it did not have: for any sockets,
\* failures and vectors of failures, starts, stops and restarts, and any number of threads
\* of the accept worker.
THEOREM ListenersAreOwned ==
  ASSUME "bind_started" \notin Env
  PROVE  Spec => []ListenersTrue
  <1>1. Owned => ListenersTrue
    BY DEF Owned, Accounted, NotBoasted, ListenersTrue
  <1> QED BY <1>1, OwnedInit, OwnedNext, PTL DEF Spec

------------------------------------------------------------------------------
(* The servlets *)

Entry == [uri : Globs, slt : Nat]

\* The exact servlets are the ones last added; the types of the rest.
ExactCurrent ==
    /\ added \in Nat
    /\ regs \in [Paths -> Nat] /\ m_datas = regs
    /\ globRegs \in [Globs -> Nat]
    /\ m_globs \in Seq(Entry)

\* A pattern is in the list at most once.
Once(s) == \A i, j \in 1 .. Len(s) : s[i].uri = s[j].uri => i = j

\* An entry has the servlet last added for its pattern, which was not deleted.
Live(s, latest) == \A i \in 1 .. Len(s) : s[i].slt # 0 /\ s[i].slt = latest[s[i].uri]

\* A pattern with a servlet is in the list.
Listed(s, latest) == \A g \in Globs : latest[g] # 0 => \E i \in 1 .. Len(s) : s[i].uri = g

Current ==
    ExactCurrent /\ Once(m_globs) /\ Live(m_globs, globRegs) /\ Listed(m_globs, globRegs)

\* Erase takes the only entry of the pattern away and keeps every other.
LEMMA EraseProperties ==
  ASSUME NEW s \in Seq(Entry), Once(s), NEW g
  PROVE  /\ Erase(s, g) \in Seq(Entry)
         /\ Once(Erase(s, g))
         /\ \A k \in 1 .. Len(Erase(s, g)) :
               Erase(s, g)[k].uri # g /\ \E i \in 1 .. Len(s) : Erase(s, g)[k] = s[i]
         /\ \A i \in 1 .. Len(s) : s[i].uri # g =>
               \E k \in 1 .. Len(Erase(s, g)) : Erase(s, g)[k] = s[i]
  <1>0. Len(s) \in Nat
    BY LenProperties
  <1>1. CASE ~\E i \in 1 .. Len(s) : s[i].uri = g
    <2>1. Erase(s, g) = s
      BY <1>1 DEF Erase
    <2> QED BY <2>1, <1>1
  <1>2. CASE \E i \in 1 .. Len(s) : s[i].uri = g
    <2>1. PICK f \in 1 .. Len(s) : s[f].uri = g
      BY <1>2
    <2>2. \A j \in 1 .. Len(s) : j # f => s[j].uri # g
      BY <2>1 DEF Once
    <2>3. First(s, g) = f
      <3>1. \A j \in 1 .. f - 1 : s[j].uri # g
        BY <2>2, <1>0
      <3> DEFINE P(i) == s[i].uri = g /\ \A j \in 1 .. i - 1 : s[j].uri # g
      <3>2. \A i \in 1 .. Len(s) : P(i) <=> i = f
        BY <3>1, <2>1, <2>2
      <3> HIDE DEF P
      <3>3. f = CHOOSE i \in 1 .. Len(s) : P(i)
        BY <3>2
      <3> QED BY <3>3 DEF First, P
    <2> DEFINE e == RemoveAt(s, f)
    <2>4. Erase(s, g) = e
      BY <2>3, <1>2 DEF Erase
    <2>5. /\ e \in Seq(Entry)
          /\ Len(e) = Len(s) - 1
          /\ \A k \in 1 .. Len(s) - 1 : e[k] = IF k < f THEN s[k] ELSE s[k + 1]
      BY RemoveAtProperties
    <2> HIDE DEF e
    <2> DEFINE from(k) == IF k < f THEN k ELSE k + 1
    <2>6. \A k \in 1 .. Len(e) :
             from(k) \in 1 .. Len(s) /\ from(k) # f /\ e[k] = s[from(k)]
      BY <2>5, <1>0
    <2>7. \A k, j \in 1 .. Len(e) : from(k) = from(j) => k = j
      BY <2>5, <1>0
    <2>8. \A i \in 1 .. Len(s) : i # f => \E k \in 1 .. Len(e) : e[k] = s[i]
      <3> SUFFICES ASSUME NEW i \in 1 .. Len(s), i # f
                   PROVE  \E k \in 1 .. Len(e) : e[k] = s[i]
        OBVIOUS
      <3>1. CASE i < f
        <4>1. i \in 1 .. Len(e) /\ e[i] = s[i]
          BY <3>1, <2>5, <1>0
        <4> QED BY <4>1
      <3>2. CASE f < i
        <4>1. i - 1 \in 1 .. Len(e) /\ e[i - 1] = s[i]
          BY <3>2, <2>5, <1>0
        <4> QED BY <4>1
      <3> QED BY <3>1, <3>2
    <2> HIDE DEF from
    <2>9. Once(e)
      BY <2>6, <2>7 DEF Once
    <2>10. \A k \in 1 .. Len(e) : e[k].uri # g /\ \E i \in 1 .. Len(s) : e[k] = s[i]
      BY <2>6, <2>2
    <2>11. \A i \in 1 .. Len(s) : s[i].uri # g => \E k \in 1 .. Len(e) : e[k] = s[i]
      BY <2>8, <2>1
    <2> QED BY <2>4, <2>5, <2>9, <2>10, <2>11
  <1> QED BY <1>1, <1>2

\* addGlobServlet: the new entry is the only one of its pattern.
LEMMA AddGlobCurrent ==
  ASSUME Current, NEW g \in Globs, addGlobServlet(g)
  PROVE  Current'
  <1> DEFINE e == Erase(m_globs, g)
             new == [uri |-> g, slt |-> added + 1]
  <1>1. /\ e \in Seq(Entry)
        /\ Once(e)
        /\ \A k \in 1 .. Len(e) : e[k].uri # g /\ \E i \in 1 .. Len(m_globs) : e[k] = m_globs[i]
        /\ \A i \in 1 .. Len(m_globs) : m_globs[i].uri # g => \E k \in 1 .. Len(e) : e[k] = m_globs[i]
    BY EraseProperties DEF Current, ExactCurrent
  <1>2. m_globs' = Append(e, new)
    BY DEF addGlobServlet, PushAgain
  <1>3. new \in Entry /\ new.uri = g /\ new.slt = added + 1 /\ added + 1 # 0
    BY DEF Entry, Current, ExactCurrent
  <1> HIDE DEF e, new
  <1>4. /\ m_globs' \in Seq(Entry) /\ Len(e) \in Nat /\ Len(m_globs') = Len(e) + 1
        /\ \A i \in 1 .. Len(e) : m_globs'[i] = e[i]
        /\ m_globs'[Len(e) + 1] = new
    BY <1>1, <1>2, <1>3, AppendProperties, LenProperties
  <1>5. /\ globRegs' = [globRegs EXCEPT ![g] = added + 1]
        /\ added' = added + 1 /\ UNCHANGED <<regs, m_datas>>
    BY DEF addGlobServlet
  <1>6. \A i \in 1 .. Len(m_globs') : i \in 1 .. Len(e) \/ i = Len(e) + 1
    BY <1>4
  <1>7. ExactCurrent'
    BY <1>4, <1>5, <1>3 DEF ExactCurrent, Current
  <1>8. Once(m_globs')
    BY <1>1, <1>3, <1>4, <1>6 DEF Once
  <1>9. \A i \in 1 .. Len(e) : e[i].uri \in Globs /\ e[i].slt # 0
                               /\ e[i].slt = globRegs'[e[i].uri]
    <2> SUFFICES ASSUME NEW k \in 1 .. Len(e)
                 PROVE  e[k].uri \in Globs /\ e[k].slt # 0 /\ e[k].slt = globRegs'[e[k].uri]
      OBVIOUS
    <2>1. PICK i \in 1 .. Len(m_globs) : e[k] = m_globs[i]
      BY <1>1
    <2>2. e[k] \in Entry
      BY <1>1, ElementOfSeq
    <2>3. e[k].slt # 0 /\ e[k].slt = globRegs[e[k].uri]
      BY <2>1 DEF Current, Live
    <2> QED BY <2>2, <2>3, <1>1, <1>5 DEF Entry, Current, ExactCurrent
  <1>10. Live(m_globs', globRegs')
    <2>1. globRegs'[g] = added + 1
      BY <1>5 DEF Current, ExactCurrent
    <2> QED BY <2>1, <1>3, <1>4, <1>6, <1>9 DEF Live
  <1>11. Listed(m_globs', globRegs')
    <2> SUFFICES ASSUME NEW x \in Globs, globRegs'[x] # 0
                 PROVE  \E i \in 1 .. Len(m_globs') : m_globs'[i].uri = x
      BY DEF Listed
    <2>1. CASE x = g
      <3>1. Len(e) + 1 \in 1 .. Len(m_globs')
        BY <1>4
      <3> QED BY <3>1, <2>1, <1>3, <1>4
    <2>2. CASE x # g
      <3>1. globRegs[x] # 0
        BY <2>2, <1>5 DEF Current, ExactCurrent
      <3>2. PICK i \in 1 .. Len(m_globs) : m_globs[i].uri = x
        BY <3>1 DEF Current, Listed
      <3>3. PICK k \in 1 .. Len(e) : e[k] = m_globs[i]
        BY <3>2, <2>2, <1>1
      <3>4. k \in 1 .. Len(m_globs')
        BY <1>4
      <3> QED BY <3>2, <3>3, <3>4, <1>4
    <2> QED BY <2>1, <2>2
  <1> QED BY <1>7, <1>8, <1>10, <1>11 DEF Current

\* delGlobServlet: with its one entry the pattern is gone.
LEMMA DelGlobCurrent ==
  ASSUME Current, NEW g \in Globs, delGlobServlet(g)
  PROVE  Current'
  <1>1. /\ m_globs' \in Seq(Entry)
        /\ Once(m_globs')
        /\ \A k \in 1 .. Len(m_globs') :
              m_globs'[k].uri # g /\ \E i \in 1 .. Len(m_globs) : m_globs'[k] = m_globs[i]
        /\ \A i \in 1 .. Len(m_globs) : m_globs[i].uri # g =>
              \E k \in 1 .. Len(m_globs') : m_globs'[k] = m_globs[i]
    <2>1. m_globs' = Erase(m_globs, g)
      BY DEF delGlobServlet
    <2>2. m_globs \in Seq(Entry) /\ Once(m_globs)
      BY DEF Current, ExactCurrent
    <2> QED BY <2>1, <2>2, EraseProperties
  <1>2. globRegs' = [globRegs EXCEPT ![g] = 0] /\ UNCHANGED <<m_datas, added, regs>>
    BY DEF delGlobServlet
  <1>3. ExactCurrent'
    BY <1>1, <1>2 DEF Current, ExactCurrent
  <1>4. Live(m_globs', globRegs')
    <2> SUFFICES ASSUME NEW k \in 1 .. Len(m_globs')
                 PROVE  m_globs'[k].slt # 0 /\ m_globs'[k].slt = globRegs'[m_globs'[k].uri]
      BY DEF Live
    <2>1. PICK i \in 1 .. Len(m_globs) : m_globs'[k] = m_globs[i]
      BY <1>1
    <2>2. m_globs'[k] \in Entry
      BY <1>1, ElementOfSeq
    <2>3. m_globs'[k].slt # 0 /\ m_globs'[k].slt = globRegs[m_globs'[k].uri]
      BY <2>1 DEF Current, Live
    <2> QED BY <2>2, <2>3, <1>1, <1>2 DEF Entry, Current, ExactCurrent
  <1>5. Listed(m_globs', globRegs')
    <2> SUFFICES ASSUME NEW x \in Globs, globRegs'[x] # 0
                 PROVE  \E i \in 1 .. Len(m_globs') : m_globs'[i].uri = x
      BY DEF Listed
    <2>1. x # g /\ globRegs[x] # 0
      BY <1>2 DEF Current, ExactCurrent
    <2>2. PICK i \in 1 .. Len(m_globs) : m_globs[i].uri = x
      BY <2>1 DEF Current, Listed
    <2> QED BY <2>1, <2>2, <1>1
  <1> QED BY <1>1, <1>3, <1>4, <1>5 DEF Current

\* Every step keeps the registrations current; only ChangeServlets touches them.
LEMMA CurrentNext == Current /\ [Next]_vars => Current'
  <1> SUFFICES ASSUME Current, [Next]_vars PROVE Current'
    OBVIOUS
  <1>0. ASSUME UNCHANGED dispatchVars PROVE Current'
    BY <1>0 DEF dispatchVars, Current, ExactCurrent, Once, Live, Listed
  <1>1. ASSUME NEW p \in Paths, addServlet(p) PROVE Current'
    <2>1. ExactCurrent'
      BY <1>1 DEF addServlet, Current, ExactCurrent
    <2> QED BY <2>1, <1>1 DEF addServlet, Current, Once, Live, Listed
  <1>2. ASSUME NEW p \in Paths, delServlet(p) PROVE Current'
    <2>1. ExactCurrent'
      BY <1>2 DEF delServlet, Current, ExactCurrent
    <2> QED BY <2>1, <1>2 DEF delServlet, Current, Once, Live, Listed
  <1>3. ASSUME ChangeServlets(limit.adds) PROVE Current'
    BY <1>3, <1>1, <1>2, AddGlobCurrent, DelGlobCurrent DEF ChangeServlets
  <1>4. ASSUME ClientStep PROVE UNCHANGED dispatchVars
    BY <1>4 DEF ClientStep, Send, Leave
  <1>5. ASSUME NEW c \in Clients, ConnStep(c) PROVE UNCHANGED dispatchVars
    <2>1. KeepServer
      BY <1>5 DEF ConnStep, Recv, RecvBody, Eof, Timeout, Handle, Respond, WriteFails
    <2> QED BY <2>1 DEF KeepServer
  <1> QED BY <1>0, <1>3, <1>4, <1>5 DEF Next, Step, Others, vars

\* getMatchedServlet in a state where the registrations are current.
LEMMA CurrentServes == Current => ServedByCurrent
  <1> SUFFICES ASSUME Current, NEW p \in Paths PROVE getMatchedServlet(p) \in Expected(p)
    BY DEF ServedByCurrent
  <1> DEFINE fits == {x \in Globs : globRegs[x] # 0 /\ <<x, p>> \in Matches}
             globs == {globRegs[g] : g \in fits}
  <1>1. CASE m_datas[p] # 0
    BY <1>1 DEF getMatchedServlet, Expected, Current, ExactCurrent
  <1>2. CASE m_datas[p] = 0 /\ Fitting(p) = {}
    <2>1. globs = {}
      BY <1>2 DEF Fitting, Current, Listed
    <2>2. Expected(p) = {0}
      BY <2>1, <1>2 DEF Expected, Current, ExactCurrent
    <2> QED BY <2>2, <1>2 DEF getMatchedServlet
  <1>3. CASE m_datas[p] = 0 /\ Fitting(p) # {}
    <2> DEFINE m == CHOOSE i \in Fitting(p) : \A j \in Fitting(p) : i <= j
    <2>1. Fitting(p) \in SUBSET Nat
      BY LenProperties DEF Fitting
    <2>2. m \in Fitting(p)
      BY <2>1, <1>3, LeastExists
    <2>3. getMatchedServlet(p) = m_globs[m].slt
      BY <1>3 DEF getMatchedServlet
    <2> HIDE DEF m
    <2>4. m \in 1 .. Len(m_globs) /\ <<m_globs[m].uri, p>> \in Matches
      BY <2>2 DEF Fitting
    <2>5. m_globs[m] \in Entry
      BY <2>4, ElementOfSeq DEF Current, ExactCurrent
    <2>6. m_globs[m].slt # 0 /\ m_globs[m].slt = globRegs[m_globs[m].uri]
      BY <2>4 DEF Current, Live
    <2>7. m_globs[m].uri \in fits
      BY <2>4, <2>5, <2>6 DEF Entry
    <2>8. m_globs[m].slt \in globs
      BY <2>6, <2>7
    <2>9. Expected(p) = globs
      BY <2>8, <1>3 DEF Expected, Current, ExactCurrent
    <2> QED BY <2>3, <2>8, <2>9
  <1> QED BY <1>1, <1>2, <1>3

\* No servlet is registered at first.
LEMMA CurrentInit == Init => Current
  <1> SUFFICES ASSUME Init PROVE Current
    OBVIOUS
  <1>1. ExactCurrent
    BY EmptySeq DEF Init, InitDispatch, ExactCurrent
  <1>2. m_globs = <<>> /\ globRegs = [g \in Globs |-> 0]
    BY DEF Init, InitDispatch
  <1> QED BY <1>1, <1>2 DEF Current, Once, Live, Listed

\* Whatever was added, added again and deleted, in any order and while requests are being
\* served, a path gets a servlet that is registered for it now.
THEOREM CurrentServletServes == Spec => []ServedByCurrent
  BY CurrentInit, CurrentNext, CurrentServes, PTL DEF Spec

------------------------------------------------------------------------------
(* The requests of a connection *)

Msg == [path : Paths, body : 0 .. MaxBody, start : Nat]

Receiving == [h : Nat, whole : BOOLEAN, req : Nat, body : Nat, once : BOOLEAN, left : Nat,
              under : Nat, slt : Nat]

Answer == [req : Nat, whole : BOOLEAN, body : Nat, once : BOOLEAN, close : BOOLEAN]

Stages == {"out", "backlog", "head", "body", "handle", "reply", "closed", "lost"}

TypeConn ==
    /\ msgs \in [Clients -> Seq(Msg)]
    /\ answers \in [Clients -> Seq(Answer)]
    /\ rcv \in [Clients -> Receiving]
    /\ pos \in [Clients -> Nat]
    /\ unsent \in [Clients -> Nat]
    /\ gone \in [Clients -> BOOLEAN]
    /\ stage \in [Clients -> Stages]

\* Total and Begins of a stream of requests.
End(ms) == IF ms = <<>> THEN 0 ELSE ms[Len(ms)].start + HeadLen + ms[Len(ms)].body

StartOf(ms, i) == IF i <= Len(ms) THEN ms[i].start ELSE End(ms)

\* The requests lie in the stream one behind the other, from its first unit.
Chain(ms) ==
    /\ ms # <<>> => ms[1].start = 0
    /\ \A i, j \in 1 .. Len(ms) : i < j => ms[i].start + HeadLen + ms[i].body <= ms[j].start

\* While a header is read the server is that many units into the request it will answer
\* next; if it has some of it, the client has sent that request.
InHead(ms, an, r, p) ==
    /\ r.h < HeadLen /\ r.whole
    /\ p = StartOf(ms, Len(an) + 1) + r.h
    /\ r.h > 0 => Len(ms) = Len(an) + 1

\* Then the last request is the one at hand and what readFixSize waits for is the rest of it.
InBody(ms, an, r, p) ==
    /\ Len(ms) = Len(an) + 1
    /\ r.req = Len(an) + 1 /\ r.whole
    /\ p + r.left = End(ms)
    /\ r.body <= ms[Len(an) + 1].body
    /\ r.once => r.body = ms[Len(an) + 1].body

\* AnswersInOrder for one connection.
Answered(ms, an) ==
    \A j \in 1 .. Len(an) :
        /\ an[j].req = j /\ an[j].whole
        /\ an[j].body <= ms[j].body
        /\ an[j].once => an[j].body = ms[j].body

\* One connection: requests ms, answers an, recvRequest's r, p units read, u left out by
\* the client, g whether he has gone, and the stage.
ConnRight(ms, an, r, p, u, g, st) ==
    /\ Chain(ms) /\ Answered(ms, an)
    /\ Len(an) <= Len(ms) /\ Len(ms) <= Len(an) + 1
    /\ p + u <= End(ms)
    /\ u # 0 => g
    /\ st = "out" => ms = <<>>
    /\ st \in {"out", "backlog"} => an = <<>> /\ r = NewRecv /\ p = 0
    /\ st = "head" => InHead(ms, an, r, p)
    /\ st \in {"body", "handle", "reply"} => InBody(ms, an, r, p)
    /\ st = "body" => r.left > 0
    /\ st \in {"handle", "reply"} => r.left = 0

Right(c) == ConnRight(msgs[c], answers[c], rcv[c], pos[c], unsent[c], gone[c], stage[c])

Aligned == TypeConn /\ \A c \in Clients : Right(c)

\* The abbreviations are the model's own operators.
LEMMA EndIsTotal ==
  \A c \in Clients : Total(c) = End(msgs[c]) /\ \A i : Begins(c, i) = StartOf(msgs[c], i)
  BY DEF Total, Begins, End, StartOf

\* Types of a stream: its requests and its length.
LEMMA StreamTypes ==
  ASSUME NEW ms \in Seq(Msg)
  PROVE  /\ Len(ms) \in Nat /\ (ms = <<>> <=> Len(ms) = 0)
         /\ \A i \in 1 .. Len(ms) : ms[i] \in Msg /\ ms[i].start \in Nat /\ ms[i].body \in Nat
         /\ End(ms) \in Nat
  <1>1. Len(ms) \in Nat /\ (ms = <<>> <=> Len(ms) = 0)
    BY LenProperties, EmptySeq
  <1>2. \A i \in 1 .. Len(ms) : ms[i] \in Msg
    BY ElementOfSeq
  <1>3. \A i \in 1 .. Len(ms) : ms[i].start \in Nat /\ ms[i].body \in Nat
    BY <1>2, SizeAssumption DEF Msg
  <1>4. ms # <<>> => Len(ms) \in 1 .. Len(ms)
    BY <1>1
  <1> QED BY <1>1, <1>2, <1>3, <1>4, SizeAssumption DEF End

\* A request the client appends starts where the stream ended.
LEMMA SendRight ==
  ASSUME NEW ms \in Seq(Msg), NEW an \in Seq(Answer), NEW r \in Receiving, NEW p \in Nat,
         NEW u \in Nat, NEW g \in BOOLEAN, NEW st \in Stages,
         ConnRight(ms, an, r, p, u, g, st), ~g, st \notin {"out", "closed"},
         Len(an) = Len(ms), NEW x \in Paths, NEW b \in 0 .. MaxBody
  PROVE  LET ns == Append(ms, [path |-> x, body |-> b, start |-> End(ms)])
         IN  ns \in Seq(Msg) /\ ConnRight(ns, an, r, p, u, g, st)
  <1> DEFINE e == [path |-> x, body |-> b, start |-> End(ms)]
             ns == Append(ms, e)
  <1>0. /\ Len(ms) \in Nat /\ (ms = <<>> <=> Len(ms) = 0)
        /\ \A i \in 1 .. Len(ms) : ms[i] \in Msg /\ ms[i].start \in Nat /\ ms[i].body \in Nat
        /\ End(ms) \in Nat
    BY StreamTypes
  <1>1. e \in Msg /\ e.body = b /\ e.start = End(ms) /\ b \in Nat
    BY <1>0 DEF Msg
  <1> HIDE DEF e
  <1>2. /\ ns \in Seq(Msg) /\ Len(ns) = Len(ms) + 1
        /\ \A i \in 1 .. Len(ms) : ns[i] = ms[i]
        /\ ns[Len(ms) + 1] = e
    BY <1>1, AppendProperties
  <1> HIDE DEF ns
  <1>3. ns # <<>> /\ End(ns) = End(ms) + HeadLen + b
    <2>1. ns # <<>>
      BY <1>2, <1>0, StreamTypes
    <2> QED BY <2>1, <1>1, <1>2 DEF End
  <1>4. Chain(ms) /\ Answered(ms, an) /\ u = 0 /\ p <= End(ms)
    BY <1>0 DEF ConnRight
  <1>5. Chain(ns)
    <2>1. ns[1].start = 0
      <3>1. CASE ms = <<>>
        <4>1. 1 = Len(ms) + 1 /\ End(ms) = 0
          BY <3>1, <1>0 DEF End
        <4> QED BY <4>1, <1>1, <1>2
      <3>2. CASE ms # <<>>
        <4>1. 1 \in 1 .. Len(ms)
          BY <3>2, <1>0
        <4> QED BY <4>1, <3>2, <1>2, <1>4 DEF Chain
      <3> QED BY <3>1, <3>2
    <2>2. \A i \in 1 .. Len(ms) : ms[i].start + HeadLen + ms[i].body <= End(ms)
      <3> SUFFICES ASSUME NEW i \in 1 .. Len(ms)
                   PROVE  ms[i].start + HeadLen + ms[i].body <= End(ms)
        OBVIOUS
      <3> DEFINE l == Len(ms)
      <3>1. l \in 1 .. Len(ms) /\ ms # <<>> /\ End(ms) = ms[l].start + HeadLen + ms[l].body
        BY <1>0 DEF End
      <3>2. CASE i = l
        BY <3>1, <3>2, <1>0, SizeAssumption
      <3>3. CASE i # l
        <4>1. ms[i].start + HeadLen + ms[i].body <= ms[l].start
          BY <3>1, <3>3, <1>0, <1>4 DEF Chain
        <4> QED BY SMTT(40), <4>1, <3>1, <1>0, SizeAssumption
      <3> QED BY <3>2, <3>3
    <2>3. ASSUME NEW i \in 1 .. Len(ns), NEW j \in 1 .. Len(ns), i < j
          PROVE  ns[i].start + HeadLen + ns[i].body <= ns[j].start
      <3>1. i \in 1 .. Len(ms) /\ ns[i] = ms[i]
        BY <2>3, <1>2, <1>0
      <3>2. CASE j \in 1 .. Len(ms)
        BY <3>1, <3>2, <2>3, <1>2, <1>4 DEF Chain
      <3>3. CASE j = Len(ms) + 1
        BY <3>1, <3>3, <2>2, <1>1, <1>2
      <3> QED BY <3>2, <3>3, <1>2, <1>0
    <2> QED BY <2>1, <2>3 DEF Chain
  <1>6. Answered(ns, an)
    <2>1. \A j \in 1 .. Len(an) : ns[j] = ms[j]
      BY <1>2
    <2> QED BY <2>1, <1>4 DEF Answered
  <1>7. st \in {"head", "backlog", "lost"}
    BY <1>0 DEF ConnRight, InBody, Stages
  <1>8. st = "head" => InHead(ns, an, r, p)
    <2> SUFFICES ASSUME st = "head" PROVE InHead(ns, an, r, p)
      OBVIOUS
    <2>1. InHead(ms, an, r, p)
      BY DEF ConnRight
    <2>2. StartOf(ns, Len(an) + 1) = StartOf(ms, Len(an) + 1)
      BY <1>0, <1>1, <1>2 DEF StartOf
    <2> QED BY <2>1, <2>2, <1>2 DEF InHead
  <1>9. p + u <= End(ns) /\ Len(an) <= Len(ns) /\ Len(ns) <= Len(an) + 1
    BY <1>0, <1>1, <1>2, <1>3, <1>4, SizeAssumption
  <1>10. ConnRight(ns, an, r, p, u, g, st)
    BY <1>4, <1>5, <1>6, <1>7, <1>8, <1>9 DEF ConnRight
  <1> QED BY <1>2, <1>10 DEF ns, e

\* When there is something to read for a header, it is of the one request not answered.
LEMMA HeadAt ==
  ASSUME NEW c \in Clients, TypeConn, Right(c), stage[c] = "head", Avail(c) >= 1
  PROVE  LET l == Len(answers[c]) + 1 IN
         /\ Len(msgs[c]) = l /\ l \in 1 .. Len(msgs[c])
         /\ At(c, pos[c]) = l
         /\ pos[c] - Begins(c, l) = rcv[c].h
         /\ Total(c) = Begins(c, l) + HeadLen + msgs[c][l].body
  <1> DEFINE ms == msgs[c]
             an == answers[c]
             p == pos[c]
             l == Len(an) + 1
  <1>0. /\ Len(ms) \in Nat /\ (ms = <<>> <=> Len(ms) = 0)
        /\ \A i \in 1 .. Len(ms) : ms[i] \in Msg /\ ms[i].start \in Nat /\ ms[i].body \in Nat
        /\ End(ms) \in Nat
    BY StreamTypes DEF TypeConn
  <1>1. /\ Len(an) \in Nat /\ p \in Nat /\ rcv[c].h \in Nat /\ unsent[c] \in Nat
    BY LenProperties DEF TypeConn, Receiving
  <1>2. /\ Chain(ms) /\ InHead(ms, an, rcv[c], p)
        /\ Len(an) <= Len(ms) /\ Len(ms) <= Len(an) + 1
    BY DEF Right, ConnRight
  <1>3. p < End(ms)
    BY <1>0, <1>1, EndIsTotal DEF Avail
  <1> HIDE DEF ms, an, p
  <1>4. Len(ms) = l
    <2>1. SUFFICES ASSUME Len(ms) = Len(an) PROVE FALSE
      BY <2>1, <1>0, <1>1, <1>2
    <2>2. p = End(ms) + rcv[c].h
      BY <2>1, <1>0, <1>1, <1>2 DEF InHead, StartOf
    <2> QED BY <2>2, <1>0, <1>1, <1>3
  <1>5. /\ l \in 1 .. Len(ms) /\ ms # <<>> /\ End(ms) = ms[l].start + HeadLen + ms[l].body
        /\ StartOf(ms, l) = ms[l].start /\ p = ms[l].start + rcv[c].h /\ StartOf(ms, l + 1) = End(ms)
    BY <1>0, <1>1, <1>2, <1>4 DEF End, StartOf, InHead
  <1> DEFINE In(i) == StartOf(ms, i) <= p /\ p < StartOf(ms, i + 1)
  <1>6. In(l)
    BY <1>0, <1>1, <1>3, <1>5
  <1>7. ASSUME NEW i \in 1 .. Len(ms), i # l PROVE ~In(i)
    <2>1. i + 1 \in 1 .. Len(ms) /\ i + 1 <= l
      BY <1>7, <1>4, <1>0
    <2>2. ms[i + 1].start <= ms[l].start
      <3>1. CASE i + 1 = l
        BY <3>1, <1>0, <2>1
      <3>2. CASE i + 1 < l
        <4>1. ms[i + 1].start + HeadLen + ms[i + 1].body <= ms[l].start
          BY <3>2, <2>1, <1>5, <1>2 DEF Chain
        <4>2. ms[i + 1].start \in Nat /\ ms[i + 1].body \in Nat /\ ms[l].start \in Nat
          BY <2>1, <1>5, <1>0
        <4> QED BY <4>1, <4>2, SizeAssumption
      <3> QED BY <3>1, <3>2, <2>1, <1>1
    <2>3. StartOf(ms, i + 1) = ms[i + 1].start /\ ms[i + 1].start \in Nat /\ ms[l].start \in Nat
      BY <2>1, <1>5, <1>0 DEF StartOf
    <2> QED BY SMTT(30), <2>2, <2>3, <1>1, <1>5
  <1>8. At(c, pos[c]) = CHOOSE i \in 1 .. Len(ms) : In(i)
    BY EndIsTotal DEF At, ms, p
  <1> HIDE DEF In
  <1>9. At(c, pos[c]) = l
    BY <1>5, <1>6, <1>7, <1>8
  <1>10. Begins(c, l) = ms[l].start /\ Total(c) = End(ms)
    BY EndIsTotal, <1>5 DEF ms
  <1>11. p - Begins(c, l) = rcv[c].h
    BY <1>5, <1>10, <1>0, <1>1
  <1> QED BY <1>4, <1>5, <1>9, <1>10, <1>11 DEF ms, an, p

\* What changes of one connection leaves the others as they were.
LEMMA OneConn ==
  ASSUME Aligned, TypeConn', NEW c \in Clients, Right(c)',
         \A d \in Clients \ {c} :
            /\ msgs'[d] = msgs[d] /\ answers'[d] = answers[d] /\ rcv'[d] = rcv[d]
            /\ pos'[d] = pos[d] /\ unsent'[d] = unsent[d] /\ gone'[d] = gone[d]
            /\ stage'[d] = stage[d]
  PROVE  Aligned'
  <1>1. ASSUME NEW d \in Clients PROVE Right(d)'
    <2>1. CASE d = c
      BY <2>1
    <2>2. CASE d # c
      <3>1. Right(d)
        BY DEF Aligned
      <3> QED BY <2>2, <3>1 DEF Right
    <2> QED BY <2>1, <2>2
  <1> QED BY <1>1 DEF Aligned

\* A read for the header takes units of that request only, and ends it only when it is here.
LEMMA RecvRight ==
  ASSUME "cut" \notin Env, Aligned, NEW c \in Clients, NEW n \in 1 .. BufSize, Recv(c, n)
  PROVE  Aligned'
  <1> DEFINE ms == msgs[c]
             an == answers[c]
             r == rcv[c]
             l == Len(an) + 1
             more == [r EXCEPT !.h = @ + n, !.whole = @ /\ "cut" \notin Env]
             behind == n - (HeadLen - r.h)
             done == Ended(c, l, Least(ms[l].body, behind), ms[l].body - behind)
             r2 == IF r.h + n < HeadLen THEN more ELSE done
             st == IF r2.h < HeadLen THEN "head" ELSE IF r2.left > 0 THEN "body" ELSE "handle"
  <1>0. TypeConn /\ Right(c) /\ stage[c] = "head"
    BY DEF Aligned, Recv
  <1>1. /\ Len(ms) \in Nat /\ Len(an) \in Nat /\ End(ms) \in Nat
        /\ \A i \in 1 .. Len(ms) : ms[i] \in Msg /\ ms[i].start \in Nat /\ ms[i].body \in Nat
    BY <1>0, StreamTypes, LenProperties DEF TypeConn
  <1>2. r \in Receiving /\ r.h \in Nat /\ r.left \in Nat /\ pos[c] \in Nat /\ unsent[c] \in Nat /\ n \in Nat
    BY <1>0 DEF TypeConn, Receiving
  <1>3. Avail(c) >= 1 /\ n <= Avail(c) /\ Avail(c) = End(ms) - unsent[c] - pos[c]
    BY SMTT(30), <1>1, <1>2, EndIsTotal, SizeAssumption DEF Recv, Least, Avail
  <1>4. /\ Len(ms) = l /\ l \in 1 .. Len(ms)
        /\ At(c, pos[c]) = l
        /\ pos[c] - Begins(c, l) = r.h
        /\ Total(c) = Begins(c, l) + HeadLen + ms[l].body
    BY <1>0, <1>3, HeadAt
  <1>5. /\ Begins(c, l) = ms[l].start /\ Total(c) = End(ms) /\ StartOf(ms, l) = ms[l].start
        /\ pos[c] = ms[l].start + r.h /\ End(ms) = ms[l].start + HeadLen + ms[l].body
        /\ ms[l].start \in Nat /\ ms[l].body \in Nat
    BY SMTT(40), <1>1, <1>2, <1>4, EndIsTotal DEF Begins, StartOf
  <1>6. /\ pos' = [pos EXCEPT ![c] = @ + n]
        /\ rcv' = [rcv EXCEPT ![c] = r2]
        /\ stage' = [stage EXCEPT ![c] = st]
        /\ UNCHANGED <<msgs, gone, unsent, answers>>
    BY <1>4 DEF Recv, Goto, Finished, Behind
  <1>7. ConnRight(ms, an, r, pos[c], unsent[c], gone[c], "head")
    BY <1>0 DEF Right
  <1>8. /\ r2 \in Receiving /\ st \in Stages
        /\ ConnRight(ms, an, r2, pos[c] + n, unsent[c], gone[c], st)
    <2> DEFINE rest == ms[l].body - behind
    <2>1. CASE r.h + n < HeadLen
      <3>1. /\ r2 \in Receiving /\ r2.h = r.h + n /\ r2.whole = r.whole
        <4>1. r2 = more
          BY <2>1
        <4>2. more = [r EXCEPT !.h = r.h + n]
          <5>1. (r.whole /\ "cut" \notin Env) = r.whole
            BY <1>2 DEF Receiving
          <5> QED BY <5>1, <1>2 DEF Receiving
        <4>3. r.h + n \in Nat
          BY <1>2
        <4> QED BY <4>1, <4>2, <4>3, <1>2 DEF Receiving
      <3>2. st = "head"
        BY <2>1, <3>1
      <3> HIDE DEF r2, st
      <3>3. InHead(ms, an, r2, pos[c] + n)
        <4>1. r.whole
          BY <1>7 DEF ConnRight, InHead
        <4>2. pos[c] + n = StartOf(ms, l) + r2.h
          BY <3>1, <1>2, <1>5
        <4> QED BY <4>1, <4>2, <3>1, <2>1, <1>4 DEF InHead
      <3>4. pos[c] + n + unsent[c] <= End(ms)
        BY <1>1, <1>2, <1>3
      <3> QED BY <3>1, <3>2, <3>3, <3>4, <1>7 DEF ConnRight, Stages
    <2>2. CASE ~(r.h + n < HeadLen)
      <3>0. HeadLen \in Nat /\ pos[c] + n <= End(ms)
        BY <1>1, <1>2, <1>3, SizeAssumption
      <3>1. /\ behind \in Nat /\ behind <= ms[l].body /\ rest \in Nat
            /\ pos[c] + n + rest = End(ms) /\ Least(ms[l].body, behind) = behind
        <4> DEFINE b == ms[l].body
                   s == ms[l].start
                   h == r.h
                   p == pos[c]
                   e == End(ms)
        <4>1. /\ n \in Nat /\ h \in Nat /\ HeadLen \in Nat /\ b \in Nat /\ s \in Nat /\ p \in Nat
              /\ e \in Nat /\ p = s + h /\ e = s + HeadLen + b /\ p + n <= e /\ ~(h + n < HeadLen)
          BY <3>0, <2>2, <1>1, <1>2, <1>5
        <4> HIDE DEF b, s, h, p, e
        <4>2. /\ n - (HeadLen - h) \in Nat /\ n - (HeadLen - h) <= b
              /\ b - (n - (HeadLen - h)) \in Nat
              /\ p + n + (b - (n - (HeadLen - h))) = e
              /\ Least(b, n - (HeadLen - h)) = n - (HeadLen - h)
          BY <4>1 DEF Least
        <4> QED BY <4>2 DEF b, s, h, p, e
      <3>2. rest <= 0 => behind = ms[l].body
        BY <3>1, <1>5
      <3>3. Least(ms[l].body, behind) = behind
        BY <3>1
      <3> HIDE DEF rest
      <3> HIDE DEF behind
      <3>4. r2 = [r EXCEPT !.h = HeadLen, !.req = l, !.body = behind, !.once = rest <= 0,
                           !.left = rest]
        <4>1. r2 = Ended(c, l, behind, rest)
          BY <2>2, <3>3 DEF rest
        <4>2. (IF rest > 0 THEN rest ELSE 0) = rest
          BY <3>1
        <4> QED BY <4>1, <4>2 DEF Ended
      <3> HIDE DEF r2, st
      <3>5. /\ r2 \in Receiving /\ r2.h = HeadLen /\ r2.req = l /\ r2.body = behind
            /\ r2.once = (rest <= 0) /\ r2.left = rest /\ r2.whole = r.whole
        <4>1. (rest <= 0) \in BOOLEAN /\ l \in Nat
          BY <1>1
        <4> QED BY <4>1, <3>0, <3>1, <3>4, <1>2 DEF Receiving
      <3>6. st = IF rest > 0 THEN "body" ELSE "handle"
        BY <3>0, <3>5 DEF st
      <3>7. InBody(ms, an, r2, pos[c] + n)
        <4>1. r2.whole
          BY <3>5, <1>7 DEF ConnRight, InHead
        <4>2. pos[c] + n + r2.left = End(ms)
          BY <3>1, <3>5
        <4>3. r2.body <= ms[l].body /\ (r2.once => r2.body = ms[l].body)
          BY <3>1, <3>2, <3>5
        <4> QED BY <4>1, <4>2, <4>3, <3>5, <1>4 DEF InBody
      <3>8. pos[c] + n + unsent[c] <= End(ms)
        BY <1>1, <1>2, <1>3
      <3>9. CASE rest > 0
        <4>1. st = "body" /\ r2.left > 0
          BY <3>5, <3>6, <3>9
        <4> QED BY <4>1, <3>5, <3>7, <3>8, <1>7 DEF ConnRight, Stages
      <3>10. CASE ~(rest > 0)
        <4>1. st = "handle" /\ r2.left = 0
          BY <3>5, <3>6, <3>10, <3>1
        <4> QED BY <4>1, <3>5, <3>7, <3>8, <1>7 DEF ConnRight, Stages
      <3> QED BY <3>9, <3>10
    <2> QED BY <2>1, <2>2
  <1> HIDE DEF r2, st
  <1>9. TypeConn'
    BY <1>0, <1>2, <1>6, <1>8 DEF TypeConn
  <1>10. /\ rcv'[c] = r2 /\ pos'[c] = pos[c] + n /\ stage'[c] = st
    BY <1>0, <1>6 DEF TypeConn
  <1>11. Right(c)'
    BY <1>6, <1>8, <1>10 DEF Right
  <1> QED BY <1>0, <1>6, <1>9, <1>11, OneConn DEF TypeConn

\* readFixSize: what is read and what is left stay the rest of the stream; and it does not
\* time out, for the rest comes unless the client has gone.
LEMMA BodyRight ==
  ASSUME "body_stall" \notin Env, Aligned, NEW c \in Clients,
         \/ \E n \in 1 .. MaxBody : RecvBody(c, n)
         \/ Timeout(c)
  PROVE  Aligned'
  <1>0. TypeConn /\ Right(c)
    BY DEF Aligned
  <1>1. /\ pos[c] \in Nat /\ unsent[c] \in Nat /\ rcv[c] \in Receiving /\ rcv[c].left \in Nat
        /\ End(msgs[c]) \in Nat /\ Avail(c) = End(msgs[c]) - unsent[c] - pos[c]
    BY <1>0, StreamTypes, EndIsTotal DEF TypeConn, Receiving, Avail
  <1>2. ASSUME NEW n \in 1 .. MaxBody, RecvBody(c, n) PROVE Aligned'
    <2> DEFINE r2 == [rcv[c] EXCEPT !.left = @ - n]
               st == IF rcv[c].left = n THEN "handle" ELSE "body"
    <2>1. /\ stage[c] = "body" /\ n \in Nat /\ n <= Avail(c) /\ n <= rcv[c].left
          /\ pos' = [pos EXCEPT ![c] = @ + n] /\ rcv' = [rcv EXCEPT ![c] = r2]
          /\ stage' = [stage EXCEPT ![c] = st]
          /\ UNCHANGED <<msgs, gone, unsent, answers>>
      BY <1>2, <1>0, <1>1 DEF RecvBody, Goto, Least, TypeConn
    <2>2. /\ rcv[c].left - n \in Nat
          /\ r2 \in Receiving /\ r2.left = rcv[c].left - n /\ r2.req = rcv[c].req
          /\ r2.whole = rcv[c].whole /\ r2.body = rcv[c].body /\ r2.once = rcv[c].once
      <3>1. rcv[c].left - n \in Nat
        BY <2>1, <1>1
      <3> QED BY <3>1, <1>1 DEF Receiving
    <2>3. ConnRight(msgs[c], answers[c], rcv[c], pos[c], unsent[c], gone[c], "body")
      BY <2>1, <1>0 DEF Right
    <2> HIDE DEF r2
    <2>4. InBody(msgs[c], answers[c], r2, pos[c] + n)
      <3>1. InBody(msgs[c], answers[c], rcv[c], pos[c])
        BY <2>3 DEF ConnRight
      <3>2. pos[c] + n + r2.left = End(msgs[c])
        BY <3>1, <2>1, <2>2, <1>1 DEF InBody
      <3> QED BY <3>1, <3>2, <2>2 DEF InBody
    <2>5. pos[c] + n + unsent[c] <= End(msgs[c]) /\ pos[c] + n \in Nat
      BY <2>1, <1>1
    <2>6. (st = "body" => r2.left > 0) /\ (st = "handle" => r2.left = 0) /\ st \in {"body", "handle"}
      BY <2>1, <2>2, <1>1
    <2> HIDE DEF st
    <2>7. ConnRight(msgs[c], answers[c], r2, pos[c] + n, unsent[c], gone[c], st)
      BY <2>3, <2>4, <2>5, <2>6 DEF ConnRight
    <2>8. TypeConn'
      BY <1>0, <2>1, <2>2, <2>5, <2>6 DEF TypeConn, Stages
    <2>9. rcv'[c] = r2 /\ pos'[c] = pos[c] + n /\ stage'[c] = st
      BY <1>0, <2>1 DEF TypeConn
    <2>10. Right(c)'
      BY <2>1, <2>7, <2>9 DEF Right
    <2> QED BY <1>0, <2>1, <2>8, <2>10, OneConn DEF TypeConn
  <1>3. ASSUME Timeout(c) PROVE Aligned'
    <2>1. stage[c] = "head"
      <3>1. SUFFICES ASSUME stage[c] = "body" PROVE FALSE
        BY <3>1, <1>3 DEF Timeout
      <3>2. pos[c] + rcv[c].left = End(msgs[c]) /\ rcv[c].left > 0 /\ unsent[c] = 0
        BY <3>1, <1>0, <1>3, <1>1 DEF Right, ConnRight, InBody, Timeout
      <3>3. Avail(c) = 0
        BY <1>3 DEF Timeout
      <3> QED BY <3>2, <3>3, <1>1
    <2>2. stage' = [stage EXCEPT ![c] = "closed"] /\ UNCHANGED connVars
      BY <2>1, <1>3 DEF Timeout, Goto, connVars
    <2>3. TypeConn'
      BY <2>2, <1>0 DEF TypeConn, connVars, Stages
    <2>4. stage'[c] = "closed"
      BY <2>2, <1>0 DEF TypeConn
    <2>5. Right(c)'
      BY <2>2, <2>4, <1>0 DEF Right, ConnRight, connVars
    <2> QED BY <1>0, <2>2, <2>3, <2>5, OneConn DEF TypeConn, connVars
  <1> QED BY <1>2, <1>3

\* The look-up of a servlet and the answer; or the end, when the client has gone.
LEMMA AnswerRight ==
  ASSUME Current, Aligned, NEW c \in Clients, Eof(c) \/ Handle(c) \/ Respond(c)
  PROVE  Aligned'
  <1>0. TypeConn /\ Right(c)
    BY DEF Aligned
  <1>1. rcv[c] \in Receiving /\ Len(answers[c]) \in Nat /\ answers[c] \in Seq(Answer)
    BY <1>0, LenProperties DEF TypeConn
  <1>2. ASSUME Eof(c) PROVE Aligned'
    <2>1. stage' = [stage EXCEPT ![c] = "closed"] /\ UNCHANGED connVars
      BY <1>2 DEF Eof, Goto
    <2>2. TypeConn'
      BY <2>1, <1>0 DEF TypeConn, connVars, Stages
    <2>3. stage'[c] = "closed"
      BY <2>1, <1>0 DEF TypeConn
    <2>4. Right(c)'
      BY <2>1, <2>3, <1>0 DEF Right, ConnRight, connVars
    <2> QED BY <1>0, <2>1, <2>2, <2>4, OneConn DEF TypeConn, connVars
  <1>3. ASSUME Handle(c) PROVE Aligned'
    <2> DEFINE slt == getMatchedServlet(msgs[c][rcv[c].req].path)
               r2 == [rcv[c] EXCEPT !.slt = slt]
    <2>1. /\ stage[c] = "handle" /\ rcv' = [rcv EXCEPT ![c] = r2]
          /\ stage' = [stage EXCEPT ![c] = "reply"]
          /\ UNCHANGED <<msgs, gone, unsent, pos, answers>>
      BY <1>3, <1>0 DEF Handle, Goto, TypeConn
    <2>2. ConnRight(msgs[c], answers[c], rcv[c], pos[c], unsent[c], gone[c], "handle")
      BY <2>1, <1>0 DEF Right
    <2>3. InBody(msgs[c], answers[c], rcv[c], pos[c])
      BY <2>2 DEF ConnRight
    <2>4. msgs[c][rcv[c].req].path \in Paths
      <3>1. rcv[c].req \in 1 .. Len(msgs[c]) /\ msgs[c] \in Seq(Msg)
        BY <2>3, <1>0, <1>1 DEF InBody, TypeConn
      <3>2. msgs[c][rcv[c].req] \in Msg
        BY <3>1, ElementOfSeq
      <3> QED BY <3>2 DEF Msg
    <2>5. slt \in Nat
      <3>1. slt \in Expected(msgs[c][rcv[c].req].path)
        BY <2>4, CurrentServes DEF ServedByCurrent
      <3>2. \A p \in Paths : \A x \in Expected(p) : x \in Nat
        BY DEF Expected, Current, ExactCurrent
      <3> QED BY <3>1, <3>2, <2>4
    <2> HIDE DEF slt
    <2>6. /\ r2 \in Receiving /\ r2.left = rcv[c].left /\ r2.req = rcv[c].req
          /\ r2.whole = rcv[c].whole /\ r2.body = rcv[c].body /\ r2.once = rcv[c].once
      BY <2>5, <1>1 DEF Receiving
    <2> HIDE DEF r2
    <2>7. InBody(msgs[c], answers[c], r2, pos[c])
      BY <2>3, <2>6 DEF InBody
    <2>8. ConnRight(msgs[c], answers[c], r2, pos[c], unsent[c], gone[c], "reply")
      BY <2>2, <2>6, <2>7 DEF ConnRight
    <2>9. TypeConn'
      BY <2>1, <2>6, <1>0 DEF TypeConn, Stages
    <2>10. rcv'[c] = r2 /\ stage'[c] = "reply"
      BY <1>0, <2>1 DEF TypeConn
    <2>11. Right(c)'
      BY <2>1, <2>8, <2>10 DEF Right
    <2> QED BY <1>0, <2>1, <2>9, <2>11, OneConn DEF TypeConn
  <1>4. ASSUME Respond(c) PROVE Aligned'
    <2> DEFINE r == rcv[c]
               ms == msgs[c]
               an == answers[c]
               a == [req |-> r.req, whole |-> r.whole, body |-> r.body, once |-> r.once,
                     close |-> TRUE]
               na == Append(an, a)
               st == IF m_isKeepalive THEN "head" ELSE "closed"
    <2>1. /\ stage[c] = "reply" /\ answers' = [answers EXCEPT ![c] = na]
          /\ rcv' = [rcv EXCEPT ![c] = NewRecv] /\ stage' = [stage EXCEPT ![c] = st]
          /\ UNCHANGED <<msgs, gone, unsent, pos>>
      BY <1>4 DEF Respond, Goto
    <2>2. ConnRight(ms, an, r, pos[c], unsent[c], gone[c], "reply")
      BY <2>1, <1>0 DEF Right
    <2>3. InBody(ms, an, r, pos[c]) /\ r.left = 0
      BY <2>2 DEF ConnRight
    <2>4. /\ a \in Answer /\ a.req = r.req /\ a.whole = r.whole /\ a.body = r.body /\ a.once = r.once
      BY <1>1 DEF Answer, Receiving
    <2>5. NewRecv \in Receiving /\ NewRecv.h = 0 /\ NewRecv.whole
      BY DEF NewRecv, Receiving
    <2>6. st \in {"head", "closed"}
      OBVIOUS
    <2> HIDE DEF a, st
    <2>7. /\ na \in Seq(Answer) /\ Len(na) = Len(an) + 1
          /\ \A j \in 1 .. Len(an) : na[j] = an[j]
          /\ na[Len(an) + 1] = a
      BY <2>4, <1>1, AppendProperties
    <2> HIDE DEF na
    <2>8. Answered(ms, na)
      <3> SUFFICES ASSUME NEW j \in 1 .. Len(na)
                   PROVE  /\ na[j].req = j /\ na[j].whole /\ na[j].body <= ms[j].body
                          /\ na[j].once => na[j].body = ms[j].body
        BY DEF Answered
      <3>1. CASE j \in 1 .. Len(an)
        BY <3>1, <2>7, <2>2 DEF ConnRight, Answered
      <3>2. CASE j = Len(an) + 1
        BY <3>2, <2>3, <2>4, <2>7 DEF InBody
      <3> QED BY <3>1, <3>2, <2>7, <1>1
    <2>9. pos[c] \in Nat /\ End(ms) \in Nat /\ Len(ms) \in Nat
      BY <1>0, StreamTypes DEF TypeConn
    <2>10. InHead(ms, na, NewRecv, pos[c])
      <3>1. Len(ms) = Len(na) /\ pos[c] = End(ms)
        BY <2>3, <2>7, <2>9, <1>1 DEF InBody
      <3>2. StartOf(ms, Len(na) + 1) = End(ms)
        BY <3>1, <2>9 DEF StartOf
      <3> QED BY <3>1, <3>2, <2>5, <2>9, SizeAssumption DEF InHead
    <2>11. Len(na) <= Len(ms) /\ Len(ms) <= Len(na) + 1
      BY <2>3, <2>7, <1>1 DEF InBody
    <2>12. ConnRight(ms, na, NewRecv, pos[c], unsent[c], gone[c], st)
      BY <2>2, <2>6, <2>8, <2>10, <2>11 DEF ConnRight
    <2>13. TypeConn'
      BY <2>1, <2>5, <2>6, <2>7, <1>0 DEF TypeConn, Stages
    <2>14. rcv'[c] = NewRecv /\ stage'[c] = st /\ answers'[c] = na
      BY <1>0, <2>1 DEF TypeConn
    <2>15. Right(c)'
      BY <2>1, <2>12, <2>14 DEF Right
    <2> QED BY <1>0, <2>1, <2>13, <2>15, OneConn DEF TypeConn
  <1> QED BY <1>2, <1>3, <1>4

\* The client sends, when he has all his answers, or leaves.
LEMMA ClientRight ==
  ASSUME "pipelining" \notin Env, "body_stall" \notin Env, Aligned, ClientStep
  PROVE  Aligned'
  <1>1. PICK c \in Clients :
          \/ \E p \in Paths, b \in 0 .. MaxBody : Send(c, p, b)
          \/ \E n \in 0 .. HeadLen + MaxBody : Leave(c, n)
    BY DEF ClientStep
  <1>0. TypeConn /\ Right(c)
    BY DEF Aligned
  <1>2. ASSUME NEW p \in Paths, NEW b \in 0 .. MaxBody, Send(c, p, b) PROVE Aligned'
    <2> DEFINE ns == Append(msgs[c], [path |-> p, body |-> b, start |-> End(msgs[c])])
    <2>1. /\ stage[c] \notin {"out", "closed"} /\ ~gone[c] /\ Len(answers[c]) = Len(msgs[c])
          /\ msgs' = [msgs EXCEPT ![c] = ns]
          /\ UNCHANGED <<stage, gone, unsent, pos, rcv, answers>>
      BY <1>2, EndIsTotal DEF Send, tcpVars
    <2>2. /\ ns \in Seq(Msg)
          /\ ConnRight(ns, answers[c], rcv[c], pos[c], unsent[c], gone[c], stage[c])
      <3>1. /\ msgs[c] \in Seq(Msg) /\ answers[c] \in Seq(Answer) /\ rcv[c] \in Receiving
            /\ pos[c] \in Nat /\ unsent[c] \in Nat /\ gone[c] \in BOOLEAN /\ stage[c] \in Stages
        BY <1>0 DEF TypeConn
      <3>2. ConnRight(msgs[c], answers[c], rcv[c], pos[c], unsent[c], gone[c], stage[c])
        BY <1>0 DEF Right
      <3> QED BY <3>1, <3>2, <2>1, SendRight
    <2> HIDE DEF ns
    <2>3. TypeConn'
      BY <2>1, <2>2, <1>0 DEF TypeConn
    <2>4. msgs'[c] = ns
      BY <2>1, <1>0 DEF TypeConn
    <2>5. Right(c)'
      BY <2>1, <2>2, <2>4 DEF Right
    <2> QED BY <1>0, <2>1, <2>3, <2>5, OneConn DEF TypeConn
  <1>3. ASSUME NEW n \in 0 .. HeadLen + MaxBody, Leave(c, n) PROVE Aligned'
    <2>1. /\ gone' = [gone EXCEPT ![c] = TRUE] /\ unsent' = [unsent EXCEPT ![c] = n]
          /\ n <= Avail(c) /\ n \in Nat
          /\ UNCHANGED <<stage, msgs, pos, rcv, answers>>
      <3>1. /\ gone' = [gone EXCEPT ![c] = "body_stall" \notin Env]
            /\ unsent' = [unsent EXCEPT ![c] = n] /\ n <= Avail(c)
            /\ UNCHANGED <<stage, msgs, pos, rcv, answers>>
        BY <1>3 DEF Leave, tcpVars
      <3>2. ("body_stall" \notin Env) = TRUE
        OBVIOUS
      <3>3. n \in Nat
        BY SizeAssumption
      <3> QED BY <3>1, <3>2, <3>3
    <2>2. TypeConn'
      BY <2>1, <1>0 DEF TypeConn
    <2>3. gone'[c] = TRUE /\ unsent'[c] = n
      BY <2>1, <1>0 DEF TypeConn
    <2>4. pos[c] + n <= End(msgs[c])
      <3>1. pos[c] \in Nat /\ unsent[c] \in Nat /\ End(msgs[c]) \in Nat /\ Total(c) = End(msgs[c])
        BY <1>0, StreamTypes, EndIsTotal DEF TypeConn
      <3> QED BY <3>1, <2>1 DEF Avail
    <2>5. Right(c)'
      BY <2>1, <2>3, <2>4, <1>0 DEF Right, ConnRight
    <2> QED BY <1>0, <2>1, <2>2, <2>5, OneConn DEF TypeConn
  <1> QED BY <1>1, <1>2, <1>3

\* The server's sockets: a connection gets into the backlog, is accepted, or is refused.
LEMMA TcpRight ==
  ASSUME Aligned, connVars' = connVars, stage' \in [Clients -> Stages],
         \A c \in Clients : \/ stage'[c] = stage[c]
                            \/ stage[c] = "out" /\ stage'[c] = "backlog"
                            \/ stage[c] = "backlog" /\ stage'[c] \in {"head", "closed", "lost"}
  PROVE  Aligned'
  <1>0. TypeConn /\ UNCHANGED <<msgs, gone, unsent, pos, rcv, answers>>
    BY DEF Aligned, connVars
  <1>1. TypeConn'
    BY <1>0 DEF TypeConn
  <1>2. ASSUME NEW c \in Clients PROVE Right(c)'
    <2>1. Right(c)
      BY DEF Aligned
    <2>2. CASE stage'[c] = stage[c]
      BY <2>1, <2>2, <1>0 DEF Right
    <2>3. CASE stage[c] = "out" /\ stage'[c] = "backlog"
      BY <2>1, <2>3, <1>0 DEF Right, ConnRight
    <2>4. CASE stage[c] = "backlog" /\ stage'[c] \in {"closed", "lost"}
      BY <2>1, <2>4, <1>0 DEF Right, ConnRight
    <2>5. CASE stage[c] = "backlog" /\ stage'[c] = "head"
      <3>1. /\ Chain(msgs[c]) /\ answers[c] = <<>> /\ rcv[c] = NewRecv /\ pos[c] = 0
        BY <2>1, <2>5 DEF Right, ConnRight
      <3>2. /\ Len(msgs[c]) \in Nat /\ (msgs[c] = <<>> <=> Len(msgs[c]) = 0)
        BY <1>0, StreamTypes DEF TypeConn
      <3>3. StartOf(msgs[c], 1) = 0
        BY <3>1, <3>2 DEF StartOf, Chain, End
      <3>4. Len(answers[c]) + 1 = 1 /\ Len(answers[c]) = 0
        BY <3>1
      <3>5. InHead(msgs[c], answers[c], rcv[c], pos[c])
        BY <3>1, <3>3, <3>4, SizeAssumption DEF InHead, NewRecv
      <3> QED BY <3>5, <2>1, <2>5, <1>0 DEF Right, ConnRight
    <2> QED BY <2>2, <2>3, <2>4, <2>5
  <1> QED BY <1>1, <1>2 DEF Aligned

\* Every step keeps every connection aligned.
LEMMA AlignedNext ==
  ASSUME "pipelining" \notin Env, "body_stall" \notin Env, "cut" \notin Env,
         Current, Aligned, [Next]_vars
  PROVE  Aligned'
  <1>0. stage \in [Clients -> Stages]
    BY DEF Aligned, TypeConn
  <1>1. ASSUME UserStep(limit.socks), Others PROVE Aligned'
    <2>0. connVars' = connVars
      BY <1>1 DEF Others
    <2>1. ASSUME NEW closed, Refuse(closed) PROVE Aligned'
      BY <2>1, <2>0, <1>0, TcpRight DEF Refuse, Stages
    <2>2. ASSUME NEW c \in Clients, NEW s \in Socks, Connect(c, s) PROVE Aligned'
      <3>1. stage' \in [Clients -> Stages]
        BY <2>2, <1>0 DEF Connect, Stages
      <3> QED BY <3>1, <2>2, <2>0, <1>0, TcpRight DEF Connect
    <2>3. ASSUME Start \/ Stop PROVE Aligned'
      <3>1. stage' = stage
        BY <2>3 DEF Start, Stop
      <3> QED BY <3>1, <2>0, <1>0, TcpRight
    <2>4. ASSUME NEW ss, NEW bad, NEW reuse, Bind(ss, bad, reuse) PROVE Aligned'
      <3>1. \E closed : Refuse(closed)
        BY <2>4 DEF Bind
      <3> QED BY <3>1, <2>1
    <2> QED BY <1>1, <2>2, <2>3, <2>4 DEF UserStep
  <1>2. ASSUME StopTask, Others PROVE Aligned'
    <2>0. connVars' = connVars
      BY <1>2 DEF Others
    <2>1. CASE stage' = stage
      BY <2>0, <2>1, <1>0, TcpRight
    <2>2. CASE Refuse({sock})
      BY <2>0, <2>2, <1>0, TcpRight DEF Refuse, Stages
    <2> QED BY <1>2, <2>1, <2>2
            DEF StopTask, TaskBegins, TaskCancels, TaskCloses, TaskEnds, CloseFile
  <1>3. ASSUME NEW s \in Socks, AcceptStep(s), Others PROVE Aligned'
    <2>1. \/ stage' = stage
          \/ \E c \in Clients, st \in {"head", "lost"} :
                stage[c] = "backlog" /\ stage' = [stage EXCEPT ![c] = st]
      BY <1>3 DEF AcceptStep, Turn, Retry, Accept, Accepted, Backlog
    <2>2. stage' \in [Clients -> Stages]
      BY <2>1, <1>0 DEF Stages
    <2> QED BY <2>1, <2>2, <1>0, <1>3, TcpRight DEF Others
  <1>4. ASSUME UNCHANGED <<tcpVars, connVars>> PROVE Aligned'
    <2>1. stage' = stage /\ connVars' = connVars
      BY <1>4 DEF tcpVars
    <2> QED BY <2>1, <1>0, TcpRight
  <1>5. ASSUME NEW c \in Clients, ConnStep(c) PROVE Aligned'
    <2>1. ASSUME WriteFails(c) PROVE Aligned'
      <3>1. UNCHANGED <<stage, msgs, gone, unsent, pos, rcv, answers>>
        BY <2>1 DEF WriteFails
      <3> QED BY <3>1 DEF Aligned, TypeConn, Right
    <2> QED BY <1>5, <2>1, RecvRight, BodyRight, AnswerRight DEF ConnStep
  <1>6. UNCHANGED vars => UNCHANGED <<tcpVars, connVars>>
    BY DEF vars, connVars
  <1> QED BY <1>1, <1>2, <1>3, <1>4, <1>5, <1>6, ClientRight DEF Next, Step

\* Both invariants hold from the start on.
LEMMA AlignedInit == Init => Current /\ Aligned
  <1> SUFFICES ASSUME Init PROVE Current /\ Aligned
    OBVIOUS
  <1>1. Current
    BY CurrentInit
  <1>2. TypeConn
    <2>1. NewRecv \in Receiving /\ <<>> \in Seq(Msg) /\ <<>> \in Seq(Answer)
      BY EmptySeq DEF NewRecv, Receiving
    <2> QED BY <2>1 DEF Init, InitTcp, TypeConn, Stages
  <1>3. ASSUME NEW c \in Clients PROVE Right(c)
    <2>1. /\ msgs[c] = <<>> /\ answers[c] = <<>> /\ rcv[c] = NewRecv /\ pos[c] = 0
          /\ unsent[c] = 0 /\ stage[c] = "out"
      BY DEF Init, InitTcp
    <2> QED BY <2>1 DEF Right, ConnRight, Chain, Answered, End
  <1> QED BY <1>1, <1>2, <1>3 DEF Aligned

\* With clients that wait for an answer before the next request and send the body they
\* announced or go, and reads that end between tokens: the server always starts to wait
\* for a request at the first unit of one, for any number of clients and requests, any
\* sizes of headers, bodies and reads, and with the server stopped at any point.
THEOREM RequestsAligned ==
  ASSUME "pipelining" \notin Env, "body_stall" \notin Env, "cut" \notin Env
  PROVE  Spec => []StreamAligned
  <1>1. Aligned => StreamAligned
    <2> SUFFICES ASSUME Aligned, NEW c \in Clients, stage[c] = "head", rcv[c].h = 0
                 PROVE  \E i \in 1 .. Len(msgs[c]) + 1 : pos[c] = Begins(c, i)
      BY DEF StreamAligned
    <2>1. /\ InHead(msgs[c], answers[c], rcv[c], pos[c]) /\ Len(answers[c]) <= Len(msgs[c])
      BY DEF Aligned, Right, ConnRight
    <2>2. /\ Len(answers[c]) \in Nat /\ Len(msgs[c]) \in Nat /\ End(msgs[c]) \in Nat
          /\ \A i \in 1 .. Len(msgs[c]) : msgs[c][i].start \in Nat
      BY StreamTypes, LenProperties DEF Aligned, TypeConn
    <2>3. Len(answers[c]) + 1 \in 1 .. Len(msgs[c]) + 1
      BY <2>1, <2>2
    <2>4. StartOf(msgs[c], Len(answers[c]) + 1) \in Nat
      BY <2>2, <2>3 DEF StartOf
    <2>5. pos[c] = Begins(c, Len(answers[c]) + 1)
      BY <2>1, <2>4, EndIsTotal DEF InHead
    <2> QED BY <2>3, <2>5
  <1> QED BY <1>1, AlignedInit, AlignedNext, CurrentNext, PTL DEF Spec

\* And the answers are those of the requests, in their order, each for the request as it
\* was sent.
THEOREM AnswersAreInOrder ==
  ASSUME "pipelining" \notin Env, "body_stall" \notin Env, "cut" \notin Env
  PROVE  Spec => []AnswersInOrder
  <1>1. Aligned => AnswersInOrder
    BY DEF Aligned, Right, ConnRight, Answered, AnswersInOrder
  <1> QED BY <1>1, AlignedInit, AlignedNext, CurrentNext, PTL DEF Spec

==============================================================================
