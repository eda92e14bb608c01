--------------------------- MODULE ServletDispatch ---------------------------
(***************************************************************************)
(* ServletDispatch: which servlet serves a path.  The writers and the      *)
(* look-up hold m_mutex for the whole call, so each is one step.  Servlets *)
(* are numbered in the order they are added; 0 is m_default.               *)
(***************************************************************************)
EXTENDS Integers, Sequences, SequencesExt

CONSTANTS Paths,        \* request paths, also the keys of addServlet
          Globs,        \* patterns of addGlobServlet
          Matches       \* fnmatch: pairs <<pattern, path>>

VARIABLES
    m_datas,    \* path -> servlet, 0 where there is none
    m_globs,    \* the patterns in the order they are tried, with their servlets
    added,      \* servlets added so far
    regs,       \* what the callers may expect: the latest servlet of every path
    globRegs    \* ... and of every pattern

dispatchVars == <<m_datas, m_globs, added, regs, globRegs>>

InitDispatch ==
    /\ m_datas = [p \in Paths |-> 0]
    /\ m_globs = <<>>
    /\ added = 0
    /\ regs = [p \in Paths |-> 0]
    /\ globRegs = [g \in Globs |-> 0]

First(s, g) == CHOOSE i \in 1 .. Len(s) : s[i].uri = g /\ \A j \in 1 .. i - 1 : s[j].uri # g

\* The first entry with this pattern is erased, the others move up.
Erase(s, g) ==
    IF \E i \in 1 .. Len(s) : s[i].uri = g
    THEN RemoveAt(s, First(s, g))
    ELSE s

\* Faulty variant: a pattern added again keeps its old entry.
PushBack(s, g, slt) == Append(s, [uri |-> g, slt |-> slt])

PushAgain(s, g, slt) == Append(Erase(s, g), [uri |-> g, slt |-> slt])

addServlet(p) ==
    /\ added' = added + 1
    /\ m_datas' = [m_datas EXCEPT ![p] = added + 1]
    /\ regs' = [regs EXCEPT ![p] = added + 1]
    /\ UNCHANGED <<m_globs, globRegs>>

addGlobServlet(g) ==
    /\ added' = added + 1
    /\ m_globs' = PushAgain(m_globs, g, added + 1)
    /\ globRegs' = [globRegs EXCEPT ![g] = added + 1]
    /\ UNCHANGED <<m_datas, regs>>

delServlet(p) ==
    /\ m_datas[p] # 0
    /\ m_datas' = [m_datas EXCEPT ![p] = 0]
    /\ regs' = [regs EXCEPT ![p] = 0]
    /\ UNCHANGED <<m_globs, added, globRegs>>

delGlobServlet(g) ==
    /\ \E i \in 1 .. Len(m_globs) : m_globs[i].uri = g
    /\ m_globs' = Erase(m_globs, g)
    /\ globRegs' = [globRegs EXCEPT ![g] = 0]
    /\ UNCHANGED <<m_datas, added, regs>>

\* At most max servlets are ever added (a bound of the model).
ChangeServlets(max) ==
    \/ added < max /\ \E p \in Paths : addServlet(p)
    \/ added < max /\ \E g \in Globs : addGlobServlet(g)
    \/ \E p \in Paths : delServlet(p)
    \/ \E g \in Globs : delGlobServlet(g)

Fitting(p) == {i \in 1 .. Len(m_globs) : <<m_globs[i].uri, p>> \in Matches}

\* Exact, then the first pattern that fits, then m_default.
getMatchedServlet(p) ==
    IF m_datas[p] # 0 THEN m_datas[p]
    ELSE IF Fitting(p) = {} THEN 0
    ELSE m_globs[CHOOSE i \in Fitting(p) : \A j \in Fitting(p) : i <= j].slt

------------------------------------------------------------------------------
\* The servlets a caller may expect for a path, from the calls alone: the latest one
\* added for it and not deleted, else the latest of a pattern that fits, else none.
Expected(p) ==
    LET globs == {globRegs[g] : g \in {x \in Globs : globRegs[x] # 0 /\ <<x, p>> \in Matches}}
    IN  IF regs[p] # 0 THEN {regs[p]} ELSE IF globs # {} THEN globs ELSE {0}

\* However servlets were added, added again and deleted, a path is served by one that
\* is still registered for it, never by one that was replaced or deleted.
ServedByCurrent == \A p \in Paths : getMatchedServlet(p) \in Expected(p)

==============================================================================
