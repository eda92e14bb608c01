------------------------------- MODULE Config -------------------------------
(***************************************************************************)
(* Config and ConfigVar: variables with listeners, and LoadFromYaml.       *)
(*                                                                         *)
(* A key is the sequence of its segments.  A document is the list of its   *)
(* nodes in the order ListAllMember meets them, each with its key and the  *)
(* value its text converts to (Bad if the conversion throws).  A variable  *)
(* has a read-write lock; what is done under one hold of it is one step,   *)
(* except that setValue calls the listeners one by one under the read      *)
(* lock.                                                                   *)
(***************************************************************************)
EXTENDS Integers, Sequences

CONSTANTS Var,          \* keys of the variables the program defines
          Default,      \* their values before any document
          Cb,           \* ids of listeners, in the order of m_cbs
          Listening,    \* the variable each listener was added to
          Docs,         \* the documents that are loaded
          BadSegment,   \* segments with a character that names may not have
          Bad,          \* text that does not convert to the variable's type
          Writer,       \* threads that load documents
          MaxLoads      \* documents a writer loads (a bound of the model)

ASSUME CbAssumption == Cb \subseteq Nat /\ Listening \in [Cb -> Var]

ASSUME DefaultAssumption == DOMAIN Default = Var

VARIABLES
    s_datas,    \* keys of the variables that exist
    m_val,      \* their values
    at,         \* writer: "idle", "next", "check", "notify", "store"
    nodes,      \* writer: what is left of all_nodes
    left,       \* writer: the listeners setValue has still to call
    loads,      \* documents started
    told,       \* the value each listener was told last
    begun       \* the writer's last document, and the variables there were before it

configVars == <<s_datas, m_val, at, nodes, left, loads, told, begun>>

InitConfig ==
    /\ s_datas \in SUBSET Var /\ {Listening[c] : c \in Cb} \subseteq s_datas
    /\ m_val = Default
    /\ at = [w \in Writer |-> "idle"]
    /\ nodes = [w \in Writer |-> <<>>]
    /\ left = [w \in Writer |-> {}]
    /\ loads = [w \in Writer |-> 0]
    /\ told = [c \in Cb |-> Default[Listening[c]]]
    /\ begun = [w \in Writer |-> [doc |-> <<>>, known |-> {}]]

\* A key with a segment that names may not have is cut off with all below it.
ListAllMember(doc) ==
    SelectSeq(doc, LAMBDA n : n.key # <<>> /\ \A i \in DOMAIN n.key : n.key[i] \notin BadSegment)

ASSUME DocsAssumption ==
    \A doc \in Docs : LET list == ListAllMember(doc) IN list \in Seq({list[i] : i \in DOMAIN list})

Node(w) == Head(nodes[w])

\* Who holds the read lock of a variable.
Readers(v) == {w \in Writer : at[w] = "notify" /\ Node(w).key = v}

Goes(w, where) == at' = [at EXCEPT ![w] = where]

\* Lookup with a default: the first call makes the variable.
Lookup(v) ==
    /\ v \in Var \ s_datas
    /\ s_datas' = s_datas \cup {v}
    /\ UNCHANGED <<m_val, at, nodes, left, loads, told, begun>>

LoadFromYaml(w, doc) ==
    /\ at[w] = "idle" /\ loads[w] < MaxLoads
    /\ Goes(w, "next")
    /\ nodes' = [nodes EXCEPT ![w] = ListAllMember(doc)]
    /\ loads' = [loads EXCEPT ![w] = @ + 1]
    /\ begun' = [begun EXCEPT ![w] = [doc |-> doc, known |-> s_datas]]
    /\ UNCHANGED <<s_datas, m_val, left, told>>

\* The node is dealt with, the loop goes on.
Done(w) == Goes(w, "next") /\ nodes' = [nodes EXCEPT ![w] = Tail(@)]

\* Faulty variant: the exception of a bad value ends the load.
NextNodeThrows(w) ==
    /\ at[w] = "next"
    /\ IF nodes[w] = <<>> \/ Node(w).value = Bad THEN Goes(w, "idle") /\ nodes' = [nodes EXCEPT ![w] = <<>>]
       ELSE IF Node(w).key \notin s_datas THEN Done(w)
       ELSE Goes(w, "check") /\ UNCHANGED nodes
    /\ UNCHANGED <<s_datas, m_val, left, loads, told, begun>>

\* One turn of the loop in LoadFromYaml: LookupBase and the conversion in fromString,
\* which catches the exception of a bad value.  (It would catch one of a listener too, and
\* the value would not be stored; the listeners of the code throw none.)
NextNode(w) ==
    /\ at[w] = "next"
    /\ IF nodes[w] = <<>> THEN Goes(w, "idle") /\ UNCHANGED nodes
       ELSE IF Node(w).key \notin s_datas \/ Node(w).value = Bad THEN Done(w)
       ELSE Goes(w, "check") /\ UNCHANGED nodes
    /\ UNCHANGED <<s_datas, m_val, left, loads, told, begun>>

\* setValue: nothing to do for an equal value; else the read lock is kept for the
\* listeners.
Check(w) ==
    LET cbs == {c \in Cb : Listening[c] = Node(w).key}
    IN  /\ at[w] = "check"
        /\ IF Node(w).value = m_val[Node(w).key] THEN Done(w) /\ UNCHANGED left
           ELSE /\ left' = [left EXCEPT ![w] = cbs]
                /\ Goes(w, IF cbs = {} THEN "store" ELSE "notify")
                /\ UNCHANGED nodes
        /\ UNCHANGED <<s_datas, m_val, loads, told, begun>>

\* The listener that is called: the map's order is the order of the ids.
Current(w) == CHOOSE c \in left[w] : \A d \in left[w] : c <= d

\* A listener returns; after the last one the read lock is released.
Returns(w) ==
    /\ told' = [told EXCEPT ![Current(w)] = Node(w).value]
    /\ left' = [left EXCEPT ![w] = @ \ {Current(w)}]
    /\ Goes(w, IF left[w] = {Current(w)} THEN "store" ELSE "notify")
    /\ UNCHANGED <<s_datas, m_val, nodes, loads, begun>>

\* Faulty variant: the read lock is turned into the write lock and not given up before.
StoreUpgrading(w) ==
    /\ at[w] = "store"
    /\ \A x \in Writer \ {w} : ~(at[x] \in {"notify", "store"} /\ Node(x).key = Node(w).key)
    /\ m_val' = [m_val EXCEPT ![Node(w).key] = Node(w).value]
    /\ Done(w)
    /\ UNCHANGED <<s_datas, left, loads, told, begun>>

\* The value is stored under the write lock.
Store(w) ==
    /\ at[w] = "store" /\ Readers(Node(w).key) = {}
    /\ m_val' = [m_val EXCEPT ![Node(w).key] = Node(w).value]
    /\ Done(w)
    /\ UNCHANGED <<s_datas, left, loads, told, begun>>

Setting(v) == \E w \in Writer : at[w] \in {"check", "notify", "store"} /\ Node(w).key = v

------------------------------------------------------------------------------
\* What a document says about a variable last, among the nodes that have a name and
\* convert; the value it has already if there is nothing.
Says(doc, v) == {i \in DOMAIN doc : doc[i].key = v /\ doc[i].value # Bad}

\* When a load is over, every variable that was there before it has the value the
\* document gives it last: a key nobody knows, a name that is not valid or a value that
\* does not convert costs only itself.
LoadApplied ==
    \A w \in Writer : at[w] = "idle" =>
        \A v \in begun[w].known :
            LET doc == ListAllMember(begun[w].doc)
            IN  \A i \in Says(doc, v) :
                    (\A j \in Says(doc, v) : j <= i) => m_val[v] = doc[i].value

\* When nobody is in setValue, every listener was last told the value there is.
ListenersTold == \A c \in Cb : ~Setting(Listening[c]) => told[c] = m_val[Listening[c]]

\* When a load is over its values are in place and the listeners know of them.
LoadsSettle == LoadApplied /\ ListenersTold

\* Every load ends, although several writers call listeners under the read lock of a
\* variable that each of them wants to write.
LoadsEnd == \A w \in Writer : (at[w] # "idle") ~> (at[w] = "idle")

=============================================================================
