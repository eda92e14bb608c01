--------------------------- MODULE LogConfigProofs ---------------------------
(* Theorems about Config, for every set of variables, listeners and documents, *)
(* in the specification that runs it with the loggers.                         *)
EXTENDS LogConfig, SequencesExt, SequenceTheorems, WellFoundedInduction, TLAPS

\* A set of naturals that is not empty has a least one: the first of a search.
LEMMA LeastExists ==
    ASSUME NEW S \in SUBSET Nat, S # {}
    PROVE  \E i \in S : \A j \in S : i <= j
<1> DEFINE R == OpToRel(<, Nat)
<1>1. IsWellFoundedOn(R, Nat)
  BY NatLessThanWellFounded
<1>2. \A x, y \in Nat : x < y => <<x, y>> \in R
  BY DEF OpToRel
<1> HIDE DEF R
<1>3. PICK i \in S : \A y \in S : ~(<<y, i>> \in R)
  BY <1>1, WFMin
<1>4. \A j \in S : ~(j < i)
  BY <1>2, <1>3
<1>5. \A j \in S : i <= j
  <2> SUFFICES ASSUME NEW j \in S PROVE i <= j
    OBVIOUS
  <2>1. ~(j < i) /\ i \in Nat /\ j \in Nat
    BY <1>4
  <2> QED BY <2>1
<1> QED BY <1>5

List(w) == ListAllMember(begun[w].doc)

NodesOf(w) == {List(w)[i] : i \in DOMAIN List(w)}

\* How many nodes of its document a writer has dealt with.
Seen(w) == Len(List(w)) - Len(nodes[w])

InSetValue(w) == at[w] \in {"check", "notify", "store"}

TypeConfig ==
    /\ s_datas \subseteq Var /\ DOMAIN m_val = Var /\ DOMAIN told = Cb
    /\ at \in [Writer -> {"idle", "next", "check", "notify", "store"}]
    /\ DOMAIN nodes = Writer /\ DOMAIN begun = Writer /\ DOMAIN loads = Writer
    /\ left \in [Writer -> SUBSET Cb]

\* What a writer has still to do is the end of its document, and setValue is called for a
\* variable there is, with a value that converts.
Remaining(w) ==
    at[w] # "idle" =>
        /\ begun[w].doc \in Docs
        /\ nodes[w] \in Seq(NodesOf(w))
        /\ Len(nodes[w]) <= Len(List(w))
        /\ \A i \in 1 .. Len(nodes[w]) : nodes[w][i] = List(w)[Seen(w) + i]
        /\ InSetValue(w) => nodes[w] # <<>> /\ Node(w).key \in s_datas /\ Node(w).value # Bad

\* The first n nodes of the document are in effect: the last of them that names v has
\* given it its value.
AppliedTo(w, n) ==
    \A v \in begun[w].known : \A i \in Says(List(w), v) :
        i <= n /\ (\A j \in Says(List(w), v) : j <= n => j <= i) => m_val[v] = List(w)[i].value

Applied(w) ==
    /\ begun[w].known \subseteq s_datas
    /\ at[w] # "idle" => AppliedTo(w, Seen(w))

\* A listener that setValue has called for the value it is about to store.
Ahead(w, c) == at[w] \in {"notify", "store"} /\ Listening[c] = Node(w).key /\ c \notin left[w]

\* Every listener was last told the value there is, or the one that is being set.
Told ==
    \A c \in Cb :
        /\ (\A w \in Writer : ~Ahead(w, c)) => told[c] = m_val[Listening[c]]
        /\ \A w \in Writer : Ahead(w, c) => told[c] = Node(w).value

\* Whom setValue has still to call.
Calling(w) ==
    /\ at[w] = "notify" => left[w] # {} /\ \A c \in left[w] : Listening[c] = Node(w).key
    /\ at[w] # "notify" => left[w] = {}

ConfigInv ==
    /\ TypeConfig /\ Told /\ LoadApplied
    /\ \A w \in Writer : Remaining(w) /\ Applied(w) /\ Calling(w)

-----------------------------------------------------------------------------
\* What is left of a list after its first node.
LEMMA TailOfList ==
    ASSUME NEW S, NEW s \in Seq(S), s # <<>>
    PROVE  /\ Head(s) = s[1] /\ Tail(s) \in Seq(S)
           /\ Len(Tail(s)) = Len(s) - 1 /\ Len(s) \in Nat \ {0}
           /\ \A i \in 1 .. Len(s) - 1 : Tail(s)[i] = s[i + 1]
  BY HeadTailProperties, LenProperties

\* No variable has its own value yet, and nobody was told of another.
LEMMA ConfigInit == Init => ConfigInv
<1> SUFFICES ASSUME Init PROVE ConfigInv
  OBVIOUS
<1> USE CbAssumption, DefaultAssumption
<1>1. InitConfig
  BY DEF Init
<1>2. TypeConfig
  BY <1>1 DEF InitConfig, TypeConfig
<1>3. \A w \in Writer : at[w] = "idle" /\ left[w] = {} /\ begun[w].known = {}
  BY <1>1 DEF InitConfig
<1>4. Told
  BY <1>1, <1>3 DEF InitConfig, Told, Ahead
<1>5. LoadApplied
  BY <1>3 DEF LoadApplied
<1>6. \A w \in Writer : Remaining(w) /\ Applied(w) /\ Calling(w)
  BY <1>3 DEF Remaining, Applied, Calling
<1> QED BY <1>2, <1>4, <1>5, <1>6 DEF ConfigInv

\* The next node of a document, once it is dealt with, is one more that is in effect.
LEMMA DoneApplies ==
    ASSUME ConfigInv, NEW w \in Writer, at[w] # "idle", nodes[w] # <<>>, Done(w), UNCHANGED begun,
           \A v \in begun[w].known :
              IF Node(w).key = v /\ Node(w).value # Bad THEN m_val'[v] = Node(w).value
              ELSE m_val'[v] = m_val[v]
    PROVE  AppliedTo(w, Seen(w))' /\ at'[w] = "next"
           /\ nodes'[w] \in Seq(NodesOf(w))
           /\ Len(nodes'[w]) <= Len(List(w))
           /\ \A i \in 1 .. Len(nodes'[w]) : nodes'[w][i] = List(w)[Seen(w)' + i]
<1> DEFINE S == NodesOf(w)
           d == Seen(w)
<1>1. /\ begun[w].doc \in Docs /\ nodes[w] \in Seq(S) /\ Len(nodes[w]) <= Len(List(w))
      /\ \A i \in 1 .. Len(nodes[w]) : nodes[w][i] = List(w)[d + i]
  BY DEF ConfigInv, Remaining
<1>2. List(w) \in Seq(S) /\ Len(List(w)) \in Nat /\ DOMAIN List(w) = 1 .. Len(List(w))
  <2>1. List(w) \in Seq(S)
    BY <1>1, DocsAssumption DEF List, NodesOf
  <2> QED BY <2>1, LenProperties
<1>3. at'[w] = "next" /\ nodes'[w] = Tail(nodes[w])
  BY DEF Done, Goes, ConfigInv, TypeConfig
<1>4. List(w)' = List(w)
  BY DEF List
<1> HIDE DEF S
<1>5. /\ Node(w) = nodes[w][1] /\ nodes'[w] \in Seq(S)
      /\ Len(nodes'[w]) = Len(nodes[w]) - 1 /\ Len(nodes[w]) \in Nat \ {0}
      /\ \A i \in 1 .. Len(nodes[w]) - 1 : nodes'[w][i] = nodes[w][i + 1]
  BY <1>1, <1>3, TailOfList DEF Node
<1>6. Seen(w)' = d + 1 /\ d \in Nat /\ Node(w) = List(w)[d + 1] /\ d + 1 \in DOMAIN List(w)
  <2>1. Seen(w)' = Len(List(w)) - Len(nodes'[w]) /\ d = Len(List(w)) - Len(nodes[w])
    BY <1>4 DEF Seen
  <2>2. Len(nodes[w]) <= Len(List(w))
    BY <1>1
  <2> HIDE DEF d
  <2>3. Seen(w)' = d + 1 /\ d \in Nat /\ d + 1 \in 1 .. Len(List(w))
    <3>1. /\ Len(List(w)) \in Nat /\ Len(nodes[w]) \in Nat \ {0}
          /\ Len(nodes'[w]) = Len(nodes[w]) - 1
      BY <1>2, <1>5
    <3>2. Len(List(w)) - Len(nodes'[w]) = (Len(List(w)) - Len(nodes[w])) + 1
      BY <3>1
    <3>3. d \in Nat /\ d + 1 \in 1 .. Len(List(w))
      BY <2>1, <2>2, <3>1
    <3> QED BY <2>1, <3>2, <3>3
  <2>4. 1 \in 1 .. Len(nodes[w])
    BY <1>5
  <2> QED BY <2>3, <2>4, <1>1, <1>2, <1>5
<1>7. \A i \in 1 .. Len(nodes'[w]) : nodes'[w][i] = List(w)[Seen(w)' + i]
  <2> SUFFICES ASSUME NEW i \in 1 .. Len(nodes'[w]) PROVE nodes'[w][i] = List(w)[Seen(w)' + i]
    OBVIOUS
  <2>1. i + 1 \in 1 .. Len(nodes[w]) /\ i \in 1 .. Len(nodes[w]) - 1 /\ d + (i + 1) = (d + 1) + i
    <3> HIDE DEF d
    <3>1. i \in 1 .. Len(nodes[w]) - 1 /\ Len(nodes[w]) \in Nat /\ d \in Nat
      BY <1>5, <1>6
    <3> QED BY <3>1
  <2> HIDE DEF d
  <2> QED BY <2>1, <1>1, <1>5, <1>6
<1>8. AppliedTo(w, d)
  BY DEF ConfigInv, Applied
<1> HIDE DEF d
<1>9. ASSUME NEW v \in begun[w].known, NEW i \in Says(List(w), v), i <= d + 1,
             \A j \in Says(List(w), v) : j <= d + 1 => j <= i
      PROVE  m_val'[v] = List(w)[i].value
  <2>0. i \in Nat /\ Says(List(w), v) \subseteq Nat
    BY <1>2 DEF Says
  <2>1. CASE i = d + 1
    BY <2>1, <1>6 DEF Says
  <2>2. CASE i # d + 1
    <3>1. i <= d /\ \A j \in Says(List(w), v) : j <= d => j <= i
      BY <2>0, <2>2, <1>6, <1>9
    <3>2. m_val[v] = List(w)[i].value
      BY <3>1, <1>8 DEF AppliedTo
    <3>3. d + 1 \notin Says(List(w), v)
      BY <2>0, <2>2, <1>6, <1>9
    <3>4. ~(Node(w).key = v /\ Node(w).value # Bad)
      BY <3>3, <1>6 DEF Says
    <3> QED BY <3>2, <3>4
  <2> QED BY <2>1, <2>2
<1>10. AppliedTo(w, Seen(w))'
  BY <1>4, <1>6, <1>9 DEF AppliedTo
<1>11. Len(nodes'[w]) <= Len(List(w))
  BY <1>1, <1>2, <1>5
<1> QED BY <1>3, <1>5, <1>7, <1>10, <1>11 DEF S

\* Steps of the loggers and their users touch no variable.
LEMMA ConfigStays == ConfigInv /\ UNCHANGED configVars => ConfigInv'
<1> SUFFICES ASSUME ConfigInv, UNCHANGED configVars PROVE ConfigInv'
  OBVIOUS
<1> USE DEF ConfigInv, configVars
<1>1. TypeConfig' /\ LoadApplied'
  BY DEF TypeConfig, LoadApplied
<1>2. Told'
  BY DEF Told, Ahead, Node
<1>3. ASSUME NEW w \in Writer PROVE (Remaining(w) /\ Applied(w) /\ Calling(w))'
  <2>1. List(w)' = List(w) /\ Seen(w)' = Seen(w) /\ Node(w)' = Node(w) /\ NodesOf(w)' = NodesOf(w)
    BY DEF List, Seen, Node, NodesOf
  <2>2. Remaining(w)'
    BY <2>1 DEF Remaining, InSetValue
  <2>3. Applied(w)' /\ Calling(w)'
    BY <2>1 DEF Applied, AppliedTo, Calling
  <2> QED BY <2>2, <2>3
<1> QED BY <1>1, <1>2, <1>3

\* A new variable is in no document that has begun before.
LEMMA LookupKeeps == ConfigInv /\ (\E v \in Var : Lookup(v)) => ConfigInv'
<1> SUFFICES ASSUME ConfigInv, NEW v \in Var, Lookup(v) PROVE ConfigInv'
  OBVIOUS
<1> USE DEF ConfigInv, Lookup
<1>1. TypeConfig' /\ LoadApplied'
  BY DEF TypeConfig, LoadApplied
<1>2. Told'
  BY DEF Told, Ahead, Node
<1>3. ASSUME NEW w \in Writer PROVE (Remaining(w) /\ Applied(w) /\ Calling(w))'
  <2>1. List(w)' = List(w) /\ Seen(w)' = Seen(w) /\ Node(w)' = Node(w) /\ NodesOf(w)' = NodesOf(w)
    BY DEF List, Seen, Node, NodesOf
  <2>2. Remaining(w)'
    BY <2>1 DEF Remaining, InSetValue
  <2>3. Applied(w)' /\ Calling(w)'
    BY <2>1 DEF Applied, AppliedTo, Calling
  <2> QED BY <2>2, <2>3
<1> QED BY <1>1, <1>2, <1>3

\* A document begins: none of its nodes is dealt with.
LEMMA LoadKeeps ==
    ASSUME ConfigInv, NEW w \in Writer, NEW doc \in Docs, LoadFromYaml(w, doc),
           \A x, y \in Writer : x = y
    PROVE  ConfigInv'
<1> DEFINE S == {ListAllMember(doc)[i] : i \in DOMAIN ListAllMember(doc)}
<1> USE DEF ConfigInv
<1>1. TypeConfig'
  BY DEF LoadFromYaml, TypeConfig, Goes
<1>2. /\ at[w] = "idle" /\ at'[w] = "next" /\ nodes'[w] = ListAllMember(doc)
      /\ begun'[w].doc = doc /\ begun'[w].known = s_datas /\ List(w)' = ListAllMember(doc)
      /\ s_datas' = s_datas /\ m_val' = m_val /\ left' = left /\ told' = told
  BY DEF LoadFromYaml, TypeConfig, Goes, List
<1>3. ListAllMember(doc) \in Seq(S) /\ Len(ListAllMember(doc)) \in Nat
      /\ DOMAIN ListAllMember(doc) = 1 .. Len(ListAllMember(doc))
  <2>1. ListAllMember(doc) \in Seq(S)
    BY DocsAssumption
  <2> QED BY <2>1, LenProperties
<1>4. Seen(w)' = 0
  BY <1>2, <1>3 DEF Seen
<1>5. LoadApplied'
  BY <1>2 DEF LoadApplied
<1>6. Told'
  BY <1>2 DEF Told, Ahead
<1>7. Remaining(w)'
  <2>1. \A i \in 1 .. Len(nodes'[w]) : nodes'[w][i] = List(w)'[Seen(w)' + i]
    BY <1>2, <1>3, <1>4
  <2> QED BY <1>2, <1>3, <2>1 DEF Remaining, InSetValue, NodesOf
<1>8. Applied(w)'
  <2>1. \A v : \A i \in Says(List(w)', v) : i \in Nat /\ i > 0
    BY <1>2, <1>3 DEF Says
  <2>2. AppliedTo(w, Seen(w))'
    BY <1>4, <2>1 DEF AppliedTo
  <2> QED BY <1>2, <2>2 DEF Applied
<1>9. Calling(w)'
  BY <1>2 DEF Calling
<1> QED BY <1>1, <1>5, <1>6, <1>7, <1>8, <1>9

\* A node is dealt with: what is told is what there is, and the next node follows.
LEMMA DoneKeeps ==
    ASSUME ConfigInv, NEW w \in Writer, at[w] # "idle", nodes[w] # <<>>, Done(w),
           UNCHANGED <<begun, s_datas, left, loads, told>>, DOMAIN m_val' = Var,
           \A x, y \in Writer : x = y, left[w] = {},
           \A v \in begun[w].known :
              IF Node(w).key = v /\ Node(w).value # Bad THEN m_val'[v] = Node(w).value
              ELSE m_val'[v] = m_val[v],
           \A c \in Cb : told[c] = m_val'[Listening[c]]
    PROVE  ConfigInv'
<1>1. /\ AppliedTo(w, Seen(w))' /\ at'[w] = "next"
      /\ nodes'[w] \in Seq(NodesOf(w))
      /\ Len(nodes'[w]) <= Len(List(w))
      /\ \A i \in 1 .. Len(nodes'[w]) : nodes'[w][i] = List(w)[Seen(w)' + i]
  BY DoneApplies
<1> USE DEF ConfigInv
<1>2. TypeConfig'
  BY DEF Done, Goes, TypeConfig
<1>3. LoadApplied'
  BY <1>1 DEF LoadApplied
<1>4. Told'
  BY <1>1 DEF Told, Ahead
<1>5. List(w)' = List(w) /\ NodesOf(w)' = NodesOf(w) /\ begun[w].doc \in Docs
  <2>1. List(w)' = List(w)
    BY DEF List
  <2>2. NodesOf(w)' = NodesOf(w)
    BY <2>1 DEF NodesOf
  <2>3. begun[w].doc \in Docs
    BY DEF Remaining
  <2> QED BY <2>1, <2>2, <2>3
<1>6. Remaining(w)'
  BY <1>1, <1>5 DEF Remaining, InSetValue
<1>7. Applied(w)'
  BY <1>1 DEF Applied
<1>8. Calling(w)'
  BY <1>1 DEF Calling
<1> QED BY <1>2, <1>3, <1>4, <1>6, <1>7, <1>8

\* The writer goes on within a node.
LEMMA WithinKeeps ==
    ASSUME ConfigInv, NEW w \in Writer, at[w] # "idle", nodes[w] # <<>>,
           NEW place \in {"check", "notify", "store"}, Goes(w, place),
           UNCHANGED <<begun, s_datas, nodes, loads, m_val>>,
           Node(w).key \in s_datas, Node(w).value # Bad,
           \A x, y \in Writer : x = y, Told', Calling(w)', TypeConfig'
    PROVE  ConfigInv'
<1> USE DEF ConfigInv
<1>1. at'[w] = place
  BY DEF Goes, TypeConfig
<1>2. List(w)' = List(w) /\ Seen(w)' = Seen(w) /\ Node(w)' = Node(w) /\ NodesOf(w)' = NodesOf(w)
  BY DEF List, Seen, Node, NodesOf
<1>3. Remaining(w)'
  BY <1>1, <1>2 DEF Remaining, InSetValue
<1>4. Applied(w)'
  BY <1>1, <1>2 DEF Applied, AppliedTo
<1>5. LoadApplied'
  BY <1>1 DEF LoadApplied
<1> QED BY <1>3, <1>4, <1>5

\* One turn of LoadFromYaml's loop: the end, a node without a variable or a value, or a
\* call of setValue.
LEMMA NextNodeKeeps ==
    ASSUME ConfigInv, NEW w \in Writer, NextNode(w), \A x, y \in Writer : x = y
    PROVE  ConfigInv'
<1>0. at[w] = "next" /\ UNCHANGED <<s_datas, m_val, left, loads, told, begun>>
  BY DEF NextNode
<1>1. left[w] = {} /\ \A c \in Cb : told[c] = m_val[Listening[c]]
  BY <1>0 DEF ConfigInv, Calling, Told, Ahead
<1>2. CASE nodes[w] = <<>>
  <2> USE DEF ConfigInv
  <2>1. Goes(w, "idle") /\ nodes' = nodes
    BY <1>2 DEF NextNode
  <2>2. TypeConfig' /\ at'[w] = "idle"
    BY <1>0, <2>1 DEF Goes, TypeConfig
  <2>3. Told'
    BY <1>0, <1>1, <2>2 DEF Told, Ahead
  <2>4. LoadApplied'
    <3>1. begun[w].doc \in Docs
      BY <1>0 DEF Remaining
    <3>2. List(w) \in Seq(NodesOf(w))
      BY <3>1, DocsAssumption DEF List, NodesOf
    <3>3. Len(List(w)) \in Nat /\ DOMAIN List(w) = 1 .. Len(List(w))
      BY <3>2, LenProperties
    <3>4. Seen(w) = Len(List(w))
      BY <1>2, <3>3, EmptySeq DEF Seen
    <3>5. AppliedTo(w, Len(List(w)))
      BY <1>0, <3>4 DEF Applied
    <3>6. ASSUME NEW v \in begun[w].known, NEW i \in Says(List(w), v),
                 \A j \in Says(List(w), v) : j <= i
          PROVE  m_val[v] = List(w)[i].value
      <4>1. i <= Len(List(w))
        BY <3>3 DEF Says
      <4> QED BY <3>5, <3>6, <4>1 DEF AppliedTo
    <3> QED BY <1>0, <3>6 DEF LoadApplied, List
  <2>5. Remaining(w)' /\ Applied(w)' /\ Calling(w)'
    BY <1>0, <1>1, <2>2 DEF Remaining, Applied, Calling
  <2> QED BY <2>2, <2>3, <2>4, <2>5
<1>3. CASE nodes[w] # <<>> /\ (Node(w).key \notin s_datas \/ Node(w).value = Bad)
  <2>1. Done(w)
    BY <1>3 DEF NextNode
  <2>2. \A v \in begun[w].known : ~(Node(w).key = v /\ Node(w).value # Bad)
    BY <1>3 DEF ConfigInv, Applied
  <2>3. DOMAIN m_val' = Var
    BY <1>0 DEF ConfigInv, TypeConfig
  <2> QED BY <1>0, <1>1, <1>3, <2>1, <2>2, <2>3, DoneKeeps
<1>4. CASE nodes[w] # <<>> /\ ~(Node(w).key \notin s_datas \/ Node(w).value = Bad)
  <2>1. Goes(w, "check") /\ nodes' = nodes
    BY <1>4 DEF NextNode
  <2>2. TypeConfig' /\ at'[w] = "check"
    BY <1>0, <2>1 DEF Goes, TypeConfig, ConfigInv
  <2>3. Told' /\ Calling(w)'
    BY <1>0, <1>1, <2>2 DEF Told, Ahead, Calling
  <2> QED BY <1>0, <1>4, <2>1, <2>2, <2>3, WithinKeeps
<1> QED BY <1>2, <1>3, <1>4

\* setValue compares, and calls the listeners of the variable or has none to call.
LEMMA CheckKeeps ==
    ASSUME ConfigInv, NEW w \in Writer, Check(w), \A x, y \in Writer : x = y
    PROVE  ConfigInv'
<1>0. at[w] = "check" /\ UNCHANGED <<s_datas, m_val, loads, told, begun>>
  BY DEF Check
<1>1. left[w] = {} /\ \A c \in Cb : told[c] = m_val[Listening[c]]
  BY <1>0 DEF ConfigInv, Calling, Told, Ahead
<1>2. nodes[w] # <<>> /\ Node(w).key \in s_datas /\ Node(w).value # Bad
  BY <1>0 DEF ConfigInv, Remaining, InSetValue
<1> DEFINE cbs == {c \in Cb : Listening[c] = Node(w).key}
<1>3. CASE Node(w).value = m_val[Node(w).key]
  <2>1. Done(w) /\ left' = left
    BY <1>3 DEF Check
  <2>2. DOMAIN m_val' = Var
    BY <1>0 DEF ConfigInv, TypeConfig
  <2> QED BY <1>0, <1>1, <1>2, <1>3, <2>1, <2>2, DoneKeeps
<1>4. CASE Node(w).value # m_val[Node(w).key]
  <2>1. /\ left' = [left EXCEPT ![w] = cbs] /\ nodes' = nodes
        /\ Goes(w, IF cbs = {} THEN "store" ELSE "notify")
    BY <1>4 DEF Check
  <2>2. /\ TypeConfig' /\ at'[w] = (IF cbs = {} THEN "store" ELSE "notify")
        /\ left'[w] = cbs /\ Node(w)' = Node(w)
    BY <1>0, <2>1 DEF Goes, TypeConfig, ConfigInv, Node
  <2>3. Told'
    BY <1>0, <1>1, <2>2 DEF Told, Ahead
  <2>4. Calling(w)'
    BY <2>2 DEF Calling
  <2>5. CASE cbs = {}
    BY <1>0, <1>2, <2>1, <2>2, <2>3, <2>4, <2>5, WithinKeeps
  <2>6. CASE cbs # {}
    BY <1>0, <1>2, <2>1, <2>2, <2>3, <2>4, <2>6, WithinKeeps
  <2> QED BY <2>5, <2>6
<1> QED BY <1>3, <1>4

\* A listener returns and knows the value that is being set.
LEMMA ReturnsKeeps ==
    ASSUME ConfigInv, NEW w \in Writer, at[w] = "notify", Returns(w), \A x, y \in Writer : x = y
    PROVE  ConfigInv'
<1>1. left[w] # {} /\ left[w] \subseteq Cb /\ \A c \in left[w] : Listening[c] = Node(w).key
  BY DEF ConfigInv, Calling, TypeConfig
<1>2. \E c \in left[w] : \A d \in left[w] : c <= d
  BY <1>1, CbAssumption, LeastExists
<1>3. Current(w) \in left[w]
  BY <1>2 DEF Current
<1> DEFINE c == Current(w)
           place == IF left[w] = {c} THEN "store" ELSE "notify"
<1>4. /\ told' = [told EXCEPT ![c] = Node(w).value]
      /\ left' = [left EXCEPT ![w] = @ \ {c}]
      /\ Goes(w, place)
      /\ UNCHANGED <<s_datas, m_val, nodes, loads, begun>>
  BY DEF Returns
<1>5. place \in {"check", "notify", "store"} /\ place # "check"
  OBVIOUS
<1>6. (place = "store" => left[w] = {c}) /\ (place = "notify" => left[w] # {c})
  OBVIOUS
<1>7. c \in left[w]
  BY <1>3
<1> HIDE DEF c, place
<1>8. /\ TypeConfig' /\ at'[w] = place /\ left'[w] = left[w] \ {c} /\ Node(w)' = Node(w)
  BY <1>4, <1>5 DEF Goes, TypeConfig, ConfigInv, Node
<1>9. nodes[w] # <<>> /\ Node(w).key \in s_datas /\ Node(w).value # Bad
  BY DEF ConfigInv, Remaining, InSetValue
<1>10. Told'
  <2>1. ASSUME NEW e \in Cb PROVE Ahead(w, e)' <=> (Ahead(w, e) \/ e = c)
    BY <1>1, <1>5, <1>7, <1>8 DEF Ahead
  <2>2. ASSUME NEW e \in Cb PROVE told'[e] = IF e = c THEN Node(w).value ELSE told[e]
    BY <1>4 DEF ConfigInv, TypeConfig
  <2>3. ASSUME NEW e \in Cb
        PROVE  /\ (\A x \in Writer : ~Ahead(x, e)') => told'[e] = m_val'[Listening[e]]
               /\ \A x \in Writer : Ahead(x, e)' => told'[e] = Node(x)'.value
    <3>1. \A x \in Writer : x = w
      OBVIOUS
    <3>2. /\ ~Ahead(w, e) => told[e] = m_val[Listening[e]]
          /\ Ahead(w, e) => told[e] = Node(w).value
      BY <3>1 DEF ConfigInv, Told
    <3>3. ~Ahead(w, e)' => told'[e] = m_val'[Listening[e]]
      BY <2>1, <2>2, <3>2, <1>4
    <3>4. Ahead(w, e)' => told'[e] = Node(w)'.value
      BY <2>1, <2>2, <3>2, <1>8
    <3> QED BY <3>1, <3>3, <3>4
  <2> QED BY <2>3 DEF Told
<1>11. Calling(w)'
  BY <1>1, <1>5, <1>6, <1>7, <1>8 DEF Calling
<1> QED BY <1>4, <1>5, <1>8, <1>9, <1>10, <1>11, WithinKeeps

\* setValue stores the value its listeners were told.
LEMMA StoreKeeps ==
    ASSUME ConfigInv, NEW w \in Writer, Store(w), \A x, y \in Writer : x = y
    PROVE  ConfigInv'
<1>0. at[w] = "store" /\ Done(w) /\ UNCHANGED <<s_datas, left, loads, told, begun>>
      /\ m_val' = [m_val EXCEPT ![Node(w).key] = Node(w).value]
  BY DEF Store
<1>1. nodes[w] # <<>> /\ Node(w).key \in s_datas /\ Node(w).value # Bad
  BY <1>0 DEF ConfigInv, Remaining, InSetValue
<1>2. left[w] = {}
  BY <1>0 DEF ConfigInv, Calling
<1>3. \A v \in Var : m_val'[v] = IF v = Node(w).key THEN Node(w).value ELSE m_val[v]
  BY <1>0, <1>1 DEF ConfigInv, TypeConfig
<1>4. ASSUME NEW c \in Cb PROVE told[c] = m_val'[Listening[c]]
  <2>1. Listening[c] \in Var
    BY CbAssumption
  <2>2. Ahead(w, c) <=> Listening[c] = Node(w).key
    BY <1>0, <1>2 DEF Ahead
  <2>3. \A x \in Writer : x = w
    OBVIOUS
  <2>4. /\ ~Ahead(w, c) => told[c] = m_val[Listening[c]]
        /\ Ahead(w, c) => told[c] = Node(w).value
    BY <2>3 DEF ConfigInv, Told
  <2> QED BY <1>3, <2>1, <2>2, <2>4
<1>5. DOMAIN m_val' = Var
  BY <1>0 DEF ConfigInv, TypeConfig
<1>6. \A v \in begun[w].known : v \in Var
  BY DEF ConfigInv, Applied, TypeConfig
<1>7. \A v \in begun[w].known :
         IF Node(w).key = v /\ Node(w).value # Bad THEN m_val'[v] = Node(w).value
         ELSE m_val'[v] = m_val[v]
  BY <1>1, <1>3, <1>6
<1> QED BY <1>0, <1>1, <1>2, <1>4, <1>5, <1>7, DoneKeeps

-----------------------------------------------------------------------------
\* LoadsSettle, for one thread that loads documents, whatever the documents, variables
\* and listeners: when LoadFromYaml returns, each variable it found has the value the
\* document gives it last, an unknown key, an invalid name or a bad value having cost
\* only itself; and whenever nobody is inside setValue each listener was last told the
\* value there is.
THEOREM LoadsAreSettled ==
    ASSUME \A w, x \in Writer : w = x
    PROVE  Spec => []LoadsSettle
<1>1. ConfigInv /\ [Next]_vars => ConfigInv'
  <2> SUFFICES ASSUME ConfigInv, [Next]_vars PROVE ConfigInv'
    OBVIOUS
  <2>1. CASE UserStep
    BY <2>1, LookupKeeps, LoadKeeps DEF UserStep
  <2>2. ASSUME NEW w \in Writer, WriterStep(w) PROVE ConfigInv'
    <3>1. CASE NextNode(w) \/ Check(w) \/ Store(w)
      BY <3>1, NextNodeKeeps, CheckKeeps, StoreKeeps
    <3>2. CASE Begin(w) \/ Apply(w)
      BY <3>2, ConfigStays DEF Begin, Apply, KeepConfig
    <3>3. CASE EndNotify(w)
      BY <3>3, ReturnsKeeps DEF EndNotify
    <3> QED BY <2>2, <3>1, <3>2, <3>3 DEF WriterStep, ConfigStep
  <2>3. ASSUME NEW t \in Thread,
               Writes(t) \/ \E n \in Name, level \in Level : Passes(t, n, level)
        PROVE  ConfigInv'
    BY <2>3, ConfigStays DEF Writes, Passes, KeepConfig
  <2>4. CASE \E n \in Name, f \in UserPattern : UserFormat(n, f)
    BY <2>4, ConfigStays DEF UserFormat, KeepConfig
  <2>5. CASE UNCHANGED vars
    BY <2>5, ConfigStays DEF vars
  <2> QED BY <2>1, <2>2, <2>3, <2>4, <2>5 DEF Next
<1>2. ConfigInv => LoadsSettle
  <2> SUFFICES ASSUME ConfigInv PROVE ListenersTold
    BY DEF LoadsSettle, ConfigInv
  <2> QED BY DEF ConfigInv, Told, Ahead, ListenersTold, Setting
<1> QED BY <1>1, <1>2, ConfigInit, PTL DEF Spec

=============================================================================
