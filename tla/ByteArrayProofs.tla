--------------------------- MODULE ByteArrayProofs ---------------------------
(***************************************************************************)
(* The list of blocks of ByteArray, for every block size and every number  *)
(* of calls: its bookkeeping is right, what ends the process is known, the *)
(* const reads return what is there, it implements FlatBytes, and typed    *)
(* reads return what was written.                                          *)
(***************************************************************************)
EXTENDS ByteArray, SequenceTheorems, WellFoundedInduction, TLAPS

Obj == [nodes : Seq([0 .. BaseSize - 1 -> Byte]), cur : Nat, position : Nat, size : Nat,
        capacity : Nat, little : BOOLEAN, garbage : Byte]

\* CursorRight, and the types, of any object.
Sound(b) ==
    /\ b \in Obj
    /\ b.position <= b.size /\ b.size <= b.capacity
    /\ Len(b.nodes) >= 1 /\ b.capacity = Len(b.nodes) * BaseSize
    /\ b.cur = IF b.position = b.capacity THEN Null ELSE (b.position \div BaseSize) + 1

\* The byte at place x, counted from the first block on.
Cell(b, x) == b.nodes[(x \div BaseSize) + 1][x % BaseSize]

\* A block holds at least one byte.
LEMMA BaseNat == BaseSize \in Nat \ {0}
  BY ByteArrayAssumption

\* Quotient and remainder of a division by the block size.
LEMMA DivMod ==
    ASSUME NEW x \in Int
    PROVE  /\ x \div BaseSize \in Int /\ x % BaseSize \in 0 .. BaseSize - 1
           /\ x = (x \div BaseSize) * BaseSize + (x % BaseSize)
  BY BaseNat

\* Only one quotient and remainder.
LEMMA DivModUnique ==
    ASSUME NEW q \in Int, NEW r \in 0 .. BaseSize - 1, NEW x \in Int, x = q * BaseSize + r
    PROVE  x \div BaseSize = q /\ x % BaseSize = r
  BY BaseNat

\* A product with the block size grows with its factor.
LEMMA Products ==
    ASSUME NEW a \in Int, NEW b \in Int
    PROVE  /\ a * BaseSize \in Int
           /\ a <= b => a * BaseSize <= b * BaseSize
           /\ a < b => a * BaseSize + BaseSize <= b * BaseSize
           /\ (a + b) * BaseSize = a * BaseSize + b * BaseSize
           /\ (a - b) * BaseSize = a * BaseSize - b * BaseSize
<1> USE BaseNat
<1>1. a * BaseSize \in Int
  OBVIOUS
<1>2. a <= b => a * BaseSize <= b * BaseSize
  OBVIOUS
<1>3. a < b => a * BaseSize + BaseSize <= b * BaseSize
  OBVIOUS
<1>4. (a + b) * BaseSize = a * BaseSize + b * BaseSize
  OBVIOUS
<1>5. (a - b) * BaseSize = a * BaseSize - b * BaseSize
  OBVIOUS
<1> QED BY <1>1, <1>2, <1>3, <1>4, <1>5

\* A place is in the blocks exactly when its block is one of them.
LEMMA BlockOf ==
    ASSUME NEW x \in Int, NEW n \in Int
    PROVE  /\ x < n * BaseSize <=> (x \div BaseSize) + 1 <= n
           /\ x >= 0 <=> x \div BaseSize >= 0
<1> DEFINE q == x \div BaseSize
           r == x % BaseSize
<1>1. q \in Int /\ r \in 0 .. BaseSize - 1 /\ x = q * BaseSize + r
  BY DivMod
<1> HIDE DEF q, r
<1>2. BaseSize \in Nat /\ q * BaseSize \in Int /\ n * BaseSize \in Int
  BY <1>1, Products, BaseNat
<1>3. q < n => x < n * BaseSize
  BY <1>1, <1>2, Products
<1>4. q >= n => x >= n * BaseSize
  BY <1>1, <1>2, Products
<1>5. q >= 0 => x >= 0
  <2>1. 0 <= q => 0 * BaseSize <= q * BaseSize
    BY <1>1, Products
  <2> QED BY <2>1, <1>1, <1>2
<1>6. q < 0 => x < 0
  <2>1. q < 0 => q * BaseSize + BaseSize <= 0 * BaseSize
    BY <1>1, Products
  <2> QED BY <2>1, <1>1, <1>2
<1> QED BY <1>1, <1>2, <1>3, <1>4, <1>5, <1>6 DEF q

\* The copy loop's place in the blocks after j bytes.
LEMMA Along ==
    ASSUME NEW c \in Int, NEW npos \in 0 .. BaseSize - 1, NEW j \in Int,
           NEW at \in Int, at = (c - 1) * BaseSize + npos
    PROVE  /\ c + ((npos + j) \div BaseSize) = ((at + j) \div BaseSize) + 1
           /\ (npos + j) % BaseSize = (at + j) % BaseSize
<1> DEFINE q == (npos + j) \div BaseSize
           r == (npos + j) % BaseSize
<1>0. npos + j \in Int /\ BaseSize \in Nat
  BY BaseNat
<1>1. q \in Int /\ r \in 0 .. BaseSize - 1 /\ npos + j = q * BaseSize + r
  BY <1>0, DivMod
<1> HIDE DEF q, r
<1>2. at + j = ((c - 1) + q) * BaseSize + r
  <2>1. ((c - 1) + q) * BaseSize = (c - 1) * BaseSize + q * BaseSize
    BY <1>1, Products
  <2>2. (c - 1) * BaseSize \in Int /\ q * BaseSize \in Int
    BY <1>1, Products
  <2> QED BY <2>1, <2>2, <1>0, <1>1
<1>3. (at + j) \div BaseSize = (c - 1) + q /\ (at + j) % BaseSize = r
  BY <1>1, <1>2, DivModUnique
<1> QED BY <1>1, <1>3 DEF q, r

\* Which bytes the copy loop can visit, and where it leaves m_cur.
LEMMA LoopFacts ==
    ASSUME NEW b, b.nodes \in Seq([0 .. BaseSize - 1 -> Byte]), NEW c \in 1 .. Len(b.nodes),
           NEW npos \in 0 .. BaseSize - 1, NEW n \in Nat,
           NEW at \in Int, at = (c - 1) * BaseSize + npos
    PROVE  /\ LoopRuns(b, c, npos, n) <=> n = 0 \/ at + n <= Len(b.nodes) * BaseSize
           /\ at + n <= Len(b.nodes) * BaseSize =>
                 Hop(b, c, (npos + n) \div BaseSize) =
                     IF at + n = Len(b.nodes) * BaseSize THEN Null ELSE ((at + n) \div BaseSize) + 1
<1> DEFINE m == Len(b.nodes)
<1>0. m \in Nat /\ c \in Int /\ c # 0 /\ c >= 1 /\ c <= m /\ BaseSize \in Nat \ {0}
  BY LenProperties, BaseNat
<1>1. m * BaseSize \in Int
  BY <1>0, Products
<1>2. LoopRuns(b, c, npos, n) <=> n = 0 \/ at + n <= m * BaseSize
  <2>1. CASE n = 0
    BY <1>0, <2>1 DEF LoopRuns, Hop, Null
  <2>2. CASE n # 0
    <3>1. npos + n - 1 = npos + (n - 1) /\ n - 1 \in Int
      BY <1>0
    <3>2. c + ((npos + (n - 1)) \div BaseSize) = ((at + (n - 1)) \div BaseSize) + 1
      BY <1>0, <3>1, Along, ZenonT(60)
    <3>3. at + (n - 1) < m * BaseSize <=> ((at + (n - 1)) \div BaseSize) + 1 <= m
      BY <1>0, <3>1, BlockOf
    <3>4. (npos + (n - 1)) \div BaseSize \in Int /\ npos + (n - 1) >= 0
      BY <1>0, <2>2, DivMod
    <3>5. (npos + (n - 1)) \div BaseSize >= 0
      BY <3>4, BlockOf
    <3>6. LoopRuns(b, c, npos, n) <=> c + ((npos + (n - 1)) \div BaseSize) <= m
      BY <1>0, <2>2, <3>1, <3>4, <3>5 DEF LoopRuns, Hop, Null
    <3> QED BY <1>0, <1>1, <2>2, <3>2, <3>3, <3>6, SMTT(40)
  <2> QED BY <2>1, <2>2
<1>3. ASSUME at + n <= m * BaseSize
      PROVE  Hop(b, c, (npos + n) \div BaseSize) =
                 IF at + n = m * BaseSize THEN Null ELSE ((at + n) \div BaseSize) + 1
  <2>0. n \in Int /\ npos + n \in Int
    BY <1>0
  <2>1. c + ((npos + n) \div BaseSize) = ((at + n) \div BaseSize) + 1
    <3>1. \A j \in Int : c + ((npos + j) \div BaseSize) = ((at + j) \div BaseSize) + 1
      BY <1>0, Along, ZenonT(60)
    <3> QED BY <2>0, <3>1
  <2>2. at + n < m * BaseSize <=> ((at + n) \div BaseSize) + 1 <= m
    BY <1>0, BlockOf
  <2>3. (at + n) \div BaseSize \in Int
    BY DivMod
  <2>4. Hop(b, c, (npos + n) \div BaseSize) =
            IF ((at + n) \div BaseSize) + 1 <= m THEN ((at + n) \div BaseSize) + 1 ELSE Null
    BY <1>0, <2>1 DEF Hop, Null
  <2> QED BY <1>1, <1>3, <2>2, <2>3, <2>4
<1> QED BY <1>2, <1>3

-----------------------------------------------------------------------------
(* Blocks as one row of bytes.                                             *)

\* Within the capacity every place holds a byte.
LEMMA CellType ==
    ASSUME NEW b, b.nodes \in Seq([0 .. BaseSize - 1 -> Byte]), NEW x \in Int,
           x >= 0, x < Len(b.nodes) * BaseSize
    PROVE  /\ (x \div BaseSize) + 1 \in 1 .. Len(b.nodes) /\ x % BaseSize \in 0 .. BaseSize - 1
           /\ Cell(b, x) \in Byte
<1>1. x \div BaseSize \in Int /\ x % BaseSize \in 0 .. BaseSize - 1
  BY DivMod
<1>2. Len(b.nodes) \in Int
  BY LenProperties
<1>3. (x \div BaseSize) + 1 <= Len(b.nodes) /\ x \div BaseSize >= 0
  BY <1>2, BlockOf
<1>4. (x \div BaseSize) + 1 \in 1 .. Len(b.nodes)
  BY <1>1, <1>2, <1>3
<1>5. b.nodes[(x \div BaseSize) + 1] \in [0 .. BaseSize - 1 -> Byte]
  BY <1>4, ElementOfSeq
<1> QED BY <1>1, <1>4, <1>5 DEF Cell

\* What read, the buffers and the file functions copy out.
LEMMA LoadCells ==
    ASSUME NEW b, NEW c \in Int, NEW npos \in 0 .. BaseSize - 1, NEW n \in Nat,
           NEW at \in Int, at = (c - 1) * BaseSize + npos
    PROVE  Load(b, c, npos, n) = [i \in 1 .. n |-> Cell(b, at + i - 1)]
<1>1. ASSUME NEW i \in 1 .. n
      PROVE  b.nodes[c + (npos + i - 1) \div BaseSize][(npos + i - 1) % BaseSize] = Cell(b, at + i - 1)
  <2>1. i - 1 \in Int /\ npos + i - 1 = npos + (i - 1) /\ at + i - 1 = at + (i - 1)
    BY BaseNat
  <2>2. \A j \in Int : /\ c + ((npos + j) \div BaseSize) = ((at + j) \div BaseSize) + 1
                       /\ (npos + j) % BaseSize = (at + j) % BaseSize
    <3> TAKE j \in Int
    <3>1. c + ((npos + j) \div BaseSize) = ((at + j) \div BaseSize) + 1
      BY BaseNat, Along, ZenonT(60)
    <3>2. (npos + j) % BaseSize = (at + j) % BaseSize
      BY BaseNat, Along, ZenonT(60)
    <3> QED BY <3>1, <3>2
  <2> QED BY <2>1, <2>2 DEF Cell
<1> QED BY <1>1 DEF Load

\* The contents, m_size bytes from the first block on.
LEMMA BytesFacts ==
    ASSUME NEW b, Sound(b)
    PROVE  /\ Load(b, 1, 0, b.size) \in Seq(Byte)
           /\ Len(Load(b, 1, 0, b.size)) = b.size
           /\ \A i \in 1 .. b.size : Load(b, 1, 0, b.size)[i] = Cell(b, i - 1)
<1>0. b.nodes \in Seq([0 .. BaseSize - 1 -> Byte]) /\ b.size \in Nat /\ b.capacity \in Nat
  BY DEF Sound, Obj
<1>1. 0 \in 0 .. BaseSize - 1 /\ 0 = (1 - 1) * BaseSize + 0
  BY BaseNat
<1>2. Load(b, 1, 0, b.size) = [i \in 1 .. b.size |-> Cell(b, 0 + i - 1)]
  <2>1. ASSUME NEW at \in Int, at = (1 - 1) * BaseSize + 0
        PROVE  Load(b, 1, 0, b.size) = [i \in 1 .. b.size |-> Cell(b, at + i - 1)]
    BY <1>0, <1>1, <2>1, BaseNat, LoadCells
  <2> QED BY <1>1, <2>1
<1>3. \A i \in 1 .. b.size : Cell(b, 0 + i - 1) = Cell(b, i - 1) /\ Cell(b, i - 1) \in Byte
  <2> TAKE i \in 1 .. b.size
  <2>1. 0 + i - 1 = i - 1 /\ i - 1 \in Int /\ i - 1 >= 0 /\ i - 1 < Len(b.nodes) * BaseSize
    BY <1>0 DEF Sound
  <2> QED BY <2>1, <1>0, CellType
<1>4. Load(b, 1, 0, b.size) = [i \in 1 .. b.size |-> Cell(b, i - 1)]
  BY <1>2, <1>3
<1> QED BY <1>0, <1>3, <1>4

\* What write and the receive buffers copy in.
LEMMA StoreFacts ==
    ASSUME NEW b, b.nodes \in Seq([0 .. BaseSize - 1 -> Byte]), NEW c \in Int,
           NEW npos \in 0 .. BaseSize - 1, NEW bytes \in Seq(Byte),
           NEW at \in Int, at = (c - 1) * BaseSize + npos
    PROVE  /\ Store(b, c, npos, bytes) \in Seq([0 .. BaseSize - 1 -> Byte])
           /\ Len(Store(b, c, npos, bytes)) = Len(b.nodes)
           /\ \A x \in Int : x >= 0 /\ x < Len(b.nodes) * BaseSize =>
                 Store(b, c, npos, bytes)[(x \div BaseSize) + 1][x % BaseSize] =
                     IF x - at + 1 \in 1 .. Len(bytes) THEN bytes[x - at + 1] ELSE Cell(b, x)
<1> DEFINE m == Len(b.nodes)
           At(k, o) == (k - c) * BaseSize + o - npos + 1
           V(k, o) == IF At(k, o) \in 1 .. Len(bytes) THEN bytes[At(k, o)] ELSE b.nodes[k][o]
           S == Store(b, c, npos, bytes)
<1>0. m \in Nat /\ BaseSize \in Nat \ {0} /\ DOMAIN bytes = 1 .. Len(bytes)
  BY LenProperties, BaseNat
<1>1. S = [k \in 1 .. m |-> [o \in 0 .. BaseSize - 1 |-> V(k, o)]]
  BY <1>0 DEF Store
<1>2. ASSUME NEW k \in 1 .. m, NEW o \in 0 .. BaseSize - 1 PROVE V(k, o) \in Byte
  <2>1. b.nodes[k] \in [0 .. BaseSize - 1 -> Byte]
    BY ElementOfSeq
  <2>2. \A i \in 1 .. Len(bytes) : bytes[i] \in Byte
    BY ElementOfSeq
  <2> HIDE DEF At
  <2> QED BY <2>1, <2>2
<1> HIDE DEF V, S
<1>3. \A k \in 1 .. m : [o \in 0 .. BaseSize - 1 |-> V(k, o)] \in [0 .. BaseSize - 1 -> Byte]
  BY <1>2
<1>4. S \in [1 .. m -> [0 .. BaseSize - 1 -> Byte]]
  BY <1>1, <1>3
<1>5. S \in Seq([0 .. BaseSize - 1 -> Byte]) /\ Len(S) = m
  <2> DEFINE T == [0 .. BaseSize - 1 -> Byte]
  <2>1. S \in [1 .. m -> T] /\ m \in Nat
    BY <1>0, <1>4
  <2> HIDE DEF T, m
  <2>2. S \in Seq(T) /\ Len(S) = m
    BY <2>1
  <2> QED BY <2>2 DEF T
<1>6. ASSUME NEW x \in Int, x >= 0, x < m * BaseSize
      PROVE  S[(x \div BaseSize) + 1][x % BaseSize] =
                 IF x - at + 1 \in 1 .. Len(bytes) THEN bytes[x - at + 1] ELSE Cell(b, x)
  <2> DEFINE k == (x \div BaseSize) + 1
             o == x % BaseSize
  <2>1. k \in 1 .. m /\ o \in 0 .. BaseSize - 1
    BY <1>6, CellType
  <2>2. S[k][o] = V(k, o)
    BY <1>1, <2>1
  <2>3. At(k, o) = x - at + 1
    <3> DEFINE q == x \div BaseSize
    <3>1. q \in Int /\ o \in Int /\ x = q * BaseSize + o
      <4>1. /\ x \div BaseSize \in Int /\ x % BaseSize \in 0 .. BaseSize - 1
            /\ x = (x \div BaseSize) * BaseSize + (x % BaseSize)
        BY DivMod
      <4> QED BY <4>1, BaseNat
    <3> HIDE DEF q
    <3>2. (k - c) = q - (c - 1) /\ c - 1 \in Int
      BY <3>1 DEF q
    <3>3. (q - (c - 1)) * BaseSize = q * BaseSize - (c - 1) * BaseSize
      BY <3>1, <3>2, Products
    <3>4. q * BaseSize \in Int /\ (c - 1) * BaseSize \in Int
      BY <3>1, <3>2, Products
    <3> HIDE DEF o, k
    <3> QED BY <3>1, <3>2, <3>3, <3>4, <1>0
  <2> HIDE DEF At
  <2> QED BY <2>2, <2>3 DEF V, Cell
<1> QED BY <1>5, <1>6 DEF S

-----------------------------------------------------------------------------
(* addCapacity, write, read and setPosition.                               *)

\* addCapacity has allotted a block too few, as FaultCause describes it.
LostBlock(f) ==
    LET more == f.size - f.room IN f.op = "write" /\ more > 0 /\ more % BaseSize \in 1 .. f.room

\* A record of Down, and of no fault.
LEMMA FaultFields ==
    ASSUME NEW b, NEW op, NEW n
    PROVE  /\ Down(b, op, n).ba = b /\ Down(b, op, n).end = "down" /\ Down(b, op, n).got = <<>>
           /\ Down(b, op, n).fault.op = op /\ Down(b, op, n).fault.size = n
           /\ Down(b, op, n).fault.room = b.capacity - b.position
  BY DEF Down

\* A call that returns, and one that throws.
LEMMA DoneFields ==
    ASSUME NEW b, NEW bytes
    PROVE  /\ Done(b, bytes).ba = b /\ Done(b, bytes).end = "ok" /\ Done(b, bytes).got = bytes
           /\ Done(b, bytes).fault = NoFault
           /\ Throw(b).ba = b /\ Throw(b).end = "throw" /\ Throw(b).got = <<>>
           /\ Throw(b).fault = NoFault
  BY DEF Done, Throw

\* The fields of an object.
LEMMA SoundTypes ==
    ASSUME NEW b, Sound(b)
    PROVE  /\ b.nodes \in Seq([0 .. BaseSize - 1 -> Byte]) /\ Len(b.nodes) \in Nat
           /\ b.cur \in Nat /\ b.position \in Nat /\ b.size \in Nat /\ b.capacity \in Nat
           /\ b.little \in BOOLEAN /\ b.garbage \in Byte
  BY LenProperties DEF Sound, Obj

\* addCapacity leaves the contents and the position, keeps m_cur on the position, and
\* makes room for n bytes unless it has lost a block.
LEMMA AddCapacityFacts ==
    ASSUME NEW b, Sound(b), NEW n \in Nat, NEW x, x = addCapacity(b, n),
           NEW room \in Int, room = b.capacity - b.position
    PROVE  /\ Sound(x)
           /\ x.position = b.position /\ x.size = b.size /\ x.capacity >= b.capacity
           /\ Len(x.nodes) >= Len(b.nodes) /\ \A k \in 1 .. Len(b.nodes) : x.nodes[k] = b.nodes[k]
           /\ \/ x.position + n <= x.capacity
              \/ n - room > 0 /\ (n - room) % BaseSize \in 1 .. room
<1>0. /\ b.nodes \in Seq([0 .. BaseSize - 1 -> Byte]) /\ Len(b.nodes) \in Nat
      /\ b.cur \in Nat /\ b.position \in Nat /\ b.size \in Nat /\ b.capacity \in Nat
      /\ b.garbage \in Byte /\ b \in Obj
      /\ b.position <= b.size /\ b.size <= b.capacity
      /\ Len(b.nodes) >= 1 /\ b.capacity = Len(b.nodes) * BaseSize
      /\ b.cur = IF b.position = b.capacity THEN Null ELSE (b.position \div BaseSize) + 1
  BY SoundTypes DEF Sound
<1>1. CASE n = 0 \/ room >= n
  <2>1. x = b
    BY <1>0, <1>1 DEF addCapacity, getCapacity
  <2> QED BY <1>0, <1>1, <2>1
<1>2. CASE ~(n = 0 \/ room >= n)
  <2> DEFINE more == n - room
             q == more \div BaseSize
             r == more % BaseSize
             count == q + (IF r > room THEN 1 ELSE 0)
             T == [0 .. BaseSize - 1 -> Byte]
             new == [i \in 1 .. count |-> Node(b.garbage)]
  <2>1. more \in Nat /\ more > 0 /\ room >= 0 /\ n > 0
    BY <1>0, <1>2
  <2>2. q \in Int /\ r \in 0 .. BaseSize - 1 /\ more = q * BaseSize + r /\ q >= 0
    BY <2>1, DivMod, BlockOf
  <2>3. x = [b EXCEPT !.nodes = b.nodes \o new, !.capacity = b.capacity + count * BaseSize,
                      !.cur = IF room = 0 THEN Len(b.nodes) + 1 ELSE b.cur]
    BY <1>0, <1>2 DEF addCapacity, getCapacity
  <2>4. BaseSize \in Nat \ {0}
    BY BaseNat
  <2> HIDE DEF more, q, r
  <2>5. count \in Nat /\ (room = 0 => count >= 1)
    <3>1. r \in Nat
      BY <2>2, <2>4
    <3>2. room = 0 /\ r = 0 => q # 0
      BY <2>1, <2>2, <2>4
    <3> QED BY <2>2, <3>1, <3>2
  <2>6. Node(b.garbage) \in T
    BY <1>0 DEF Node
  <2> HIDE DEF T, count
  <2>7. new \in Seq(T) /\ Len(new) = count
    BY <2>5, <2>6
  <2>8. b.nodes \in Seq(T)
    BY <1>0 DEF T
  <2> HIDE DEF new
  <2>9. /\ b.nodes \o new \in Seq(T)
        /\ Len(b.nodes \o new) = Len(b.nodes) + count
        /\ \A k \in 1 .. Len(b.nodes) : (b.nodes \o new)[k] = b.nodes[k]
    <3>1. /\ b.nodes \o new \in Seq(T)
          /\ Len(b.nodes \o new) = Len(b.nodes) + Len(new)
          /\ \A k \in 1 .. Len(b.nodes) + Len(new) :
                (b.nodes \o new)[k] = IF k <= Len(b.nodes) THEN b.nodes[k] ELSE new[k - Len(b.nodes)]
      BY <2>7, <2>8, ConcatProperties
    <3> QED BY <3>1, <2>5, <2>7, <1>0
  <2>10. count * BaseSize \in Nat /\ (Len(b.nodes) + count) * BaseSize = b.capacity + count * BaseSize
    <3>1. (Len(b.nodes) + count) * BaseSize = Len(b.nodes) * BaseSize + count * BaseSize
      <4>1. \A y, z \in Int : (y + z) * BaseSize = y * BaseSize + z * BaseSize
        BY Products
      <4>2. Len(b.nodes) \in Int /\ count \in Int
        BY <1>0, <2>5
      <4> QED BY <4>1, <4>2
    <3>2. count * BaseSize \in Int /\ 0 * BaseSize <= count * BaseSize
      BY <2>5, BaseNat, Products
    <3> QED BY <3>1, <3>2, <1>0, <2>4
  <2>11. room = 0 => count * BaseSize > 0
    <3>1. 0 < count => 0 * BaseSize + BaseSize <= count * BaseSize
      BY <2>5, BaseNat, Products
    <3> QED BY <3>1, <2>4, <2>5, <2>10
  <2>12. /\ x.nodes = b.nodes \o new /\ x.capacity = b.capacity + count * BaseSize
         /\ x.cur = (IF room = 0 THEN Len(b.nodes) + 1 ELSE b.cur)
         /\ x.position = b.position /\ x.size = b.size
    BY <2>3, <1>0 DEF Obj
  <2>13. x \in Obj
    <3>1. /\ b.nodes \o new \in Seq([0 .. BaseSize - 1 -> Byte])
          /\ b.capacity + count * BaseSize \in Nat
          /\ (IF room = 0 THEN Len(b.nodes) + 1 ELSE b.cur) \in Nat
      BY <2>9, <2>10, <1>0 DEF T
    <3> QED BY <3>1, <2>3, <1>0 DEF Obj
  <2>14. x.cur = IF x.position = x.capacity THEN Null ELSE (x.position \div BaseSize) + 1
    <3>1. CASE room = 0
      <4>1. b.position = Len(b.nodes) * BaseSize + 0 /\ b.position # x.capacity
        BY <3>1, <1>0, <2>10, <2>11, <2>12
      <4>2. 0 \in 0 .. BaseSize - 1 /\ Len(b.nodes) \in Int /\ b.position \in Int
        BY <2>4, <1>0
      <4>3. b.position \div BaseSize = Len(b.nodes)
        BY <4>1, <4>2, DivModUnique
      <4> QED BY <3>1, <4>1, <4>3, <2>12
    <3>2. CASE room # 0
      BY <3>2, <1>0, <2>10, <2>12
    <3> QED BY <3>1, <3>2
  <2>15. Sound(x)
    BY <2>9, <2>10, <2>12, <2>13, <2>14, <1>0, <2>5, SMTT(40) DEF Sound
  <2>16. count * BaseSize >= more \/ r \in 1 .. room
    <3>1. q * BaseSize \in Int
      BY <2>2, Products
    <3>2. CASE r > room
      <4>1. count = q + 1
        BY <3>2 DEF count
      <4>2. (q + 1) * BaseSize = q * BaseSize + 1 * BaseSize
        BY <2>2, Products
      <4> QED BY <4>1, <4>2, <3>1, <2>2, <2>4
    <3>3. CASE r = 0
      <4>1. q * BaseSize <= count * BaseSize
        BY <2>2, <2>5, BaseNat, Products DEF count
      <4> QED BY <4>1, <3>3, <3>1, <2>2, <2>10
    <3> QED BY <3>2, <3>3, <2>2, <2>4
  <2>17. x.position + n <= x.capacity \/ (more > 0 /\ r \in 1 .. room)
    BY <2>16, <2>12, <2>10, <2>1, <1>0, SMTT(40) DEF more
  <2> QED BY <2>15, <2>12, <2>10, <2>9, <2>5, <1>0, <2>17, SMTT(40) DEF more, r
<1> QED BY <1>1, <1>2

\* m_cur and the offset in it are the position, while there is room behind it.
LEMMA CurPlace ==
    ASSUME NEW b, Sound(b)
    PROVE  /\ b.position % BaseSize \in 0 .. BaseSize - 1
           /\ b.cur = Null <=> b.position = b.capacity
           /\ b.position # b.capacity =>
                 /\ b.cur \in 1 .. Len(b.nodes)
                 /\ b.position = (b.cur - 1) * BaseSize + (b.position % BaseSize)
<1>1. /\ Len(b.nodes) \in Int /\ b.position \in Int /\ b.position >= 0 /\ b.capacity \in Int
      /\ b.position <= b.capacity /\ b.capacity = Len(b.nodes) * BaseSize
      /\ b.cur = IF b.position = b.capacity THEN Null ELSE (b.position \div BaseSize) + 1
  BY SoundTypes DEF Sound
<1>2. /\ b.position \div BaseSize \in Int /\ b.position % BaseSize \in 0 .. BaseSize - 1
      /\ b.position = (b.position \div BaseSize) * BaseSize + (b.position % BaseSize)
  BY <1>1, DivMod
<1>3. /\ b.position < Len(b.nodes) * BaseSize <=> (b.position \div BaseSize) + 1 <= Len(b.nodes)
      /\ b.position \div BaseSize >= 0
  BY <1>1, BlockOf
<1>4. CASE b.position = b.capacity
  BY <1>1, <1>2, <1>4
<1>5. CASE b.position # b.capacity
  <2>1. b.cur = (b.position \div BaseSize) + 1 /\ b.position < Len(b.nodes) * BaseSize
    BY <1>1, <1>5
  <2>2. b.cur \in 1 .. Len(b.nodes) /\ b.cur - 1 = b.position \div BaseSize
    BY <1>1, <1>2, <1>3, <2>1
  <2> QED BY <1>2, <1>5, <2>2 DEF Null
<1> QED BY <1>4, <1>5

\* The copy loop from the position on visits n bytes when the capacity has them.
LEMMA LoopAtPosition ==
    ASSUME NEW b, Sound(b), NEW n \in Nat, NEW npos, npos = b.position % BaseSize
    PROVE  /\ LoopRuns(b, b.cur, npos, n) <=>
                 b.position # b.capacity /\ b.position + n <= b.capacity
           /\ b.position # b.capacity /\ b.position + n <= b.capacity =>
                 /\ Hop(b, b.cur, (npos + n) \div BaseSize) =
                       IF b.position + n = b.capacity THEN Null
                       ELSE ((b.position + n) \div BaseSize) + 1
                 /\ Load(b, b.cur, npos, n) = [i \in 1 .. n |-> Cell(b, b.position + i - 1)]
<1>1. /\ b.nodes \in Seq([0 .. BaseSize - 1 -> Byte]) /\ b.position \in Int /\ b.capacity \in Int
      /\ b.position <= b.capacity /\ b.capacity = Len(b.nodes) * BaseSize
  BY SoundTypes DEF Sound
<1>2. npos \in 0 .. BaseSize - 1
  BY CurPlace
<1>3. CASE b.position = b.capacity
  <2>1. b.cur = Null
    BY <1>3, CurPlace
  <2>2. ~LoopRuns(b, b.cur, npos, n)
    BY <2>1 DEF LoopRuns, Hop
  <2> QED BY <1>3, <2>2
<1>4. CASE b.position # b.capacity
  <2> DEFINE c == b.cur
             at == b.position
  <2>1. c \in 1 .. Len(b.nodes) /\ at = (c - 1) * BaseSize + npos /\ at \in Int /\ c \in Int
    BY <1>1, <1>4, CurPlace
  <2> HIDE DEF c, at
  <2>2. /\ LoopRuns(b, c, npos, n) <=> n = 0 \/ at + n <= Len(b.nodes) * BaseSize
        /\ at + n <= Len(b.nodes) * BaseSize =>
              Hop(b, c, (npos + n) \div BaseSize) =
                  IF at + n = Len(b.nodes) * BaseSize THEN Null ELSE ((at + n) \div BaseSize) + 1
    BY <1>1, <1>2, <2>1, LoopFacts, SMTT(40)
  <2>3. Load(b, c, npos, n) = [i \in 1 .. n |-> Cell(b, at + i - 1)]
    BY <1>2, <2>1, BaseNat, LoadCells
  <2>4. n = 0 => at + n <= Len(b.nodes) * BaseSize
    BY <1>1 DEF at
  <2> QED BY <1>1, <1>4, <2>2, <2>3, <2>4 DEF c, at
<1> QED BY <1>3, <1>4

\* Object x is b after the first m bytes of s were written at b's position.
Overlaid(b, x, s, m) ==
    /\ Sound(x) /\ x.position = b.position + m /\ x.size = Larger(b.size, b.position + m)
    /\ \A i \in 0 .. x.size - 1 :
          Cell(x, i) = IF b.position <= i /\ i < b.position + m
                       THEN s[i - b.position + 1] ELSE Cell(b, i)

\* A cell of the blocks there were is the same after addCapacity.
LEMMA SameCells ==
    ASSUME NEW b, Sound(b), NEW x, \A k \in 1 .. Len(b.nodes) : x.nodes[k] = b.nodes[k],
           NEW i \in Int, i >= 0, i < b.capacity
    PROVE  Cell(x, i) = Cell(b, i)
<1>1. (i \div BaseSize) + 1 \in 1 .. Len(b.nodes)
  BY SoundTypes, CellType DEF Sound
<1> QED BY <1>1 DEF Cell

\* Storing bytes behind the position, where there is room.
LEMMA StoreAtPosition ==
    ASSUME NEW b, Sound(b), NEW bytes \in Seq(Byte), NEW nn,
           nn = Store(b, b.cur, b.position % BaseSize, bytes), b.position # b.capacity
    PROVE  /\ nn \in Seq([0 .. BaseSize - 1 -> Byte]) /\ Len(nn) = Len(b.nodes)
           /\ \A i \in Int : i >= 0 /\ i < b.capacity =>
                 nn[(i \div BaseSize) + 1][i % BaseSize] =
                     IF b.position <= i /\ i < b.position + Len(bytes)
                     THEN bytes[i - b.position + 1] ELSE Cell(b, i)
<1> DEFINE c == b.cur
           at == b.position
           npos == b.position % BaseSize
<1>1. /\ b.nodes \in Seq([0 .. BaseSize - 1 -> Byte]) /\ at \in Int /\ c \in Int
      /\ npos \in 0 .. BaseSize - 1 /\ at = (c - 1) * BaseSize + npos
      /\ b.capacity = Len(b.nodes) * BaseSize
  BY SoundTypes, CurPlace DEF Sound
<1> HIDE DEF c, at, npos
<1>2. nn = Store(b, c, npos, bytes)
  BY DEF c, npos
<1>3. /\ nn \in Seq([0 .. BaseSize - 1 -> Byte]) /\ Len(nn) = Len(b.nodes)
      /\ \A x \in Int : x >= 0 /\ x < Len(b.nodes) * BaseSize =>
            nn[(x \div BaseSize) + 1][x % BaseSize] =
                IF x - at + 1 \in 1 .. Len(bytes) THEN bytes[x - at + 1] ELSE Cell(b, x)
  <2>1. /\ Store(b, c, npos, bytes) \in Seq([0 .. BaseSize - 1 -> Byte])
        /\ Len(Store(b, c, npos, bytes)) = Len(b.nodes)
        /\ \A x \in Int : x >= 0 /\ x < Len(b.nodes) * BaseSize =>
              Store(b, c, npos, bytes)[(x \div BaseSize) + 1][x % BaseSize] =
                  IF x - at + 1 \in 1 .. Len(bytes) THEN bytes[x - at + 1] ELSE Cell(b, x)
    BY <1>1, StoreFacts, SMTT(60)
  <2> QED BY <1>2, <2>1
<1>4. Len(bytes) \in Nat
  BY LenProperties
<1>5. ASSUME NEW i \in Int
      PROVE  i - at + 1 \in 1 .. Len(bytes) <=> at <= i /\ i < at + Len(bytes)
  BY <1>1, <1>4
<1> QED BY <1>1, <1>3, <1>5 DEF at

\* write() overlays the contents at the position, or addCapacity has lost a block.
LEMMA WriteFacts ==
    ASSUME NEW b, Sound(b), NEW bytes \in Seq(Byte), NEW r, r = write(b, bytes)
    PROVE  \/ /\ r.end = "ok" /\ r.got = <<>> /\ r.fault = NoFault
              /\ Overlaid(b, r.ba, bytes, Len(bytes))
           \/ r.end = "down" /\ LostBlock(r.fault)
<1> DEFINE n == Len(bytes)
           x == addCapacity(b, n)
           npos == x.position % BaseSize
           y == [x EXCEPT !.nodes = Store(x, x.cur, npos, bytes),
                          !.cur = Hop(x, x.cur, (npos + n) \div BaseSize),
                          !.position = x.position + n,
                          !.size = Larger(x.size, x.position + n)]
<1>0. n \in Nat /\ b.position \in Nat /\ b.size \in Nat /\ b.capacity \in Nat
      /\ b.position <= b.size /\ b.size <= b.capacity
  BY LenProperties, SoundTypes DEF Sound
<1>1. CASE n = 0
  <2>1. r = Done(b, <<>>)
    BY <1>1 DEF write
  <2>2. Larger(b.size, b.position + n) = b.size /\ b.position + n = b.position
    BY <1>0, <1>1 DEF Larger
  <2>3. Overlaid(b, b, bytes, n)
    BY <1>0, <1>1, <2>2 DEF Overlaid
  <2> QED BY <2>1, <2>3, DoneFields
<1>2. CASE n # 0
  <2>1. /\ Sound(x) /\ x.position = b.position /\ x.size = b.size /\ x.capacity >= b.capacity
        /\ \A k \in 1 .. Len(b.nodes) : x.nodes[k] = b.nodes[k]
        /\ \/ x.position + n <= x.capacity
           \/ /\ n - (b.capacity - b.position) > 0
              /\ (n - (b.capacity - b.position)) % BaseSize \in 1 .. (b.capacity - b.position)
    BY <1>0, AddCapacityFacts
  <2>2. /\ r = IF ~LoopRuns(x, x.cur, npos, n) THEN Down(b, "write", n) ELSE Done(y, <<>>)
    BY <1>2 DEF write
  <2> HIDE DEF n, x, npos, y
  <2>3. x.capacity \in Nat /\ x.size \in Nat /\ x.position \in Nat /\ x \in Obj
    BY <2>1, SoundTypes DEF Sound
  <2>4. LoopRuns(x, x.cur, npos, n) <=> x.position # x.capacity /\ x.position + n <= x.capacity
    BY <1>0, <2>1, LoopAtPosition DEF npos
  <2>5. CASE ~LoopRuns(x, x.cur, npos, n)
    <3>1. ~(x.position + n <= x.capacity)
      BY <2>4, <2>5, <2>3, <1>0, <1>2
    <3>2. r.end = "down" /\ r.fault.op = "write" /\ r.fault.size = n
          /\ r.fault.room = b.capacity - b.position
      BY <2>2, <2>5, FaultFields
    <3> QED BY <3>1, <3>2, <2>1 DEF LostBlock
  <2>6. CASE LoopRuns(x, x.cur, npos, n)
    <3>1. x.position # x.capacity /\ x.position + n <= x.capacity
      BY <2>4, <2>6
    <3> DEFINE nn == Store(x, x.cur, npos, bytes)
               c == Hop(x, x.cur, (npos + n) \div BaseSize)
               p == x.position + n
               s == Larger(x.size, x.position + n)
    <3>2. c = IF p = x.capacity THEN Null ELSE (p \div BaseSize) + 1
      <4>1. x.position # x.capacity /\ x.position + n <= x.capacity =>
                Hop(x, x.cur, (npos + n) \div BaseSize) =
                    IF x.position + n = x.capacity THEN Null ELSE ((x.position + n) \div BaseSize) + 1
        <5>1. n \in Nat /\ Sound(x) /\ npos = x.position % BaseSize
          BY <1>0, <2>1 DEF npos
        <5> QED BY <5>1, LoopAtPosition
      <4> QED BY <3>1, <4>1
    <3>3. /\ nn \in Seq([0 .. BaseSize - 1 -> Byte]) /\ Len(nn) = Len(x.nodes)
          /\ \A i \in Int : i >= 0 /\ i < x.capacity =>
                nn[(i \div BaseSize) + 1][i % BaseSize] =
                    IF x.position <= i /\ i < x.position + n
                    THEN bytes[i - x.position + 1] ELSE Cell(x, i)
      BY <3>1, <2>1, StoreAtPosition DEF npos, n
    <3>4. p \in Nat /\ s \in Nat /\ p <= s /\ s <= x.capacity /\ s = Larger(b.size, b.position + n)
          /\ p = b.position + n
      BY <3>1, <1>0, <2>1, <2>3 DEF Larger, Sound
    <3>5. y = [x EXCEPT !.nodes = nn, !.cur = c, !.position = p, !.size = s]
      BY DEF y
    <3> HIDE DEF nn, c, p, s
    <3>6. c \in Nat
      <4>0. p \in Int /\ p >= 0
        BY <3>4
      <4>1. p \div BaseSize \in Int
        BY <4>0, DivMod
      <4>2. p \div BaseSize >= 0
        BY <4>0, BlockOf
      <4> QED BY <4>1, <4>2, <3>2 DEF Null
    <3>7. /\ y \in Obj /\ y.nodes = nn /\ y.cur = c /\ y.position = p /\ y.size = s
          /\ y.capacity = x.capacity
      <4>1. nn \in Seq([0 .. BaseSize - 1 -> Byte])
        BY <3>3
      <4> QED BY <2>3, <3>4, <3>5, <3>6, <4>1 DEF Obj
    <3>8. Sound(y)
      BY <3>2, <3>3, <3>4, <3>7, <2>1 DEF Sound
    <3>9. ASSUME NEW i \in 0 .. y.size - 1
          PROVE  Cell(y, i) = IF b.position <= i /\ i < b.position + n
                              THEN bytes[i - b.position + 1] ELSE Cell(b, i)
      <4>1. i \in Int /\ i >= 0 /\ i < x.capacity /\ i < s
        BY <3>4, <3>7, <2>3
      <4>2. Cell(y, i) = IF b.position <= i /\ i < b.position + n
                         THEN bytes[i - b.position + 1] ELSE Cell(x, i)
        BY <4>1, <3>3, <3>7, <2>1 DEF Cell
      <4>3. CASE b.position <= i /\ i < b.position + n
        BY <4>2, <4>3
      <4>4. CASE ~(b.position <= i /\ i < b.position + n)
        <5>1. i < b.capacity
          BY <4>1, <4>4, <3>4, <1>0 DEF Larger
        <5>2. Cell(x, i) = Cell(b, i)
          BY <5>1, <4>1, <2>1, SameCells
        <5> QED BY <4>2, <4>4, <5>2
      <4> QED BY <4>3, <4>4
    <3>10. Overlaid(b, y, bytes, n)
      BY <3>4, <3>7, <3>8, <3>9 DEF Overlaid
    <3> QED BY <2>2, <2>6, <3>10, DoneFields DEF n
  <2> QED BY <2>5, <2>6
<1> QED BY <1>1, <1>2

\* Object x is b with the position m bytes further on.
Consumed(b, x, m) ==
    /\ Sound(x) /\ x.nodes = b.nodes /\ x.size = b.size /\ x.capacity = b.capacity
    /\ x.position = b.position + m

\* read() returns the bytes at the position and moves past them, throws when there are
\* too few, and fails to read nothing at the end of the last block.
LEMMA ReadFacts ==
    ASSUME NEW b, Sound(b), NEW n \in Nat, NEW r, r = read(b, n)
    PROVE  \/ n > b.size - b.position /\ r = Throw(b)
           \/ /\ n <= b.size - b.position /\ r.end = "ok" /\ r.fault = NoFault
              /\ Consumed(b, r.ba, n) /\ r.ba.little = b.little
              /\ r.got = [i \in 1 .. n |-> Cell(b, b.position + i - 1)]
           \/ /\ n = 0 /\ r.end = "down" /\ r.fault.op = "read"
              /\ r.fault.size = 0 /\ r.fault.room = 0
<1> DEFINE npos == b.position % BaseSize
           y == [b EXCEPT !.cur = Hop(b, b.cur, (npos + n) \div BaseSize), !.position = b.position + n]
           got == Load(b, b.cur, npos, n)
<1>0. /\ b.position \in Nat /\ b.size \in Nat /\ b.capacity \in Nat /\ b \in Obj
      /\ b.position <= b.size /\ b.size <= b.capacity
  BY SoundTypes DEF Sound
<1>1. r = IF n > b.size - b.position THEN Throw(b)
          ELSE IF ~LoopRuns(b, b.cur, npos, n) THEN Down(b, "read", n)
          ELSE Done(y, got)
  BY DEF read, getReadSize
<1>2. /\ LoopRuns(b, b.cur, npos, n) <=> b.position # b.capacity /\ b.position + n <= b.capacity
      /\ b.position # b.capacity /\ b.position + n <= b.capacity =>
            /\ Hop(b, b.cur, (npos + n) \div BaseSize) =
                  IF b.position + n = b.capacity THEN Null ELSE ((b.position + n) \div BaseSize) + 1
            /\ got = [i \in 1 .. n |-> Cell(b, b.position + i - 1)]
  BY LoopAtPosition
<1> HIDE DEF npos, got, y
<1>3. CASE n > b.size - b.position
  BY <1>1, <1>3
<1>4. CASE ~(n > b.size - b.position) /\ ~LoopRuns(b, b.cur, npos, n)
  <2>1. n = 0 /\ b.position = b.capacity
    BY <1>0, <1>2, <1>4
  <2>2. r = Down(b, "read", n)
    BY <1>1, <1>4
  <2> QED BY <2>1, <2>2, <1>0, FaultFields
<1>5. CASE ~(n > b.size - b.position) /\ LoopRuns(b, b.cur, npos, n)
  <2>1. b.position # b.capacity /\ b.position + n <= b.capacity
    BY <1>2, <1>5
  <2> DEFINE c == Hop(b, b.cur, (npos + n) \div BaseSize)
             p == b.position + n
  <2>2. c = IF p = b.capacity THEN Null ELSE (p \div BaseSize) + 1
    BY <1>2, <2>1
  <2>3. y = [b EXCEPT !.cur = c, !.position = p] /\ p \in Nat
    BY <1>0 DEF y
  <2> HIDE DEF c
  <2>4. c \in Nat
    <3>1. p \div BaseSize \in Int /\ p \div BaseSize >= 0
      BY <2>3, DivMod, BlockOf
    <3> QED BY <3>1, <2>2 DEF Null
  <2>5. /\ y \in Obj /\ y.nodes = b.nodes /\ y.cur = c /\ y.position = p /\ y.size = b.size
        /\ y.capacity = b.capacity /\ y.little = b.little
    BY <2>3, <2>4, <1>0 DEF Obj
  <2>6. Sound(y)
    BY <2>2, <2>5, <1>0, <1>5 DEF Sound
  <2>7. r = Done(y, got)
    BY <1>1, <1>5
  <2> QED BY <2>1, <2>5, <2>6, <2>7, <1>0, <1>2, <1>5, DoneFields DEF Consumed
<1> QED BY <1>3, <1>4, <1>5

\* Object x is b with the position, and the end if it was before, moved to v.
Moved(b, x, v) ==
    /\ Sound(x) /\ x.nodes = b.nodes /\ x.capacity = b.capacity
    /\ x.position = v /\ x.size = Larger(b.size, v)

\* setPosition() finds the block of the position from the first one on, or throws.
LEMMA SetPositionFacts ==
    ASSUME NEW b, Sound(b), NEW v \in Nat, NEW r, r = setPosition(b, v)
    PROVE  \/ v > b.capacity /\ r = Throw(b)
           \/ /\ v <= b.capacity /\ r.end = "ok" /\ r.got = <<>> /\ r.fault = NoFault
              /\ Moved(b, r.ba, v)
<1>0. /\ b.position \in Nat /\ b.size \in Nat /\ b.capacity \in Nat /\ b \in Obj
      /\ b.nodes \in Seq([0 .. BaseSize - 1 -> Byte]) /\ Len(b.nodes) \in Nat
      /\ b.size <= b.capacity /\ Len(b.nodes) >= 1 /\ b.capacity = Len(b.nodes) * BaseSize
  BY SoundTypes DEF Sound
<1>1. CASE v > b.capacity
  BY <1>1 DEF setPosition
<1>2. CASE ~(v > b.capacity)
  <2> DEFINE c == Hop(b, 1, v \div BaseSize)
             s == Larger(b.size, v)
             y == [b EXCEPT !.position = v, !.size = s, !.cur = c]
  <2>1. r = Done(y, <<>>)
    BY <1>2 DEF setPosition
  <2>2. c = IF v = b.capacity THEN Null ELSE (v \div BaseSize) + 1
    <3>1. /\ 1 \in 1 .. Len(b.nodes) /\ 0 \in 0 .. BaseSize - 1
          /\ 0 = (1 - 1) * BaseSize + 0 /\ 0 \in Int
      BY <1>0, BaseNat
    <3>2. 0 + v <= Len(b.nodes) * BaseSize =>
              Hop(b, 1, (0 + v) \div BaseSize) =
                  IF 0 + v = Len(b.nodes) * BaseSize THEN Null ELSE ((0 + v) \div BaseSize) + 1
      BY <1>0, <3>1, LoopFacts
    <3>3. 0 + v = v /\ v <= b.capacity
      BY <1>0, <1>2
    <3> QED BY <1>0, <3>2, <3>3
  <2>3. c \in Nat /\ s \in Nat /\ v <= s /\ s <= b.capacity
    <3>1. v \in Int /\ v >= 0
      OBVIOUS
    <3>2. v \div BaseSize \in Int
      BY <3>1, DivMod
    <3>3. v \div BaseSize >= 0
      BY <3>1, BlockOf
    <3>4. c \in Nat
      BY <3>2, <3>3, <2>2 DEF Null
    <3> QED BY <3>4, <1>0, <1>2 DEF Larger
  <2> HIDE DEF c, s
  <2>4. /\ y \in Obj /\ y.nodes = b.nodes /\ y.cur = c /\ y.position = v /\ y.size = s
        /\ y.capacity = b.capacity
    BY <2>3, <1>0 DEF Obj
  <2> HIDE DEF y
  <2>5. Sound(y)
    BY <2>2, <2>3, <2>4, <1>0 DEF Sound
  <2>6. Moved(b, y, v)
    BY <2>4, <2>5 DEF Moved, s
  <2> QED BY <2>1, <2>6, <1>0, <1>2, DoneFields
<1> QED BY <1>1, <1>2

\* Object x is b with s stored behind the position, which has not moved.
Received(b, x, s) ==
    /\ Sound(x) /\ x.position = b.position /\ x.size = b.size
    /\ \A i \in 0 .. x.capacity - 1 :
          IF b.position <= i /\ i < b.position + Len(s)
          THEN Cell(x, i) = s[i - b.position + 1]
          ELSE i < b.capacity => Cell(x, i) = Cell(b, i)

\* getWriteBuffers() gives out room at the position, or addCapacity has lost a block.
LEMMA WriteBuffersFacts ==
    ASSUME NEW b, Sound(b), NEW length \in Nat, NEW fill \in Seq(Byte), Len(fill) <= length,
           NEW r, r = getWriteBuffers(b, length, fill)
    PROVE  \/ /\ r.end = "ok" /\ r.got = <<>> /\ r.fault = NoFault
              /\ Received(b, r.ba, fill) /\ b.position + length <= r.ba.capacity
           \/ r.end = "down" /\ LostBlock(r.fault)
<1> DEFINE x == addCapacity(b, length)
           npos == x.position % BaseSize
           nn == Store(x, x.cur, npos, fill)
           y == [x EXCEPT !.nodes = nn]
<1>0. /\ Len(fill) \in Nat /\ b.position \in Nat /\ b.size \in Nat /\ b.capacity \in Nat
      /\ b.position <= b.size /\ b.size <= b.capacity
  BY LenProperties, SoundTypes DEF Sound
<1>1. CASE length = 0
  <2>1. r = Done(b, <<>>)
    BY <1>1 DEF getWriteBuffers
  <2>2. Len(fill) = 0
    BY <1>0, <1>1
  <2>3. Received(b, b, fill)
    BY <1>0, <2>2 DEF Received
  <2> QED BY <2>1, <2>3, <1>0, <1>1, DoneFields
<1>2. CASE length # 0
  <2>1. /\ Sound(x) /\ x.position = b.position /\ x.size = b.size /\ x.capacity >= b.capacity
        /\ \A k \in 1 .. Len(b.nodes) : x.nodes[k] = b.nodes[k]
        /\ \/ x.position + length <= x.capacity
           \/ /\ length - (b.capacity - b.position) > 0
              /\ (length - (b.capacity - b.position)) % BaseSize \in 1 .. (b.capacity - b.position)
    BY <1>0, AddCapacityFacts
  <2>2. r = IF ~LoopRuns(x, x.cur, npos, length) THEN Down(b, "write", length) ELSE Done(y, <<>>)
    BY <1>2 DEF getWriteBuffers
  <2>9. npos = x.position % BaseSize /\ y = [x EXCEPT !.nodes = nn]
        /\ nn = Store(x, x.cur, x.position % BaseSize, fill)
    OBVIOUS
  <2> HIDE DEF x, npos, y, nn
  <2>3. x.capacity \in Nat /\ x.size \in Nat /\ x.position \in Nat /\ x \in Obj
    BY <2>1, SoundTypes DEF Sound
  <2>4. LoopRuns(x, x.cur, npos, length) <=>
            x.position # x.capacity /\ x.position + length <= x.capacity
    BY <2>1, <2>9, LoopAtPosition
  <2>5. CASE ~LoopRuns(x, x.cur, npos, length)
    <3>1. ~(x.position + length <= x.capacity)
      BY <2>4, <2>5, <2>3, <1>0, <1>2
    <3>2. r.end = "down" /\ r.fault.op = "write" /\ r.fault.size = length
          /\ r.fault.room = b.capacity - b.position
      BY <2>2, <2>5, FaultFields
    <3> QED BY <3>1, <3>2, <2>1 DEF LostBlock
  <2>6. CASE LoopRuns(x, x.cur, npos, length)
    <3>1. x.position # x.capacity /\ x.position + length <= x.capacity
      BY <2>4, <2>6
    <3>2. /\ nn \in Seq([0 .. BaseSize - 1 -> Byte]) /\ Len(nn) = Len(x.nodes)
          /\ \A i \in Int : i >= 0 /\ i < x.capacity =>
                nn[(i \div BaseSize) + 1][i % BaseSize] =
                    IF x.position <= i /\ i < x.position + Len(fill)
                    THEN fill[i - x.position + 1] ELSE Cell(x, i)
      BY <3>1, <2>1, <2>9, StoreAtPosition
    <3>3. nn \in Seq([0 .. BaseSize - 1 -> Byte])
      BY <3>2
    <3>4. /\ y \in Obj /\ y.nodes = nn /\ y.cur = x.cur /\ y.position = x.position
          /\ y.size = x.size /\ y.capacity = x.capacity
      BY <2>3, <2>9, <3>3 DEF Obj
    <3>5. Sound(y)
      BY <3>2, <3>4, <2>1 DEF Sound
    <3>6. ASSUME NEW i \in 0 .. y.capacity - 1
          PROVE  IF b.position <= i /\ i < b.position + Len(fill)
                 THEN Cell(y, i) = fill[i - b.position + 1]
                 ELSE i < b.capacity => Cell(y, i) = Cell(b, i)
      <4>1. i \in Int /\ i >= 0 /\ i < x.capacity
        BY <2>3, <3>4
      <4>2. Cell(y, i) = IF b.position <= i /\ i < b.position + Len(fill)
                         THEN fill[i - b.position + 1] ELSE Cell(x, i)
        BY <4>1, <3>2, <3>4, <2>1 DEF Cell
      <4>3. i < b.capacity => Cell(x, i) = Cell(b, i)
        BY <4>1, <2>1, SameCells
      <4> QED BY <4>2, <4>3
    <3>7. Received(b, y, fill)
      BY <3>4, <3>5, <3>6, <2>1 DEF Received
    <3>8. b.position + length <= y.capacity
      BY <3>1, <3>4, <2>1
    <3> QED BY <2>2, <2>6, <3>7, <3>8, DoneFields
  <2> QED BY <2>5, <2>6
<1> QED BY <1>1, <1>2

\* clear() keeps the first block, and nothing in it.
LEMMA ClearFacts ==
    ASSUME NEW b, Sound(b)
    PROVE  Sound(clear(b)) /\ clear(b).position = 0 /\ clear(b).size = 0
<1> DEFINE T == [0 .. BaseSize - 1 -> Byte]
           x == clear(b)
<1>1. b.nodes \in Seq(T) /\ Len(b.nodes) >= 1 /\ Len(b.nodes) \in Nat /\ b \in Obj
  BY SoundTypes DEF Sound
<1> HIDE DEF T
<1>2. b.nodes[1] \in T
  BY <1>1, ElementOfSeq
<1>3. <<b.nodes[1]>> \in Seq(T) /\ Len(<<b.nodes[1]>>) = 1
  BY <1>2
<1>4. /\ x.nodes = <<b.nodes[1]>> /\ x.cur = 1 /\ x.position = 0 /\ x.size = 0
      /\ x.capacity = BaseSize /\ x \in Obj
  BY <1>1, <1>3, BaseNat DEF clear, Obj, T
<1>5. 0 \div BaseSize = 0
  <2>1. 0 = 0 * BaseSize + 0 /\ 0 \in 0 .. BaseSize - 1
    BY BaseNat
  <2> QED BY <2>1, DivModUnique
<1> HIDE DEF x
<1>6. Sound(x)
  <2>1. x.capacity = Len(x.nodes) * BaseSize
    BY <1>3, <1>4, BaseNat
  <2> QED BY <2>1, <1>3, <1>4, <1>5, BaseNat DEF Sound
<1> QED BY <1>4, <1>6 DEF x

-----------------------------------------------------------------------------
(* The const reads.                                                        *)

\* The n bytes from place p on.
Cells(b, p, n) == [i \in 1 .. n |-> Cell(b, p + i - 1)]

\* Bytes of the contents are a sequence of bytes, the slice of Contents at their place.
LEMMA CellsFacts ==
    ASSUME NEW b, Sound(b), NEW p \in Nat, NEW n \in Nat, p + n <= b.size
    PROVE  /\ Cells(b, p, n) \in Seq(Byte) /\ Len(Cells(b, p, n)) = n
           /\ Cells(b, p, n) \in [1 .. n -> Byte]
           /\ SubSeq(Load(b, 1, 0, b.size), p + 1, p + n) = Cells(b, p, n)
<1> DEFINE D == Load(b, 1, 0, b.size)
           S == SubSeq(D, p + 1, p + n)
<1>1. /\ D \in Seq(Byte) /\ Len(D) = b.size /\ b.size \in Nat
      /\ \A i \in 1 .. b.size : D[i] = Cell(b, i - 1) /\ D[i] \in Byte
  BY BytesFacts, SoundTypes, ElementOfSeq
<1> HIDE DEF D
<1>2. \A i \in 1 .. n : Cell(b, p + i - 1) \in Byte /\ Cell(b, p + i - 1) = D[p + i]
  <2> TAKE i \in 1 .. n
  <2>1. p + i \in 1 .. b.size /\ (p + i) - 1 = p + i - 1
    BY <1>1
  <2> QED BY <1>1, <2>1
<1>3. Cells(b, p, n) \in [1 .. n -> Byte]
  BY <1>2 DEF Cells
<1>4. Cells(b, p, n) \in Seq(Byte) /\ Len(Cells(b, p, n)) = n
  BY <1>3
<1>5. \A i \in p + 1 .. p + n : D[i] \in Byte
  BY <1>1
<1>6. /\ S \in Seq(Byte)
      /\ Len(S) = IF p + 1 <= p + n THEN p + n - (p + 1) + 1 ELSE 0
      /\ \A i \in 1 .. p + n - (p + 1) + 1 : S[i] = D[p + 1 + i - 1]
  BY <1>1, <1>5, SubSeqProperties
<1>7. Len(S) = n /\ \A i \in 1 .. n : S[i] = D[p + i]
  <2>1. p + n - (p + 1) + 1 = n
    OBVIOUS
  <2>2. \A i \in 1 .. n : p + 1 + i - 1 = p + i
    OBVIOUS
  <2> QED BY <1>6, <2>1, <2>2
<1> HIDE DEF S
<1>8. S = Cells(b, p, n)
  <2>1. DOMAIN S = 1 .. n /\ S = [i \in 1 .. n |-> S[i]]
    BY <1>6, <1>7
  <2> QED BY <2>1, <1>2, <1>7 DEF Cells
<1> QED BY <1>3, <1>4, <1>8 DEF S, D

\* Bytes and the ones behind them.
LEMMA CellsConcat ==
    ASSUME NEW b, Sound(b), NEW p \in Nat, NEW m \in Nat, NEW n \in Nat, p + (m + n) <= b.size
    PROVE  Cells(b, p, m) \o Cells(b, p + m, n) = Cells(b, p, m + n)
<1> DEFINE u == Cells(b, p, m)
           v == Cells(b, p + m, n)
           w == Cells(b, p, m + n)
<1>0. b.size \in Nat
  BY SoundTypes
<1>1. u \in Seq(Byte) /\ Len(u) = m
  <2>1. p + m <= b.size
    BY <1>0
  <2> QED BY <2>1, CellsFacts
<1>2. v \in Seq(Byte) /\ Len(v) = n
  <2>1. p + m \in Nat /\ (p + m) + n <= b.size
    BY <1>0
  <2> QED BY <2>1, CellsFacts
<1>3. w \in Seq(Byte) /\ Len(w) = m + n
  <2>1. m + n \in Nat
    OBVIOUS
  <2> QED BY <2>1, CellsFacts
<1>4. \A i \in 1 .. m : u[i] = Cell(b, p + i - 1)
  BY DEF Cells
<1>5. \A i \in 1 .. n : v[i] = Cell(b, (p + m) + i - 1)
  BY DEF Cells
<1>6. \A i \in 1 .. m + n : w[i] = Cell(b, p + i - 1)
  BY DEF Cells
<1> HIDE DEF u, v, w
<1>7. /\ u \o v \in Seq(Byte) /\ Len(u \o v) = m + n
      /\ \A i \in 1 .. m + n : (u \o v)[i] = IF i <= m THEN u[i] ELSE v[i - m]
  BY <1>1, <1>2, ConcatProperties
<1>8. ASSUME NEW i \in 1 .. m + n PROVE (u \o v)[i] = w[i]
  <2>1. CASE i <= m
    <3>1. i \in 1 .. m
      BY <2>1
    <3> QED BY <3>1, <2>1, <1>4, <1>6, <1>7
  <2>2. CASE ~(i <= m)
    <3>1. i - m \in 1 .. n /\ (p + m) + (i - m) - 1 = p + i - 1
      BY <2>2
    <3> QED BY <3>1, <2>2, <1>5, <1>6, <1>7
  <2> QED BY <2>1, <2>2
<1>9. u \o v = w
  BY <1>3, <1>7, <1>8, SeqEqual
<1> QED BY <1>9 DEF u, v, w

\* The buffers of the data behind the position, whole.
LEMMA RestFacts ==
    ASSUME NEW b, Sound(b), NEW n \in Nat, n # 0, b.position + n <= b.size
    PROVE  /\ LoopRuns(b, b.cur, b.position % BaseSize, n)
           /\ Load(b, b.cur, b.position % BaseSize, n) = Cells(b, b.position, n)
<1>1. /\ b.position \in Nat /\ b.size \in Nat /\ b.capacity \in Nat /\ b.size <= b.capacity
  BY SoundTypes DEF Sound
<1>2. b.position # b.capacity /\ b.position + n <= b.capacity
  BY <1>1
<1>3. /\ LoopRuns(b, b.cur, b.position % BaseSize, n) <=>
            b.position # b.capacity /\ b.position + n <= b.capacity
      /\ b.position # b.capacity /\ b.position + n <= b.capacity =>
            Load(b, b.cur, b.position % BaseSize, n) = [i \in 1 .. n |-> Cell(b, b.position + i - 1)]
  BY LoopAtPosition
<1> QED BY <1>2, <1>3 DEF Cells

\* toString() and the read buffers never fail: they start at the position.
LEMMA ToStringFacts ==
    ASSUME NEW b, Sound(b)
    PROVE  toString(b) = Done(b, Cells(b, b.position, b.size - b.position))
<1>1. b.position \in Nat /\ b.size \in Nat /\ b.position <= b.size
  BY SoundTypes DEF Sound
<1>2. CASE b.size - b.position = 0
  BY <1>1, <1>2 DEF toString, getReadSize, Cells
<1>3. CASE b.size - b.position # 0
  <2> DEFINE n == b.size - b.position
  <2>1. n \in Nat /\ n # 0 /\ b.position + n <= b.size /\ ~(n > n)
    BY <1>1, <1>3
  <2>2. toString(b) = readAt(b, n, b.position)
    BY <1>3 DEF toString, getReadSize
  <2> HIDE DEF n
  <2>3. /\ LoopRuns(b, b.cur, b.position % BaseSize, n)
        /\ Load(b, b.cur, b.position % BaseSize, n) = Cells(b, b.position, n)
    BY <2>1, RestFacts
  <2>4. getReadSize(b) = n
    BY DEF getReadSize, n
  <2>5. readAt(b, n, b.position) = Done(b, Cells(b, b.position, n))
    BY <2>1, <2>3, <2>4 DEF readAt
  <2> QED BY <2>2, <2>5 DEF n
<1> QED BY <1>2, <1>3

\* getReadBuffers() hands out at most what is left.
LEMMA ReadBuffersFacts ==
    ASSUME NEW b, Sound(b), NEW length \in Nat
    PROVE  \E n \in 0 .. b.size - b.position :
              getReadBuffers(b, length) = Done(b, Cells(b, b.position, n))
<1>1. b.position \in Nat /\ b.size \in Nat /\ b.position <= b.size
  BY SoundTypes DEF Sound
<1> DEFINE n == IF length > b.size - b.position THEN b.size - b.position ELSE length
<1>2. n \in 0 .. b.size - b.position /\ n \in Nat /\ b.position + n <= b.size
  BY <1>1
<1>3. getReadBuffers(b, length) =
          IF n = 0 THEN Done(b, <<>>)
          ELSE IF ~LoopRuns(b, b.cur, b.position % BaseSize, n) THEN Down(b, "buffers", n)
          ELSE Done(b, Load(b, b.cur, b.position % BaseSize, n))
  BY DEF getReadBuffers, getReadSize
<1> HIDE DEF n
<1>4. CASE n = 0
  BY <1>2, <1>3, <1>4 DEF Cells
<1>5. CASE n # 0
  <2>1. /\ LoopRuns(b, b.cur, b.position % BaseSize, n)
        /\ Load(b, b.cur, b.position % BaseSize, n) = Cells(b, b.position, n)
    BY <1>2, <1>5, RestFacts
  <2> QED BY <1>2, <1>3, <1>5, <2>1
<1> QED BY <1>4, <1>5

\* read(buf, size, position) starts in m_cur at position's offset: right when that is
\* position's block, past the list only from a place in the last one.
LEMMA ReadAtFacts ==
    ASSUME NEW b, Sound(b), NEW n \in Nat, NEW p \in Nat, NEW r, r = readAt(b, n, p)
    PROVE  \/ r = Throw(b)
           \/ /\ r.end = "down" /\ r.fault.op = "readAt" /\ r.fault.size = n
              /\ r.fault.room = b.capacity - b.position
              /\ n + BaseSize - 1 > b.capacity - b.position \/ b.capacity - b.position = 0
           \/ /\ r.end = "ok" /\ r.ba = b /\ r.fault = NoFault /\ n <= b.size - b.position
              /\ p \div BaseSize = b.position \div BaseSize => r.got = Cells(b, p, n)
<1> DEFINE npos == p % BaseSize
           got == Load(b, b.cur, npos, n)
<1>0. /\ b.position \in Nat /\ b.size \in Nat /\ b.capacity \in Nat /\ Len(b.nodes) \in Nat
      /\ b.nodes \in Seq([0 .. BaseSize - 1 -> Byte])
      /\ b.position <= b.size /\ b.size <= b.capacity /\ b.capacity = Len(b.nodes) * BaseSize
  BY SoundTypes DEF Sound
<1>1. r = IF n > b.size - b.position THEN Throw(b)
          ELSE IF ~LoopRuns(b, b.cur, npos, n) THEN Down(b, "readAt", n)
          ELSE Done(b, got)
  BY DEF readAt, getReadSize
<1>2. /\ npos \in 0 .. BaseSize - 1 /\ p \div BaseSize \in Int /\ npos \in Int
      /\ p = (p \div BaseSize) * BaseSize + npos
  BY DivMod, BaseNat
<1> HIDE DEF npos, got
<1>3. CASE n > b.size - b.position
  BY <1>1, <1>3
<1>4. CASE ~(n > b.size - b.position) /\ b.position = b.capacity
  <2>1. b.cur = Null
    BY <1>4, CurPlace
  <2>2. ~LoopRuns(b, b.cur, npos, n)
    BY <2>1 DEF LoopRuns, Hop
  <2>3. r = Down(b, "readAt", n) /\ b.capacity - b.position = 0
    BY <1>0, <1>1, <1>4, <2>2
  <2> QED BY <2>3, FaultFields
<1>5. CASE ~(n > b.size - b.position) /\ b.position # b.capacity
  <2> DEFINE c == b.cur
             w == b.position % BaseSize
             at == (c - 1) * BaseSize + npos
  <2>1. /\ c \in 1 .. Len(b.nodes) /\ c \in Int /\ w \in 0 .. BaseSize - 1
        /\ b.position = (c - 1) * BaseSize + w
    BY <1>0, <1>5, CurPlace
  <2>2. c - 1 = b.position \div BaseSize
    <3>1. c = (b.position \div BaseSize) + 1
      BY <1>5 DEF Sound
    <3>2. b.position \in Int
      BY <1>0
    <3>3. b.position \div BaseSize \in Int
      BY <3>2, DivMod
    <3> HIDE DEF c
    <3> QED BY <3>1, <3>3
  <2> HIDE DEF c, w
  <2>3. (c - 1) * BaseSize \in Int
    <3>1. c - 1 \in Int
      BY <2>1
    <3> QED BY <3>1, Products
  <2>4. at \in Int /\ at + (BaseSize - 1) >= b.position /\ at - b.position <= BaseSize - 1
    BY <1>2, <2>1, <2>3, BaseNat
  <2>5. at = (c - 1) * BaseSize + npos
    OBVIOUS
  <2> HIDE DEF at
  <2>6. LoopRuns(b, c, npos, n) <=> n = 0 \/ at + n <= Len(b.nodes) * BaseSize
    BY <1>0, <1>2, <2>1, <2>4, <2>5, LoopFacts
  <2>7. Load(b, c, npos, n) = Cells(b, at, n)
    BY <1>2, <2>1, <2>4, <2>5, BaseNat, LoadCells DEF Cells
  <2>8. p \div BaseSize = b.position \div BaseSize => at = p
    BY <1>2, <2>2, <2>5
  <2>9. CASE LoopRuns(b, b.cur, npos, n)
    <3>1. r = Done(b, got) /\ n <= b.size - b.position
      BY <1>0, <1>1, <1>5, <2>9
    <3> QED BY <3>1, <2>7, <2>8, DoneFields DEF got, c
  <2>10. CASE ~LoopRuns(b, b.cur, npos, n)
    <3>1. r = Down(b, "readAt", n) /\ at + n > b.capacity
      BY <1>0, <1>1, <1>5, <2>4, <2>6, <2>10 DEF c
    <3>2. n + BaseSize - 1 > b.capacity - b.position
      BY <3>1, <1>0, <2>4, BaseNat
    <3> QED BY <3>1, <3>2, FaultFields
  <2> QED BY <2>9, <2>10
<1> QED BY <1>3, <1>4, <1>5

\* getReadBuffers(buffers, len, position) finds position's block, and may want more bytes
\* than there are behind it.
LEMMA ReadBuffersAtFacts ==
    ASSUME NEW b, Sound(b), NEW length \in Nat, NEW p \in Nat,
           NEW r, r = getReadBuffersAt(b, length, p)
    PROVE  \/ r.end = "down" /\ r.fault.op = "buffersAt" /\ r.fault.size > b.size
           \/ /\ r.end = "ok" /\ r.ba = b /\ r.fault = NoFault
              /\ p <= b.position => \E n \in 0 .. b.size - b.position : r.got = Cells(b, p, n)
<1> DEFINE n == IF length > b.size - b.position THEN b.size - b.position ELSE length
           c == Hop(b, 1, p \div BaseSize)
           npos == p % BaseSize
<1>0. /\ b.position \in Nat /\ b.size \in Nat /\ b.capacity \in Nat /\ Len(b.nodes) \in Nat
      /\ b.nodes \in Seq([0 .. BaseSize - 1 -> Byte])
      /\ b.position <= b.size /\ b.size <= b.capacity /\ b.capacity = Len(b.nodes) * BaseSize
  BY SoundTypes DEF Sound
<1>1. r = IF n = 0 THEN Done(b, <<>>)
          ELSE IF ~LoopRuns(b, c, npos, n) THEN Down(b, "buffersAt", n + p)
          ELSE Done(b, Load(b, c, npos, n))
  BY DEF getReadBuffersAt, getReadSize
<1>2. n \in Nat /\ n \in 0 .. b.size - b.position
  BY <1>0
<1>3. /\ p \div BaseSize \in Int /\ npos \in 0 .. BaseSize - 1
      /\ p = (p \div BaseSize) * BaseSize + npos
  BY DivMod
<1>10. CASE n = 0
  <2>1. Cells(b, p, n) = <<>>
    BY <1>10 DEF Cells
  <2> QED BY <1>1, <1>2, <1>10, <2>1, DoneFields
<1>11. CASE n # 0 /\ p < b.size
  <2>4. p \div BaseSize >= 0 /\ (p \div BaseSize) + 1 <= Len(b.nodes)
    <3>1. p \in Int /\ p >= 0 /\ p < Len(b.nodes) * BaseSize
      BY <1>0, <1>11
    <3> QED BY <1>0, <3>1, BlockOf
  <2>5. c = (p \div BaseSize) + 1
    BY <1>0, <1>3, <2>4 DEF Hop, Null
  <2> HIDE DEF n, c, npos
  <2>6. c \in Int /\ c \in 1 .. Len(b.nodes) /\ c - 1 = p \div BaseSize /\ p \in Int
    BY <1>0, <1>3, <2>4, <2>5
  <2>7. p = (c - 1) * BaseSize + npos
    BY <1>3, <2>6
  <2>8. LoopRuns(b, c, npos, n) <=> n = 0 \/ p + n <= Len(b.nodes) * BaseSize
    BY <1>0, <1>2, <1>3, <2>6, <2>7, LoopFacts
  <2>9. Load(b, c, npos, n) = Cells(b, p, n)
    BY <1>2, <1>3, <2>6, <2>7, BaseNat, LoadCells DEF Cells
  <2>10. CASE LoopRuns(b, c, npos, n)
    BY <1>1, <1>2, <1>11, <2>9, <2>10, DoneFields
  <2>11. CASE ~LoopRuns(b, c, npos, n)
    <3>1. r = Down(b, "buffersAt", n + p) /\ n + p > b.size
      BY <1>0, <1>1, <1>2, <1>11, <2>8, <2>11
    <3> QED BY <3>1, FaultFields
  <2> QED BY <2>10, <2>11
<1>12. CASE n # 0 /\ ~(p < b.size)
  <2> HIDE DEF n, c, npos
  <2>1. n + p > b.size /\ ~(p <= b.position)
    BY <1>0, <1>2, <1>12
  <2>2. r = Down(b, "buffersAt", n + p) \/ r = Done(b, Load(b, c, npos, n))
    BY <1>1, <1>12
  <2>3. CASE r = Down(b, "buffersAt", n + p)
    BY <2>1, <2>3, FaultFields
  <2>4. CASE r = Done(b, Load(b, c, npos, n))
    BY <2>1, <2>4, DoneFields
  <2> QED BY <2>2, <2>3, <2>4
<1> QED BY <1>10, <1>11, <1>12

-----------------------------------------------------------------------------
(* Calls made of others.                                                   *)

\* A call that reads ends having consumed m bytes, or reads nothing at the very end.
Reads(b, r) ==
    \/ /\ r.end \in {"ok", "throw"} /\ r.fault = NoFault
       /\ \E m \in Nat : /\ b.position + m <= b.size /\ Consumed(b, r.ba, m)
                         /\ r.got = Cells(b, b.position, m)
    \/ /\ r.end = "down" /\ r.fault.op = "read" /\ r.fault.size = 0 /\ r.fault.room = 0

\* A call that writes has stored the first m bytes of s, or addCapacity lost a block.
Writes(b, r, s, m) ==
    \/ r.end = "ok" /\ r.got = <<>> /\ r.fault = NoFault /\ Overlaid(b, r.ba, s, m)
    \/ r.end = "down" /\ LostBlock(r.fault)

\* Consuming nothing.
LEMMA ConsumedNone ==
    ASSUME NEW b, Sound(b)
    PROVE  /\ Consumed(b, b, 0) /\ b.position + 0 <= b.size /\ <<>> = Cells(b, b.position, 0)
  BY SoundTypes DEF Sound, Consumed, Cells

\* A read after a read has consumed both.
LEMMA ConsumedMore ==
    ASSUME NEW b, Sound(b), NEW x, NEW y, NEW m \in Nat, NEW n \in Nat,
           b.position + m <= b.size, Consumed(b, x, m), Consumed(x, y, n),
           x.position + n <= x.size
    PROVE  /\ b.position + (m + n) <= b.size /\ Consumed(b, y, m + n)
           /\ Cells(b, b.position, m) \o Cells(x, x.position, n) = Cells(b, b.position, m + n)
<1>0. b.position \in Nat /\ b.size \in Nat
  BY SoundTypes
<1>1. /\ x.position = b.position + m /\ x.nodes = b.nodes /\ x.size = b.size
      /\ Sound(y) /\ y.nodes = x.nodes /\ y.size = x.size /\ y.capacity = x.capacity
      /\ y.position = x.position + n /\ x.capacity = b.capacity
  BY DEF Consumed
<1>2. b.position + (m + n) <= b.size /\ y.position = b.position + (m + n)
  BY <1>0, <1>1
<1>3. Cells(x, x.position, n) = Cells(b, b.position + m, n)
  BY <1>1 DEF Cells, Cell
<1>4. Cells(b, b.position, m) \o Cells(b, b.position + m, n) = Cells(b, b.position, m + n)
  BY <1>0, <1>2, CellsConcat
<1> QED BY <1>1, <1>2, <1>3, <1>4 DEF Consumed

\* A read function that goes on reading.
LEMMA ReadOn ==
    ASSUME NEW b, Sound(b), NEW r, Reads(b, r), r.end = "ok", NEW n \in Nat
    PROVE  LET q == Then(r, LAMBDA x : read(x, n))
           IN  Reads(b, q) /\ (q.end = "ok" => Len(q.got) = Len(r.got) + n)
<1> DEFINE s == read(r.ba, n)
           q == [s EXCEPT !.got = r.got \o @]
<1>1. Then(r, LAMBDA x : read(x, n)) = q
  BY DEF Then
<1>2. PICK m \in Nat : /\ b.position + m <= b.size /\ Consumed(b, r.ba, m)
                       /\ r.got = Cells(b, b.position, m)
  BY DEF Reads
<1>3. Sound(r.ba) /\ r.fault = NoFault /\ b.position \in Nat /\ b.size \in Nat
  BY <1>2, SoundTypes DEF Consumed, Reads
<1>4. r.got \in Seq(Byte) /\ Len(r.got) = m
  BY <1>2, <1>3, CellsFacts
<1>5. \/ n > r.ba.size - r.ba.position /\ s = Throw(r.ba)
      \/ /\ n <= r.ba.size - r.ba.position /\ s.end = "ok" /\ s.fault = NoFault
         /\ Consumed(r.ba, s.ba, n)
         /\ s.got = [i \in 1 .. n |-> Cell(r.ba, r.ba.position + i - 1)]
      \/ /\ n = 0 /\ s.end = "down" /\ s.fault.op = "read"
         /\ s.fault.size = 0 /\ s.fault.room = 0
  BY <1>3, ReadFacts
<1>6. DOMAIN s = {"ba", "got", "end", "fault"}
  BY DEF read, Throw, Done, Down
<1> HIDE DEF s
<1>7. q.ba = s.ba /\ q.end = s.end /\ q.fault = s.fault /\ q.got = r.got \o s.got
  BY <1>6
<1> HIDE DEF q
<1>8. CASE s = Throw(r.ba)
  <2>1. q.ba = r.ba /\ q.end = "throw" /\ q.fault = NoFault /\ q.got = r.got
    <3>1. r.got \o <<>> = r.got
      BY <1>4, ConcatEmptySeq
    <3> QED BY <3>1, <1>7, <1>8, DoneFields
  <2> QED BY <2>1, <1>1, <1>2 DEF Reads
<1>9. CASE /\ n <= r.ba.size - r.ba.position /\ s.end = "ok" /\ s.fault = NoFault
           /\ Consumed(r.ba, s.ba, n)
           /\ s.got = [i \in 1 .. n |-> Cell(r.ba, r.ba.position + i - 1)]
  <2>1. s.got = Cells(r.ba, r.ba.position, n)
    BY <1>9 DEF Cells
  <2>2. r.ba.position + n <= r.ba.size
    BY <1>3, <1>9, SoundTypes
  <2>3. /\ b.position + (m + n) <= b.size /\ Consumed(b, s.ba, m + n)
        /\ Cells(b, b.position, m) \o Cells(r.ba, r.ba.position, n) = Cells(b, b.position, m + n)
    BY <1>2, <1>9, <2>2, ConsumedMore
  <2>4. m + n \in Nat /\ Len(Cells(b, b.position, m + n)) = m + n
    BY <1>3, <2>3, CellsFacts
  <2>5. q.got = Cells(b, b.position, m + n)
    BY <1>2, <1>7, <2>1, <2>3
  <2> QED BY <1>1, <1>4, <1>7, <1>9, <2>3, <2>4, <2>5 DEF Reads
<1>10. CASE /\ n = 0 /\ s.end = "down" /\ s.fault.op = "read"
            /\ s.fault.size = 0 /\ s.fault.room = 0
  BY <1>1, <1>7, <1>10 DEF Reads
<1> QED BY <1>5, <1>8, <1>9, <1>10

\* One read.
LEMMA ReadOnce ==
    ASSUME NEW b, Sound(b), NEW n \in Nat
    PROVE  /\ Reads(b, read(b, n))
           /\ read(b, n).end = "ok" => read(b, n).got \in [1 .. n -> Byte]
<1> DEFINE r == read(b, n)
<1>1. \/ n > b.size - b.position /\ r = Throw(b)
      \/ /\ n <= b.size - b.position /\ r.end = "ok" /\ r.fault = NoFault
         /\ Consumed(b, r.ba, n)
         /\ r.got = [i \in 1 .. n |-> Cell(b, b.position + i - 1)]
      \/ /\ n = 0 /\ r.end = "down" /\ r.fault.op = "read"
         /\ r.fault.size = 0 /\ r.fault.room = 0
  BY ReadFacts
<1> HIDE DEF r
<1>2. CASE r = Throw(b)
  BY <1>2, ConsumedNone, DoneFields DEF Reads, r
<1>3. CASE /\ n <= b.size - b.position /\ r.end = "ok" /\ r.fault = NoFault
           /\ Consumed(b, r.ba, n)
           /\ r.got = [i \in 1 .. n |-> Cell(b, b.position + i - 1)]
  <2>1. r.got = Cells(b, b.position, n)
    BY <1>3 DEF Cells
  <2>2. b.position \in Nat /\ b.position + n <= b.size
    BY <1>3, SoundTypes
  <2>3. Cells(b, b.position, n) \in [1 .. n -> Byte]
    BY <2>2, CellsFacts
  <2> QED BY <1>3, <2>1, <2>2, <2>3 DEF Reads, r
<1>4. CASE /\ n = 0 /\ r.end = "down" /\ r.fault.op = "read"
           /\ r.fault.size = 0 /\ r.fault.room = 0
  BY <1>4 DEF Reads, r
<1> QED BY <1>1, <1>2, <1>3, <1>4

\* A write after a write has stored both.
LEMMA OverlaidOn ==
    ASSUME NEW b, Sound(b), NEW x, NEW y, NEW s, NEW t, NEW m \in Nat, NEW n \in Nat,
           Overlaid(b, x, s, m), Overlaid(x, y, t, n), \A i \in 1 .. n : t[i] = s[m + i]
    PROVE  Overlaid(b, y, s, m + n)
<1>0. b.position \in Nat /\ b.size \in Nat /\ b.position <= b.size
  BY SoundTypes DEF Sound
<1>1. /\ x.position = b.position + m /\ x.size = Larger(b.size, b.position + m)
      /\ \A i \in 0 .. x.size - 1 :
            Cell(x, i) = IF b.position <= i /\ i < b.position + m
                         THEN s[i - b.position + 1] ELSE Cell(b, i)
  BY DEF Overlaid
<1>2. /\ Sound(y) /\ y.position = x.position + n /\ y.size = Larger(x.size, x.position + n)
      /\ \A i \in 0 .. y.size - 1 :
            Cell(y, i) = IF x.position <= i /\ i < x.position + n
                         THEN t[i - x.position + 1] ELSE Cell(x, i)
  BY DEF Overlaid
<1>3. /\ y.position = b.position + (m + n) /\ y.size = Larger(b.size, b.position + (m + n))
      /\ x.size \in Nat /\ y.size \in Nat
  BY <1>0, <1>1, <1>2 DEF Larger
<1>4. ASSUME NEW i \in 0 .. y.size - 1
      PROVE  Cell(y, i) = IF b.position <= i /\ i < b.position + (m + n)
                          THEN s[i - b.position + 1] ELSE Cell(b, i)
  <2>1. CASE x.position <= i /\ i < x.position + n
    <3>1. /\ i - x.position + 1 \in 1 .. n /\ m + (i - x.position + 1) = i - b.position + 1
          /\ b.position <= i /\ i < b.position + (m + n)
      BY <2>1, <1>0, <1>1, <1>3
    <3>2. t[i - x.position + 1] = s[m + (i - x.position + 1)]
      BY <3>1
    <3> QED BY <3>1, <3>2, <2>1, <1>2
  <2>2. CASE ~(x.position <= i /\ i < x.position + n)
    <3>1. i \in 0 .. x.size - 1
      BY <2>2, <1>0, <1>1, <1>2, <1>3 DEF Larger
    <3>2. Cell(y, i) = Cell(x, i)
      BY <2>2, <1>2
    <3>3. (b.position <= i /\ i < b.position + (m + n)) <=> (b.position <= i /\ i < b.position + m)
      BY <2>2, <3>1, <1>0, <1>1, <1>3
    <3> QED BY <3>1, <3>2, <3>3, <1>1
  <2> QED BY <2>1, <2>2
<1> QED BY <1>2, <1>3, <1>4 DEF Overlaid

\* A write function that goes on writing.
LEMMA WriteOn ==
    ASSUME NEW b, Sound(b), NEW r, NEW s, NEW m \in Nat, Writes(b, r, s, m),
           NEW t \in Seq(Byte), \A i \in 1 .. Len(t) : t[i] = s[m + i]
    PROVE  Writes(b, Then(r, LAMBDA x : write(x, t)), s, m + Len(t))
<1> DEFINE w == write(r.ba, t)
           q == [w EXCEPT !.got = r.got \o @]
<1>1. CASE r.end = "down" /\ LostBlock(r.fault)
  <2>1. Then(r, LAMBDA x : write(x, t)) = r
    BY <1>1 DEF Then
  <2> QED BY <1>1, <2>1 DEF Writes
<1>2. CASE r.end = "ok" /\ r.got = <<>> /\ r.fault = NoFault /\ Overlaid(b, r.ba, s, m)
  <2>1. Then(r, LAMBDA x : write(x, t)) = q
    BY <1>2 DEF Then
  <2>2. Sound(r.ba) /\ Len(t) \in Nat
    BY <1>2, LenProperties DEF Overlaid
  <2>3. \/ /\ w.end = "ok" /\ w.got = <<>> /\ w.fault = NoFault
           /\ Overlaid(r.ba, w.ba, t, Len(t))
        \/ w.end = "down" /\ LostBlock(w.fault)
    BY <2>2, WriteFacts
  <2>4. DOMAIN w = {"ba", "got", "end", "fault"}
    BY DEF write, Done, Down
  <2> HIDE DEF w
  <2>5. q.ba = w.ba /\ q.end = w.end /\ q.fault = w.fault /\ q.got = r.got \o w.got
    BY <2>4
  <2> HIDE DEF q
  <2>6. CASE /\ w.end = "ok" /\ w.got = <<>> /\ w.fault = NoFault
             /\ Overlaid(r.ba, w.ba, t, Len(t))
    <3>1. Overlaid(b, w.ba, s, m + Len(t))
      BY <1>2, <2>2, <2>6, OverlaidOn
    <3>2. <<>> \o <<>> = <<>>
      OBVIOUS
    <3> QED BY <1>2, <2>1, <2>5, <2>6, <3>1, <3>2 DEF Writes
  <2>7. CASE w.end = "down" /\ LostBlock(w.fault)
    BY <2>1, <2>5, <2>7 DEF Writes
  <2> QED BY <2>3, <2>6, <2>7
<1> QED BY <1>1, <1>2 DEF Writes

-----------------------------------------------------------------------------
(* Loops.                                                                  *)

\* A set of naturals that is not empty has a least one.
LEMMA LeastExists ==
    ASSUME NEW S \in SUBSET Nat, S # {}
    PROVE  \E i \in S : \A j \in S : i <= j
<1> DEFINE R == OpToRel(<, Nat)
<1>1. IsWellFoundedOn(R, Nat)
  BY NatLessThanWellFounded
<1>2. \A x, y \in Nat : x < y => <<x, y>> \in R
  BY DEF OpToRel
<1> HIDE DEF R
<1>3. PICK i \in S : \A y \in S : ~(<<y, i>> \in R)
  BY <1>1, WFMin
<1>4. \A j \in S : ~(j < i)
  BY <1>2, <1>3
<1>5. \A j \in S : i <= j
  <2> SUFFICES ASSUME NEW j \in S PROVE i <= j
    OBVIOUS
  <2>1. ~(j < i) /\ i \in Nat /\ j \in Nat
    BY <1>4
  <2> QED BY <2>1
<1> QED BY <1>5

\* What holds before the first turn of a loop and is kept by each holds after all.
LEMMA UpTo ==
    ASSUME NEW n \in Nat, NEW S, 0 \in S, \A k \in 1 .. n : k - 1 \in S => k \in S
    PROVE  \A k \in 0 .. n : k \in S
<1> DEFINE Bad == {k \in 0 .. n : k \notin S}
<1>1. CASE Bad # {}
  <2>1. Bad \in SUBSET Nat
    OBVIOUS
  <2> HIDE DEF Bad
  <2>2. PICK i \in Bad : \A j \in Bad : i <= j
    BY <1>1, <2>1, LeastExists
  <2> USE DEF Bad
  <2>3. i \in 1 .. n /\ i \notin S
    BY <2>2
  <2>4. i - 1 \in 0 .. n /\ ~(i <= i - 1)
    BY <2>3
  <2>5. i - 1 \in S
    BY <2>2, <2>4
  <2> QED BY <2>3, <2>5
<1>2. CASE Bad = {}
  BY <1>2
<1> QED BY <1>1, <1>2

\* A variable-length integer has at least one byte.
LEMMA VarintMaxFacts == VarintMax(Width) \in Nat \ {0}
<1> DEFINE x == Width + Group - 1
           q == x \div Group
           r == x % Group
<1>1. Group \in Nat \ {0} /\ Width \in Nat \ {0}
  BY ByteArrayAssumption
<1>2. x \in Int /\ x >= Group
  BY <1>1
<1> HIDE DEF x
<1>3. q \in Int /\ r \in 0 .. Group - 1 /\ x = q * Group + r
  BY <1>1, <1>2
<1> HIDE DEF q, r
<1>4. q <= 0 => q * Group <= 0
  BY <1>1, <1>3
<1>5. q * Group \in Int
  BY <1>1, <1>3
<1>6. q \in Nat \ {0}
  BY <1>1, <1>2, <1>3, <1>4, <1>5
<1> QED BY <1>6 DEF q, x, VarintMax

\* A turn of the loop of readUint32/64.
UintTurn(k, r) ==
    IF r.end # "ok" \/ (r.got # <<>> /\ Last(r.got) < 2 ^ Group) THEN r
    ELSE Then(r, LAMBDA x : read(x, 1))

\* readUint32/64 make their turns one after another.
LEMMA ReadUintTurns ==
    ASSUME NEW b, NEW N, N = VarintMax(Width)
    PROVE  \E f : /\ f[0] = Done(b, <<>>) /\ readUint(b) = f[N]
                 /\ \A k \in 1 .. N : f[k] = UintTurn(k, f[k - 1])
<1> DEFINE start == Done(b, <<>>)
           turn(k, r) == UintTurn(k, r)
           after[k \in 0 .. N] == IF k = 0 THEN start ELSE turn(k, after[k - 1])
<1>0. N \in Nat \ {0}
  BY VarintMaxFacts
<1>1. readUint(b) = after[N]
  BY DEF readUint, Turns, UintTurn
<1> HIDE DEF start, turn
<1>2. \E f : f = [k \in 0 .. N |-> IF k = 0 THEN start ELSE turn(k, f[k - 1])]
  <2> DEFINE S == {k \in 0 .. N :
                     \E f : f = [j \in 0 .. k |-> IF j = 0 THEN start ELSE turn(j, f[j - 1])]}
  <2>1. 0 \in S
    <3> DEFINE g == [j \in 0 .. 0 |-> start]
    <3>1. g = [j \in 0 .. 0 |-> IF j = 0 THEN start ELSE turn(j, g[j - 1])]
      OBVIOUS
    <3> HIDE DEF g
    <3>2. 0 \in 0 .. N
      BY <1>0
    <3> QED BY <3>1, <3>2
  <2>2. ASSUME NEW k \in 1 .. N, k - 1 \in S PROVE k \in S
    <3>1. PICK f : f = [j \in 0 .. k - 1 |-> IF j = 0 THEN start ELSE turn(j, f[j - 1])]
      BY <2>2
    <3> DEFINE g == [j \in 0 .. k |-> IF j = k THEN turn(k, f[k - 1]) ELSE f[j]]
    <3>2. ASSUME NEW j \in 0 .. k
          PROVE  g[j] = IF j = 0 THEN start ELSE turn(j, g[j - 1])
      <4>1. CASE j = k
        <5>1. j # 0 /\ k - 1 \in 0 .. k /\ k - 1 # k /\ k \in 0 .. k
          BY <1>0, <4>1
        <5>2. g[k] = turn(k, f[k - 1]) /\ g[k - 1] = f[k - 1]
          BY <5>1
        <5> QED BY <4>1, <5>1, <5>2
      <4>2. CASE j # k /\ j = 0
        <5>1. 0 \in 0 .. k - 1 /\ 0 \in 0 .. k
          BY <1>0
        <5> QED BY <3>1, <4>2, <5>1
      <4>3. CASE j # k /\ j # 0
        <5>1. j \in 0 .. k - 1 /\ j - 1 \in 0 .. k /\ j - 1 # k
          BY <1>0, <4>3
        <5>2. g[j] = f[j] /\ g[j - 1] = f[j - 1]
          BY <5>1, <4>3
        <5>3. f[j] = turn(j, f[j - 1])
          BY <3>1, <5>1, <4>3
        <5> QED BY <4>3, <5>2, <5>3
      <4> QED BY <4>1, <4>2, <4>3
    <3>3. g = [j \in 0 .. k |-> g[j]]
      OBVIOUS
    <3> HIDE DEF g
    <3>4. g = [j \in 0 .. k |-> IF j = 0 THEN start ELSE turn(j, g[j - 1])]
      BY <3>2, <3>3
    <3>5. k \in 0 .. N
      BY <1>0
    <3> QED BY <3>4, <3>5
  <2> HIDE DEF S
  <2>3. \A k \in 0 .. N : k \in S
    BY <1>0, <2>1, <2>2, UpTo
  <2>4. N \in S
    BY <1>0, <2>3
  <2> QED BY <2>4 DEF S
<1>3. after = [k \in 0 .. N |-> IF k = 0 THEN start ELSE turn(k, after[k - 1])]
  BY <1>2 DEF after
<1> HIDE DEF after
<1>4. 0 \in 0 .. N /\ \A k \in 1 .. N : k \in 0 .. N /\ k # 0
  BY <1>0
<1>5. after[0] = start
  BY <1>3, <1>4
<1>6. ASSUME NEW k \in 1 .. N PROVE after[k] = turn(k, after[k - 1])
  BY <1>3, <1>4
<1> QED BY <1>1, <1>5, <1>6 DEF start, turn

\* readUint32/64 consume what they read, and return at least one byte.
LEMMA ReadUintFacts ==
    ASSUME NEW b, Sound(b)
    PROVE  /\ Reads(b, readUint(b))
           /\ readUint(b).end = "ok" =>
                 \E n \in 1 .. VarintMax(Width) : readUint(b).got \in [1 .. n -> Byte]
<1> DEFINE N == VarintMax(Width)
           start == Done(b, <<>>)
           stop(r) == r.end # "ok" \/ (r.got # <<>> /\ Last(r.got) < 2 ^ Group)
           turn(k, r) == UintTurn(k, r)
           Good(k, r) == /\ Reads(b, r)
                         /\ r.end = "ok" => Len(r.got) <= k /\ (k > 0 => r.got # <<>>)
<1>0. N \in Nat \ {0}
  BY VarintMaxFacts
<1>1. PICK after : /\ after[0] = start /\ readUint(b) = after[N]
                   /\ \A k \in 1 .. N : after[k] = turn(k, after[k - 1])
  BY ReadUintTurns
<1>2. Good(0, start)
  <2>1. Len(<<>>) = 0
    OBVIOUS
  <2> QED BY <2>1, ConsumedNone, DoneFields DEF Reads
<1>3. ASSUME NEW k \in 1 .. N, NEW r, Good(k - 1, r) PROVE Good(k, turn(k, r))
  <2>1. CASE stop(r)
    <3>1. turn(k, r) = r
      BY <2>1 DEF UintTurn
    <3>2. r.end = "ok" => Len(r.got) <= k /\ r.got # <<>>
      <4>1. r.end = "ok" => Len(r.got) \in Nat
        <5>1. b.position \in Nat
          BY SoundTypes
        <5> QED BY <1>3, <5>1, CellsFacts DEF Reads
      <4> QED BY <4>1, <1>3, <2>1
    <3> QED BY <3>1, <3>2, <1>3
  <2>2. CASE ~stop(r)
    <3> DEFINE q == Then(r, LAMBDA x : read(x, 1))
    <3>1. turn(k, r) = q /\ r.end = "ok"
      BY <2>2 DEF UintTurn
    <3>2. Reads(b, q) /\ (q.end = "ok" => Len(q.got) = Len(r.got) + 1)
      BY <1>3, <3>1, ReadOn
    <3>3. Len(r.got) \in Nat /\ Len(r.got) <= k - 1
      <4>1. b.position \in Nat
        BY SoundTypes
      <4> QED BY <1>3, <3>1, <4>1, CellsFacts DEF Reads
    <3>4. Len(<<>>) = 0
      OBVIOUS
    <3> HIDE DEF q
    <3>5. q.end = "ok" => Len(q.got) <= k /\ q.got # <<>>
      BY <3>2, <3>3, <3>4
    <3> QED BY <3>1, <3>2, <3>5
  <2> QED BY <2>1, <2>2
<1> HIDE DEF N, start, turn, Good
<1>4. Good(N, after[N])
  <2> DEFINE S == {k \in 0 .. N : Good(k, after[k])}
  <2>1. 0 \in S
    <3>1. 0 \in 0 .. N
      BY <1>0
    <3>2. after[0] = start
      BY <1>1
    <3> QED BY <1>2, <3>1, <3>2
  <2>2. ASSUME NEW k \in 1 .. N, k - 1 \in S PROVE k \in S
    <3>1. k \in 0 .. N /\ k # 0
      BY <1>0
    <3>2. after[k] = turn(k, after[k - 1])
      BY <1>1
    <3> QED BY <1>3, <2>2, <3>1, <3>2
  <2> HIDE DEF S
  <2>3. \A k \in 0 .. N : k \in S
    BY <1>0, <2>1, <2>2, UpTo
  <2>4. N \in S
    BY <1>0, <2>3
  <2> QED BY <2>4 DEF S
<1> DEFINE r == after[N]
<1> HIDE DEF r
<1>7. Reads(b, r) /\ (r.end = "ok" => Len(r.got) <= N /\ r.got # <<>>)
  BY <1>0, <1>4 DEF Good, r
<1>8. ASSUME r.end = "ok" PROVE \E n \in 1 .. N : r.got \in [1 .. n -> Byte]
  <2>1. PICK m \in Nat : b.position + m <= b.size /\ r.got = Cells(b, b.position, m)
    BY <1>7, <1>8 DEF Reads
  <2>2. b.position \in Nat
    BY SoundTypes
  <2>3. r.got \in [1 .. m -> Byte] /\ Len(r.got) = m
    BY <2>1, <2>2, CellsFacts
  <2>4. m # 0
    BY <2>1, <1>7, <1>8 DEF Cells
  <2>5. m \in 1 .. N
    BY <2>3, <2>4, <1>0, <1>7, <1>8
  <2> QED BY <2>3, <2>5
<1> QED BY <1>1, <1>7, <1>8 DEF r, N

\* readFromFile() stores the file block by block, all of it.
LEMMA ReadFromFileFacts ==
    ASSUME NEW b, Sound(b), NEW content \in Seq(Byte)
    PROVE  Writes(b, readFromFile(b, content), content, Len(content))
<1> DEFINE L == Len(content)
           N == (L + BaseSize) \div BaseSize
           lim(k) == IF k * BaseSize < L THEN k * BaseSize ELSE L
           chunk(k) == SubSeq(content, (k - 1) * BaseSize + 1, lim(k))
           start == Done(b, <<>>)
           turn(k, r) == Then(r, LAMBDA x : write(x, chunk(k)))
           after[k \in 0 .. N] == IF k = 0 THEN start ELSE turn(k, after[k - 1])
           Good(k, r) == Writes(b, r, content, lim(k))
<1>1. readFromFile(b, content) = after[N]
  BY DEF readFromFile, Turns
<1>size. L \in Nat /\ \A i \in 1 .. L : content[i] \in Byte
  BY LenProperties, ElementOfSeq
<1> HIDE DEF L
<1>turns. N \in Int /\ N * BaseSize > L
  <2>1. /\ N \in Int /\ (L + BaseSize) % BaseSize \in 0 .. BaseSize - 1 /\ L + BaseSize \in Int
        /\ L + BaseSize = N * BaseSize + ((L + BaseSize) % BaseSize)
    <3>1. L + BaseSize \in Int
      BY <1>size, BaseNat
    <3> QED BY <3>1, DivMod
  <2> DEFINE w == (L + BaseSize) % BaseSize
  <2> HIDE DEF N, w
  <2>2. N * BaseSize \in Int
    BY <2>1, Products
  <2> QED BY <2>1, <2>2, <1>size, BaseNat DEF w
<1>0. N \in Nat
  <2>1. N <= 0 => N * BaseSize <= 0 * BaseSize
    BY <1>turns, Products
  <2>2. 0 * BaseSize = 0 /\ N * BaseSize \in Int
    BY <1>turns, BaseNat, Products
  <2> QED BY <1>turns, <1>size, <2>1, <2>2
<1> HIDE DEF N
<1>2. Good(0, start)
  <2>1. lim(0) = 0
    BY <1>size, BaseNat
  <2>2. /\ b.position \in Nat /\ b.size \in Nat /\ b.position <= b.size
    BY SoundTypes DEF Sound
  <2>3. Larger(b.size, b.position + 0) = b.size /\ b.position + 0 = b.position
    BY <2>2 DEF Larger
  <2>4. Overlaid(b, b, content, 0)
    BY <2>2, <2>3 DEF Overlaid
  <2> QED BY <2>1, <2>4, DoneFields DEF Writes
<1>3. ASSUME NEW k \in 1 .. N, NEW r, Good(k - 1, r) PROVE Good(k, turn(k, r))
  <2> DEFINE m == lim(k - 1)
             t == chunk(k)
             low == (k - 1) * BaseSize
             high == k * BaseSize
  <2>1. k \in Int /\ k - 1 \in Int /\ low \in Int /\ low >= 0 /\ high = low + BaseSize
    <3>1. k \in Int /\ k - 1 \in Int /\ 0 <= k - 1
      BY <1>0
    <3>2. low \in Int /\ high \in Int
      BY <3>1, Products
    <3>3. 0 * BaseSize <= low
      BY <3>1, Products
    <3>4. (k - 1) * BaseSize = k * BaseSize - 1 * BaseSize
      BY <3>1, Products
    <3> QED BY <3>1, <3>2, <3>3, <3>4, BaseNat
  <2>2. m = (IF low < L THEN low ELSE L) /\ lim(k) = (IF high < L THEN high ELSE L)
        /\ t = SubSeq(content, low + 1, lim(k))
    OBVIOUS
  <2>3. turn(k, r) = Then(r, LAMBDA x : write(x, t))
    OBVIOUS
  <2>good. Writes(b, r, content, m)
    BY <1>3
  <2> DEFINE e == lim(k)
  <2> HIDE DEF m, t, low, high, e, lim, chunk, turn, Good
  <2>4. m \in Nat /\ e \in Nat /\ e <= L
    BY <2>1, <2>2, <1>size, BaseNat DEF e
  <2>5. /\ t \in Seq(Byte)
        /\ Len(t) = IF low + 1 <= e THEN e - (low + 1) + 1 ELSE 0
        /\ \A i \in 1 .. e - (low + 1) + 1 : t[i] = content[(low + 1) + i - 1]
    <3>1. \A i \in low + 1 .. e : content[i] \in Byte
      BY <2>1, <2>4, <1>size
    <3>2. t = SubSeq(content, low + 1, e) /\ low + 1 \in Int /\ low + 1 >= 1 /\ e \in Int
      BY <2>1, <2>2, <2>4 DEF e
    <3> QED BY <3>1, <3>2, SubSeqProperties
  <2>6. Len(t) = e - m /\ \A i \in 1 .. Len(t) : t[i] = content[m + i]
    <3>1. CASE low < L
      <4>1. m = low /\ low + 1 <= e /\ e - (low + 1) + 1 = e - m
        BY <3>1, <2>1, <2>2, <2>4, <1>size, BaseNat DEF e
      <4>2. \A i \in 1 .. e - m : (low + 1) + i - 1 = m + i
        BY <4>1, <2>1, <2>4
      <4> QED BY <4>1, <4>2, <2>5
    <3>2. CASE ~(low < L)
      BY <3>2, <2>1, <2>2, <2>4, <2>5, <1>size, BaseNat DEF e
    <3> QED BY <3>1, <3>2
  <2>7. Writes(b, Then(r, LAMBDA x : write(x, t)), content, m + Len(t))
    BY <2>4, <2>5, <2>6, <2>good, WriteOn
  <2>8. m + Len(t) = e
    BY <2>4, <2>6
  <2> QED BY <2>3, <2>7, <2>8 DEF Good, e
<1> HIDE DEF start, turn, Good
<1>4. \E f : f = [k \in 0 .. N |-> IF k = 0 THEN start ELSE turn(k, f[k - 1])]
  <2> DEFINE S == {k \in 0 .. N :
                     \E f : f = [j \in 0 .. k |-> IF j = 0 THEN start ELSE turn(j, f[j - 1])]}
  <2>1. 0 \in S
    <3> DEFINE g == [j \in 0 .. 0 |-> start]
    <3>1. g = [j \in 0 .. 0 |-> IF j = 0 THEN start ELSE turn(j, g[j - 1])]
      OBVIOUS
    <3> HIDE DEF g
    <3>2. 0 \in 0 .. N
      BY <1>0
    <3> QED BY <3>1, <3>2
  <2>2. ASSUME NEW k \in 1 .. N, k - 1 \in S PROVE k \in S
    <3>1. PICK f : f = [j \in 0 .. k - 1 |-> IF j = 0 THEN start ELSE turn(j, f[j - 1])]
      BY <2>2
    <3> DEFINE g == [j \in 0 .. k |-> IF j = k THEN turn(k, f[k - 1]) ELSE f[j]]
    <3>2. ASSUME NEW j \in 0 .. k
          PROVE  g[j] = IF j = 0 THEN start ELSE turn(j, g[j - 1])
      <4>1. CASE j = k
        <5>1. j # 0 /\ k - 1 \in 0 .. k /\ k - 1 # k /\ k \in 0 .. k
          BY <1>0, <4>1
        <5>2. g[k] = turn(k, f[k - 1]) /\ g[k - 1] = f[k - 1]
          BY <5>1
        <5> QED BY <4>1, <5>1, <5>2
      <4>2. CASE j # k /\ j = 0
        <5>1. 0 \in 0 .. k - 1 /\ 0 \in 0 .. k
          BY <1>0
        <5> QED BY <3>1, <4>2, <5>1
      <4>3. CASE j # k /\ j # 0
        <5>1. j \in 0 .. k - 1 /\ j - 1 \in 0 .. k /\ j - 1 # k
          BY <1>0, <4>3
        <5>2. g[j] = f[j] /\ g[j - 1] = f[j - 1]
          BY <5>1, <4>3
        <5>3. f[j] = turn(j, f[j - 1])
          BY <3>1, <5>1, <4>3
        <5> QED BY <4>3, <5>2, <5>3
      <4> QED BY <4>1, <4>2, <4>3
    <3>3. g = [j \in 0 .. k |-> g[j]]
      OBVIOUS
    <3> HIDE DEF g
    <3>4. g = [j \in 0 .. k |-> IF j = 0 THEN start ELSE turn(j, g[j - 1])]
      BY <3>2, <3>3
    <3>5. k \in 0 .. N
      BY <1>0
    <3> QED BY <3>4, <3>5
  <2> HIDE DEF S
  <2>3. \A k \in 0 .. N : k \in S
    BY <1>0, <2>1, <2>2, UpTo
  <2>4. N \in S
    BY <1>0, <2>3
  <2> QED BY <2>4 DEF S
<1>5. after = [k \in 0 .. N |-> IF k = 0 THEN start ELSE turn(k, after[k - 1])]
  BY <1>4 DEF after
<1> HIDE DEF after
<1>6. Good(N, after[N])
  <2> DEFINE S == {k \in 0 .. N : Good(k, after[k])}
  <2>1. 0 \in S
    <3>1. 0 \in 0 .. N
      BY <1>0
    <3>2. after[0] = start
      BY <1>5, <3>1
    <3> QED BY <1>2, <3>1, <3>2
  <2>2. ASSUME NEW k \in 1 .. N, k - 1 \in S PROVE k \in S
    <3>1. k \in 0 .. N /\ k # 0
      BY <1>0
    <3>2. after[k] = turn(k, after[k - 1])
      BY <1>5, <3>1
    <3> QED BY <1>3, <2>2, <3>1, <3>2
  <2> HIDE DEF S
  <2>3. \A k \in 0 .. N : k \in S
    BY <1>0, <2>1, <2>2, UpTo
  <2>4. N \in S
    BY <1>0, <2>3
  <2> QED BY <2>4 DEF S
<1>7. lim(N) = L
  BY <1>0, <1>turns, <1>size, BaseNat
<1> QED BY <1>1, <1>6, <1>7 DEF Good, L

\* writeToFile() writes the data behind the position, unless it starts inside a block
\* with less than a block left: then no turn gets on and it runs off the list.
LEMMA WriteToFileFacts ==
    ASSUME NEW b, Sound(b), NEW L \in Int, L = b.size - b.position
    PROVE  \/ writeToFile(b) = Done(b, Cells(b, b.position, L))
           \/ writeToFile(b) = Down(b, "file", L) /\ L < BaseSize /\ b.position % BaseSize # 0
<1> DEFINE P == b.position
           d == P % BaseSize
           N == Len(b.nodes)
           start == [c |-> b.cur, pos |-> P, left |-> L, got |-> <<>>]
           diff(s) == s.pos % BaseSize
           len(s) == (IF s.left > BaseSize THEN BaseSize ELSE s.left) - diff(s)
           turn(k, s) ==
               IF s.left <= 0 \/ s.c = Null THEN s
               ELSE [c |-> Hop(b, s.c, 1), pos |-> s.pos + len(s), left |-> s.left - len(s),
                     got |-> s.got \o Load(b, s.c, diff(s), Larger(len(s), 0))]
           after[k \in 0 .. N] == IF k = 0 THEN start ELSE turn(k, after[k - 1])
           \* e bytes are written and, while there are more, the turn is at their block.
           Flows(k, s, e) ==
               /\ s.pos = P + e /\ s.left = L - e /\ s.got = Cells(b, P, e)
               /\ e < L => /\ s.c = ((P + e) \div BaseSize) + 1
                           /\ s.c >= (P \div BaseSize) + 1 + k
                           /\ (P + e) % BaseSize = 0 \/ L - e >= BaseSize
           Circles(s) == (s.left = L /\ s.pos = P) \/ (s.left = d /\ s.pos = P + L - d)
           Stuck == L > 0 /\ L < BaseSize /\ d # 0
           Good(k, s) == IF Stuck THEN Circles(s) ELSE \E e \in 0 .. L : Flows(k, s, e)
<1>file. writeToFile(b) = IF after[N].left <= 0 THEN Done(b, after[N].got) ELSE Down(b, "file", L)
  BY DEF writeToFile, Turns, getReadSize
<1>object. /\ P \in Nat /\ b.size \in Nat /\ N \in Nat /\ L \in Nat /\ P + L = b.size
      /\ b.capacity \in Nat /\ b.size <= b.capacity /\ b.capacity = N * BaseSize
      /\ b.nodes \in Seq([0 .. BaseSize - 1 -> Byte])
  BY SoundTypes DEF Sound
<1>0. N \in Nat
  BY <1>object
<1>offset. d \in 0 .. BaseSize - 1 /\ P \div BaseSize \in Int /\ P = (P \div BaseSize) * BaseSize + d
  <2>1. P \in Int
    BY <1>object
  <2> QED BY <2>1, DivMod
<1> HIDE DEF P, N, d
<1>2. Good(0, start)
  <2>1. start.c = b.cur /\ start.pos = P /\ start.left = L /\ start.got = <<>>
    OBVIOUS
  <2>2. CASE Stuck
    BY <2>1, <2>2
  <2>3. CASE ~Stuck
    <3>1. <<>> = Cells(b, P, 0) /\ P + 0 = P /\ L - 0 = L /\ 0 \in 0 .. L
      BY <1>object DEF Cells
    <3>2. ASSUME 0 < L
          PROVE  /\ b.cur = (P \div BaseSize) + 1 /\ b.cur >= (P \div BaseSize) + 1 + 0
                 /\ P % BaseSize = 0 \/ L >= BaseSize
      <4>1. P # b.capacity
        BY <3>2, <1>object
      <4>2. b.cur = (P \div BaseSize) + 1
        BY <4>1 DEF Sound, P
      <4>3. d = 0 \/ L >= BaseSize
        BY <2>3, <3>2, <1>object, BaseNat
      <4> QED BY <4>2, <4>3, <1>offset DEF d
    <3>3. Flows(0, start, 0)
      BY <2>1, <3>1, <3>2
    <3> QED BY <2>3, <3>1, <3>3
  <2> QED BY <2>2, <2>3
<1>3. ASSUME NEW k \in 1 .. N, NEW s, Good(k - 1, s) PROVE Good(k, turn(k, s))
  <2>1. CASE Stuck
    <3>1. CASE s.left <= 0 \/ s.c = Null
      BY <1>3, <2>1, <3>1
    <3>2. CASE ~(s.left <= 0 \/ s.c = Null)
      <4> DEFINE u == turn(k, s)
      <4>1. u.pos = s.pos + len(s) /\ u.left = s.left - len(s)
        BY <3>2
      <4>2. BaseSize \in Nat /\ L < BaseSize /\ L \in Int /\ d \in Int /\ d < BaseSize /\ P \in Int
            /\ L > 0
        BY <1>object, <1>offset, <2>1, BaseNat
      <4>3. CASE s.left = L /\ s.pos = P
        <5>1. len(s) = L - d
          BY <4>2, <4>3 DEF d
        <5> HIDE DEF u, len
        <5>2. u.left = d /\ u.pos = P + L - d
          BY <4>1, <4>2, <4>3, <5>1
        <5> QED BY <2>1, <5>2 DEF u
      <4>4. CASE s.left = d /\ s.pos = P + L - d
        <5>1. (P + L - d) % BaseSize = L
          <6> DEFINE q == P \div BaseSize
          <6>1. q \in Int /\ P = q * BaseSize + d
            BY <1>offset
          <6> HIDE DEF q
          <6>2. q * BaseSize \in Int
            BY <6>1, Products
          <6>3. P + L - d \in Int /\ P + L - d = q * BaseSize + L /\ L \in 0 .. BaseSize - 1
            BY <6>1, <6>2, <4>2
          <6> QED BY <6>1, <6>3, DivModUnique
        <5>2. len(s) = d - L
          BY <4>2, <4>4, <5>1
        <5> HIDE DEF u, len
        <5>3. u.left = L /\ u.pos = P
          BY <4>1, <4>2, <4>4, <5>2
        <5> QED BY <2>1, <5>3 DEF u
      <4> QED BY <1>3, <2>1, <4>3, <4>4
    <3> QED BY <3>1, <3>2
  <2>2. CASE ~Stuck
    <3>1. PICK e \in 0 .. L : Flows(k - 1, s, e)
      BY <1>3, <2>2
    <3>2. SUFFICES \E x \in 0 .. L : Flows(k, turn(k, s), x)
      BY <2>2
    <3>3. CASE e = L
      <4>1. s.left <= 0
        BY <3>1, <3>3, <1>object
      <4>2. turn(k, s) = s
        BY <4>1
      <4>3. Flows(k, s, e)
        BY <3>1, <3>3, <1>object
      <4> QED BY <4>2, <4>3
    <3>4. CASE e # L
      <4> DEFINE q == (P + e) \div BaseSize
                 w == (P + e) % BaseSize
                 n == len(s)
                 u == turn(k, s)
                 x == e + n
      <4>1. /\ e \in Nat /\ e < L /\ P + e \in Int /\ P + e >= 0 /\ P + e < b.size
            /\ BaseSize \in Nat \ {0}
        BY <3>4, <1>object, BaseNat
      <4>2. q \in Int /\ w \in 0 .. BaseSize - 1 /\ P + e = q * BaseSize + w
        BY <4>1, DivMod
      <4>3. q >= 0
        BY <4>1, BlockOf
      <4>4. /\ s.pos = P + e /\ s.left = L - e /\ s.got = Cells(b, P, e)
            /\ s.c = q + 1 /\ s.c >= (P \div BaseSize) + 1 + (k - 1)
            /\ w = 0 \/ L - e >= BaseSize
        <5>1. /\ s.pos = P + e /\ s.left = L - e /\ s.got = Cells(b, P, e)
              /\ e < L => /\ s.c = ((P + e) \div BaseSize) + 1
                          /\ s.c >= (P \div BaseSize) + 1 + (k - 1)
                          /\ (P + e) % BaseSize = 0 \/ L - e >= BaseSize
          BY <3>1
        <5> QED BY <4>1, <5>1
      <4>5. n = (IF L - e > BaseSize THEN BaseSize ELSE L - e) - w
        BY <4>4
      <4>6. ~(s.left <= 0 \/ s.c = Null)
        BY <4>1, <4>2, <4>3, <4>4, <1>object DEF Null
      <4>7. /\ u.c = Hop(b, s.c, 1) /\ u.pos = s.pos + n /\ u.left = s.left - n
            /\ u.got = s.got \o Load(b, s.c, w, Larger(n, 0))
        BY <4>4, <4>6
      <4> HIDE DEF q, w, n, u, x, turn, len, diff
      <4>8. n \in Nat /\ x \in 0 .. L /\ x \in Nat /\ x <= L
            /\ (x < L => x = e + BaseSize - w)
        <5>1. L - e \in Nat /\ L - e > 0 /\ w \in Nat /\ w < BaseSize
          BY <4>1, <4>2, <1>object
        <5>2. CASE L - e >= BaseSize
          <6>1. n = BaseSize - w
            BY <4>1, <4>5, <5>1, <5>2
          <6> QED BY <6>1, <4>1, <5>1, <5>2, <1>object DEF x
        <5>3. CASE ~(L - e >= BaseSize)
          <6>1. n = L - e
            BY <4>1, <4>4, <4>5, <5>1, <5>3
          <6> QED BY <6>1, <4>1, <5>1, <5>3, <1>object DEF x
        <5> QED BY <5>2, <5>3
      <4>9. u.pos = P + x /\ u.left = L - x
        BY <4>1, <4>4, <4>7, <4>8, <1>object DEF x
      <4>10. u.got = Cells(b, P, x)
        <5>1. Larger(n, 0) = n
          BY <4>8 DEF Larger
        <5> DEFINE c == q + 1
                   at == P + e
        <5>2. c \in Int /\ c - 1 = q /\ at \in Int /\ at = q * BaseSize + w
          BY <4>1, <4>2
        <5> HIDE DEF c, at
        <5>3. at = (c - 1) * BaseSize + w
          BY <5>2
        <5>4. Load(b, c, w, n) = Cells(b, at, n)
          BY <4>2, <4>8, <5>2, <5>3, BaseNat, LoadCells DEF Cells
        <5>5. Load(b, q + 1, w, n) = Cells(b, P + e, n)
          BY <5>4 DEF c, at
        <5>6. P + (e + n) <= b.size
          BY <4>1, <4>8, <1>object DEF x
        <5>7. Cells(b, P, e) \o Cells(b, P + e, n) = Cells(b, P, e + n)
          BY <4>1, <4>8, <5>6, <1>object, CellsConcat, SMTT(40)
        <5> QED BY <4>4, <4>7, <5>1, <5>5, <5>7 DEF x
      <4>11. ASSUME x < L
             PROVE  /\ u.c = ((P + x) \div BaseSize) + 1
                    /\ u.c >= (P \div BaseSize) + 1 + k
                    /\ (P + x) % BaseSize = 0
        <5>1. P + x \in Int /\ P + x = (q + 1) * BaseSize + 0 /\ P + x < N * BaseSize
          <6>1. (q + 1) * BaseSize = q * BaseSize + 1 * BaseSize /\ q * BaseSize \in Int
            BY <4>2, Products
          <6> QED BY <6>1, <4>1, <4>2, <4>8, <4>11, <1>object
        <5>2. 0 \in 0 .. BaseSize - 1 /\ q + 1 \in Int
          BY <4>1, <4>2
        <5>3. (P + x) \div BaseSize = q + 1 /\ (P + x) % BaseSize = 0
          BY <5>1, <5>2, DivModUnique
        <5>4. ((P + x) \div BaseSize) + 1 <= N
          BY <5>1, <1>0, BlockOf
        <5>5. u.c = q + 1 + 1
          BY <4>2, <4>3, <4>4, <4>7, <5>3, <5>4, <1>0 DEF Hop, Null, N
        <5> QED BY <4>2, <4>4, <5>3, <5>5, <1>offset, <1>0
      <4>12. Flows(k, u, x)
        BY <4>9, <4>10, <4>11
      <4> QED BY <4>8, <4>12 DEF u
    <3> QED BY <3>3, <3>4
  <2> QED BY <2>1, <2>2
<1> HIDE DEF start, turn, Good
<1>4. \E f : f = [k \in 0 .. N |-> IF k = 0 THEN start ELSE turn(k, f[k - 1])]
  <2> DEFINE S == {k \in 0 .. N :
                     \E f : f = [j \in 0 .. k |-> IF j = 0 THEN start ELSE turn(j, f[j - 1])]}
  <2>1. 0 \in S
    <3> DEFINE g == [j \in 0 .. 0 |-> start]
    <3>1. g = [j \in 0 .. 0 |-> IF j = 0 THEN start ELSE turn(j, g[j - 1])]
      OBVIOUS
    <3> HIDE DEF g
    <3>2. 0 \in 0 .. N
      BY <1>0
    <3> QED BY <3>1, <3>2
  <2>2. ASSUME NEW k \in 1 .. N, k - 1 \in S PROVE k \in S
    <3>1. PICK f : f = [j \in 0 .. k - 1 |-> IF j = 0 THEN start ELSE turn(j, f[j - 1])]
      BY <2>2
    <3> DEFINE g == [j \in 0 .. k |-> IF j = k THEN turn(k, f[k - 1]) ELSE f[j]]
    <3>2. ASSUME NEW j \in 0 .. k
          PROVE  g[j] = IF j = 0 THEN start ELSE turn(j, g[j - 1])
      <4>1. CASE j = k
        <5>1. j # 0 /\ k - 1 \in 0 .. k /\ k - 1 # k /\ k \in 0 .. k
          BY <1>0, <4>1
        <5>2. g[k] = turn(k, f[k - 1]) /\ g[k - 1] = f[k - 1]
          BY <5>1
        <5> QED BY <4>1, <5>1, <5>2
      <4>2. CASE j # k /\ j = 0
        <5>1. 0 \in 0 .. k - 1 /\ 0 \in 0 .. k
          BY <1>0
        <5> QED BY <3>1, <4>2, <5>1
      <4>3. CASE j # k /\ j # 0
        <5>1. j \in 0 .. k - 1 /\ j - 1 \in 0 .. k /\ j - 1 # k
          BY <1>0, <4>3
        <5>2. g[j] = f[j] /\ g[j - 1] = f[j - 1]
          BY <5>1, <4>3
        <5>3. f[j] = turn(j, f[j - 1])
          BY <3>1, <5>1, <4>3
        <5> QED BY <4>3, <5>2, <5>3
      <4> QED BY <4>1, <4>2, <4>3
    <3>3. g = [j \in 0 .. k |-> g[j]]
      OBVIOUS
    <3> HIDE DEF g
    <3>4. g = [j \in 0 .. k |-> IF j = 0 THEN start ELSE turn(j, g[j - 1])]
      BY <3>2, <3>3
    <3>5. k \in 0 .. N
      BY <1>0
    <3> QED BY <3>4, <3>5
  <2> HIDE DEF S
  <2>3. \A k \in 0 .. N : k \in S
    BY <1>0, <2>1, <2>2, UpTo
  <2>4. N \in S
    BY <1>0, <2>3
  <2> QED BY <2>4 DEF S
<1>5. after = [k \in 0 .. N |-> IF k = 0 THEN start ELSE turn(k, after[k - 1])]
  BY <1>4 DEF after
<1> HIDE DEF after
<1>6. Good(N, after[N])
  <2> DEFINE S == {k \in 0 .. N : Good(k, after[k])}
  <2>1. 0 \in S
    <3>1. 0 \in 0 .. N
      BY <1>0
    <3>2. after[0] = start
      BY <1>5, <3>1
    <3> QED BY <1>2, <3>1, <3>2
  <2>2. ASSUME NEW k \in 1 .. N, k - 1 \in S PROVE k \in S
    <3>1. k \in 0 .. N /\ k # 0
      BY <1>0
    <3>2. after[k] = turn(k, after[k - 1])
      BY <1>5, <3>1
    <3> QED BY <1>3, <2>2, <3>1, <3>2
  <2> HIDE DEF S
  <2>3. \A k \in 0 .. N : k \in S
    BY <1>0, <2>1, <2>2, UpTo
  <2>4. N \in S
    BY <1>0, <2>3
  <2> QED BY <2>4 DEF S
<1> DEFINE last == after[N]
<1> HIDE DEF last
<1>7. Good(N, last)
  BY <1>6 DEF last
<1>8. CASE Stuck
  <2>1. last.left = L \/ last.left = d
    BY <1>7, <1>8 DEF Good
  <2>2. ~(last.left <= 0)
    BY <2>1, <1>8, <1>object, <1>offset, BaseNat
  <2> QED BY <1>file, <1>8, <2>2 DEF last, d, P
<1>9. CASE ~Stuck
  <2>1. PICK e \in 0 .. L : Flows(N, last, e)
    BY <1>7, <1>9 DEF Good
  <2>2. CASE e = L
    BY <1>file, <1>object, <2>1, <2>2 DEF last, P
  <2>3. CASE e # L
    <3>1. /\ last.c = ((P + e) \div BaseSize) + 1 /\ last.c >= (P \div BaseSize) + 1 + N
      <4>1. e < L
        BY <1>object, <2>3
      <4>2. e < L => /\ last.c = ((P + e) \div BaseSize) + 1
                     /\ last.c >= (P \div BaseSize) + 1 + N
        BY <2>1
      <4> QED BY <4>1, <4>2
    <3>2. P + e \in Int /\ P + e < N * BaseSize /\ P \in Int /\ P >= 0
      BY <1>object, <2>3
    <3>3. ((P + e) \div BaseSize) + 1 <= N
      BY <3>2, <1>0, BlockOf
    <3>4. P \div BaseSize >= 0 /\ (P + e) \div BaseSize \in Int
      BY <3>2, BlockOf, DivMod
    <3> QED BY <3>1, <3>3, <3>4, <1>offset, <1>0
  <2> QED BY <2>2, <2>3
<1> QED BY <1>8, <1>9

-----------------------------------------------------------------------------
(* The calls of a program.                                                 *)

\* One write.
LEMMA WriteOnce ==
    ASSUME NEW b, Sound(b), NEW s \in Seq(Byte)
    PROVE  Writes(b, write(b, s), s, Len(s))
  BY WriteFacts DEF Writes

\* A length and then a text.
LEMMA WriteStringFacts ==
    ASSUME NEW b, Sound(b), NEW u \in Seq(Byte), NEW v \in Seq(Byte)
    PROVE  u \o v \in Seq(Byte) /\ Writes(b, writeString(b, u, v), u \o v, Len(u \o v))
<1> DEFINE s == u \o v
           r == write(b, u)
           m == Len(u)
<1>0. m \in Nat /\ Len(v) \in Nat /\ b.position \in Nat
  BY LenProperties, SoundTypes
<1>1. /\ s \in Seq(Byte) /\ Len(s) = m + Len(v)
      /\ \A i \in 1 .. m + Len(v) : s[i] = IF i <= m THEN u[i] ELSE v[i - m]
  BY ConcatProperties
<1> HIDE DEF s, m
<1>2. \A i \in 1 .. m : s[i] = u[i]
  BY <1>0, <1>1
<1>3. \A i \in 1 .. Len(v) : v[i] = s[m + i]
  <2> TAKE i \in 1 .. Len(v)
  <2>1. m + i \in 1 .. m + Len(v) /\ ~(m + i <= m) /\ (m + i) - m = i
    BY <1>0
  <2> QED BY <1>1, <2>1
<1>4. Writes(b, r, u, m)
  BY WriteOnce DEF m
<1> HIDE DEF r
<1>5. Writes(b, r, s, m)
  <2>1. ASSUME Overlaid(b, r.ba, u, m) PROVE Overlaid(b, r.ba, s, m)
    <3>1. ASSUME NEW i \in 0 .. r.ba.size - 1, b.position <= i, i < b.position + m
          PROVE  s[i - b.position + 1] = u[i - b.position + 1]
      <4>1. i - b.position + 1 \in 1 .. m
        BY <1>0, <3>1
      <4> QED BY <4>1, <1>2
    <3> QED BY <2>1, <3>1 DEF Overlaid
  <2> QED BY <1>4, <2>1 DEF Writes
<1>6. Writes(b, Then(r, LAMBDA x : write(x, v)), s, m + Len(v))
  BY <1>0, <1>3, <1>5, WriteOn
<1>7. writeString(b, u, v) = Then(r, LAMBDA x : write(x, v))
  BY DEF writeString, r
<1> QED BY <1>1, <1>6, <1>7 DEF s

\* A fixed integer in the byte order of the object is bytes, and the other way round.
LEMMA FixedFacts ==
    ASSUME NEW b
    PROVE  /\ \A u \in Number \cup {Len(s) : s \in Text} : Fixed(b, u) \in Seq(Byte)
           /\ \A s \in [1 .. Wide -> Byte] : FixedValue(b, s) \in Nat
<1>1. ASSUME NEW s \in Seq(Byte) PROVE byteswap(s) \in Seq(Byte) /\ Len(byteswap(s)) = Len(s)
  <2>1. Len(s) \in Nat /\ \A i \in 1 .. Len(s) : s[i] \in Byte
    BY LenProperties, ElementOfSeq
  <2>2. \A i \in 1 .. Len(s) : s[(Len(s) - i) + 1] \in Byte
    BY <2>1
  <2> QED BY <2>1, <2>2 DEF byteswap, Reverse
<1>2. ASSUME NEW u \in Number \cup {Len(s) : s \in Text} PROVE Fixed(b, u) \in Seq(Byte)
  <2>1. InMemory(Wide, u) \in Seq(Byte)
    BY EncodingAssumption
  <2> QED BY <1>1, <2>1 DEF Fixed
<1>3. ASSUME NEW s \in [1 .. Wide -> Byte] PROVE FixedValue(b, s) \in Nat
  <2>1. Wide \in Nat
    BY ByteArrayAssumption
  <2>2. s \in Seq(Byte) /\ Len(s) = Wide
    BY <2>1
  <2>3. byteswap(s) \in Seq(Byte) /\ Len(byteswap(s)) = Wide
    BY <1>1, <2>2
  <2>4. byteswap(s) \in [1 .. Wide -> Byte]
    BY <2>3, LenProperties
  <2>5. \A bytes \in [1 .. Wide -> Byte] : FromMemory(bytes) \in Nat
    BY EncodingAssumption
  <2> QED BY <2>4, <2>5 DEF FixedValue
<1> QED BY <1>2, <1>3

\* The typed writes.
LEMMA WriteItemFacts ==
    ASSUME NEW b, Sound(b), NEW kind \in Kind, NEW v \in Values(kind)
    PROVE  /\ Encoding(b, kind, v) \in Seq(Byte)
           /\ Writes(b, writeItem(b, kind, v), Encoding(b, kind, v), Len(Encoding(b, kind, v)))
<1>1. CASE kind = "byte"
  <2>1. v \in Byte
    BY <1>1 DEF Values
  <2>2. <<v>> \in Seq(Byte)
    BY <2>1
  <2> QED BY <1>1, <2>2, WriteOnce DEF Encoding, writeItem
<1>2. CASE kind = "fixed"
  <2>1. v \in Number
    BY <1>2 DEF Values
  <2>2. Fixed(b, v) \in Seq(Byte)
    BY <2>1, FixedFacts
  <2> QED BY <1>2, <2>2, WriteOnce DEF Encoding, writeItem
<1>3. CASE kind = "uvar"
  <2>1. v \in Number
    BY <1>3 DEF Values
  <2>2. EncodeVarint(v) \in Seq(Byte)
    BY <2>1, EncodingAssumption
  <2> QED BY <1>3, <2>2, WriteOnce DEF Encoding, writeItem
<1>4. CASE kind = "svar"
  <2>1. \E u \in Number : v = Signed(Width, u)
    BY <1>4 DEF Values
  <2>2. EncodeVarint(EncodeZigzag(Width, v)) \in Seq(Byte)
    BY <2>1, EncodingAssumption
  <2> QED BY <1>4, <2>2, WriteOnce DEF Encoding, writeItem
<1>5. CASE kind = "strF"
  <2>1. v \in Text
    BY <1>5 DEF Values
  <2>2. v \in Seq(Byte) /\ Fixed(b, Len(v)) \in Seq(Byte)
    BY <2>1, ByteArrayAssumption, FixedFacts
  <2> QED BY <1>5, <2>2, WriteStringFacts DEF Encoding, writeItem
<1>6. CASE kind = "strV"
  <2>1. v \in Text
    BY <1>6 DEF Values
  <2>2. v \in Seq(Byte) /\ EncodeVarint(Len(v)) \in Seq(Byte)
    BY <2>1, ByteArrayAssumption, EncodingAssumption
  <2> QED BY <1>6, <2>2, WriteStringFacts DEF Encoding, writeItem
<1>7. CASE kind = "raw"
  <2>1. v \in Text
    BY <1>7 DEF Values
  <2>2. v \in Seq(Byte)
    BY <2>1, ByteArrayAssumption
  <2> QED BY <1>7, <2>2, WriteOnce DEF Encoding, writeItem
<1> QED BY <1>1, <1>2, <1>3, <1>4, <1>5, <1>6, <1>7 DEF Kind

\* The typed reads.
LEMMA ReadItemFacts ==
    ASSUME NEW b, Sound(b), NEW kind \in Kind \ {"raw"}
    PROVE  Reads(b, readItem(b, kind))
<1>0. Wide \in Nat /\ 1 \in Nat
  BY ByteArrayAssumption
<1>1. CASE kind = "byte"
  BY <1>0, <1>1, ReadOnce DEF readItem
<1>2. CASE kind = "fixed"
  BY <1>0, <1>2, ReadOnce DEF readItem, readFixed
<1>3. CASE kind \in {"uvar", "svar"}
  BY <1>3, ReadUintFacts DEF readItem
<1>4. CASE kind = "strF"
  <2> DEFINE r == read(b, Wide)
             n == FixedValue(b, r.got)
  <2>1. readItem(b, kind) = IF r.end # "ok" THEN r ELSE Then(r, LAMBDA x : read(x, n))
    BY <1>4 DEF readItem, readFixed, readString
  <2>2. Reads(b, r) /\ (r.end = "ok" => r.got \in [1 .. Wide -> Byte])
    BY <1>0, ReadOnce
  <2>3. r.end = "ok" => n \in Nat
    BY <2>2, FixedFacts
  <2> HIDE DEF r, n
  <2>4. r.end = "ok" => Reads(b, Then(r, LAMBDA x : read(x, n)))
    BY <2>2, <2>3, ReadOn
  <2> QED BY <2>1, <2>2, <2>4
<1>5. CASE kind = "strV"
  <2> DEFINE r == readUint(b)
             n == DecodeVarint(Width, r.got)
  <2>1. readItem(b, kind) = IF r.end # "ok" THEN r ELSE Then(r, LAMBDA x : read(x, n))
    BY <1>5 DEF readItem, readString
  <2>2. /\ Reads(b, r)
        /\ r.end = "ok" => \E k \in 1 .. VarintMax(Width) : r.got \in [1 .. k -> Byte]
    BY ReadUintFacts
  <2>3. r.end = "ok" => n \in Nat
    BY <2>2, EncodingAssumption
  <2> HIDE DEF r, n
  <2>4. r.end = "ok" => Reads(b, Then(r, LAMBDA x : read(x, n)))
    BY <2>2, <2>3, ReadOn
  <2> QED BY <2>1, <2>2, <2>4
<1> QED BY <1>1, <1>2, <1>3, <1>4, <1>5 DEF Kind

\* Bytes received and then moved past are written.
LEMMA ReceivedMoved ==
    ASSUME NEW b, Sound(b), NEW s \in Seq(Byte), NEW x, Received(b, x, s),
           NEW y, Moved(x, y, b.position + Len(s))
    PROVE  Overlaid(b, y, s, Len(s))
<1>0. /\ b.position \in Nat /\ b.size \in Nat /\ b.capacity \in Nat /\ Len(s) \in Nat
      /\ b.position <= b.size /\ b.size <= b.capacity
  BY SoundTypes, LenProperties DEF Sound
<1>1. /\ x.size = b.size /\ x.capacity \in Nat
      /\ \A i \in 0 .. x.capacity - 1 :
          IF b.position <= i /\ i < b.position + Len(s)
          THEN Cell(x, i) = s[i - b.position + 1]
          ELSE i < b.capacity => Cell(x, i) = Cell(b, i)
  BY SoundTypes DEF Received
<1>2. /\ Sound(y) /\ y.nodes = x.nodes /\ y.capacity = x.capacity
      /\ y.position = b.position + Len(s) /\ y.size = Larger(x.size, b.position + Len(s))
      /\ y.size \in Nat /\ y.size <= y.capacity
  BY SoundTypes DEF Moved, Sound
<1>3. ASSUME NEW i \in 0 .. y.size - 1
      PROVE  Cell(y, i) = IF b.position <= i /\ i < b.position + Len(s)
                          THEN s[i - b.position + 1] ELSE Cell(b, i)
  <2>1. i \in 0 .. x.capacity - 1
    BY <1>1, <1>2
  <2>2. Cell(y, i) = Cell(x, i)
    BY <1>2 DEF Cell
  <2>3. CASE b.position <= i /\ i < b.position + Len(s)
    BY <1>1, <2>1, <2>2, <2>3
  <2>4. CASE ~(b.position <= i /\ i < b.position + Len(s))
    <3>1. i < b.capacity
      <4>1. y.size = IF b.size > b.position + Len(s) THEN b.size ELSE b.position + Len(s)
        BY <1>1, <1>2 DEF Larger
      <4>2. i \in Int /\ i >= 0 /\ i < y.size
        BY <1>2
      <4> QED BY <1>0, <2>4, <4>1, <4>2
    <3> QED BY <1>1, <2>1, <2>2, <2>4, <3>1
  <2> QED BY <2>3, <2>4
<1> QED BY <1>1, <1>2, <1>3 DEF Overlaid

\* getWriteBuffers() and then setPosition() past what was received.
LEMMA ReceiveFacts ==
    ASSUME NEW b, Sound(b), NEW length \in Nat, NEW fill \in Seq(Byte), Len(fill) <= length
    PROVE  Writes(b, Then(getWriteBuffers(b, length, fill),
                          LAMBDA x : setPosition(x, x.position + Len(fill))), fill, Len(fill))
<1> DEFINE g == getWriteBuffers(b, length, fill)
           w == setPosition(g.ba, g.ba.position + Len(fill))
           q == [w EXCEPT !.got = g.got \o @]
           t == Then(g, LAMBDA x : setPosition(x, x.position + Len(fill)))
<1>0. b.position \in Nat /\ Len(fill) \in Nat
  BY SoundTypes, LenProperties
<1>1. t = IF g.end # "ok" THEN g ELSE q
  BY DEF Then
<1>2. \/ /\ g.end = "ok" /\ g.got = <<>> /\ g.fault = NoFault
         /\ Received(b, g.ba, fill) /\ b.position + length <= g.ba.capacity
      \/ g.end = "down" /\ LostBlock(g.fault)
  BY WriteBuffersFacts
<1> HIDE DEF g, t
<1>3. CASE g.end = "down" /\ LostBlock(g.fault)
  BY <1>1, <1>3 DEF Writes, t, g
<1>4. CASE /\ g.end = "ok" /\ g.got = <<>> /\ g.fault = NoFault
           /\ Received(b, g.ba, fill) /\ b.position + length <= g.ba.capacity
  <2>1. Sound(g.ba) /\ g.ba.position = b.position
    BY <1>4 DEF Received
  <2>2. g.ba.capacity \in Nat /\ ~(b.position + Len(fill) > g.ba.capacity) /\ b.position + Len(fill) \in Nat
    BY <1>0, <1>4, <2>1, SoundTypes
  <2>3. w.end = "ok" /\ w.got = <<>> /\ w.fault = NoFault /\ Moved(g.ba, w.ba, b.position + Len(fill))
    BY <2>1, <2>2, SetPositionFacts
  <2>4. DOMAIN w = {"ba", "got", "end", "fault"}
    BY DEF setPosition, Throw, Done
  <2> HIDE DEF w
  <2>5. q.ba = w.ba /\ q.end = w.end /\ q.fault = w.fault /\ q.got = g.got \o w.got
    BY <2>4
  <2> HIDE DEF q
  <2>6. <<>> \o <<>> = <<>>
    OBVIOUS
  <2>7. Overlaid(b, w.ba, fill, Len(fill))
    BY <1>4, <2>3, ReceivedMoved
  <2>8. Writes(b, q, fill, Len(fill))
    BY <1>4, <2>3, <2>5, <2>6, <2>7 DEF Writes
  <2> QED BY <1>1, <1>4, <2>8 DEF t, g
<1> QED BY <1>2, <1>3, <1>4

\* SocketStream::read stores what was received.
LEMMA StreamReadFacts ==
    ASSUME NEW b, Sound(b), NEW length \in Nat, NEW fill \in Seq(Byte), Len(fill) <= length
    PROVE  Writes(b, streamRead(b, length, fill), fill, Len(fill))
<1>1. CASE fill # <<>>
  <2>1. streamRead(b, length, fill) =
            Then(getWriteBuffers(b, length, fill), LAMBDA x : setPosition(x, x.position + Len(fill)))
    BY <1>1 DEF streamRead, Then
  <2> QED BY <2>1, ReceiveFacts
<1>2. CASE fill = <<>>
  <2> DEFINE g == getWriteBuffers(b, length, fill)
  <2>1. streamRead(b, length, fill) =
            IF g.end # "ok" THEN g ELSE [Done(g.ba, <<>>) EXCEPT !.got = g.got \o @]
    BY <1>2 DEF streamRead, Then
  <2>2. \/ g.end = "ok" /\ g.got = <<>> /\ g.fault = NoFault /\ Received(b, g.ba, fill)
        \/ g.end = "down" /\ LostBlock(g.fault)
    BY WriteBuffersFacts
  <2> HIDE DEF g
  <2>3. CASE g.end = "down" /\ LostBlock(g.fault)
    BY <2>1, <2>3 DEF Writes
  <2>4. CASE g.end = "ok" /\ g.got = <<>> /\ g.fault = NoFault /\ Received(b, g.ba, fill)
    <3>1. [Done(g.ba, <<>>) EXCEPT !.got = g.got \o @] = Done(g.ba, <<>>)
      <4>1. <<>> \o <<>> = <<>>
        OBVIOUS
      <4> QED BY <2>4, <4>1 DEF Done
    <3>2. Moved(g.ba, g.ba, b.position + Len(fill))
      <4>1. /\ Sound(g.ba) /\ g.ba.position = b.position /\ b.position \in Nat /\ g.ba.size \in Nat
            /\ g.ba.position <= g.ba.size
        BY <2>4, SoundTypes DEF Received, Sound
      <4>2. Len(fill) = 0
        BY <1>2
      <4> QED BY <4>1, <4>2 DEF Moved, Larger
    <3>3. Overlaid(b, g.ba, fill, Len(fill))
      BY <2>4, <3>2, ReceivedMoved
    <3> QED BY <2>1, <2>4, <3>1, <3>3, DoneFields DEF Writes
  <2> QED BY <2>2, <2>3, <2>4
<1> QED BY <1>1, <1>2

\* SocketStream::write consumes what the socket took.
LEMMA StreamWriteFacts ==
    ASSUME NEW b, Sound(b), NEW length \in Nat, NEW sent \in Nat,
           sent <= Len(getReadBuffers(b, length).got)
    PROVE  Reads(b, streamWrite(b, length, sent))
<1> DEFINE r == getReadBuffers(b, length)
<1>0. /\ b.position \in Nat /\ b.size \in Nat /\ b.capacity \in Nat /\ b.size <= b.capacity
      /\ b.position <= b.size
  BY SoundTypes DEF Sound
<1>1. PICK n \in 0 .. b.size - b.position : r = Done(b, Cells(b, b.position, n))
  BY ReadBuffersFacts
<1>2. n \in Nat /\ b.position + n <= b.size
  BY <1>0
<1>3. Len(Cells(b, b.position, n)) = n /\ Cells(b, b.position, n) \in Seq(Byte)
  BY <1>0, <1>2, CellsFacts
<1>4. sent <= n /\ r.got = Cells(b, b.position, n) /\ r.end = "ok" /\ r.ba = b /\ r.fault = NoFault
  BY <1>1, <1>3, DoneFields
<1> DEFINE q == streamWrite(b, length, sent)
<1>5. CASE sent = 0
  <2>1. q = [r EXCEPT !.got = <<>>]
    BY <1>5 DEF streamWrite
  <2>2. q.ba = b /\ q.got = <<>> /\ q.end = "ok" /\ q.fault = NoFault
    BY <1>1, <2>1 DEF Done
  <2> QED BY <2>2, ConsumedNone DEF Reads
<1>6. CASE sent # 0
  <2> DEFINE w == setPosition(b, b.position + sent)
             g == SubSeq(Cells(b, b.position, n), 1, sent)
  <2>1. q = [w EXCEPT !.got = g]
    BY <1>4, <1>6 DEF streamWrite
  <2>2. b.position + sent \in Nat /\ b.position + sent <= b.size /\ ~(b.position + sent > b.capacity)
    BY <1>0, <1>2, <1>4, SMTT(40)
  <2>3. w.end = "ok" /\ w.fault = NoFault /\ Moved(b, w.ba, b.position + sent)
    BY <2>2, SetPositionFacts
  <2>4. DOMAIN w = {"ba", "got", "end", "fault"}
    BY DEF setPosition, Throw, Done
  <2> HIDE DEF w
  <2>5. q.ba = w.ba /\ q.end = w.end /\ q.fault = w.fault /\ q.got = g
    BY <2>1, <2>4
  <2>6. Consumed(b, w.ba, sent)
    BY <1>0, <2>2, <2>3 DEF Moved, Consumed, Larger
  <2>7. g = Cells(b, b.position, sent)
    <3> DEFINE u == Cells(b, b.position, n)
               v == Cells(b, b.position, sent)
    <3>1. v \in Seq(Byte) /\ Len(v) = sent
      BY <1>0, <2>2, CellsFacts
    <3>2. \A i \in 1 .. sent : u[i] = v[i]
      BY <1>2, <1>4 DEF Cells
    <3> HIDE DEF u, v
    <3>3. u \in Seq(Byte) /\ Len(u) = n
      BY <1>3 DEF u
    <3>4. \A i \in 1 .. sent : u[i] \in Byte
      BY <3>1, <3>2, ElementOfSeq
    <3>5. /\ SubSeq(u, 1, sent) \in Seq(Byte)
          /\ Len(SubSeq(u, 1, sent)) = IF 1 <= sent THEN sent - 1 + 1 ELSE 0
          /\ \A i \in 1 .. sent - 1 + 1 : SubSeq(u, 1, sent)[i] = u[1 + i - 1]
      BY <3>3, <3>4, SubSeqProperties
    <3>6. sent - 1 + 1 = sent /\ 1 <= sent /\ \A i \in 1 .. sent : 1 + i - 1 = i
      BY <1>6
    <3>7. Len(SubSeq(u, 1, sent)) = sent /\ \A i \in 1 .. sent : SubSeq(u, 1, sent)[i] = v[i]
      BY <3>2, <3>5, <3>6
    <3>8. SubSeq(u, 1, sent) = v
      BY <3>1, <3>5, <3>7, SeqEqual
    <3> QED BY <3>8 DEF u, v
  <2> HIDE DEF q, g
  <2> QED BY <2>2, <2>3, <2>5, <2>6, <2>7 DEF Reads, q
<1> QED BY <1>5, <1>6

\* A turn of the echo server: the array is what was received, and so is the text.
LEMMA EchoTurnFacts ==
    ASSUME NEW b, Sound(b), NEW length \in Nat, NEW fill \in Seq(Byte), Len(fill) <= length,
           NEW r, r = echoTurn(b, length, fill)
    PROVE  \/ r.end = "down" /\ LostBlock(r.fault)
           \/ /\ r.end = "ok" /\ r.fault = NoFault /\ r.got = fill
              /\ Sound(r.ba) /\ r.ba.position = 0 /\ r.ba.size = Len(fill)
              /\ Load(r.ba, 1, 0, r.ba.size) = fill
<1> DEFINE x == clear(b)
           n == Len(fill)
           t == Then(getWriteBuffers(x, length, fill),
                     LAMBDA z : setPosition(z, z.position + Len(fill)))
           s == setPosition(t.ba, 0)
           u == toString(s.ba)
           last == [u EXCEPT !.got = s.got \o @]
           inner == IF s.end # "ok" THEN s ELSE last
<1>0. n \in Nat /\ Sound(x) /\ x.position = 0 /\ x.size = 0
  BY LenProperties, ClearFacts
<1>1. r = IF t.end # "ok" THEN t ELSE [inner EXCEPT !.got = t.got \o @]
  BY DEF echoTurn, Then
<1>2. Writes(x, t, fill, n)
  BY <1>0, ReceiveFacts
<1> HIDE DEF x, t
<1>3. CASE t.end = "down" /\ LostBlock(t.fault)
  BY <1>1, <1>3
<1>4. CASE t.end = "ok" /\ t.got = <<>> /\ t.fault = NoFault /\ Overlaid(x, t.ba, fill, n)
  <2>1. /\ Sound(t.ba) /\ t.ba.size = n
        /\ \A i \in 0 .. t.ba.size - 1 :
              Cell(t.ba, i) = IF 0 <= i /\ i < n THEN fill[i - 0 + 1] ELSE Cell(x, i)
    <3>1. 0 + n = n /\ Larger(0, n) = n
      BY <1>0 DEF Larger
    <3> QED BY <1>0, <1>4, <3>1 DEF Overlaid
  <2>2. t.ba.capacity \in Nat
    BY <2>1, SoundTypes
  <2>3. s.end = "ok" /\ s.got = <<>> /\ s.fault = NoFault /\ Moved(t.ba, s.ba, 0)
    BY <2>1, <2>2, SetPositionFacts
  <2>4. DOMAIN s = {"ba", "got", "end", "fault"}
    BY DEF setPosition, Throw, Done
  <2> HIDE DEF s
  <2>5. /\ Sound(s.ba) /\ s.ba.position = 0 /\ s.ba.size = n
        /\ \A i \in 1 .. n : Cell(s.ba, i - 1) = fill[i]
    <3>1. Larger(n, 0) = n
      BY <1>0 DEF Larger
    <3>2. Sound(s.ba) /\ s.ba.position = 0 /\ s.ba.size = n /\ s.ba.nodes = t.ba.nodes
      BY <2>1, <2>3, <3>1 DEF Moved
    <3>3. ASSUME NEW i \in 1 .. n PROVE Cell(s.ba, i - 1) = fill[i]
      <4>1. i - 1 \in 0 .. t.ba.size - 1 /\ 0 <= i - 1 /\ i - 1 < n /\ i - 1 - 0 + 1 = i
        BY <1>0, <2>1
      <4>2. Cell(t.ba, i - 1) = fill[i]
        BY <4>1, <2>1
      <4> QED BY <3>2, <4>2 DEF Cell
    <3> QED BY <3>2, <3>3
  <2>6. u = Done(s.ba, Cells(s.ba, 0, n))
    <3>1. u = Done(s.ba, Cells(s.ba, s.ba.position, s.ba.size - s.ba.position))
      BY <2>5, ToStringFacts
    <3>2. n - 0 = n
      BY <1>0
    <3> QED BY <2>5, <3>1, <3>2
  <2>7. Cells(s.ba, 0, n) = fill /\ Load(s.ba, 1, 0, s.ba.size) = fill
    <3>1. Cells(s.ba, 0, n) = fill
      <4> DEFINE v == Cells(s.ba, 0, n)
      <4>1. v \in Seq(Byte) /\ Len(v) = n
        BY <1>0, <2>5, CellsFacts
      <4>2. \A i \in 1 .. n : v[i] = fill[i]
        <5> TAKE i \in 1 .. n
        <5>1. 0 + i - 1 = i - 1
          BY <1>0
        <5> QED BY <5>1, <2>5 DEF Cells
      <4> HIDE DEF v
      <4> QED BY <4>1, <4>2, SeqEqual DEF v
    <3>2. Load(s.ba, 1, 0, n) = fill
      <4> DEFINE v == Load(s.ba, 1, 0, n)
      <4>1. v \in Seq(Byte) /\ Len(v) = n /\ \A i \in 1 .. n : v[i] = Cell(s.ba, i - 1)
        BY <2>5, BytesFacts
      <4> HIDE DEF v
      <4> QED BY <4>1, <2>5, SeqEqual DEF v
    <3> QED BY <3>1, <3>2, <2>5
  <2>8. inner = Done(s.ba, fill)
    <3>1. <<>> \o fill = fill
      BY ConcatEmptySeq
    <3> QED BY <2>3, <2>6, <2>7, <3>1 DEF Done
  <2>9. r = Done(s.ba, fill)
    <3>1. <<>> \o fill = fill
      BY ConcatEmptySeq
    <3> HIDE DEF inner
    <3>2. r = [Done(s.ba, fill) EXCEPT !.got = <<>> \o @]
      BY <1>1, <1>4, <2>8
    <3> QED BY <3>1, <3>2 DEF Done
  <2> QED BY <2>5, <2>7, <2>9, DoneFields
<1> QED BY <1>2, <1>3, <1>4 DEF Writes

-----------------------------------------------------------------------------
(* What the calls do to the contents.                                      *)

\* A sequence with s written over it behind its first p elements.
Overwrite(D, p, s) == SubSeq(D, 1, p) \o s \o SubSeq(D, p + Len(s) + 1, Len(D))

\* A write replaces the bytes at the position and extends the rest.
LEMMA PutData ==
    ASSUME NEW b, Sound(b), NEW s \in Seq(Byte), NEW x, Overlaid(b, x, s, Len(s)),
           NEW D, D = Load(b, 1, 0, b.size)
    PROVE  Load(x, 1, 0, x.size) = Overwrite(D, b.position, s)
<1> DEFINE p == b.position
           n == Len(s)
           E == Load(x, 1, 0, x.size)
           u == SubSeq(D, 1, p)
           v == SubSeq(D, p + n + 1, Len(D))
           rest == IF p + n + 1 <= b.size THEN b.size - (p + n) ELSE 0
<1>0. p \in Nat /\ n \in Nat /\ b.size \in Nat /\ p <= b.size
  BY SoundTypes, LenProperties DEF Sound
<1>1. /\ D \in Seq(Byte) /\ Len(D) = b.size
      /\ \A i \in 1 .. b.size : D[i] = Cell(b, i - 1) /\ D[i] \in Byte
  BY BytesFacts, ElementOfSeq
<1>2. /\ Sound(x) /\ x.size = Larger(b.size, p + n)
      /\ \A i \in 0 .. x.size - 1 :
            Cell(x, i) = IF p <= i /\ i < p + n THEN s[i - p + 1] ELSE Cell(b, i)
  BY DEF Overlaid
<1>3. E \in Seq(Byte) /\ Len(E) = x.size /\ \A i \in 1 .. x.size : E[i] = Cell(x, i - 1)
  BY <1>2, BytesFacts
<1> HIDE DEF p, n, E, rest
<1>4. /\ u \in Seq(Byte) /\ Len(u) = p /\ \A i \in 1 .. p : u[i] = D[i]
  <2>1. \A i \in 1 .. p : D[i] \in Byte
    BY <1>0, <1>1
  <2>2. /\ u \in Seq(Byte)
        /\ Len(u) = IF 1 <= p THEN p - 1 + 1 ELSE 0
        /\ \A i \in 1 .. p - 1 + 1 : u[i] = D[1 + i - 1]
    BY <1>0, <1>1, <2>1, SubSeqProperties
  <2> QED BY <1>0, <2>2
<1>5. /\ v \in Seq(Byte) /\ Len(v) = rest /\ rest \in Nat
      /\ \A i \in 1 .. rest : v[i] = D[p + n + i]
  <2>1. \A i \in p + n + 1 .. b.size : D[i] \in Byte
    BY <1>0, <1>1
  <2>2. /\ v \in Seq(Byte)
        /\ Len(v) = IF p + n + 1 <= b.size THEN b.size - (p + n + 1) + 1 ELSE 0
        /\ \A i \in 1 .. b.size - (p + n + 1) + 1 : v[i] = D[(p + n + 1) + i - 1]
    <3>1. p + n + 1 \in Nat /\ v = SubSeq(D, p + n + 1, b.size)
      BY <1>0, <1>1
    <3> QED BY <1>0, <1>1, <2>1, <3>1, SubSeqProperties
  <2> HIDE DEF v
  <2>3. CASE p + n + 1 <= b.size
    <3>1. rest = b.size - (p + n + 1) + 1 /\ rest \in Nat /\ Len(v) = rest
      BY <1>0, <2>2, <2>3 DEF rest
    <3>2. \A i \in 1 .. rest : (p + n + 1) + i - 1 = p + n + i
      BY <1>0
    <3> QED BY <2>2, <3>1, <3>2
  <2>4. CASE ~(p + n + 1 <= b.size)
    BY <1>0, <2>2, <2>4 DEF rest
  <2> QED BY <2>3, <2>4
<1> HIDE DEF u, v
<1>6. /\ u \o s \in Seq(Byte) /\ Len(u \o s) = p + n
      /\ \A i \in 1 .. p + n : (u \o s)[i] = IF i <= p THEN u[i] ELSE s[i - p]
  BY <1>4, ConcatProperties DEF n
<1> DEFINE h == u \o s
<1> HIDE DEF h
<1>7. /\ h \o v \in Seq(Byte) /\ Len(h \o v) = p + n + rest
      /\ \A i \in 1 .. p + n + rest : (h \o v)[i] = IF i <= p + n THEN h[i] ELSE v[i - (p + n)]
  <2>1. h \in Seq(Byte) /\ Len(h) = p + n
    BY <1>6 DEF h
  <2>2. /\ h \o v \in Seq(Byte) /\ Len(h \o v) = Len(h) + Len(v)
        /\ \A i \in 1 .. Len(h) + Len(v) : (h \o v)[i] = IF i <= Len(h) THEN h[i] ELSE v[i - Len(h)]
    BY <1>5, <2>1, ConcatProperties
  <2> QED BY <1>5, <2>1, <2>2
<1>8. p + n + rest = x.size
  BY <1>0, <1>2 DEF rest, Larger
<1>9. ASSUME NEW i \in 1 .. x.size PROVE (h \o v)[i] = E[i]
  <2>0. x.size \in Nat
    BY <1>2, SoundTypes
  <2>1. i - 1 \in 0 .. x.size - 1 /\ i \in 1 .. p + n + rest /\ i - 1 - p + 1 = i - p
    BY <1>0, <1>8, <2>0
  <2>2. E[i] = IF p <= i - 1 /\ i - 1 < p + n THEN s[i - p] ELSE Cell(b, i - 1)
    BY <1>2, <1>3, <2>1
  <2>3. CASE i <= p
    <3>1. i \in 1 .. p /\ i \in 1 .. b.size /\ i <= p + n /\ i \in 1 .. p + n /\ ~(p <= i - 1)
      BY <1>0, <2>0, <2>3
    <3>2. (h \o v)[i] = u[i]
      BY <1>6, <1>7, <2>1, <2>3, <3>1 DEF h
    <3> QED BY <1>1, <1>4, <2>2, <3>1, <3>2
  <2>4. CASE ~(i <= p) /\ i <= p + n
    <3>1. i \in 1 .. p + n /\ p <= i - 1 /\ i - 1 < p + n
      BY <1>0, <2>0, <2>4
    <3>2. (h \o v)[i] = s[i - p]
      BY <1>6, <1>7, <2>1, <2>4, <3>1 DEF h
    <3> QED BY <2>2, <3>1, <3>2
  <2>5. CASE ~(i <= p + n)
    <3>1. /\ i - (p + n) \in 1 .. rest /\ ~(i - 1 < p + n) /\ p + n + (i - (p + n)) = i
          /\ i \in 1 .. b.size
      BY <1>0, <1>8, <1>5, <2>0, <2>5 DEF rest
    <3>2. (h \o v)[i] = v[i - (p + n)]
      BY <1>7, <2>1, <2>5
    <3>3. v[i - (p + n)] = D[i]
      BY <1>5, <3>1
    <3> QED BY <1>1, <2>2, <3>1, <3>2, <3>3
  <2> QED BY <2>3, <2>4, <2>5
<1>10. h \o v = E
  BY <1>3, <1>7, <1>8, <1>9, SeqEqual
<1> QED BY <1>10 DEF h, u, v, E, p, n, Overwrite

\* Moving the position keeps the contents, and extends them when it is past their end.
LEMMA MoveData ==
    ASSUME NEW b, Sound(b), NEW v \in Nat, NEW x, Moved(b, x, v),
           NEW D, D = Load(b, 1, 0, b.size), NEW E, E = Load(x, 1, 0, x.size)
    PROVE  IF v <= Len(D) THEN E = D ELSE Len(E) = v /\ SubSeq(E, 1, Len(D)) = D
<1>0. b.size \in Nat
  BY SoundTypes
<1>1. D \in Seq(Byte) /\ Len(D) = b.size /\ \A i \in 1 .. b.size : D[i] = Cell(b, i - 1)
  BY BytesFacts
<1>2. Sound(x) /\ x.size = Larger(b.size, v) /\ x.nodes = b.nodes
  BY DEF Moved
<1>3. E \in Seq(Byte) /\ Len(E) = x.size /\ \A i \in 1 .. x.size : E[i] = Cell(x, i - 1)
  BY <1>2, BytesFacts
<1>4. \A i \in 1 .. b.size : Cell(x, i - 1) = Cell(b, i - 1)
  BY <1>2 DEF Cell
<1>5. CASE v <= b.size
  <2>1. x.size = b.size
    BY <1>0, <1>2, <1>5 DEF Larger
  <2>2. E = D
    BY <1>1, <1>3, <1>4, <2>1, SeqEqual
  <2> QED BY <1>1, <1>5, <2>2
<1>6. CASE ~(v <= b.size)
  <2>1. x.size = v /\ 0 + b.size <= x.size /\ 0 + b.size = b.size /\ 0 + 1 = 1
    BY <1>0, <1>2, <1>6 DEF Larger
  <2> DEFINE C == Cells(x, 0, b.size)
  <2>2. C \in Seq(Byte) /\ Len(C) = b.size /\ SubSeq(E, 0 + 1, 0 + b.size) = C
    BY <1>0, <1>2, <2>1, CellsFacts, SMTT(40)
  <2>3. \A i \in 1 .. b.size : C[i] = D[i]
    <3> TAKE i \in 1 .. b.size
    <3>1. 0 + i - 1 = i - 1
      BY <1>0
    <3> QED BY <3>1, <1>1, <1>4 DEF Cells
  <2> HIDE DEF C
  <2>4. C = D
    BY <1>1, <2>2, <2>3, SeqEqual
  <2> QED BY <1>1, <1>3, <1>6, <2>1, <2>2, <2>4
<1> QED BY <1>5, <1>6

-----------------------------------------------------------------------------
(* Every call keeps the invariant and is a step of FlatBytes.              *)

Inv == Sound(ba) /\ FaultCause /\ PeeksRight

Peeking == {"readAt", "buffersAt"}

\* A call that ends the process changes nothing else.
LEMMA StepDown ==
    ASSUME Inv, fault = NoFault, ba' = ba, out' = out, FaultCause', fault'.op # "none"
    PROVE  Inv' /\ Flat!Next
<1>1. Inv'
  BY DEF Inv, PeeksRight, Contents
<1>2. fault' # NoFault
  BY DEF NoFault
<1> QED BY <1>1, <1>2 DEF Flat!Next, Flat!Crash, Contents

\* No fault, and the last call was not a const read at a position.
LEMMA StepUp ==
    ASSUME Sound(ba)', fault' = NoFault, out'.op \notin Peeking
    PROVE  Inv'
<1>1. FaultCause'
  BY DEF FaultCause, NoFault
<1>2. PeeksRight'
  BY DEF PeeksRight, Peeking
<1> QED BY <1>1, <1>2 DEF Inv

\* A call that consumed m bytes is a Get.
LEMMA StepGet ==
    ASSUME Inv, fault = NoFault, fault' = NoFault, NEW m \in Nat, ba.position + m <= ba.size,
           Consumed(ba, ba', m), out'.op \notin Peeking, out'.put = <<>>,
           out'.got = Cells(ba, ba.position, m)
    PROVE  Inv' /\ Flat!Next
<1>0. Sound(ba) /\ ba.position \in Nat /\ ba.size \in Nat /\ ba.position <= ba.size
  BY SoundTypes DEF Inv, Sound
<1>1. Inv'
  BY StepUp DEF Consumed
<1>2. Contents' = Contents
  BY DEF Consumed, Contents, Load
<1>3. Len(Contents) = ba.size /\ SubSeq(Contents, ba.position + 1, ba.position + m) = out'.got
  BY <1>0, BytesFacts, CellsFacts, SMTT(40) DEF Contents
<1>4. m \in 0 .. Len(Contents) - ba.position
  BY <1>0, <1>3
<1>5. Flat!Get(m)
  BY <1>2, <1>3 DEF Flat!Get, Flat!Slice, Consumed, Peeking
<1>6. \E n \in 0 .. Flat!Rest : Flat!Get(n) \/ Flat!Peek(n)
  BY <1>4, <1>5 DEF Flat!Rest
<1> QED BY <1>1, <1>6 DEF Flat!Next

\* A call that stored all it was given is a Put.
LEMMA StepPut ==
    ASSUME Inv, fault = NoFault, fault' = NoFault, NEW s \in Seq(Byte),
           Overlaid(ba, ba', s, Len(s)), out'.op \notin Peeking, out'.put = s, out'.got = <<>>
    PROVE  Inv' /\ Flat!Next
<1>0. Sound(ba)
  BY DEF Inv
<1>1. Inv'
  BY StepUp DEF Overlaid
<1>2. Contents' = Overwrite(Contents, ba.position, s)
  BY <1>0, PutData DEF Contents
<1>3. ba'.position = ba.position + Len(s)
  BY DEF Overlaid
<1>4. Flat!Put
  BY <1>2, <1>3 DEF Flat!Put, Overwrite
<1> QED BY <1>1, <1>4 DEF Flat!Next

\* A call that returns bytes behind the position and stays is a Peek.
LEMMA StepPeek ==
    ASSUME Inv, fault = NoFault, fault' = NoFault, ba' = ba, out'.put = <<>>,
           NEW n \in 0 .. ba.size - ba.position, out'.op \notin Peeking,
           out'.got = Cells(ba, ba.position, n)
    PROVE  Inv' /\ Flat!Next
<1>0. Sound(ba) /\ ba.position \in Nat /\ ba.size \in Nat /\ ba.position <= ba.size
  BY SoundTypes DEF Inv, Sound
<1>1. Inv'
  BY <1>0, StepUp
<1>2. Contents' = Contents
  BY DEF Contents
<1>3. n \in Nat /\ ba.position + n <= ba.size
  BY <1>0
<1>4. Len(Contents) = ba.size /\ SubSeq(Contents, ba.position + 1, ba.position + n) = out'.got
  <2>1. Len(Load(ba, 1, 0, ba.size)) = ba.size
    BY <1>0, BytesFacts
  <2>2. SubSeq(Load(ba, 1, 0, ba.size), ba.position + 1, ba.position + n) = Cells(ba, ba.position, n)
    BY <1>0, <1>3, CellsFacts, ZenonT(60)
  <2> QED BY <2>1, <2>2 DEF Contents
<1>5. Flat!Peek(n)
  BY <1>2, <1>4 DEF Flat!Peek, Flat!Slice, Peeking
<1>6. \E m \in 0 .. Flat!Rest : Flat!Get(m) \/ Flat!Peek(m)
  BY <1>4, <1>5 DEF Flat!Rest
<1> QED BY <1>1, <1>6 DEF Flat!Next

\* A const read at a position shows nothing in FlatBytes; what it returns is PeeksRight.
LEMMA StepConst ==
    ASSUME Inv, fault = NoFault, fault' = NoFault, ba' = ba, out'.put = <<>>,
           out'.op \in Peeking, PeeksRight'
    PROVE  Inv' /\ Flat!Next
<1>0. Sound(ba) /\ ba.position \in Nat /\ ba.size \in Nat /\ ba.position <= ba.size
  BY SoundTypes DEF Inv, Sound
<1>1. Inv'
  BY <1>0 DEF Inv, FaultCause, NoFault
<1>2. Contents' = Contents
  BY DEF Contents
<1>3. Len(Contents) = ba.size /\ SubSeq(Contents, ba.position + 1, ba.position + 0) = <<>>
  <2>1. Cells(ba, ba.position, 0) = <<>> /\ 0 \in Nat /\ ba.position + 0 <= ba.size
    BY <1>0 DEF Cells
  <2> QED BY <1>0, <2>1, BytesFacts, CellsFacts DEF Contents
<1>4. Flat!Peek(0)
  BY <1>2, <1>3 DEF Flat!Peek, Flat!Slice, Peeking
<1>5. \E m \in 0 .. Flat!Rest : Flat!Get(m) \/ Flat!Peek(m)
  BY <1>0, <1>3, <1>4 DEF Flat!Rest
<1> QED BY <1>1, <1>5 DEF Flat!Next

\* A call that moved the position is a Move.
LEMMA StepMove ==
    ASSUME Inv, fault = NoFault, fault' = NoFault, NEW v \in 0 .. MaxSize, Moved(ba, ba', v),
           out'.op \notin Peeking, out'.put = <<>>, out'.got = <<>>
    PROVE  Inv' /\ Flat!Next
<1>0. Sound(ba) /\ v \in Nat
  BY ByteArrayAssumption DEF Inv
<1>1. Inv'
  BY StepUp DEF Moved
<1>2. IF v <= Len(Contents) THEN Contents' = Contents
      ELSE Len(Contents') = v /\ SubSeq(Contents', 1, Len(Contents)) = Contents
  BY <1>0, MoveData DEF Contents
<1>3. Flat!Move(v)
  BY <1>2 DEF Flat!Move, Moved
<1> QED BY <1>1, <1>3 DEF Flat!Next

\* The three ways a call ends, as Leave makes them.
LEMMA Left ==
    ASSUME NEW r, NEW op, NEW kind, NEW at, NEW put, Leave(r, op, kind, at, put)
    PROVE  /\ fault' = r.fault
           /\ r.end = "down" => ba' = ba /\ out' = out
           /\ r.end # "down" => /\ ba' = r.ba /\ out'.op = op /\ out'.kind = kind
                                /\ out'.at = at /\ out'.put = put /\ out'.got = r.got
                                /\ out'.end = r.end
  BY DEF Leave

\* The calls that read.
LEMMA StepReads ==
    ASSUME Inv, fault = NoFault, NEW r, Reads(ba, r), NEW op, op \notin Peeking, NEW kind,
           Return(r, op, kind, <<>>)
    PROVE  Inv' /\ Flat!Next
<1>1. /\ fault' = r.fault
      /\ r.end = "down" => ba' = ba /\ out' = out
      /\ r.end # "down" => ba' = r.ba /\ out'.op = op /\ out'.put = <<>> /\ out'.got = r.got
  BY Left DEF Return
<1>2. CASE r.end = "down"
  <2>1. fault'.op = "read" /\ fault'.size = 0 /\ fault'.room = 0
    BY <1>1, <1>2 DEF Reads
  <2>2. FaultCause'
    BY <2>1 DEF FaultCause
  <2> QED BY <1>1, <1>2, <2>1, <2>2, StepDown
<1>3. CASE r.end # "down"
  <2>1. PICK m \in Nat : /\ ba.position + m <= ba.size /\ Consumed(ba, r.ba, m)
                         /\ r.got = Cells(ba, ba.position, m)
    BY <1>3 DEF Reads
  <2>2. r.fault = NoFault
    BY <1>3 DEF Reads
  <2> QED BY <1>1, <1>3, <2>1, <2>2, StepGet
<1> QED BY <1>2, <1>3

\* The calls that write.
LEMMA StepWrites ==
    ASSUME Inv, fault = NoFault, NEW s \in Seq(Byte), NEW r, Writes(ba, r, s, Len(s)),
           NEW op, op \notin Peeking, NEW kind, Return(r, op, kind, s)
    PROVE  Inv' /\ Flat!Next
<1>1. /\ fault' = r.fault
      /\ r.end = "down" => ba' = ba /\ out' = out
      /\ r.end # "down" => ba' = r.ba /\ out'.op = op /\ out'.put = s /\ out'.got = r.got
  BY Left DEF Return
<1>2. CASE r.end = "down"
  <2>1. LostBlock(fault')
    BY <1>1, <1>2 DEF Writes
  <2>2. FaultCause' /\ fault'.op # "none"
    BY <2>1 DEF FaultCause, LostBlock
  <2> QED BY <1>1, <1>2, <2>2, StepDown
<1>3. CASE r.end # "down"
  <2>1. Overlaid(ba, r.ba, s, Len(s)) /\ r.got = <<>> /\ r.fault = NoFault
    BY <1>3 DEF Writes
  <2> QED BY <1>1, <1>3, <2>1, StepPut
<1> QED BY <1>2, <1>3

\* The const reads at a position: what they return, if it is known, is the contents there.
LEMMA StepConstRead ==
    ASSUME Inv, fault = NoFault, NEW r, NEW op \in Peeking, NEW p \in Nat, ReturnAt(r, op, p),
           r.end # "down", r.fault = NoFault, r.ba = ba,
           /\ r.end = "ok" /\ p <= ba.position
           /\ op = "readAt" => p \div BaseSize = ba.position \div BaseSize
           => \E n \in Nat : p + n <= ba.size /\ r.got = Cells(ba, p, n)
    PROVE  Inv' /\ Flat!Next
<1>0. Sound(ba)
  BY DEF Inv
<1>1. /\ fault' = NoFault /\ ba' = ba /\ out'.op = op /\ out'.at = p /\ out'.put = <<>>
      /\ out'.got = r.got /\ out'.end = r.end
  BY Left DEF ReturnAt
<1>2. ASSUME NEW n \in Nat, p + n <= ba.size, r.got = Cells(ba, p, n)
      PROVE  r.got = SubSeq(Contents, p + 1, p + Len(r.got))
  <2>1. Len(Cells(ba, p, n)) = n /\ SubSeq(Load(ba, 1, 0, ba.size), p + 1, p + n) = Cells(ba, p, n)
    BY <1>0, <1>2, CellsFacts, ZenonT(60)
  <2> QED BY <1>2, <2>1 DEF Contents
<1>3. PeeksRight'
  BY <1>1, <1>2 DEF PeeksRight, Contents
<1> QED BY <1>1, <1>3, StepConst

\* read(buf, size, position).
LEMMA StepReadAt ==
    ASSUME Inv, NEW n \in Nat, NEW p \in Nat, ReadAt(n, p)
    PROVE  Inv' /\ Flat!Next
<1> DEFINE r == readAt(ba, n, p)
<1>0. /\ Sound(ba) /\ fault = NoFault /\ ReturnAt(r, "readAt", p) /\ ba.position \in Nat
      /\ ba.size \in Nat
  BY SoundTypes DEF Inv, ReadAt, Up
<1>1. \/ r = Throw(ba)
      \/ /\ r.end = "down" /\ r.fault.op = "readAt" /\ r.fault.size = n
         /\ r.fault.room = ba.capacity - ba.position
         /\ n + BaseSize - 1 > ba.capacity - ba.position \/ ba.capacity - ba.position = 0
      \/ /\ r.end = "ok" /\ r.ba = ba /\ r.fault = NoFault /\ n <= ba.size - ba.position
         /\ p \div BaseSize = ba.position \div BaseSize => r.got = Cells(ba, p, n)
  BY <1>0, ReadAtFacts
<1> HIDE DEF r
<1>2. "readAt" \in Peeking
  BY DEF Peeking
<1>3. CASE r = Throw(ba)
  <2>1. r.end = "throw" /\ r.ba = ba /\ r.fault = NoFault
    BY <1>3, DoneFields
  <2> QED BY <1>0, <1>2, <2>1, StepConstRead
<1>4. CASE /\ r.end = "down" /\ r.fault.op = "readAt" /\ r.fault.size = n
           /\ r.fault.room = ba.capacity - ba.position
           /\ n + BaseSize - 1 > ba.capacity - ba.position \/ ba.capacity - ba.position = 0
  <2>1. fault' = r.fault /\ ba' = ba /\ out' = out
    BY <1>0, <1>4, Left DEF ReturnAt
  <2>2. FaultCause'
    BY <1>4, <2>1 DEF FaultCause
  <2> QED BY <1>0, <1>4, <2>1, <2>2, StepDown
<1>5. CASE /\ r.end = "ok" /\ r.ba = ba /\ r.fault = NoFault /\ n <= ba.size - ba.position
           /\ p \div BaseSize = ba.position \div BaseSize => r.got = Cells(ba, p, n)
  <2>1. p <= ba.position => p + n <= ba.size
    BY <1>0, <1>5
  <2> QED BY <1>0, <1>2, <1>5, <2>1, StepConstRead
<1> QED BY <1>1, <1>3, <1>4, <1>5

\* getReadBuffers(buffers, len, position).
LEMMA StepGetReadBuffersAt ==
    ASSUME Inv, NEW n \in Nat, NEW p \in Nat, GetReadBuffersAt(n, p)
    PROVE  Inv' /\ Flat!Next
<1> DEFINE r == getReadBuffersAt(ba, n, p)
<1>0. /\ Sound(ba) /\ fault = NoFault /\ ReturnAt(r, "buffersAt", p) /\ ba.position \in Nat
      /\ ba.size \in Nat
  BY SoundTypes DEF Inv, GetReadBuffersAt, Up
<1>1. \/ r.end = "down" /\ r.fault.op = "buffersAt" /\ r.fault.size > ba.size
      \/ /\ r.end = "ok" /\ r.ba = ba /\ r.fault = NoFault
         /\ p <= ba.position => \E m \in 0 .. ba.size - ba.position : r.got = Cells(ba, p, m)
  BY <1>0, ReadBuffersAtFacts
<1> HIDE DEF r
<1>2. "buffersAt" \in Peeking
  BY DEF Peeking
<1>3. CASE r.end = "down" /\ r.fault.op = "buffersAt" /\ r.fault.size > ba.size
  <2>1. fault' = r.fault /\ ba' = ba /\ out' = out
    BY <1>0, <1>3, Left DEF ReturnAt
  <2>2. FaultCause'
    BY <1>3, <2>1 DEF FaultCause
  <2> QED BY <1>0, <1>3, <2>1, <2>2, StepDown
<1>4. CASE /\ r.end = "ok" /\ r.ba = ba /\ r.fault = NoFault
           /\ p <= ba.position => \E m \in 0 .. ba.size - ba.position : r.got = Cells(ba, p, m)
  <2>1. ASSUME p <= ba.position
        PROVE  \E m \in Nat : p + m <= ba.size /\ r.got = Cells(ba, p, m)
    <3>1. PICK m \in 0 .. ba.size - ba.position : r.got = Cells(ba, p, m)
      BY <1>4, <2>1
    <3>2. m \in Nat /\ p + m <= ba.size
      BY <1>0, <2>1
    <3> QED BY <3>1, <3>2
  <2> QED BY <1>0, <1>2, <1>4, <2>1, StepConstRead
<1> QED BY <1>1, <1>3, <1>4

\* toString() and writeToFile().
LEMMA StepShow ==
    ASSUME Inv, ShowText \/ WriteToFile
    PROVE  Inv' /\ Flat!Next
<1> DEFINE n == ba.size - ba.position
           D == Done(ba, Cells(ba, ba.position, n))
<1>0. /\ Sound(ba) /\ fault = NoFault /\ ba.position \in Nat /\ ba.size \in Nat
      /\ ba.position <= ba.size
  BY SoundTypes DEF Inv, Sound, ShowText, WriteToFile, Up
<1>1. n \in 0 .. ba.size - ba.position /\ n \in Int
  BY <1>0
<1>2. "peek" \notin Peeking
  BY DEF Peeking
<1> HIDE DEF n
<1>3. ASSUME Return(D, "peek", "raw", <<>>) PROVE Inv' /\ Flat!Next
  <2>1. /\ D.ba = ba /\ D.fault = NoFault /\ D.end = "ok" /\ D.got = Cells(ba, ba.position, n)
    BY DoneFields
  <2> HIDE DEF D
  <2>2. /\ fault' = NoFault /\ ba' = ba /\ out'.op = "peek" /\ out'.put = <<>>
        /\ out'.got = Cells(ba, ba.position, n)
    BY <1>3, <2>1, Left DEF Return
  <2> QED BY <1>0, <1>1, <1>2, <2>2, StepPeek
<1>4. CASE ShowText
  <2>1. toString(ba) = D
    BY <1>0, ToStringFacts DEF n
  <2> QED BY <1>3, <1>4, <2>1 DEF ShowText
<1>5. CASE WriteToFile
  <2>1. \/ writeToFile(ba) = D
        \/ writeToFile(ba) = Down(ba, "file", n) /\ n < BaseSize /\ ba.position % BaseSize # 0
    BY <1>0, <1>1, WriteToFileFacts DEF n
  <2>2. CASE writeToFile(ba) = D
    BY <1>3, <1>5, <2>2 DEF WriteToFile
  <2>3. CASE writeToFile(ba) = Down(ba, "file", n) /\ n < BaseSize /\ ba.position % BaseSize # 0
    <3> DEFINE r == Down(ba, "file", n)
    <3>1. Return(r, "peek", "raw", <<>>)
      BY <1>5, <2>3 DEF WriteToFile
    <3>2. r.end = "down" /\ r.fault.op = "file" /\ r.fault.size = n
      BY FaultFields
    <3> HIDE DEF r
    <3>3. fault' = r.fault /\ ba' = ba /\ out' = out
      BY <3>1, <3>2, Left DEF Return
    <3>4. FaultCause'
      BY <2>3, <3>2, <3>3 DEF FaultCause
    <3> QED BY <1>0, <3>2, <3>3, <3>4, StepDown
  <2> QED BY <2>1, <2>2, <2>3
<1> QED BY <1>4, <1>5

\* setPosition(), which may throw.
LEMMA StepSetPosition ==
    ASSUME Inv, NEW v \in 0 .. MaxSize, SetPosition(v)
    PROVE  Inv' /\ Flat!Next
<1> DEFINE r == setPosition(ba, v)
<1>0. Sound(ba) /\ fault = NoFault /\ Return(r, "move", "raw", <<>>) /\ v \in Nat
  BY ByteArrayAssumption DEF Inv, SetPosition, Up
<1>1. \/ r = Throw(ba)
      \/ r.end = "ok" /\ r.got = <<>> /\ r.fault = NoFault /\ Moved(ba, r.ba, v)
  BY <1>0, SetPositionFacts
<1> HIDE DEF r
<1>2. "move" \notin Peeking
  BY DEF Peeking
<1>3. CASE r = Throw(ba)
  <2>1. Reads(ba, r)
    BY <1>0, <1>3, ConsumedNone, DoneFields DEF Reads
  <2> QED BY <1>0, <1>2, <2>1, StepReads
<1>4. CASE r.end = "ok" /\ r.got = <<>> /\ r.fault = NoFault /\ Moved(ba, r.ba, v)
  <2>1. /\ fault' = NoFault /\ ba' = r.ba /\ out'.op = "move" /\ out'.put = <<>>
        /\ out'.got = <<>>
    BY <1>0, <1>4, Left DEF Return
  <2> QED BY <1>0, <1>2, <1>4, <2>1, StepMove
<1> QED BY <1>1, <1>3, <1>4

\* clear().
LEMMA StepClear ==
    ASSUME Inv, Clear
    PROVE  Inv' /\ Flat!Next
<1> DEFINE r == Done(clear(ba), <<>>)
<1>0. Sound(ba) /\ fault = NoFault /\ Return(r, "clear", "raw", <<>>)
  BY DEF Inv, Clear, Up
<1>1. r.ba = clear(ba) /\ r.end = "ok" /\ r.got = <<>> /\ r.fault = NoFault
  BY DoneFields
<1> HIDE DEF r
<1>2. Sound(clear(ba)) /\ clear(ba).position = 0 /\ clear(ba).size = 0
  BY <1>0, ClearFacts
<1>3. /\ fault' = NoFault /\ ba' = clear(ba) /\ out'.op = "clear" /\ out'.put = <<>>
      /\ out'.got = <<>>
  BY <1>0, <1>1, Left DEF Return
<1>4. "clear" \notin Peeking
  BY DEF Peeking
<1>5. Inv'
  BY <1>2, <1>3, <1>4, StepUp
<1>6. Contents' = <<>>
  BY <1>2, <1>3 DEF Contents, Load
<1>7. Flat!Clear
  BY <1>2, <1>3, <1>6 DEF Flat!Clear
<1> QED BY <1>0, <1>3, <1>5, <1>7 DEF Flat!Next

\* setIsLittleEndian() shows nothing in FlatBytes.
LEMMA StepEndian ==
    ASSUME Inv, SetIsLittleEndian
    PROVE  Inv' /\ Flat!Next
<1> DEFINE x == setIsLittleEndian(ba, ~ba.little)
           r == Done(x, <<>>)
<1>0. Sound(ba) /\ fault = NoFault /\ Return(r, "endian", "raw", <<>>) /\ ba \in Obj
  BY DEF Inv, SetIsLittleEndian, Up, Sound
<1>1. r.ba = x /\ r.end = "ok" /\ r.got = <<>> /\ r.fault = NoFault
  BY DoneFields
<1> HIDE DEF r
<1>2. /\ x \in Obj /\ x.nodes = ba.nodes /\ x.cur = ba.cur /\ x.position = ba.position
      /\ x.size = ba.size /\ x.capacity = ba.capacity
  BY <1>0 DEF setIsLittleEndian, Obj
<1> HIDE DEF x
<1>3. Sound(x)
  BY <1>0, <1>2 DEF Sound
<1>4. ba.position \in Nat /\ ba.position + 0 = ba.position
  BY <1>0, SoundTypes
<1>5. Consumed(ba, x, 0)
  BY <1>2, <1>3, <1>4 DEF Consumed
<1>6. Reads(ba, r)
  BY <1>0, <1>1, <1>5, ConsumedNone DEF Reads
<1>7. "endian" \notin Peeking
  BY DEF Peeking
<1> QED BY <1>0, <1>6, <1>7, StepReads

\* A turn of the echo server.
LEMMA StepEcho ==
    ASSUME Inv, NEW fill \in Seq(Byte), EchoTurn(BaseSize, fill)
    PROVE  Inv' /\ Flat!Next
<1> DEFINE r == echoTurn(ba, BaseSize, fill)
<1>0. /\ Sound(ba) /\ fault = NoFault /\ Return(r, "echo", "raw", fill) /\ BaseSize \in Nat
      /\ Len(fill) <= BaseSize
  BY BaseNat DEF Inv, EchoTurn, MayStore, Up
<1>1. \/ r.end = "down" /\ LostBlock(r.fault)
      \/ /\ r.end = "ok" /\ r.fault = NoFault /\ r.got = fill
         /\ Sound(r.ba) /\ r.ba.position = 0 /\ r.ba.size = Len(fill)
         /\ Load(r.ba, 1, 0, r.ba.size) = fill
  BY <1>0, EchoTurnFacts
<1> HIDE DEF r
<1>2. "echo" \notin Peeking
  BY DEF Peeking
<1>3. CASE r.end = "down" /\ LostBlock(r.fault)
  <2>1. fault' = r.fault /\ ba' = ba /\ out' = out
    BY <1>0, <1>3, Left DEF Return
  <2>2. FaultCause' /\ fault'.op # "none"
    BY <1>3, <2>1 DEF FaultCause, LostBlock
  <2> QED BY <1>0, <2>1, <2>2, StepDown
<1>4. CASE /\ r.end = "ok" /\ r.fault = NoFault /\ r.got = fill
           /\ Sound(r.ba) /\ r.ba.position = 0 /\ r.ba.size = Len(fill)
           /\ Load(r.ba, 1, 0, r.ba.size) = fill
  <2>1. /\ fault' = NoFault /\ ba' = r.ba /\ out'.op = "echo" /\ out'.put = fill
        /\ out'.got = fill
    BY <1>0, <1>4, Left DEF Return
  <2>2. Inv'
    BY <1>2, <1>4, <2>1, StepUp
  <2>3. Flat!Echo
    BY <1>2, <1>4, <2>1 DEF Flat!Echo, Contents, Peeking
  <2> QED BY <1>0, <2>1, <2>2, <2>3 DEF Flat!Next
<1> QED BY <1>1, <1>3, <1>4

\* Every call of a program.
LEMMA StepNext ==
    ASSUME Inv, Next
    PROVE  Inv' /\ Flat!Next
<1>0. Sound(ba) /\ MaxSize \in Nat /\ ba.position \in Nat /\ ba.size \in Nat
      /\ \A s \in Text : s \in Seq(Byte)
  BY ByteArrayAssumption, SoundTypes DEF Inv
<1>ops. {"write", "read", "send"} \cap Peeking = {}
  BY DEF Peeking
<1>1. ASSUME NEW kind \in Kind, NEW v \in Values(kind), Write(kind, v) PROVE Inv' /\ Flat!Next
  <2> DEFINE s == Encoding(ba, kind, v)
             r == writeItem(ba, kind, v)
  <2>1. s \in Seq(Byte) /\ Writes(ba, r, s, Len(s))
    BY <1>0, WriteItemFacts
  <2>2. fault = NoFault /\ Return(r, "write", kind, s)
    BY <1>1 DEF Write, MayStore, Up
  <2> HIDE DEF s, r
  <2> QED BY <1>ops, <2>1, <2>2, StepWrites
<1>2. ASSUME NEW kind \in Kind \ {"raw"}, Read(kind) PROVE Inv' /\ Flat!Next
  <2>1. Reads(ba, readItem(ba, kind))
    BY <1>0, ReadItemFacts
  <2>2. fault = NoFault /\ Return(readItem(ba, kind), "read", kind, <<>>)
    BY <1>2 DEF Read, Up
  <2> QED BY <1>ops, <2>1, <2>2, StepReads
<1>3. ASSUME NEW v \in 0 .. MaxSize, SetPosition(v) PROVE Inv' /\ Flat!Next
  BY <1>3, StepSetPosition
<1>4. ASSUME NEW n \in 0 .. getReadSize(ba) + 1, NEW p \in 0 .. MaxSize,
             ReadAt(n, p) \/ GetReadBuffersAt(n, p)
      PROVE  Inv' /\ Flat!Next
  <2>1. n \in Nat /\ p \in Nat
    BY <1>0 DEF getReadSize
  <2> QED BY <1>4, <2>1, StepReadAt, StepGetReadBuffersAt
<1>5. ASSUME NEW content \in Text, ReadFromFile(content) PROVE Inv' /\ Flat!Next
  <2>1. content \in Seq(Byte)
    BY <1>0
  <2>2. Writes(ba, readFromFile(ba, content), content, Len(content))
    BY <1>0, <2>1, ReadFromFileFacts
  <2>3. fault = NoFault /\ Return(readFromFile(ba, content), "write", "raw", content)
    BY <1>5 DEF ReadFromFile, MayStore, Up
  <2> QED BY <1>ops, <2>1, <2>2, <2>3, StepWrites
<1>6. ASSUME NEW fill \in Text, NEW length \in 0 .. MaxSize, StreamRead(length, fill)
      PROVE  Inv' /\ Flat!Next
  <2>1. fill \in Seq(Byte) /\ length \in Nat
    BY <1>0
  <2>2. /\ fault = NoFault /\ Return(streamRead(ba, length, fill), "write", "raw", fill)
        /\ Len(fill) <= length
    BY <1>6 DEF StreamRead, MayStore, Up
  <2>3. Writes(ba, streamRead(ba, length, fill), fill, Len(fill))
    BY <1>0, <2>1, <2>2, StreamReadFacts
  <2> QED BY <1>ops, <2>1, <2>2, <2>3, StepWrites
<1>7. ASSUME NEW length \in 0 .. MaxSize, NEW sent \in 0 .. MaxSize, StreamWrite(length, sent)
      PROVE  Inv' /\ Flat!Next
  <2>1. length \in Nat /\ sent \in Nat
    BY <1>0
  <2>2. /\ fault = NoFault /\ Return(streamWrite(ba, length, sent), "send", "raw", <<>>)
        /\ sent <= Len(getReadBuffers(ba, length).got)
    BY <1>7 DEF StreamWrite, Up
  <2>3. Reads(ba, streamWrite(ba, length, sent))
    BY <1>0, <2>1, <2>2, StreamWriteFacts
  <2> QED BY <1>ops, <2>2, <2>3, StepReads
<1>8. ASSUME NEW fill \in Text, EchoTurn(BaseSize, fill) PROVE Inv' /\ Flat!Next
  BY <1>0, <1>8, StepEcho
<1> QED BY <1>1, <1>2, <1>3, <1>4, <1>5, <1>6, <1>7, <1>8, StepClear, StepEndian, StepShow
        DEF Next

\* A new object.
LEMMA InvInit == Init => Inv
<1> SUFFICES ASSUME Init PROVE Inv
  OBVIOUS
<1>1. PICK garbage \in Garbage : ba = New(garbage)
  BY DEF Init
<1> DEFINE T == [0 .. BaseSize - 1 -> Byte]
<1>2. garbage \in Byte /\ Node(garbage) \in T /\ BaseSize \in Nat \ {0}
  BY ByteArrayAssumption DEF Node
<1> HIDE DEF T
<1>3. <<Node(garbage)>> \in Seq(T) /\ Len(<<Node(garbage)>>) = 1
  BY <1>2
<1>4. /\ ba \in Obj /\ ba.nodes = <<Node(garbage)>> /\ ba.cur = 1 /\ ba.position = 0
      /\ ba.size = 0 /\ ba.capacity = BaseSize
  BY <1>1, <1>2, <1>3 DEF New, Obj, T
<1>5. 0 \div BaseSize = 0
  <2>1. 0 = 0 * BaseSize + 0 /\ 0 \in 0 .. BaseSize - 1
    BY BaseNat
  <2> QED BY <2>1, DivModUnique
<1>6. ba.capacity = Len(ba.nodes) * BaseSize
  BY <1>2, <1>3, <1>4
<1>7. Sound(ba)
  BY <1>2, <1>3, <1>4, <1>5, <1>6 DEF Sound
<1>8. FaultCause /\ PeeksRight
  BY DEF Init, FaultCause, NoFault, PeeksRight
<1> QED BY <1>7, <1>8 DEF Inv

\* The invariant, and the step of FlatBytes that every call is.
LEMMA InvHolds == Spec => []Inv
<1>1. Inv /\ [Next]_vars => Inv'
  <2> SUFFICES ASSUME Inv, [Next]_vars PROVE Inv'
    OBVIOUS
  <2>1. CASE Next
    BY <2>1, StepNext
  <2>2. CASE UNCHANGED vars
    BY <2>2 DEF vars, Inv, FaultCause, PeeksRight, Contents
  <2> QED BY <2>1, <2>2
<1> QED BY <1>1, InvInit, PTL DEF Spec

\* The bookkeeping of ByteArray agrees with itself after every call, thrown or not, and
\* the process ends only in the calls that FaultCause names: for every block size,
\* every text and number written, and any number of calls.
THEOREM ListIsRight == Spec => []ListRight
<1>1. Inv => ListRight
  <2> SUFFICES ASSUME Inv PROVE ListRight
    OBVIOUS
  <2>1. Sound(ba) /\ ba.position \in Nat /\ ba.size \in Nat
    BY SoundTypes DEF Inv
  <2>2. CursorRight
    BY <2>1 DEF CursorRight, Sound
  <2> QED BY <2>2 DEF Inv, ListRight
<1> QED BY <1>1, InvHolds, PTL

\* read(buf, size, position) and getReadBuffers(buffers, len, position) return the
\* contents at the position, where PeeksRight claims it.
THEOREM ConstReadsRight == Spec => []PeeksRight
<1>1. Inv => PeeksRight
  BY DEF Inv
<1> QED BY <1>1, InvHolds, PTL

\* The list of blocks implements a flat sequence of bytes and a position: every call of
\* ByteArray, of SocketStream on it and of the echo server is a step of FlatBytes.
THEOREM BlocksAreFlat == Spec => FlatSpec
<1>1. Init => Flat!Init
  <2> SUFFICES ASSUME Init PROVE Flat!Init
    OBVIOUS
  <2>1. Contents = <<>> /\ ba.position = 0
    BY DEF Init, New, Contents, Load
  <2> QED BY <2>1 DEF Init, Flat!Init
<1>2. Inv /\ [Next]_vars => [Flat!Next]_(Flat!flatVars)
  <2> SUFFICES ASSUME Inv, [Next]_vars PROVE [Flat!Next]_(Flat!flatVars)
    OBVIOUS
  <2>1. CASE Next
    BY <2>1, StepNext
  <2>2. CASE UNCHANGED vars
    BY <2>2 DEF vars, Flat!flatVars, Contents
  <2> QED BY <2>1, <2>2
<1> QED BY <1>1, <1>2, InvHolds, PTL DEF Spec, FlatSpec, Flat!Spec


-----------------------------------------------------------------------------
(* What was written is read back.                                          *)

\* A read function returned, having consumed m bytes.
Has(b, r, m) ==
    /\ r.end = "ok" /\ b.position + m <= b.size /\ Consumed(b, r.ba, m)
    /\ r.got = Cells(b, b.position, m)

\* The bytes e are at place p.
Stored(b, p, e) ==
    /\ p \in Nat /\ p + Len(e) <= b.size
    /\ \A i \in 1 .. Len(e) : Cell(b, p + i - 1) = e[i]

\* Bytes stored are the cells there.
LEMMA StoredCells ==
    ASSUME NEW b, NEW p, NEW e \in Seq(Byte), Stored(b, p, e)
    PROVE  Cells(b, p, Len(e)) = e
<1>1. e = [i \in 1 .. Len(e) |-> e[i]]
  OBVIOUS
<1>2. Cells(b, p, Len(e)) = [i \in 1 .. Len(e) |-> e[i]]
  BY DEF Cells, Stored
<1> QED BY <1>1, <1>2

\* One read of bytes that are there; only a read of nothing may end the process.
LEMMA ReadBack ==
    ASSUME NEW b, Sound(b), NEW n \in Nat, b.position + n <= b.size
    PROVE  Has(b, read(b, n), n) \/ (n = 0 /\ read(b, n).end = "down")
<1> DEFINE r == read(b, n)
<1>0. b.position \in Nat /\ b.size \in Nat
  BY SoundTypes
<1>1. \/ n > b.size - b.position /\ r = Throw(b)
      \/ /\ n <= b.size - b.position /\ r.end = "ok" /\ r.fault = NoFault
         /\ Consumed(b, r.ba, n)
         /\ r.got = [i \in 1 .. n |-> Cell(b, b.position + i - 1)]
      \/ /\ n = 0 /\ r.end = "down" /\ r.fault.op = "read"
         /\ r.fault.size = 0 /\ r.fault.room = 0
  BY ReadFacts
<1> HIDE DEF r
<1>2. ~(n > b.size - b.position)
  BY <1>0
<1> QED BY <1>1, <1>2 DEF Has, Cells, r

\* A further read of bytes that are there.
LEMMA ReadOnBack ==
    ASSUME NEW b, Sound(b), NEW r, NEW m \in Nat, Has(b, r, m), NEW n \in Nat,
           b.position + (m + n) <= b.size
    PROVE  LET q == Then(r, LAMBDA x : read(x, n))
           IN  Has(b, q, m + n) \/ (n = 0 /\ q.end = "down")
<1> DEFINE s == read(r.ba, n)
           q == [s EXCEPT !.got = r.got \o @]
<1>0. b.position \in Nat /\ b.size \in Nat
  BY SoundTypes
<1>1. Then(r, LAMBDA x : read(x, n)) = q
  BY DEF Then, Has
<1>2. /\ Sound(r.ba) /\ Consumed(b, r.ba, m) /\ b.position + m <= b.size
      /\ r.got = Cells(b, b.position, m)
  BY DEF Has, Consumed
<1>3. r.ba.position + n <= r.ba.size /\ r.ba.position = b.position + m
  BY <1>0, <1>2 DEF Consumed
<1>4. Has(r.ba, s, n) \/ (n = 0 /\ s.end = "down")
  BY <1>2, <1>3, ReadBack
<1>6. DOMAIN s = {"ba", "got", "end", "fault"}
  BY DEF read, Throw, Done, Down
<1> HIDE DEF s
<1>7. q.ba = s.ba /\ q.end = s.end /\ q.got = r.got \o s.got
  BY <1>6
<1> HIDE DEF q
<1>8. CASE n = 0 /\ s.end = "down"
  BY <1>1, <1>7, <1>8
<1>9. CASE Has(r.ba, s, n)
  <2>1. Consumed(r.ba, s.ba, n) /\ s.end = "ok" /\ s.got = Cells(r.ba, r.ba.position, n)
    BY <1>9 DEF Has
  <2>2. /\ b.position + (m + n) <= b.size /\ Consumed(b, s.ba, m + n)
        /\ Cells(b, b.position, m) \o Cells(r.ba, r.ba.position, n) = Cells(b, b.position, m + n)
    BY <1>2, <1>3, <2>1, ConsumedMore
  <2> QED BY <1>1, <1>2, <1>7, <2>1, <2>2 DEF Has
<1> QED BY <1>4, <1>8, <1>9

\* readUint32/64 stop after the bytes of the integer that is there.
LEMMA ReadUintBack ==
    ASSUME NEW b, Sound(b), NEW e \in Seq(Byte), Stored(b, b.position, e),
           Len(e) \in 1 .. VarintMax(Width),
           \A j \in 1 .. Len(e) : e[j] < 2 ^ Group <=> j = Len(e)
    PROVE  Has(b, readUint(b), Len(e))
<1> DEFINE N == VarintMax(Width)
           L == Len(e)
           P == b.position
           done(k) == IF k < L THEN k ELSE L
<1>0. N \in Nat \ {0} /\ L \in 1 .. N /\ P \in Nat /\ b.size \in Nat /\ P + L <= b.size
      /\ \A i \in 1 .. L : Cell(b, P + i - 1) = e[i]
  BY VarintMaxFacts, SoundTypes DEF Stored
<1>1. PICK f : /\ f[0] = Done(b, <<>>) /\ readUint(b) = f[N]
               /\ \A k \in 1 .. N : f[k] = UintTurn(k, f[k - 1])
  BY ReadUintTurns
<1>g. \A j \in 1 .. L : e[j] < 2 ^ Group <=> j = L
  OBVIOUS
<1> HIDE DEF N, L, P
<1>2. ASSUME NEW m \in 0 .. L, NEW r, Has(b, r, m)
      PROVE  r.end = "ok" /\ (r.got = <<>> <=> m = 0) /\ (m # 0 => Last(r.got) = e[m])
  <2>1. r.got = Cells(b, P, m) /\ r.end = "ok" /\ m \in Nat /\ P + m <= b.size
    BY <1>0, <1>2 DEF Has, P
  <2>2. r.got \in Seq(Byte) /\ Len(r.got) = m
    BY <1>0, <2>1, CellsFacts
  <2>3. r.got = <<>> <=> m = 0
    BY <2>2, EmptySeq
  <2>4. ASSUME m # 0 PROVE Last(r.got) = e[m]
    <3>1. m \in 1 .. L /\ m \in 1 .. m
      BY <1>0, <2>4
    <3>2. r.got[m] = Cell(b, P + m - 1)
      BY <2>1, <3>1 DEF Cells
    <3> QED BY <1>0, <2>2, <3>1, <3>2 DEF Last
  <2> QED BY <2>1, <2>3, <2>4
<1>3. ASSUME NEW k \in 1 .. N, Has(b, f[k - 1], done(k - 1)) PROVE Has(b, f[k], done(k))
  <2> DEFINE r == f[k - 1]
             m == done(k - 1)
  <2>0. m \in 0 .. L /\ k \in Nat
    BY <1>0
  <2>1. f[k] = UintTurn(k, r) /\ Has(b, r, m)
    BY <1>1, <1>3
  <2>2. CASE ~(k - 1 < L)
    <3>1. m = L /\ m # 0 /\ done(k) = L /\ L \in 1 .. L
      BY <1>0, <2>0, <2>2
    <3> HIDE DEF r, m
    <3>2. r.got # <<>> /\ Last(r.got) < 2 ^ Group
      BY <1>2, <1>g, <2>0, <2>1, <3>1
    <3>3. f[k] = r
      BY <2>1, <3>2 DEF UintTurn
    <3> QED BY <2>1, <3>1, <3>3
  <2>3. CASE k - 1 < L
    <3>1. m = k - 1 /\ done(k) = m + 1 /\ m \in Nat /\ P + (m + 1) <= b.size
      BY <1>0, <2>0, <2>3
    <3>2. m # 0 => m \in 1 .. L /\ m # L
      BY <1>0, <2>0, <2>3, <3>1
    <3> HIDE DEF r, m
    <3>3. r.end = "ok" /\ ~(r.got # <<>> /\ Last(r.got) < 2 ^ Group)
      BY <1>2, <1>g, <2>0, <2>1, <3>2
    <3>4. f[k] = Then(r, LAMBDA x : read(x, 1))
      BY <2>1, <3>3 DEF UintTurn
    <3>5. Has(b, f[k], m + 1)
      <4>1. 1 \in Nat /\ 1 # 0
        OBVIOUS
      <4> QED BY <2>1, <3>1, <3>4, <4>1, ReadOnBack DEF P
    <3> QED BY <3>1, <3>5
  <2> QED BY <2>2, <2>3
<1>4. Has(b, f[0], done(0))
  <2>1. done(0) = 0
    BY <1>0
  <2>2. f[0].end = "ok" /\ f[0].ba = b /\ f[0].got = <<>>
    BY <1>1, DoneFields
  <2> QED BY <2>1, <2>2, ConsumedNone DEF Has
<1> DEFINE S == {k \in 0 .. N : Has(b, f[k], done(k))}
<1>5. 0 \in S
  BY <1>0, <1>4
<1>6. ASSUME NEW k \in 1 .. N, k - 1 \in S PROVE k \in S
  <2>1. k \in 0 .. N
    BY <1>0
  <2> QED BY <1>3, <1>6, <2>1
<1> HIDE DEF S
<1>7. \A k \in 0 .. N : k \in S
  BY <1>0, <1>5, <1>6, UpTo
<1>8. Has(b, f[N], done(N)) /\ done(N) = L
  <2>1. N \in S /\ done(N) = L
    BY <1>0, <1>7
  <2> QED BY <2>1 DEF S
<1> QED BY <1>1, <1>8 DEF L

\* A fixed integer has Wide bytes, and gives the integer back in the order it was made in.
LEMMA FixedBack ==
    ASSUME EncodingsInvert, NEW b, NEW u \in Number \cup {Len(s) : s \in Text}
    PROVE  /\ Fixed(b, u) \in Seq(Byte) /\ Len(Fixed(b, u)) = Wide
           /\ \A x : x.little = b.little => FixedValue(x, Fixed(b, u)) = u
<1> DEFINE e == InMemory(Wide, u)
<1>1. u \in Codable /\ Wide \in Nat
  BY ByteArrayAssumption DEF Codable
<1>2. e \in Seq(Byte) /\ Fixed(b, u) \in Seq(Byte)
  BY EncodingAssumption, FixedFacts
<1>3. FromMemory(e) = u
  BY <1>1 DEF EncodingsInvert
<1>4. DOMAIN e = 1 .. Wide
  BY DEF InMemory
<1>5. Fixed(b, u) = IF b.little THEN e ELSE byteswap(e)
  BY DEF Fixed
<1> HIDE DEF e
<1>6. Len(e) = Wide
  BY <1>1, <1>2, <1>4
<1> DEFINE d == byteswap(e)
<1>7. d = [i \in 1 .. Wide |-> e[(Wide - i) + 1]]
  BY <1>6 DEF byteswap, Reverse
<1>8. \A i \in 1 .. Wide : e[(Wide - i) + 1] \in Byte
  <2>1. \A i \in 1 .. Wide : (Wide - i) + 1 \in 1 .. Wide
    BY <1>1
  <2>2. \A i \in 1 .. Wide : e[i] \in Byte
    BY <1>2, <1>6, ElementOfSeq
  <2> QED BY <2>1, <2>2
<1>9. d \in Seq(Byte) /\ Len(d) = Wide
  BY <1>1, <1>7, <1>8
<1> HIDE DEF d
<1>10. byteswap(d) = e
  <2>1. byteswap(d) = [i \in 1 .. Wide |-> d[(Wide - i) + 1]]
    BY <1>9 DEF byteswap, Reverse
  <2>2. ASSUME NEW i \in 1 .. Wide PROVE d[(Wide - i) + 1] = e[i]
    <3>1. (Wide - i) + 1 \in 1 .. Wide /\ (Wide - ((Wide - i) + 1)) + 1 = i
      BY <1>1
    <3> QED BY <1>7, <3>1
  <2>3. e = [i \in 1 .. Wide |-> e[i]]
    BY <1>2, <1>6
  <2> QED BY <2>1, <2>2, <2>3
<1>11. ASSUME NEW x, x.little = b.little PROVE FixedValue(x, Fixed(b, u)) = u
  BY <1>3, <1>5, <1>10, <1>11 DEF FixedValue, d
<1> QED BY <1>2, <1>5, <1>6, <1>9, <1>11 DEF d

\* A varint as readUint32/64 need it.
LEMMA VarintBack ==
    ASSUME EncodingsInvert, NEW u \in Codable
    PROVE  /\ Len(EncodeVarint(u)) \in 1 .. VarintMax(Width)
           /\ \A j \in 1 .. Len(EncodeVarint(u)) :
                 EncodeVarint(u)[j] < 2 ^ Group <=> j = Len(EncodeVarint(u))
           /\ DecodeVarint(Width, EncodeVarint(u)) = u
  BY DEF EncodingsInvert

\* One string behind the other.
Joined(e, u, v) == e = u \o v

\* The parts of two strings joined.
LEMMA JoinedFacts ==
    ASSUME NEW u \in Seq(Byte), NEW v \in Seq(Byte), NEW e, Joined(e, u, v)
    PROVE  /\ e \in Seq(Byte) /\ Len(e) = Len(u) + Len(v) /\ Len(u) \in Nat /\ Len(v) \in Nat
           /\ \A i \in 1 .. Len(u) : e[i] = u[i]
           /\ SubSeq(e, Len(u) + 1, Len(e)) = v
<1>1. Len(u) \in Nat /\ Len(v) \in Nat
  BY LenProperties
<1>2. /\ e \in Seq(Byte) /\ Len(e) = Len(u) + Len(v)
      /\ \A i \in 1 .. Len(u) : e[i] = u[i]
      /\ \A i \in 1 .. Len(v) : e[Len(u) + i] = v[i]
  BY <1>1, ConcatProperties DEF Joined
<1>3. SubSeq(e, Len(u) + 1, Len(e)) = v
  <2> DEFINE s == SubSeq(e, Len(u) + 1, Len(e))
  <2>1. /\ s \in Seq(Byte) /\ Len(s) = Len(v)
        /\ \A i \in 1 .. Len(v) : s[i] = e[Len(u) + i]
    <3>1. s = [i \in 1 .. Len(e) - (Len(u) + 1) + 1 |-> e[i + (Len(u) + 1) - 1]]
      BY <1>1, <1>2
    <3>2. Len(e) - (Len(u) + 1) + 1 = Len(v)
      BY <1>1, <1>2
    <3>3. \A i \in 1 .. Len(v) : i + (Len(u) + 1) - 1 = Len(u) + i
      BY <1>1
    <3>4. s = [i \in 1 .. Len(v) |-> e[Len(u) + i]]
      BY <3>1, <3>2, <3>3
    <3>5. \A i \in 1 .. Len(v) : e[Len(u) + i] \in Byte
      BY <1>2, ElementOfSeq
    <3> HIDE DEF s
    <3> QED BY <1>1, <3>4, <3>5
  <2> HIDE DEF s
  <2>2. s = [i \in 1 .. Len(v) |-> s[i]] /\ v = [i \in 1 .. Len(v) |-> v[i]]
    BY <2>1
  <2>3. \A i \in 1 .. Len(v) : s[i] = v[i]
    BY <1>2, <2>1
  <2>4. s = v
    BY <2>2, <2>3
  <2> QED BY <2>4 DEF s
<1> QED BY <1>1, <1>2, <1>3

\* Where two strings are stored one behind the other, the first is.
LEMMA StoredFirst ==
    ASSUME NEW b, b.size \in Nat, NEW p, NEW u \in Seq(Byte), NEW v \in Seq(Byte), NEW e,
           Joined(e, u, v), Stored(b, p, e)
    PROVE  Stored(b, p, u)
<1>1. /\ Len(e) = Len(u) + Len(v) /\ Len(u) \in Nat /\ Len(v) \in Nat
      /\ \A i \in 1 .. Len(u) : e[i] = u[i]
  BY JoinedFacts
<1>2. p \in Nat /\ p + Len(e) <= b.size /\ \A i \in 1 .. Len(e) : Cell(b, p + i - 1) = e[i]
  BY DEF Stored
<1>3. \A i \in 1 .. Len(u) : i \in 1 .. Len(e)
  BY <1>1
<1> QED BY <1>1, <1>2, <1>3 DEF Stored

\* What the value of a typed write is to compare with.
Given(kind, v) == IF kind \in {"strF", "strV", "raw"} THEN v ELSE <<v>>

\* A length and a text behind it, once the length has been read.
LEMMA TextBack ==
    ASSUME NEW b, Sound(b), NEW u \in Seq(Byte), NEW v \in Seq(Byte), NEW e, Joined(e, u, v),
           Stored(b, b.position, e), NEW r, Has(b, r, Len(u)),
           NEW q, q = readString(r, Len(v)), q.end # "down"
    PROVE  q.end = "ok" /\ q.got = e
<1>1. /\ e \in Seq(Byte) /\ Len(e) = Len(u) + Len(v)
      /\ Len(u) \in Nat /\ Len(v) \in Nat /\ b.position + Len(e) <= b.size
  BY JoinedFacts DEF Stored
<1>2. q = Then(r, LAMBDA x : read(x, Len(v)))
  BY DEF readString, Has
<1>3. Has(b, q, Len(u) + Len(v))
  <2> DEFINE m == Len(u)
             n == Len(v)
  <2>1. m \in Nat /\ n \in Nat /\ b.position + (m + n) <= b.size /\ Has(b, r, m)
    BY <1>1
  <2> HIDE DEF m, n
  <2>2. \/ Has(b, Then(r, LAMBDA x : read(x, n)), m + n)
        \/ Then(r, LAMBDA x : read(x, n)).end = "down"
    BY <2>1, ReadOnBack
  <2> QED BY <1>2, <2>2 DEF m, n
<1>4. Cells(b, b.position, Len(e)) = e
  BY <1>1, StoredCells
<1> QED BY <1>1, <1>3, <1>4 DEF Has

\* A typed read where the encoding of a value is stored returns the encoding, and makes
\* the value of it, unless it reads an empty text at the end of the last block.
LEMMA ItemBack ==
    ASSUME EncodingsInvert, NEW b, Sound(b), NEW kind \in Kind \ {"raw"},
           NEW v \in Values(kind), NEW e, e = Encoding(b, kind, v), Stored(b, b.position, e),
           NEW r, r = readItem(b, kind), r.end # "down",
           NEW x, kind \in {"fixed", "strF"} => x.little = b.little
    PROVE  r.end = "ok" /\ r.got = e /\ Value(x, kind, e) = Given(kind, v)
<1>0. /\ e \in Seq(Byte) /\ Len(e) \in Nat /\ Cells(b, b.position, Len(e)) = e
      /\ b.position \in Nat /\ b.size \in Nat /\ Wide \in Nat \ {0}
      /\ b.position + Len(e) <= b.size
  BY WriteItemFacts, StoredCells, SoundTypes, LenProperties, ByteArrayAssumption DEF Stored
<1>1. ASSUME Has(b, r, Len(e)) PROVE r.end = "ok" /\ r.got = e
  BY <1>0, <1>1 DEF Has
<1>2. CASE kind = "byte"
  <2>1. e = <<v>> /\ r = read(b, 1) /\ Value(x, kind, e) = e
    BY <1>2 DEF Encoding, readItem, Value
  <2>2. Len(e) = 1
    BY <2>1
  <2>3. Has(b, r, 1)
    BY <1>0, <2>1, <2>2, ReadBack
  <2> QED BY <1>1, <1>2, <2>1, <2>2, <2>3 DEF Given
<1>3. CASE kind = "fixed"
  <2>1. v \in Number /\ e = Fixed(b, v) /\ r = read(b, Wide) /\ Value(x, kind, e) = <<FixedValue(x, e)>>
    BY <1>3 DEF Encoding, readItem, Value, Values, readFixed
  <2>2. Len(e) = Wide /\ FixedValue(x, e) = v
    BY <1>3, <2>1, FixedBack
  <2>3. Has(b, r, Wide)
    BY <1>0, <2>1, <2>2, ReadBack
  <2> QED BY <1>1, <1>3, <2>1, <2>2, <2>3 DEF Given
<1>4. CASE kind = "uvar"
  <2>1. v \in Number /\ e = EncodeVarint(v) /\ r = readUint(b)
        /\ Value(x, kind, e) = <<DecodeVarint(Width, e)>>
    BY <1>4 DEF Encoding, readItem, Value, Values
  <2>2. v \in Codable
    BY <2>1, ByteArrayAssumption DEF Codable
  <2>3. /\ Len(e) \in 1 .. VarintMax(Width) /\ DecodeVarint(Width, e) = v
        /\ \A j \in 1 .. Len(e) : e[j] < 2 ^ Group <=> j = Len(e)
    BY <2>1, <2>2, VarintBack
  <2>4. Has(b, r, Len(e))
    BY <1>0, <2>1, <2>3, ReadUintBack
  <2> QED BY <1>1, <1>4, <2>1, <2>3, <2>4 DEF Given
<1>5. CASE kind = "svar"
  <2>1. PICK u \in Number : v = Signed(Width, u)
    BY <1>5 DEF Values
  <2> DEFINE z == EncodeZigzag(Width, v)
  <2>2. e = EncodeVarint(z) /\ r = readUint(b)
        /\ Value(x, kind, e) = <<DecodeZigzag(Width, DecodeVarint(Width, e))>>
    BY <1>5 DEF Encoding, readItem, Value
  <2>3. z \in 0 .. 2 ^ Width - 1 /\ DecodeZigzag(Width, z) = v
    BY <2>1, ByteArrayAssumption DEF EncodingsInvert
  <2> HIDE DEF z
  <2>4. z \in Codable
    BY <2>3 DEF Codable
  <2>5. /\ Len(e) \in 1 .. VarintMax(Width) /\ DecodeVarint(Width, e) = z
        /\ \A j \in 1 .. Len(e) : e[j] < 2 ^ Group <=> j = Len(e)
    BY <2>2, <2>4, VarintBack
  <2>6. Has(b, r, Len(e))
    BY <1>0, <2>2, <2>5, ReadUintBack
  <2> QED BY <1>1, <1>5, <2>2, <2>3, <2>5, <2>6 DEF Given
<1>6. CASE kind = "strF"
  <2> DEFINE u == Fixed(b, Len(v))
             s == readFixed(b)
  <2>1. /\ v \in Text /\ e = u \o v /\ r = readString(s, FixedValue(b, s.got)) /\ s = read(b, Wide)
        /\ Value(x, kind, e) = SubSeq(e, Wide + 1, Len(e))
    BY <1>6 DEF Encoding, readItem, Value, Values, readFixed
  <2>2. v \in Seq(Byte) /\ Len(v) \in {Len(t) : t \in Text}
    BY <2>1, ByteArrayAssumption
  <2>3. u \in Seq(Byte) /\ Len(u) = Wide /\ FixedValue(b, u) = Len(v)
    BY <2>2, FixedBack
  <2> HIDE DEF u, s
  <2>j. Joined(e, u, v)
    BY <2>1 DEF Joined
  <2>4. /\ Stored(b, b.position, u) /\ Len(e) = Len(u) + Len(v)
        /\ Len(v) \in Nat /\ SubSeq(e, Len(u) + 1, Len(e)) = v
    BY <1>0, <2>j, <2>2, <2>3, JoinedFacts, StoredFirst
  <2>5. Has(b, s, Len(u)) /\ s.got = u
    <3>1. b.position + Wide <= b.size
      BY <1>0, <2>3, <2>4
    <3>2. Has(b, s, Wide)
      BY <1>0, <2>1, <3>1, ReadBack
    <3>3. Cells(b, b.position, Len(u)) = u
      BY <2>3, <2>4, StoredCells
    <3> QED BY <2>3, <3>2, <3>3 DEF Has
  <2>6. r = readString(s, Len(v))
    BY <2>1, <2>3, <2>5
  <2>7. r.end = "ok" /\ r.got = e
    BY <2>j, <2>2, <2>3, <2>5, <2>6, TextBack
  <2> QED BY <1>6, <2>1, <2>3, <2>4, <2>7 DEF Given
<1>7. CASE kind = "strV"
  <2> DEFINE u == EncodeVarint(Len(v))
             s == readUint(b)
             fits(k) == e[k] < 2 ^ Group /\ \A j \in 1 .. k - 1 : e[j] >= 2 ^ Group
             n == CHOOSE k \in 1 .. Len(e) : fits(k)
  <2>1. /\ v \in Text /\ e = u \o v /\ r = readString(s, DecodeVarint(Width, s.got))
        /\ Value(x, kind, e) = SubSeq(e, n + 1, Len(e))
    BY <1>7 DEF Encoding, readItem, Value, Values
  <2>2. v \in Seq(Byte) /\ Len(v) \in {Len(t) : t \in Text}
    BY <2>1, ByteArrayAssumption
  <2>3. Len(v) \in Codable /\ u \in Seq(Byte)
    BY <2>2, EncodingAssumption DEF Codable
  <2>4. /\ Len(u) \in 1 .. VarintMax(Width) /\ DecodeVarint(Width, u) = Len(v)
        /\ \A j \in 1 .. Len(u) : u[j] < 2 ^ Group <=> j = Len(u)
    BY <2>3, VarintBack
  <2> HIDE DEF u, s, n, fits
  <2>j. Joined(e, u, v)
    BY <2>1 DEF Joined
  <2>5. /\ Stored(b, b.position, u) /\ Len(e) = Len(u) + Len(v)
        /\ \A i \in 1 .. Len(u) : e[i] = u[i]
        /\ Len(v) \in Nat /\ SubSeq(e, Len(u) + 1, Len(e)) = v
    BY <1>0, <2>j, <2>2, <2>3, JoinedFacts, StoredFirst
  <2>6. Has(b, s, Len(u)) /\ s.got = u
    <3>1. Has(b, s, Len(u))
      BY <2>3, <2>4, <2>5, ReadUintBack DEF s
    <3>2. Cells(b, b.position, Len(u)) = u
      BY <2>3, <2>5, StoredCells
    <3> QED BY <3>1, <3>2 DEF Has
  <2>7. r.end = "ok" /\ r.got = e
    <3>1. r = readString(s, Len(v))
      BY <2>1, <2>4, <2>6
    <3> QED BY <2>j, <2>2, <2>3, <2>6, <3>1, TextBack
  <2>8. n = Len(u)
    <3> DEFINE L == Len(u)
    <3>0. L \in 1 .. Len(e) /\ L \in Nat /\ Len(e) \in Nat
      BY <1>0, <2>3, <2>4, <2>5, LenProperties, VarintMaxFacts
    <3>1. 2 ^ Group \in Nat /\ \A j \in 1 .. L : u[j] \in Nat
      <4>1. \A j \in 1 .. L : u[j] \in Byte
        BY <2>3, ElementOfSeq
      <4>2. Byte \subseteq Nat
        BY DEF Byte
      <4> QED BY <4>1, <4>2, EncodingAssumption
    <3> HIDE DEF L
    <3>2. \A j \in 1 .. L : e[j] \in Nat /\ (e[j] < 2 ^ Group <=> j = L)
      BY <2>4, <2>5, <3>1 DEF L
    <3>3. fits(L)
      <4>1. \A j \in 1 .. L - 1 : j \in 1 .. L /\ j # L
        BY <3>0
      <4>2. L \in 1 .. L
        BY <3>0
      <4> QED BY <3>1, <3>2, <4>1, <4>2 DEF fits
    <3>4. ASSUME NEW k \in 1 .. Len(e), fits(k) PROVE k = L
      <4>1. CASE k < L
        <5>1. k \in 1 .. L /\ k # L
          BY <3>0, <4>1
        <5> QED BY <3>2, <3>4, <5>1 DEF fits
      <4>2. CASE k > L
        <5>1. L \in 1 .. k - 1 /\ L \in 1 .. L
          BY <3>0, <4>2
        <5>2. e[L] >= 2 ^ Group /\ e[L] < 2 ^ Group /\ e[L] \in Nat
          BY <3>2, <3>4, <5>1 DEF fits
        <5> QED BY <3>1, <5>2
      <4> QED BY <3>0, <4>1, <4>2
    <3> QED BY <3>0, <3>3, <3>4 DEF n, L
  <2> QED BY <1>7, <2>1, <2>5, <2>7, <2>8 DEF Given
<1> QED BY <1>2, <1>3, <1>4, <1>5, <1>6, <1>7 DEF Kind

\* read() leaves the byte order.
LEMMA LittleRead ==
    ASSUME NEW b, b \in Obj, NEW n
    PROVE  read(b, n).ba.little = b.little
<1> DEFINE c == Hop(b, b.cur, ((b.position % BaseSize) + n) \div BaseSize)
           y == [b EXCEPT !.cur = c, !.position = b.position + n]
<1>1. "little" \in DOMAIN b
  BY DEF Obj
<1>2. y.little = b.little
  BY <1>1
<1>3. read(b, n).ba \in {b, y}
  BY DEF read, Throw, Done, Down
<1> QED BY <1>2, <1>3

\* The reads of fixed integers, and of texts behind one, leave the byte order.
LEMMA LittleKept ==
    ASSUME NEW b, Sound(b), NEW kind \in {"fixed", "strF"}
    PROVE  readItem(b, kind).ba.little = b.little
<1>0. b \in Obj
  BY DEF Sound
<1>1. CASE kind = "fixed"
  BY <1>0, <1>1, LittleRead DEF readItem, readFixed
<1>2. CASE kind = "strF"
  <2> DEFINE r == read(b, Wide)
             n == FixedValue(b, r.got)
             s == read(r.ba, n)
             q == [s EXCEPT !.got = r.got \o @]
  <2>1. readItem(b, kind) = IF r.end # "ok" THEN r ELSE q
    BY <1>2 DEF readItem, readFixed, readString, Then
  <2>2. r.ba.little = b.little
    BY <1>0, LittleRead
  <2>3. CASE r.end # "ok"
    BY <2>1, <2>2, <2>3
  <2>4. CASE r.end = "ok"
    <3>1. Wide \in Nat
      BY ByteArrayAssumption
    <3>2. Reads(b, r)
      BY <3>1, ReadOnce
    <3>3. r.ba \in Obj
      BY <2>4, <3>2 DEF Reads, Consumed, Sound
    <3>4. s.ba.little = r.ba.little
      BY <3>3, LittleRead
    <3>5. DOMAIN s = {"ba", "got", "end", "fault"}
      BY DEF read, Throw, Done, Down
    <3> HIDE DEF s, r
    <3>6. q.ba = s.ba
      BY <3>5
    <3> QED BY <2>1, <2>2, <2>4, <3>4, <3>6
  <2> QED BY <2>3, <2>4
<1> QED BY <1>1, <1>2

\* The value v is the item, and its encoding e is stored where the item is.
Held(v, e) ==
    /\ e \in Seq(Byte) /\ e = Encoding([little |-> item.little], item.kind, v)
    /\ item.len = Len(e) /\ Stored(ba, item.at, e) /\ item.val = Given(item.kind, v)

ItemRight ==
    item.kind # "none" =>
        item.kind \in Kind /\ \E v \in Values(item.kind) : \E e \in Seq(Byte) : Held(v, e)

\* What a typed read needs: the item's bytes are there, and none was misread last.
Back ==
    /\ ItemRight
    /\ out.op = "read" => out.kind \in Kind
    /\ ReadsBack

\* An item stays where it is when its bytes do.
LEMMA ItemStays ==
    ASSUME ItemRight, item' = item, ba.size \in Nat, ba'.size \in Nat, ba.size <= ba'.size,
           \A i \in 0 .. ba.size - 1 :
              item.at <= i /\ i < item.at + item.len => Cell(ba', i) = Cell(ba, i)
    PROVE  ItemRight'
<1>1. CASE item.kind = "none"
  BY <1>1 DEF ItemRight
<1>2. CASE item.kind # "none"
  <2>1. PICK v \in Values(item.kind), e \in Seq(Byte) : Held(v, e)
    BY <1>2 DEF ItemRight
  <2> DEFINE p == item.at
             n == item.len
  <2>2. p \in Nat /\ n = Len(e) /\ n \in Nat /\ p + n <= ba.size
        /\ \A i \in 1 .. n : Cell(ba, p + i - 1) = e[i]
    BY <2>1, LenProperties DEF Held, Stored
  <2> HIDE DEF p, n
  <2>3. ASSUME NEW i \in 1 .. n PROVE Cell(ba', p + i - 1) = e[i]
    <3>1. p + i - 1 \in 0 .. ba.size - 1 /\ p <= p + i - 1 /\ p + i - 1 < p + n
      BY <2>2
    <3> QED BY <2>2, <3>1 DEF p, n
  <2>4. Stored(ba', p, e)
    BY <2>2, <2>3 DEF Stored
  <2>5. Held(v, e)'
    BY <2>1, <2>4 DEF Held, p
  <2>6. item'.kind \in Kind /\ v \in Values(item'.kind)
    BY <1>2 DEF ItemRight
  <2> QED BY <2>5, <2>6 DEF ItemRight
<1> QED BY <1>1, <1>2

\* A call that is not a typed read and returns.
LEMMA BackOther ==
    ASSUME ItemRight', out'.op # "read"
    PROVE  Back'
  BY DEF Back, ReadsBack

\* A call that ends the process.
LEMMA BackDown ==
    ASSUME Back, ba' = ba, out' = out, item' \in {item, NoItem}
    PROVE  Back'
<1>1. CASE item' = item
  BY <1>1 DEF Back, ItemRight, Held, ReadsBack
<1>2. CASE item' = NoItem
  <2>1. item'.kind = "none" /\ "none" \notin Kind
    BY <1>2 DEF NoItem, Kind
  <2> QED BY <2>1 DEF Back, ItemRight, ReadsBack
<1> QED BY <1>1, <1>2

\* A call that writes n bytes at the position takes the item away or leaves its bytes.
LEMMA BackWritten ==
    ASSUME Inv, Back, NEW s \in Seq(Byte), Overlaid(ba, ba', s, Len(s)),
           item' = Kept(ba.position, Len(s))
    PROVE  ItemRight'
<1>1. CASE item' = item /\ (item.at + item.len <= ba.position \/ item.at >= ba.position + Len(s))
  <2>1. CASE item.kind = "none"
    BY <1>1, <2>1 DEF ItemRight
  <2>2. CASE item.kind # "none"
    <3>1. item.at \in Nat /\ item.len \in Nat
      BY <2>2, LenProperties DEF Back, ItemRight, Held, Stored
    <3>2. /\ ba.size \in Nat /\ ba.position \in Nat /\ Len(s) \in Nat
          /\ ba'.size = Larger(ba.size, ba.position + Len(s))
      BY SoundTypes, LenProperties DEF Inv, Overlaid
    <3>3. ba'.size \in Nat /\ ba.size <= ba'.size
      BY <3>2 DEF Larger
    <3>4. ASSUME NEW i \in 0 .. ba.size - 1, item.at <= i /\ i < item.at + item.len
          PROVE  Cell(ba', i) = Cell(ba, i)
      <4>1. i \in 0 .. ba'.size - 1 /\ ~(ba.position <= i /\ i < ba.position + Len(s))
        BY <1>1, <3>1, <3>2, <3>3, <3>4
      <4> QED BY <4>1 DEF Overlaid
    <3> QED BY <1>1, <3>2, <3>3, <3>4, ItemStays DEF Back
  <2> QED BY <2>1, <2>2
<1>2. CASE item' = NoItem
  BY <1>2 DEF ItemRight, NoItem
<1> QED BY <1>1, <1>2 DEF Kept

\* The calls that store bytes and know nothing of items.
LEMMA BackStore ==
    ASSUME Inv, Back, NEW s \in Seq(Byte), NEW r, Writes(ba, r, s, Len(s)),
           Return(r, "write", "raw", s), item' = Kept(ba.position, Len(s))
    PROVE  Back'
<1>1. /\ r.end = "down" => ba' = ba /\ out' = out
      /\ r.end # "down" => ba' = r.ba /\ out'.op = "write"
  BY Left DEF Return
<1>2. CASE r.end = "down"
  BY <1>1, <1>2, BackDown DEF Kept
<1>3. CASE r.end # "down"
  <2>1. Overlaid(ba, ba', s, Len(s))
    BY <1>1, <1>3 DEF Writes
  <2>2. ItemRight'
    BY <2>1, BackWritten
  <2> QED BY <1>1, <1>3, <2>2, BackOther
<1> QED BY <1>2, <1>3

\* The calls that leave the blocks.
LEMMA BackUnwritten ==
    ASSUME Inv, Back, Sound(ba'), ba'.nodes = ba.nodes, ba.size <= ba'.size, item' = item
    PROVE  ItemRight'
<1>1. ba.size \in Nat /\ ba'.size \in Nat
  BY SoundTypes DEF Inv
<1>2. \A i \in 0 .. ba.size - 1 : Cell(ba', i) = Cell(ba, i)
  BY DEF Cell
<1> QED BY <1>1, <1>2, ItemStays DEF Back

\* The calls that consume bytes, other than the typed reads.
LEMMA BackConsumed ==
    ASSUME Inv, Back, NEW r, Reads(ba, r), NEW op, op # "read", Return(r, op, "raw", <<>>),
           item' = item
    PROVE  Back'
<1>1. /\ r.end = "down" => ba' = ba /\ out' = out
      /\ r.end # "down" => ba' = r.ba /\ out'.op = op
  BY Left DEF Return
<1>2. CASE r.end = "down"
  BY <1>1, <1>2, BackDown
<1>3. CASE r.end # "down"
  <2>1. Sound(ba') /\ ba'.nodes = ba.nodes /\ ba'.size = ba.size
    BY <1>1, <1>3 DEF Reads, Consumed
  <2>2. ba.size <= ba'.size
    BY <2>1, SoundTypes
  <2> QED BY <1>1, <1>3, <2>1, <2>2, BackUnwritten, BackOther
<1> QED BY <1>2, <1>3

\* Typed writes: the value written may become the item.
LEMMA BackWrite ==
    ASSUME Inv, Back, NEW kind \in Kind, NEW v \in Values(kind), Write(kind, v)
    PROVE  Back'
<1> DEFINE s == Encoding(ba, kind, v)
           r == writeItem(ba, kind, v)
           made == [at |-> ba.position, len |-> Len(s), kind |-> kind,
                    val |-> Given(kind, v), little |-> ba.little]
<1>0. Sound(ba)
  BY DEF Inv
<1>1. s \in Seq(Byte) /\ Writes(ba, r, s, Len(s))
  BY <1>0, WriteItemFacts
<1>2. Return(r, "write", kind, s) /\ (item' = Kept(ba.position, Len(s)) \/ (r.end = "ok" /\ item' = made))
  BY DEF Write, Given
<1>3. s = Encoding([little |-> ba.little], kind, v)
  BY DEF Encoding, Fixed
<1> HIDE DEF s, r
<1>4. /\ r.end = "down" => ba' = ba /\ out' = out
      /\ r.end # "down" => ba' = r.ba /\ out'.op = "write"
  BY <1>2, Left DEF Return
<1>5. CASE r.end = "down"
  BY <1>2, <1>4, <1>5, BackDown DEF Kept
<1>6. CASE r.end # "down"
  <2>1. Overlaid(ba, ba', s, Len(s))
    BY <1>1, <1>4, <1>6 DEF Writes
  <2>2. CASE item' = Kept(ba.position, Len(s))
    BY <1>1, <1>4, <1>6, <2>1, <2>2, BackWritten, BackOther
  <2>3. CASE item' = made
    <3>1. /\ ba.position \in Nat /\ Len(s) \in Nat /\ ba.size \in Nat
          /\ ba'.size = Larger(ba.size, ba.position + Len(s))
      BY <1>0, <1>1, <2>1, SoundTypes, LenProperties DEF Overlaid
    <3>2. ba'.size \in Nat /\ ba.position + Len(s) <= ba'.size
      BY <3>1 DEF Larger
    <3>3. ASSUME NEW i \in 1 .. Len(s) PROVE Cell(ba', ba.position + i - 1) = s[i]
      <4> DEFINE j == ba.position + i - 1
      <4>1. /\ j \in 0 .. ba'.size - 1 /\ ba.position <= j /\ j < ba.position + Len(s)
            /\ j - ba.position + 1 = i
        BY <3>1, <3>2
      <4> HIDE DEF j
      <4>2. Cell(ba', j) = s[i]
        BY <2>1, <4>1 DEF Overlaid
      <4> QED BY <4>2 DEF j
    <3>4. Stored(ba', ba.position, s)
      BY <3>1, <3>2, <3>3 DEF Stored
    <3>5. /\ item'.at = ba.position /\ item'.len = Len(s) /\ item'.kind = kind
          /\ item'.val = Given(kind, v) /\ item'.little = ba.little
      BY <2>3
    <3>6. PICK e \in Seq(Byte) : e = s
      BY <1>1
    <3>7. Held(v, e)'
      BY <1>3, <3>4, <3>5, <3>6 DEF Held
    <3>8. ItemRight'
      BY <3>5, <3>7 DEF ItemRight
    <3> QED BY <1>4, <1>6, <3>8, BackOther
  <2> QED BY <1>2, <2>2, <2>3
<1> QED BY <1>5, <1>6

\* Typed reads: at the item they return the item.
LEMMA BackRead ==
    ASSUME EncodingsInvert, Inv, Back, NEW kind \in Kind \ {"raw"}, Read(kind)
    PROVE  Back'
<1> DEFINE r == readItem(ba, kind)
<1>0. Sound(ba) /\ Return(r, "read", kind, <<>>) /\ item' = item
  BY DEF Inv, Read
<1>1. /\ r.end = "down" => ba' = ba /\ out' = out
      /\ r.end # "down" => /\ ba' = r.ba /\ out'.op = "read" /\ out'.kind = kind
                           /\ out'.at = ba.position /\ out'.got = r.got /\ out'.end = r.end
  BY <1>0, Left DEF Return
<1>2. CASE r.end = "down"
  BY <1>0, <1>1, <1>2, BackDown
<1>3. CASE r.end # "down"
  <2>1. Reads(ba, r)
    BY <1>0, ReadItemFacts
  <2>2. Sound(ba') /\ ba'.nodes = ba.nodes /\ ba'.size = ba.size
    BY <1>1, <1>3, <2>1 DEF Reads, Consumed
  <2>3. ItemRight'
    <3>1. ba.size <= ba'.size
      BY <2>2, SoundTypes
    <3> QED BY <1>0, <2>2, <3>1, BackUnwritten
  <2>4. ASSUME item.at = ba.position, item.kind = kind,
               kind \in {"fixed", "strF"} => item.little = ba'.little
        PROVE  r.end = "ok" /\ Len(r.got) = item.len /\ Value(ba', kind, r.got) = item.val
    <3>1. kind \in {"fixed", "strF"} => ba'.little = ba.little
      BY <1>0, <1>1, <1>3, LittleKept
    <3>2. kind # "none"
      BY DEF Kind
    <3>3. PICK v \in Values(kind), e \in Seq(Byte) : Held(v, e)
      BY <2>4, <3>2 DEF Back, ItemRight
    <3>4. /\ e = Encoding([little |-> item.little], kind, v) /\ item.len = Len(e)
          /\ Stored(ba, ba.position, e) /\ item.val = Given(kind, v)
      BY <2>4, <3>3 DEF Held
    <3>5. e = Encoding(ba, kind, v)
      <4>1. CASE kind \in {"fixed", "strF"}
        <5>1. item.little = ba.little
          BY <2>4, <3>1, <4>1
        <5> QED BY <3>4, <5>1 DEF Encoding, Fixed
      <4>2. CASE kind \notin {"fixed", "strF"}
        BY <3>4, <4>2 DEF Encoding, Kind
      <4> QED BY <4>1, <4>2
    <3> HIDE DEF r
    <3>6. r.end = "ok" /\ r.got = e /\ Value(ba', kind, e) = Given(kind, v)
      BY <1>0, <1>3, <3>1, <3>3, <3>4, <3>5, ItemBack DEF r
    <3> QED BY <3>4, <3>6
  <2> HIDE DEF r
  <2>5. ReadsBack'
    BY <1>0, <1>1, <1>3, <2>4 DEF ReadsBack
  <2> QED BY <1>1, <1>3, <2>3, <2>5 DEF Back
<1> QED BY <1>2, <1>3

\* Calls that only look.
LEMMA BackLook ==
    ASSUME Inv, Back, NEW r, r.end = "down" \/ r.ba = ba, NEW op, op # "read", NEW at,
           Leave(r, op, "raw", at, <<>>), item' = item
    PROVE  Back'
<1>1. /\ r.end = "down" => ba' = ba /\ out' = out
      /\ r.end # "down" => ba' = r.ba /\ out'.op = op
  BY Left
<1>2. CASE r.end = "down"
  BY <1>1, <1>2, BackDown
<1>3. CASE r.end # "down"
  <2>1. ba' = ba /\ Sound(ba) /\ ba.size \in Nat
    BY <1>1, <1>3, SoundTypes DEF Inv
  <2>2. ba.size <= ba'.size
    BY <2>1
  <2>3. ItemRight'
    BY <2>1, <2>2, BackUnwritten
  <2> QED BY <1>1, <1>3, <2>3, BackOther
<1> QED BY <1>2, <1>3

\* Calls that take the item away.
LEMMA BackCleared ==
    ASSUME Back, NEW r, NEW op, op # "read", NEW put, Return(r, op, "raw", put), item' = NoItem
    PROVE  Back'
<1>1. /\ r.end = "down" => ba' = ba /\ out' = out
      /\ r.end # "down" => out'.op = op
  BY Left DEF Return
<1>2. ItemRight'
  BY DEF ItemRight, NoItem
<1> QED BY <1>1, <1>2, BackDown, BackOther

\* Every call.
LEMMA BackNext ==
    ASSUME EncodingsInvert, Inv, Back, Next
    PROVE  Back'
<1>0. Sound(ba) /\ ba.position \in Nat /\ ba.size \in Nat /\ MaxSize \in Nat
      /\ \A s \in Text : s \in Seq(Byte)
  BY ByteArrayAssumption, SoundTypes DEF Inv
<1>1. ASSUME NEW v \in 0 .. MaxSize, SetPosition(v) PROVE Back'
  <2> DEFINE r == setPosition(ba, v)
  <2>1. v \in Nat /\ Return(r, "move", "raw", <<>>) /\ item' = item
    BY <1>0, <1>1 DEF SetPosition
  <2>2. \/ r = Throw(ba)
        \/ r.end = "ok" /\ Moved(ba, r.ba, v)
    BY <1>0, <2>1, SetPositionFacts
  <2> HIDE DEF r
  <2>3. CASE r = Throw(ba)
    <3>1. r.ba = ba
      BY <2>3, DoneFields
    <3>2. Leave(r, "move", "raw", ba.position, <<>>)
      BY <2>1 DEF Return
    <3> QED BY <2>1, <3>1, <3>2, BackLook
  <2>4. CASE r.end = "ok" /\ Moved(ba, r.ba, v)
    <3>1. ba' = r.ba /\ out'.op = "move"
      BY <2>1, <2>4, Left DEF Return
    <3>2. Sound(ba') /\ ba'.nodes = ba.nodes /\ ba'.size = Larger(ba.size, v)
      BY <2>4, <3>1 DEF Moved
    <3>3. ba.size <= ba'.size
      BY <1>0, <2>1, <3>2 DEF Larger
    <3> QED BY <2>1, <3>1, <3>2, <3>3, BackUnwritten, BackOther
  <2> QED BY <2>2, <2>3, <2>4
<1>2. ASSUME SetIsLittleEndian PROVE Back'
  <2> DEFINE x == setIsLittleEndian(ba, ~ba.little)
  <2>1. Return(Done(x, <<>>), "endian", "raw", <<>>) /\ item' = item
    BY <1>2 DEF SetIsLittleEndian
  <2>2. ba' = x /\ out'.op = "endian"
    BY <2>1, DoneFields, Left DEF Return
  <2>3. ba \in Obj
    BY <1>0 DEF Sound
  <2>4. /\ x \in Obj /\ x.nodes = ba.nodes /\ x.cur = ba.cur /\ x.position = ba.position
        /\ x.size = ba.size /\ x.capacity = ba.capacity
    BY <2>3 DEF setIsLittleEndian, Obj
  <2> HIDE DEF x
  <2>5. Sound(ba') /\ ba'.nodes = ba.nodes /\ ba.size <= ba'.size
    BY <1>0, <2>2, <2>4 DEF Sound
  <2> QED BY <2>1, <2>2, <2>5, BackUnwritten, BackOther
<1>3. ASSUME ShowText \/ WriteToFile PROVE Back'
  <2>1. PICK r \in {toString(ba), writeToFile(ba)} :
            Leave(r, "peek", "raw", ba.position, <<>>) /\ item' = item
    BY <1>3 DEF ShowText, WriteToFile, Return
  <2>2. ba.size - ba.position \in Int
    BY <1>0
  <2>3. r.end = "down" \/ r.ba = ba
    BY <1>0, <2>1, <2>2, ToStringFacts, WriteToFileFacts, DoneFields, FaultFields
  <2> QED BY <2>1, <2>3, BackLook
<1>4. ASSUME NEW n \in 0 .. getReadSize(ba) + 1, NEW p \in 0 .. MaxSize,
             ReadAt(n, p) \/ GetReadBuffersAt(n, p)
      PROVE  Back'
  <2>1. n \in Nat /\ p \in Nat
    BY <1>0 DEF getReadSize
  <2>2. CASE ReadAt(n, p)
    <3> DEFINE r == readAt(ba, n, p)
    <3>1. Leave(r, "readAt", "raw", p, <<>>) /\ item' = item
      BY <2>2 DEF ReadAt, ReturnAt
    <3>2. r = Throw(ba) \/ r.end = "down" \/ r.ba = ba
      BY <1>0, <2>1, ReadAtFacts
    <3>3. r.end = "down" \/ r.ba = ba
      BY <3>2, DoneFields
    <3> HIDE DEF r
    <3> QED BY <3>1, <3>3, BackLook
  <2>3. CASE GetReadBuffersAt(n, p)
    <3> DEFINE r == getReadBuffersAt(ba, n, p)
    <3>1. Leave(r, "buffersAt", "raw", p, <<>>) /\ item' = item
      BY <2>3 DEF GetReadBuffersAt, ReturnAt
    <3>2. r.end = "down" \/ r.ba = ba
      BY <1>0, <2>1, <3>1, ReadBuffersAtFacts
    <3> HIDE DEF r
    <3> QED BY <3>1, <3>2, BackLook
  <2> QED BY <1>4, <2>2, <2>3
<1>5. ASSUME NEW content \in Text, ReadFromFile(content) PROVE Back'
  <2>1. content \in Seq(Byte)
    BY <1>0
  <2>2. Writes(ba, readFromFile(ba, content), content, Len(content))
    BY <1>0, <2>1, ReadFromFileFacts
  <2> QED BY <1>5, <2>1, <2>2, BackStore DEF ReadFromFile
<1>6. ASSUME NEW fill \in Text, NEW length \in 0 .. MaxSize, StreamRead(length, fill) PROVE Back'
  <2>1. fill \in Seq(Byte) /\ length \in Nat /\ Len(fill) <= length
    BY <1>0, <1>6 DEF StreamRead
  <2>2. Writes(ba, streamRead(ba, length, fill), fill, Len(fill))
    BY <1>0, <2>1, StreamReadFacts
  <2> QED BY <1>6, <2>1, <2>2, BackStore DEF StreamRead
<1>7. ASSUME NEW length \in 0 .. MaxSize, NEW sent \in 0 .. MaxSize, StreamWrite(length, sent)
      PROVE  Back'
  <2>1. length \in Nat /\ sent \in Nat
    BY <1>0
  <2>2. /\ Return(streamWrite(ba, length, sent), "send", "raw", <<>>) /\ item' = item
        /\ sent <= Len(getReadBuffers(ba, length).got)
    BY <1>7 DEF StreamWrite
  <2>3. Reads(ba, streamWrite(ba, length, sent))
    BY <1>0, <2>1, <2>2, StreamWriteFacts
  <2> QED BY <2>2, <2>3, BackConsumed
<1>8. ASSUME NEW fill \in Text, EchoTurn(BaseSize, fill) PROVE Back'
  BY <1>8, BackCleared DEF EchoTurn
<1>9. ASSUME Clear PROVE Back'
  BY <1>9, BackCleared DEF Clear
<1> QED BY <1>1, <1>2, <1>3, <1>4, <1>5, <1>6, <1>7, <1>8, <1>9, BackWrite, BackRead DEF Next

\* A typed read where a value of its kind was written, and not overwritten since, returns
\* the value; and the const reads return the contents where PeeksRight claims it.  For
\* every block size and any values whose encodings invert, which TLC evaluates for all
\* integers of a width (CodecAssumption of MCByteArray).
THEOREM TypedReadsRight == ASSUME EncodingsInvert PROVE Spec => []ReadsRight
<1>1. Init => Back
  BY DEF Init, Back, ItemRight, ReadsBack, NoItem
<1>2. Inv /\ Back /\ [Next]_vars => Back'
  <2> SUFFICES ASSUME Inv, Back, [Next]_vars PROVE Back'
    OBVIOUS
  <2>1. CASE Next
    BY <2>1, BackNext
  <2>2. CASE UNCHANGED vars
    BY <2>2 DEF vars, Back, ItemRight, Held, ReadsBack
  <2> QED BY <2>1, <2>2
<1>3. Inv /\ Back => ReadsRight
  BY DEF Inv, Back, ReadsRight
<1> QED BY <1>1, <1>2, <1>3, InvHolds, PTL DEF Spec
==============================================================================
