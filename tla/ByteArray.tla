------------------------------ MODULE ByteArray ------------------------------
(***************************************************************************)
(* sylar::ByteArray (bytearray.h, bytearray.cc): bytes in a linked list of *)
(* blocks of BaseSize bytes, a position, and m_cur, the block the position *)
(* is in; with the two SocketStream calls that move bytes between a socket *)
(* and the array (socket_stream.cc) and the receive loop of the echo       *)
(* server example.                                                         *)
(*                                                                         *)
(* The object is the record ba; each member function is an operator from   *)
(* the object to what the call leaves and returns, so a function that      *)
(* calls others composes them, and an exception thrown half way keeps what *)
(* was already consumed.  A call through a null block pointer ends the     *)
(* process.  The array is not locked: calls do not overlap.                *)
(***************************************************************************)
EXTENDS Integers, Sequences, FiniteSets, SequencesExt, Codec

CONSTANTS
    BaseSize,   \* m_baseSize
    Wide,       \* bytes of the fixed integers longer than one byte
    Width,      \* bits of the variable-length integers
    Text,       \* the byte strings written
    Number,     \* the unsigned integers written
    Garbage,    \* the bytes found in memory never written
    MaxSize,    \* bound: bytes in the array
    MaxCalls    \* bound: calls made

ASSUME ByteArrayAssumption ==
    /\ BaseSize \in Nat \ {0} /\ Wide \in Nat \ {0}
    /\ Width \in Nat \ {0} /\ Group \in Nat \ {0} /\ MaxSize \in Nat /\ MaxCalls \in Nat
    /\ Garbage \subseteq Byte
    /\ Number \subseteq 0 .. 2 ^ Width - 1
    /\ \A s \in Text : s \in Seq(Byte)

\* The encoders make bytes, and the decoders numbers of any bytes.
ASSUME EncodingAssumption ==
    /\ 2 ^ Group \in Nat
    /\ \A u \in Number \cup {Len(s) : s \in Text} :
          InMemory(Wide, u) \in Seq(Byte) /\ EncodeVarint(u) \in Seq(Byte)
    /\ \A u \in Number : EncodeVarint(EncodeZigzag(Width, Signed(Width, u))) \in Seq(Byte)
    /\ \A bytes \in [1 .. Wide -> Byte] : FromMemory(bytes) \in Nat
    /\ \A n \in 1 .. VarintMax(Width) : \A bytes \in [1 .. n -> Byte] :
          DecodeVarint(Width, bytes) \in Nat

VARIABLES
    ba,         \* the object
    out,        \* ghost: the last call, what it was given and handed out
    fault,      \* the call that ended the process
    calls,      \* calls made
    item        \* ghost: one typed value in the array, any, and where it starts

vars == <<ba, out, fault, calls, item>>

Null == 0
NoItem == [at |-> 0, len |-> 0, kind |-> "none", val |-> <<>>, little |-> FALSE]
NoFault == [op |-> "none", size |-> 0, room |-> 0]

\* ByteArray::Node: a block, of whatever bytes new char[] finds; the list is the
\* sequence of its blocks.
Node(garbage) == [o \in 0 .. BaseSize - 1 |-> garbage]

New(garbage) ==
    [nodes |-> <<Node(garbage)>>, cur |-> 1, position |-> 0, size |-> 0,
     capacity |-> BaseSize, little |-> FALSE, garbage |-> garbage]

\* How a call ends: normally, by an exception, or with the process.
Done(b, bytes) == [ba |-> b, got |-> bytes, end |-> "ok", fault |-> NoFault]
Throw(b) == [ba |-> b, got |-> <<>>, end |-> "throw", fault |-> NoFault]
Down(b, op, n) ==
    [ba |-> b, got |-> <<>>, end |-> "down",
     fault |-> [op |-> op, size |-> n, room |-> b.capacity - b.position]]

\* One call after another, unless the first did not return.
Then(r, Call(_)) ==
    IF r.end # "ok" THEN r
    ELSE LET s == Call(r.ba) IN [s EXCEPT !.got = r.got \o @]

\* A loop of at most n turns, from start on.
Turns(n, start, Turn(_, _)) ==
    LET after[k \in 0 .. n] == IF k = 0 THEN start ELSE Turn(k, after[k - 1])
    IN  after[n]

getReadSize(b) == b.size - b.position
getCapacity(b) == b.capacity - b.position

\* The block k steps after block c, Null past the end.
Hop(b, c, k) == IF c # Null /\ c + k <= Len(b.nodes) THEN c + k ELSE Null

\* The copy loop of write, read and the buffer functions visits n bytes from
\* offset npos of block c on; it dereferences a block before it looks at n.
LoopRuns(b, c, npos, n) == Hop(b, c, IF n = 0 THEN 0 ELSE (npos + n - 1) \div BaseSize) # Null

Load(b, c, npos, n) ==
    [i \in 1 .. n |-> b.nodes[c + (npos + i - 1) \div BaseSize][(npos + i - 1) % BaseSize]]

Store(b, c, npos, bytes) ==
    [k \in 1 .. Len(b.nodes) |->
        [o \in 0 .. BaseSize - 1 |->
            LET i == (k - c) * BaseSize + o - npos + 1
            IN  IF i \in DOMAIN bytes THEN bytes[i] ELSE b.nodes[k][o]]]

Larger(x, y) == IF x > y THEN x ELSE y

------------------------------------------------------------------------------
(* Storage *)

addCapacity(b, size) ==
    LET old_cap == getCapacity(b)
        more == size - old_cap
        count == (more \div BaseSize) + (IF more % BaseSize > old_cap THEN 1 ELSE 0)
    IN  IF size = 0 \/ old_cap >= size THEN b
        ELSE [b EXCEPT !.nodes = @ \o [i \in 1 .. count |-> Node(b.garbage)],
                       !.capacity = @ + count * BaseSize,
                       !.cur = IF old_cap = 0 THEN Len(b.nodes) + 1 ELSE @]

\* Faulty variant: m_cur stays on a block that has just been filled.
WriteStaysOnBlock(b0, bytes) ==
    LET n == Len(bytes)
        b == addCapacity(b0, n)
        npos == b.position % BaseSize
    IN  IF n = 0 THEN Done(b0, <<>>)
        ELSE IF ~LoopRuns(b, b.cur, npos, n) THEN Down(b0, "write", n)
        ELSE Done([b EXCEPT !.nodes = Store(b, b.cur, npos, bytes),
                            !.cur = Hop(b, b.cur, (npos + n - 1) \div BaseSize),
                            !.position = @ + n,
                            !.size = Larger(@, b.position + n)], <<>>)

write(b0, bytes) ==
    LET n == Len(bytes)
        b == addCapacity(b0, n)
        npos == b.position % BaseSize
    IN  IF n = 0 THEN Done(b0, <<>>)
        ELSE IF ~LoopRuns(b, b.cur, npos, n) THEN Down(b0, "write", n)
        ELSE Done([b EXCEPT !.nodes = Store(b, b.cur, npos, bytes),
                            !.cur = Hop(b, b.cur, (npos + n) \div BaseSize),
                            !.position = @ + n,
                            !.size = Larger(@, b.position + n)], <<>>)

read(b, n) ==
    LET npos == b.position % BaseSize
    IN  IF n > getReadSize(b) THEN Throw(b)
        ELSE IF ~LoopRuns(b, b.cur, npos, n) THEN Down(b, "read", n)
        ELSE Done([b EXCEPT !.cur = Hop(b, b.cur, (npos + n) \div BaseSize),
                            !.position = @ + n],
                  Load(b, b.cur, npos, n))

\* read(buf, size, position) const: the offset is position's, the block m_cur.
readAt(b, n, position) ==
    LET npos == position % BaseSize
    IN  IF n > getReadSize(b) THEN Throw(b)
        ELSE IF ~LoopRuns(b, b.cur, npos, n) THEN Down(b, "readAt", n)
        ELSE Done(b, Load(b, b.cur, npos, n))

\* Faulty variant: without the step past a block whose end is the position.
SetPositionAtBlockEnd(b, v) ==
    IF v > b.capacity THEN Throw(b)
    ELSE Done([b EXCEPT !.position = v, !.size = Larger(@, v),
                        !.cur = Hop(b, 1, IF v = 0 THEN 0 ELSE (v - 1) \div BaseSize)], <<>>)

setPosition(b, v) ==
    IF v > b.capacity THEN Throw(b)
    ELSE Done([b EXCEPT !.position = v, !.size = Larger(@, v),
                        !.cur = Hop(b, 1, v \div BaseSize)], <<>>)

clear(b) ==
    [b EXCEPT !.position = 0, !.size = 0, !.capacity = BaseSize, !.cur = 1,
              !.nodes = <<b.nodes[1]>>]

setIsLittleEndian(b, val) == [b EXCEPT !.little = val]

------------------------------------------------------------------------------
(* Typed values.  The kinds are the families of write and read functions:   *)
(* byte (Fint8, Fuint8), fixed (Fint16 .. Fuint64, Float, Double), uvar and *)
(* svar (Uint32/64, Int32/64), strF (StringF16/32/64), strV (StringVint)    *)
(* and raw (StringWithoutLength).                                           *)

Fixed(b, v) == IF b.little THEN InMemory(Wide, v) ELSE byteswap(InMemory(Wide, v))

readFixed(b) == read(b, Wide)

FixedValue(b, bytes) == FromMemory(IF b.little THEN bytes ELSE byteswap(bytes))

\* Faulty variant: the shift count runs out a byte too early.
ReadUintShort(b) ==
    LET stop(r) == r.end # "ok" \/ (r.got # <<>> /\ Last(r.got) < 2 ^ Group)
        turn(k, r) == IF stop(r) THEN r ELSE Then(r, LAMBDA x : read(x, 1))
    IN  Turns(VarintMax(Width) - 1, Done(b, <<>>), turn)

\* The loop of readUint32/64: a byte at a time until one has its top bit clear.
readUint(b) ==
    LET stop(r) == r.end # "ok" \/ (r.got # <<>> /\ Last(r.got) < 2 ^ Group)
        turn(k, r) == IF stop(r) THEN r ELSE Then(r, LAMBDA x : read(x, 1))
    IN  Turns(VarintMax(Width), Done(b, <<>>), turn)

\* A length, then as many bytes.
writeString(b, prefix, text) == Then(write(b, prefix), LAMBDA x : write(x, text))

readString(r, length) == IF r.end # "ok" THEN r ELSE Then(r, LAMBDA x : read(x, length))

Kind == {"byte", "fixed", "uvar", "svar", "strF", "strV", "raw"}

Values(kind) ==
    CASE kind = "byte" -> Number \cap Byte
      [] kind \in {"fixed", "uvar"} -> Number
      [] kind = "svar" -> {Signed(Width, u) : u \in Number}
      [] OTHER -> Text

writeItem(b, kind, v) ==
    CASE kind = "byte" -> write(b, <<v>>)
      [] kind = "fixed" -> write(b, Fixed(b, v))
      [] kind = "uvar" -> write(b, EncodeVarint(v))
      [] kind = "svar" -> write(b, EncodeVarint(EncodeZigzag(Width, v)))
      [] kind = "strF" -> writeString(b, Fixed(b, Len(v)), v)
      [] kind = "strV" -> writeString(b, EncodeVarint(Len(v)), v)
      [] kind = "raw" -> write(b, v)

readItem(b, kind) ==
    CASE kind = "byte" -> read(b, 1)
      [] kind = "fixed" -> readFixed(b)
      [] kind \in {"uvar", "svar"} -> readUint(b)
      [] kind = "strF" -> LET r == readFixed(b) IN readString(r, FixedValue(b, r.got))
      [] kind = "strV" -> LET r == readUint(b) IN readString(r, DecodeVarint(Width, r.got))

\* The value a read function makes of the bytes it consumed; a number as a
\* sequence of one, like a text.
Value(b, kind, bytes) ==
    CASE kind = "byte" -> bytes
      [] kind = "fixed" -> <<FixedValue(b, bytes)>>
      [] kind = "uvar" -> <<DecodeVarint(Width, bytes)>>
      [] kind = "svar" -> <<DecodeZigzag(Width, DecodeVarint(Width, bytes))>>
      [] kind = "strF" -> SubSeq(bytes, Wide + 1, Len(bytes))
      [] kind = "strV" ->
            LET n == CHOOSE k \in 1 .. Len(bytes) :
                         bytes[k] < 2 ^ Group /\ \A j \in 1 .. k - 1 : bytes[j] >= 2 ^ Group
            IN  SubSeq(bytes, n + 1, Len(bytes))

------------------------------------------------------------------------------
(* Whole contents: text, files, scatter/gather buffers *)

toString(b) ==
    IF getReadSize(b) = 0 THEN Done(b, <<>>) ELSE readAt(b, getReadSize(b), b.position)

\* The blocks written one per turn: a turn writes what is left, at most a
\* block, less the offset of the position in its block.  A length that is not
\* positive writes nothing, and the list runs out before the bytes do.
writeToFile(b) ==
    LET turn(k, s) ==
            LET diff == s.pos % BaseSize
                len == (IF s.left > BaseSize THEN BaseSize ELSE s.left) - diff
            IN  IF s.left <= 0 \/ s.c = Null THEN s
                ELSE [c |-> Hop(b, s.c, 1), pos |-> s.pos + len, left |-> s.left - len,
                      got |-> s.got \o Load(b, s.c, diff, Larger(len, 0))]
        start == [c |-> b.cur, pos |-> b.position, left |-> getReadSize(b), got |-> <<>>]
        last == Turns(Len(b.nodes), start, turn)
    IN  IF last.left <= 0 THEN Done(b, last.got) ELSE Down(b, "file", getReadSize(b))

\* One write per block read; the last read may find nothing.
readFromFile(b, content) ==
    LET chunk(k) == SubSeq(content, (k - 1) * BaseSize + 1,
                           IF k * BaseSize < Len(content) THEN k * BaseSize ELSE Len(content))
        turn(k, r) == Then(r, LAMBDA x : write(x, chunk(k)))
    IN  Turns((Len(content) + BaseSize) \div BaseSize, Done(b, <<>>), turn)

\* The bytes the iovecs point to.
getReadBuffers(b, length) ==
    LET len == IF length > getReadSize(b) THEN getReadSize(b) ELSE length
        npos == b.position % BaseSize
    IN  IF len = 0 THEN Done(b, <<>>)
        ELSE IF ~LoopRuns(b, b.cur, npos, len) THEN Down(b, "buffers", len)
        ELSE Done(b, Load(b, b.cur, npos, len))

\* The length is limited by what follows m_position, not position.
getReadBuffersAt(b, length, position) ==
    LET len == IF length > getReadSize(b) THEN getReadSize(b) ELSE length
        c == Hop(b, 1, position \div BaseSize)
        npos == position % BaseSize
    IN  IF len = 0 THEN Done(b, <<>>)
        ELSE IF ~LoopRuns(b, c, npos, len) THEN Down(b, "buffersAt", len + position)
        ELSE Done(b, Load(b, c, npos, len))

\* The room the iovecs point to starts at the position: fill is what the
\* caller puts there.
getWriteBuffers(b0, length, fill) ==
    LET b == addCapacity(b0, length)
        npos == b.position % BaseSize
    IN  IF length = 0 THEN Done(b0, <<>>)
        ELSE IF ~LoopRuns(b, b.cur, npos, length) THEN Down(b0, "write", length)
        ELSE Done([b EXCEPT !.nodes = Store(b, b.cur, npos, fill)], <<>>)

\* SocketStream::read(ba, length) of a connected socket that delivers fill.
streamRead(b, length, fill) ==
    Then(getWriteBuffers(b, length, fill),
         LAMBDA x : IF fill = <<>> THEN Done(x, <<>>)
                    ELSE setPosition(x, x.position + Len(fill)))

\* SocketStream::write(ba, length) of a connected socket that takes sent bytes.
streamWrite(b, length, sent) ==
    LET r == getReadBuffers(b, length)
    IN  IF r.end # "ok" \/ sent = 0 THEN [r EXCEPT !.got = <<>>]
        ELSE [setPosition(b, b.position + sent) EXCEPT !.got = SubSeq(r.got, 1, sent)]

\* EchoServer::handleClient, one turn of its loop: clear, room for length bytes,
\* receive, position past what came and back to 0, then print the text.
echoTurn(b, length, fill) ==
    Then(Then(getWriteBuffers(clear(b), length, fill),
              LAMBDA x : setPosition(x, x.position + Len(fill))),
         LAMBDA x : Then(setPosition(x, 0), LAMBDA y : toString(y)))

------------------------------------------------------------------------------
(* The calls of a program *)

Init ==
    /\ \E garbage \in Garbage : ba = New(garbage)
    /\ out = [op |-> "new", kind |-> "raw", at |-> 0, put |-> <<>>, got |-> <<>>, end |-> "ok"]
    /\ fault = NoFault
    /\ calls = 0
    /\ item = NoItem

\* What a call leaves: its object, and what it was given and returned.
Leave(r, op, kind, at, put) ==
    /\ ba' = IF r.end = "down" THEN ba ELSE r.ba
    /\ out' = IF r.end = "down" THEN out
              ELSE [op |-> op, kind |-> kind, at |-> at, put |-> put,
                    got |-> r.got, end |-> r.end]
    /\ fault' = r.fault

Return(r, op, kind, put) == Leave(r, op, kind, ba.position, put)
ReturnAt(r, op, position) == Leave(r, op, "raw", position, <<>>)

\* The item, if a write of n bytes at p leaves it untouched.
Kept(p, n) == IF item.at + item.len <= p \/ item.at >= p + n THEN item ELSE NoItem

Up == fault = NoFault /\ calls < MaxCalls /\ calls' = calls + 1

MayStore(n) == Up /\ ba.position + n <= MaxSize

\* The bytes a typed write was given to store.
Encoding(b, kind, v) ==
    CASE kind = "byte" -> <<v>>
      [] kind = "fixed" -> Fixed(b, v)
      [] kind = "uvar" -> EncodeVarint(v)
      [] kind = "svar" -> EncodeVarint(EncodeZigzag(Width, v))
      [] kind = "strF" -> Fixed(b, Len(v)) \o v
      [] kind = "strV" -> EncodeVarint(Len(v)) \o v
      [] kind = "raw" -> v

Write(kind, v) ==
    LET r == writeItem(ba, kind, v)
        bytes == Encoding(ba, kind, v)
    IN  /\ MayStore(Len(bytes))
        /\ Return(r, "write", kind, bytes)
        /\ \/ item' = Kept(ba.position, Len(bytes))
           \/ /\ r.end = "ok"
              /\ item' = [at |-> ba.position, len |-> Len(bytes), kind |-> kind,
                          val |-> IF kind \in {"strF", "strV", "raw"} THEN v ELSE <<v>>,
                          little |-> ba.little]

Read(kind) ==
    /\ Up
    /\ Return(readItem(ba, kind), "read", kind, <<>>)
    /\ UNCHANGED item

SetPosition(v) ==
    /\ Up
    /\ Return(setPosition(ba, v), "move", "raw", <<>>)
    /\ UNCHANGED item

Clear ==
    /\ Up
    /\ Return(Done(clear(ba), <<>>), "clear", "raw", <<>>)
    /\ item' = NoItem

SetIsLittleEndian ==
    /\ Up
    /\ Return(Done(setIsLittleEndian(ba, ~ba.little), <<>>), "endian", "raw", <<>>)
    /\ UNCHANGED item

ShowText ==
    /\ Up
    /\ Return(toString(ba), "peek", "raw", <<>>)
    /\ UNCHANGED item

ReadAt(n, position) ==
    /\ Up
    /\ ReturnAt(readAt(ba, n, position), "readAt", position)
    /\ UNCHANGED item

GetReadBuffersAt(n, position) ==
    /\ Up
    /\ ReturnAt(getReadBuffersAt(ba, n, position), "buffersAt", position)
    /\ UNCHANGED item

WriteToFile ==
    /\ Up
    /\ Return(writeToFile(ba), "peek", "raw", <<>>)
    /\ UNCHANGED item

ReadFromFile(content) ==
    /\ MayStore(Len(content))
    /\ Return(readFromFile(ba, content), "write", "raw", content)
    /\ item' = Kept(ba.position, Len(content))

StreamRead(length, fill) ==
    /\ MayStore(length) /\ Len(fill) <= length
    /\ Return(streamRead(ba, length, fill), "write", "raw", fill)
    /\ item' = Kept(ba.position, Len(fill))

StreamWrite(length, sent) ==
    /\ Up
    /\ sent <= Len(getReadBuffers(ba, length).got)
    /\ Return(streamWrite(ba, length, sent), "send", "raw", <<>>)
    /\ UNCHANGED item

EchoTurn(length, fill) ==
    /\ MayStore(-ba.position)
    /\ fill # <<>> /\ Len(fill) <= length
    /\ Return(echoTurn(ba, length, fill), "echo", "raw", fill)
    /\ item' = NoItem

Next ==
    \/ \E kind \in Kind : \E v \in Values(kind) : Write(kind, v)
    \/ \E kind \in Kind \ {"raw"} : Read(kind)
    \/ \E v \in 0 .. MaxSize : SetPosition(v)
    \/ Clear
    \/ SetIsLittleEndian
    \/ ShowText
    \/ \E n \in 0 .. getReadSize(ba) + 1, position \in 0 .. MaxSize :
          ReadAt(n, position) \/ GetReadBuffersAt(n, position)
    \/ WriteToFile
    \/ \E content \in Text : ReadFromFile(content)
    \/ \E fill \in Text, length \in 0 .. MaxSize : StreamRead(length, fill)
    \/ \E length, sent \in 0 .. MaxSize : StreamWrite(length, sent)
    \/ \E fill \in Text : EchoTurn(BaseSize, fill)

Spec == Init /\ [][Next]_vars

------------------------------------------------------------------------------
(* Properties *)

\* The bytes below m_size, in list order.
Contents == Load(ba, 1, 0, ba.size)

\* The bookkeeping of the list agrees with itself after every call, thrown or
\* not: the position is within the data, the data within the capacity, the
\* capacity is that of the blocks there are, and m_cur is the block that holds
\* the position, null exactly when the position is the capacity.
CursorRight ==
    /\ ba.position \in 0 .. ba.size
    /\ ba.size <= ba.capacity
    /\ ba.capacity = Len(ba.nodes) * BaseSize
    /\ ba.cur = IF ba.position = ba.capacity THEN Null ELSE (ba.position \div BaseSize) + 1

\* A call ends the process only where addCapacity allots a block too few (the
\* remainder of what is missing is not zero but at most the room there was),
\* where nothing is read at the end of the last block, where writeToFile starts
\* inside a block with less than a block left, and where the const reads are
\* asked for a position past m_position.
FaultCause ==
    LET more == fault.size - fault.room
    IN  CASE fault.op = "none" -> TRUE
          [] fault.op = "write" -> more > 0 /\ more % BaseSize \in 1 .. fault.room
          [] fault.op = "read" -> fault.size = 0 /\ fault.room = 0
          [] fault.op = "readAt" -> fault.size + BaseSize - 1 > fault.room \/ fault.room = 0
          [] fault.op = "file" -> fault.size < BaseSize /\ ba.position % BaseSize # 0
          [] fault.op = "buffersAt" -> fault.size > ba.size
          [] OTHER -> FALSE

\* A typed read at a place where a value of that kind was written, and not
\* overwritten since, returns the value: through block boundaries, after other
\* writes around it, whatever the position did meanwhile.  Fixed integers need
\* the byte order they were written in.
ReadsBack ==
    (/\ out.op = "read"
     /\ item.at = out.at
     /\ item.kind = out.kind
     /\ item.kind \in {"fixed", "strF"} => item.little = ba.little)
    => /\ out.end = "ok"
       /\ Len(out.got) = item.len
       /\ Value(ba, item.kind, out.got) = item.val

\* The const reads at a position return the bytes there if the position is not
\* past m_position and, for read(buf, size, position), in m_position's block.
PeeksRight ==
    (/\ out.op \in {"readAt", "buffersAt"}
     /\ out.end = "ok"
     /\ out.at <= ba.position
     /\ out.op = "readAt" => out.at \div BaseSize = ba.position \div BaseSize)
    => out.got = SubSeq(Contents, out.at + 1, out.at + Len(out.got))

\* The integers of Width bits, and the lengths written.
Codable == (0 .. 2 ^ Width - 1) \cup {Len(s) : s \in Text}

\* What the encodings promise: the bytes of an integer in memory are those of no other; a
\* varint fits into the array tmp of writeUint32/64, its last byte is the one with the top
\* bit clear, and it gives the integer back; zigzag stays within Width bits and gives every
\* signed integer back, the smallest one too.
EncodingsInvert ==
    /\ \A u \in Codable :
          LET bytes == EncodeVarint(u)
          IN  /\ FromMemory(InMemory(Wide, u)) = u
              /\ Len(bytes) \in 1 .. VarintMax(Width)
              /\ \A j \in 1 .. Len(bytes) : bytes[j] < 2 ^ Group <=> j = Len(bytes)
              /\ DecodeVarint(Width, bytes) = u
    /\ \A u \in 0 .. 2 ^ Width - 1 :
          LET z == EncodeZigzag(Width, Signed(Width, u))
          IN  z \in 0 .. 2 ^ Width - 1 /\ DecodeZigzag(Width, z) = Signed(Width, u)

\* The list of blocks is as it must be after every call, and a call that ends the
\* process is one of those the code does not survive.
ListRight == CursorRight /\ FaultCause

\* What the typed and the const reads return is what was written there.
ReadsRight == ReadsBack /\ PeeksRight

\* The list of blocks implements a flat sequence of bytes: no call loses,
\* repeats or misplaces a byte, and an exception leaves what was consumed.
Flat == INSTANCE FlatBytes WITH
    data <- Contents, pos <- ba.position, put <- out.put,
    got <- IF out.op \in {"readAt", "buffersAt"} THEN <<>> ELSE out.got,
    down <- fault # NoFault

FlatSpec == Flat!Spec

==============================================================================
