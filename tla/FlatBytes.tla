------------------------------ MODULE FlatBytes ------------------------------
(***************************************************************************)
(* What ByteArray promises: one growing sequence of bytes and a position   *)
(* in it, whatever blocks it is stored in.  A write overwrites from the    *)
(* position and extends, a read returns the bytes at the position and      *)
(* moves past them; moving the position past the end extends the sequence  *)
(* by bytes of any value.  The process may end in a call.                  *)
(***************************************************************************)
EXTENDS Integers, Sequences

CONSTANT MaxSize     \* bound: bytes in the sequence

VARIABLES
    data,       \* the bytes
    pos,        \* the position, 0 .. Len(data)
    put,        \* the bytes the last call was given to store
    got,        \* the bytes the last call handed out
    down        \* did the process end?

flatVars == <<data, pos, put, got, down>>

Init == data = <<>> /\ pos = 0 /\ put = <<>> /\ got = <<>> /\ ~down

Rest == Len(data) - pos

Slice(n) == SubSeq(data, pos + 1, pos + n)

\* Store what the caller gave, all of it, at the position.
Put ==
    /\ data' = SubSeq(data, 1, pos) \o put'
               \o SubSeq(data, pos + Len(put') + 1, Len(data))
    /\ pos' = pos + Len(put')
    /\ got' = <<>>

Get(n) == got' = Slice(n) /\ pos' = pos + n /\ put' = <<>> /\ UNCHANGED data

Peek(n) == got' = Slice(n) /\ put' = <<>> /\ UNCHANGED <<data, pos>>

Move(v) ==
    /\ pos' = v
    /\ put' = <<>> /\ got' = <<>>
    /\ IF v <= Len(data)
       THEN UNCHANGED data
       ELSE Len(data') = v /\ SubSeq(data', 1, Len(data)) = data

Clear == data' = <<>> /\ pos' = 0 /\ put' = <<>> /\ got' = <<>>

\* Start again with what was given and hand it out: a turn of the echo server.
Echo == data' = put' /\ pos' = 0 /\ got' = put'

Crash == down' /\ UNCHANGED <<data, pos, put, got>>

\* Reading nothing (Get(0)) is also what a call that throws does.
Next ==
    \/ /\ ~down /\ ~down'
       /\ \/ Put
          \/ \E n \in 0 .. Rest : Get(n) \/ Peek(n)
          \/ \E v \in 0 .. MaxSize : Move(v)
          \/ Clear
          \/ Echo
    \/ ~down /\ Crash

Spec == Init /\ [][Next]_flatVars

==============================================================================
