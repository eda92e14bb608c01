-------------------------- MODULE HttpclientMachine --------------------------
(***************************************************************************)
(* The automaton of the HTTP response parser, httpclient_parser.rl.cc, as  *)
(* a set of rules of the same form as Http11Machine's.  Besides the status *)
(* line and the header fields it knows three headers by name, whatever the *)
(* case of their letters, and runs actions of its own for their values.    *)
(***************************************************************************)
EXTENDS Integers, Sequences

Char == 0 .. 128
Start == 1          \* httpclient_parser_start
ErrorState == 0     \* httpclient_parser_error
FirstFinal == 120   \* httpclient_parser_first_final

Go(from, on, to, do) == [from |-> from, on |-> on, to |-> to, do |-> do]

LF == {10}
CR == {13}
Colon == {58}
Digit == 48 .. 57
XDigit == Digit \cup (65 .. 70) \cup (97 .. 102)
Blank == {9, 11, 12, 32}
Space == 9 .. 13 \cup {32}
Token == ({33, 42, 43, 45, 46, 124, 126} \cup (35 .. 39) \cup Digit \cup (65 .. 90)) \cup (94 .. 122)

\* A letter of either case; "-" is itself.
Case(l) == IF l \in 97 .. 122 THEN {l, l - 32} ELSE {l}

\* The words, after their first letter.
onnection == <<111, 110, 110, 101, 99, 116, 105, 111, 110>>
ent_length == <<101, 110, 116, 45, 108, 101, 110, 103, 116, 104>>
ransfer_encoding ==
    <<114, 97, 110, 115, 102, 101, 114, 45, 101, 110, 99, 111, 100, 105, 110, 103>>
lose == <<108, 111, 115, 101>>
hunked == <<104, 117, 110, 107, 101, 100>>

\* The word's letters lead from st s on, one state each.
Spell(s, word) == {Go(s + i - 1, Case(word[i]), s + i, <<>>) : i \in 1 .. Len(word)}

\* A line ends at st s with "\n", or with "\r" and st cr.
Line(s, do, lf, cr) == {Go(s, LF, lf, do), Go(s, CR, cr, do)}

------------------------------------------------------------------------------
(* The first line: of a chunk or of a response *)

Chunk ==
    {Go(1, XDigit, 2, <<"mark">>), Go(2, XDigit, 2, <<>>),
     Go(2, LF, 120, <<"chunk_size", "done">>), Go(2, CR, 3, <<"chunk_size">>),
     Go(2, {59}, 4, <<"chunk_size">>), Go(3, LF, 120, <<"done">>)}

\* ";" name "=" value after the chunk's size.
ChunkExtension ==
    LET end(s, do) == {Go(s, LF, 120, do \o <<"done">>), Go(s, CR, 3, do), Go(s, {59}, 4, do)}
    IN  end(5, <<"write_field", "start_value", "write_value">>) \cup end(7, <<"write_value">>)
        \cup {Go(4, Token, 5, <<"start_field">>), Go(5, Token, 5, <<>>),
              Go(5, {61}, 6, <<"write_field", "start_value">>),
              Go(6, Token, 7, <<"start_value">>), Go(7, Token, 7, <<>>)}

StatusLine ==
    {Go(1, {72}, 8, <<"mark">>), Go(8, {84}, 9, <<>>), Go(9, {84}, 10, <<>>),
     Go(10, {80}, 11, <<>>), Go(11, {47}, 12, <<>>), Go(13, {46}, 14, <<>>)}
    \cup {Go(s, Digit, IF s \in {12, 14} THEN s + 1 ELSE s, <<>>) : s \in {12, 13, 14, 15}}
    \cup {Go(15, {32}, 16, <<"http_version">>), Go(16, Digit, 17, <<"mark">>),
          Go(17, Digit, 17, <<>>), Go(17, {32}, 18, <<"status_code">>),
          Go(18, Char \ LF, 19, <<"mark">>), Go(19, Char \ (LF \cup CR), 19, <<>>)}
    \cup Line(19, <<"reason_phrase">>, 20, 24)

------------------------------------------------------------------------------
(* Header names *)

\* A header starts at st s, after the actions do; c is the state after a "c" (doc
\* before it) and own the characters st s has other rules for.
NameStart(s, do, c, doc, own) ==
    {Go(s, Token \ (Case(99) \cup Case(116) \cup own), 21, do \o <<"start_field">>),
     Go(s, Case(99), c, doc \o <<"start_field">>),
     Go(s, Case(116), 44, do \o <<"start_field">>)}

\* Any other character of a name, and its colon.
InName(s, own, colon) ==
    {Go(s, Token \ own, 21, <<>>), Go(s, Colon, colon, <<"write_field">>)}

\* The word in a name; fork are the letters at which another word goes on from
\* st at.
Names(s, word, at, fork, colon) ==
    Spell(s, word)
    \cup UNION {InName(s + i - 1, Case(word[i]) \cup (IF s + i - 1 = at THEN fork ELSE {}), 22) :
                i \in 1 .. Len(word)}
    \cup InName(s + Len(word), {}, colon)

OtherName ==
    InName(21, {}, 22) \cup NameStart(20, <<>>, 25, <<>>, {})
    \cup {Go(20, LF, 120, <<"done">>), Go(20, CR, 3, <<>>), Go(24, LF, 20, <<>>)}

ConnectionName == Names(25, onnection, 27, Case(116), 35)

ContentLengthName == Names(101, ent_length, 101, {}, 112) \cup {Go(27, Case(116), 101, <<>>)}

TransferEncodingName == Names(44, ransfer_encoding, 44, {}, 61)

------------------------------------------------------------------------------
(* Header values *)

\* Before the value; st lf and cr follow an empty line.
ValueStart(s, own, lf, cr) ==
    {Go(s, Char \ (Space \cup own), 23, <<"start_value">>), Go(s, Blank, s, <<"start_value">>)}
    \cup Line(s, <<"start_value", "write_value">>, lf, cr)

InValue(s, own) == {Go(s, Char \ (LF \cup CR \cup own), 23, <<>>)}

InValues(s, word) ==
    Spell(s, word)
    \cup UNION {InValue(s + i - 1, Case(word[i]))
                \cup Line(s + i - 1, <<"write_value">>, 20, 24) : i \in 1 .. Len(word)}
    \cup InValue(s + Len(word), {})

OtherValue ==
    ValueStart(22, {}, 20, 24) \cup InValue(23, {}) \cup Line(23, <<"write_value">>, 20, 24)

\* A known value may come after empty lines: s, once white space is seen; mid and
\* cr after "\n" and "\r" and final after an empty line, which is also the end of
\* the headers.
Later(s, mid, cr, crmid, final, on, to, do) ==
    {Go(f, Space, s, <<>>) : f \in {s, final}}
    \cup {Go(f, Blank \cup CR, s, <<>>) : f \in {cr, crmid}}
    \cup {Go(f, on, to, do) : f \in {s, final, cr, crmid}}
    \cup {Go(mid, Blank, s, <<>>), Go(mid, LF, final, <<"done">>), Go(mid, CR, crmid, <<>>),
          Go(cr, LF, mid, <<>>), Go(crmid, LF, final, <<"done">>)}

Connection ==
    ValueStart(35, Case(99), 36, 95) \cup {Go(35, Case(99), 96, <<"start_value">>)}
    \cup InValues(96, lose) \cup Line(100, <<"write_value">>, 43, 88)

ConnectionLater ==
    Later(37, 36, 95, 89, 122, Case(99), 38, <<>>) \cup NameStart(36, <<>>, 90, <<>>, {})
    \cup Spell(38, lose) \cup Line(42, <<>>, 43, 88) \cup {Go(88, LF, 43, <<>>)}

\* "close" at the start of the next line is also the start of a name.
CloseName ==
    Names(90, lose, 90, Case(111), 22) \cup Line(94, <<>>, 43, 88) \cup {Go(90, Case(111), 26, <<>>)}

CloseSeen ==
    LET close == <<"write_connection_close">>
    IN  NameStart(43, close, 25, close, {})
        \cup {Go(43, LF, 120, close \o <<"done">>),
              Go(43, CR, 3, close)}

Chunked(s) == {Go(s, LF, 20, <<"write_value", "trans_chunked">>), Go(s, CR, 71, <<"write_value">>)}

TransferEncoding ==
    ValueStart(61, Case(99), 62, 80) \cup {Go(61, Case(99), 81, <<"start_value">>)}
    \cup InValues(81, hunked) \cup Chunked(87)

TransferEncodingLater ==
    Later(63, 62, 80, 72, 121, Case(99), 64, <<"start_value">>) \cup NameStart(62, <<>>, 73, <<"start_value">>, {})
    \cup Spell(64, hunked) \cup Chunked(70) \cup {Go(71, LF, 20, <<"trans_chunked">>)}

\* "chunked" at the start of the next line is also the start of a name.
ChunkedName ==
    Names(73, hunked, 73, Case(111), 22) \cup Chunked(79) \cup {Go(73, Case(111), 26, <<>>)}

LengthRead == <<"write_content_len", "write_value">>

ContentLength ==
    ValueStart(112, Digit, 113, 118) \cup InValue(119, Digit)
    \cup {Go(112, Digit, 119, <<"start_value">>), Go(119, Digit, 119, <<>>)}
    \cup Line(119, LengthRead, 20, 24)

ContentLengthLater ==
    Later(114, 113, 118, 116, 123, Digit, 115, <<"start_value">>) \cup NameStart(113, <<>>, 25, <<>>, Digit)
    \cup {Go(115, Digit, 115, <<>>)} \cup Line(115, LengthRead, 20, 24)

\* Digits at the start of the next line are also the start of a name.
DigitsName ==
    {Go(113, Digit, 117, <<"start_value", "start_field">>), Go(117, Digit, 117, <<>>)}
    \cup InName(117, Digit, 22) \cup Line(117, LengthRead, 20, 24)

------------------------------------------------------------------------------
Rules ==
    Chunk \cup ChunkExtension \cup StatusLine \cup OtherName \cup ConnectionName
    \cup ContentLengthName \cup TransferEncodingName \cup OtherValue
    \cup Connection \cup ConnectionLater \cup CloseName \cup CloseSeen
    \cup TransferEncoding \cup TransferEncodingLater \cup ChunkedName
    \cup ContentLength \cup ContentLengthLater \cup DigitsName

States == 0 .. 123

\* The rules by state.
From == [s \in States |-> {r \in Rules : r.from = s}]

==============================================================================
