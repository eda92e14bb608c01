------------------------------ MODULE HttpParser ------------------------------
(***************************************************************************)
(* HttpRequestParser and HttpResponseParser: the automata of Http11Machine *)
(* and HttpclientMachine run over a message, one character a step, with    *)
(* the actions that remember where a token starts and the callbacks that   *)
(* store it.                                                               *)
(*                                                                         *)
(* The parsers remember offsets into the caller's buffer.  Here an offset  *)
(* is the state whose rule set it (which tells what starts there), or      *)
(* Buffer: offset zero, where http_parser_execute puts mark and            *)
(* field_start whenever it is given the next piece of a request.           *)
(***************************************************************************)
EXTENDS Http11Machine

CONSTANT Kinds,     \* the parsers: subset of {"request", "response"}
         Cuts,      \* the states of a request at which a read may end
         MaxLines   \* header lines of a response (a bound of the model)

Client == INSTANCE HttpclientMachine
Seqs == INSTANCE SequencesExt

ASSUME PartsAssumption ==
    Kinds \subseteq {"request", "response"} /\ Cuts \subseteq States /\ MaxLines \in Nat

VARIABLES
    kind,       \* which parser
    cs,         \* parser->cs
    parser,     \* http_parser or httpclient_parser, and m_error of its owner
    calls,      \* the callbacks that stored something, in order, with the token's start
    field,      \* the http_field callback of the last character, if it made one
    line        \* response: what the header line says, read without the automaton

vars == <<kind, cs, parser, calls, field, line>>

Buffer == 0
None == -1      \* not set, or a length of zero
After == -2     \* the body: what follows the headers
NoField == [name |-> None, len |-> None, value |-> None]

\* http_parser_init, httpclient_parser_init; the callbacks' owner has no error.
Fresh == [mark |-> Buffer, field_start |-> Buffer, query_start |-> None, field_len |-> None,
          body |-> None, content_len |-> FALSE, chunked |-> FALSE, close |-> FALSE,
          sent |-> "no", m_error |-> 0, first |-> TRUE]

NoLine == [in |-> "first", name |-> <<>>, value |-> <<>>,
           close |-> FALSE, chunked |-> FALSE, length |-> FALSE, folded |-> FALSE, lines |-> 0]

Init ==
    /\ kind \in Kinds
    /\ cs = 1
    /\ parser = Fresh
    /\ calls = <<>>
    /\ field = NoField
    /\ line = NoLine

has_error == cs = ErrorState

is_finished == IF kind = "request" THEN cs >= FirstFinal ELSE cs = Client!FirstFinal

\* http_parser_finish, httpclient_parser_finish: isFinished() of both classes.
finish == IF has_error THEN -1 ELSE IF is_finished THEN 1 ELSE 0

hasError == parser.m_error # 0 \/ has_error

------------------------------------------------------------------------------
(* The actions.  m is [p, c, f]: parser, calls and field so far.            *)

Stored(m, fn, at) == [m EXCEPT !.c = Append(@, [fn |-> fn, at |-> at])]

Failed(m, e) == [m EXCEPT !.p.m_error = e]

mark(m, s) == [m EXCEPT !.p.mark = s]
start_field(m, s) == [m EXCEPT !.p.field_start = s]
start_query(m, s) == [m EXCEPT !.p.query_start = s]

\* A name of no characters when the piece of a request begins with its colon.
write_field(m) ==
    [m EXCEPT !.p.field_len =
        IF m.p.first /\ m.p.field_start = Buffer THEN None ELSE m.p.field_start]

\* on_request_http_field, on_response_http_field
write_value(m) ==
    IF m.p.field_len = None
    THEN Failed(m, 1002)
    ELSE [m EXCEPT !.f = [name |-> m.p.field_start, len |-> m.p.field_len, value |-> m.p.mark]]

\* CharsToHttpMethod knows the name or not.
on_request_method(m, known) ==
    IF known THEN Stored(m, "method", m.p.mark) ELSE Failed(m, 1000)

\* The request's automaton leaves two versions and a text cut short is neither; a
\* response may bring any.
on_request_version(m) ==
    IF m.p.mark = 4 THEN Stored(m, "version", 4) ELSE Failed(m, 1001)

on_response_version(m, known) ==
    IF known THEN Stored(m, "version", m.p.mark) ELSE Failed(m, 1001)

http_version(m, known) ==
    IF kind = "request" THEN on_request_version(m) ELSE on_response_version(m, known)

chunk_size(m) ==
    Stored([m EXCEPT !.p.chunked = TRUE, !.p.content_len = TRUE], "chunk_size", m.p.mark)

\* The body follows, or the XML or JSON message is its own body.
done(m) == [m EXCEPT !.p.body = IF m.p.sent = "no" THEN After ELSE m.p.mark]

\* One action on a rule that leaves st s.
Do(m, a, s, known) ==
    CASE a \in {"mark", "start_value"} -> mark(m, s)
      [] a = "start_field" -> start_field(m, s)
      [] a = "start_query" -> start_query(m, s)
      [] a = "write_field" -> write_field(m)
      [] a = "write_value" -> write_value(m)
      [] a = "request_method" -> on_request_method(m, known)
      [] a = "http_version" -> http_version(m, known)
      [] a \in {"request_path", "request_uri", "fragment", "reason_phrase", "status_code"} ->
            Stored(m, a, m.p.mark)
      [] a = "query_string" -> Stored(m, a, m.p.query_start)
      [] a = "chunk_size" -> chunk_size(m)
      [] a \in {"xml", "json"} -> [m EXCEPT !.p.sent = a]
      [] a = "write_content_len" -> [m EXCEPT !.p.content_len = TRUE]
      [] a = "write_connection_close" -> [m EXCEPT !.p.close = TRUE]
      [] a = "trans_chunked" -> [m EXCEPT !.p.chunked = TRUE]
      [] a = "done" -> done(m)

------------------------------------------------------------------------------
(* A reading of a response's header lines that does not use the automaton. *)

Known == [connection |-> <<99>> \o Client!onnection,
          length |-> <<99, 111, 110, 116>> \o Client!ent_length,
          encoding |-> <<116>> \o Client!ransfer_encoding]

Values == [close |-> <<99>> \o Client!lose, chunked |-> <<99>> \o Client!hunked, digits |-> <<48>>]

lower(c) == IF c \in 65 .. 90 THEN c + 32 ELSE c

Begins(s, words) == \E w \in words : Len(s) <= Len(w) /\ s = SubSeq(w, 1, Len(s))

\* One more character of a text, as far as it may still be one of the words.
More(s, c, words) ==
    LET t == Append(s, lower(c)) IN IF Begins(t, words) THEN t ELSE <<0>>

MoreValue(v, c) ==
    IF c \in Digit /\ v \in {<<>>, <<48>>} THEN <<48>>
    ELSE More(v, c, {Values.close, Values.chunked})

EndOfLine(l) ==
    [l EXCEPT !.in = "name", !.name = <<>>, !.value = <<>>,
              !.lines = IF l.name = <<>> THEN @ ELSE @ + 1,
              !.close = @ \/ (l.name = Known.connection /\ l.value = Values.close),
              !.chunked = @ \/ (l.name = Known.encoding /\ l.value = Values.chunked),
              !.length = @ \/ (l.name = Known.length /\ l.value = Values.digits),
              !.folded = @ \/ (l.value = <<>> /\ \E k \in DOMAIN Known : l.name = Known[k])]

ReadLine(l, c) ==
    CASE c = 10 -> EndOfLine(l)
      [] c = 13 \/ l.in = "first" -> l
      [] l.in = "name" /\ c # 58 -> [l EXCEPT !.name = More(@, c, {Known[k] : k \in DOMAIN Known})]
      [] l.in = "name" /\ c = 58 -> [l EXCEPT !.in = "value"]
      [] l.in = "value" /\ c \in Client!Blank /\ l.value = <<>> -> l
      [] OTHER -> [l EXCEPT !.value = MoreValue(@, c)]

------------------------------------------------------------------------------
From_(k) == IF k = "request" THEN From ELSE Client!From

\* The callbacks that look at the text of their token.
Choices(do) ==
    IF \E i \in 1 .. Len(do) : do[i] \in {"request_method", "http_version"} THEN BOOLEAN ELSE {TRUE}

\* The loop of the generated code: the rule for the character, or st0.
Read(c) ==
    /\ finish = 0 /\ parser.body = None
    /\ line.lines < MaxLines \/ c \in {10, 13}
    /\ IF \A r \in From_(kind)[cs] : c \notin r.on
       THEN /\ cs' = ErrorState
            /\ field' = NoField
            /\ UNCHANGED <<parser, calls>>
       ELSE \E r \in From_(kind)[cs] : \E known \in Choices(r.do) :
                LET m == Seqs!FoldLeft(LAMBDA x, a : Do(x, a, cs, known),
                                       [p |-> parser, c |-> calls, f |-> NoField], r.do)
                IN  /\ c \in r.on
                    /\ cs' = r.to
                    /\ parser' = [m.p EXCEPT !.first = FALSE]
                    /\ calls' = m.c
                    /\ field' = m.f
    /\ line' = IF kind = "response" THEN ReadLine(line, c) ELSE line
    /\ UNCHANGED kind

\* The request goes on in the caller's next read: execute() has moved the rest of
\* the buffer to its front and http_parser_execute starts its offsets again, but
\* not query_start.  (A response is given whole, as by its only caller: the response's
\* execute neither starts its offsets again nor its nread.)
Execute ==
    /\ kind = "request" /\ finish = 0 /\ parser.body = None
    /\ cs \in Cuts /\ ~parser.first
    /\ parser' = [parser EXCEPT !.mark = Buffer, !.field_start = Buffer, !.field_len = Buffer,
                                !.query_start = IF @ = None THEN None ELSE Buffer,
                                !.first = TRUE]
    /\ UNCHANGED <<kind, cs, calls, field, line>>

Next == Execute \/ \E c \in Char : Read(c)

Spec == Init /\ [][Next]_vars

------------------------------------------------------------------------------
(* Properties *)

\* Where each token of a message starts, by the grammar.
Begin ==
    [request |-> [method |-> {1}, request_path |-> {1, 3, 174}, request_uri |-> {3, 174},
                  fragment |-> {20}, query_string |-> {29}, version |-> {4}],
     response |-> [version |-> {1}, status_code |-> {16}, reason_phrase |-> {18},
                   chunk_size |-> {1}]]

\* Whatever is stored of a message is the whole token, from its first character: no
\* offset is used that an earlier token or an earlier buffer left behind.
TokensWhole == \A i \in 1 .. Len(calls) : calls[i].at \in Begin[kind][calls[i].fn]

\* Every header is stored with its own name, the whole of it, and its own value: the
\* name's start and its length are of the same name, which starts a line (or a chunk
\* extension), and the value starts after it.
FieldsPaired ==
    field # NoField =>
        \/ kind = "request" /\ field.name = 13 /\ field.len = 13 /\ field.value = 15
        \/ /\ kind = "response"
           /\ field.name = field.len
           /\ field.name \in {4, 20, 36, 43, 62, 113}
           /\ field.value \in {5, 6, 22, 35, 61, 112, 63, 72, 80, 121, 114, 116, 118, 123}

\* Where the response's automaton breaks FieldsPaired: the line after a known header
\* without a value begins with the value it could have had ("Transfer-Encoding:" LF
\* "chunked", or the digits of a Content-Length).  st62 and st113 take its first
\* character for a name and for a value, so what is stored has the value's text as its
\* name, with the length of the name before.
Misnamed ==
    /\ kind = "response" /\ line.folded
    /\ field.name \in {62, 113} /\ field.value = field.name

Fns == [i \in 1 .. Len(calls) |-> calls[i].fn]

Without(s, fns) == SelectSeq(s, LAMBDA x : x \notin fns)

\* A message that is finished without an error has stored each part of its first line
\* once and in order, a query only between path and URI, a fragment only after the URI,
\* and its body starts where it should.  An XML or JSON message has a path alone.
FinishedComplete ==
    finish = 1 /\ ~hasError =>
        /\ parser.body # None
        /\ kind = "request" /\ parser.sent = "no" =>
            /\ Without(Fns, {"query_string", "fragment"})
                 = <<"method", "request_path", "request_uri", "version">>
            /\ Without(Fns, {"fragment"}) \in
                 {<<"method", "request_path", "request_uri", "version">>,
                  <<"method", "request_path", "query_string", "request_uri", "version">>}
            /\ Without(Fns, {"query_string"}) \in
                 {<<"method", "request_path", "request_uri", "version">>,
                  <<"method", "request_path", "request_uri", "fragment", "version">>}
            /\ parser.body = After
        /\ kind = "request" /\ parser.sent # "no" =>
            /\ Fns = <<"request_path">>
            /\ parser.body = IF parser.sent = "xml" THEN 1 ELSE 199
        /\ kind = "response" =>
            Fns \in {<<"version", "status_code", "reason_phrase">>, <<"chunk_size">>}

\* The response's close, chunked and content_len come from its header lines and from
\* nothing else: each is set exactly when a line has that name and that value, whatever
\* the other lines say.  (Values on a line after the name's are outside of this.)
KnownHeaders ==
    kind = "response" /\ parser.body # None /\ Len(calls) > 0 /\ calls[1].fn # "chunk_size"
    /\ ~line.folded =>
        /\ parser.close = line.close
        /\ parser.chunked = line.chunked
        /\ parser.content_len = line.length

\* Headers are stored with their own names and values, but for a response's line that
\* follows a known header without a value, and the ones the parser acts on take effect
\* exactly when they are there.
HeadersRight == (FieldsPaired \/ Misnamed) /\ KnownHeaders

\* A response whose headers have ended is finished.
EndIsFinished == parser.body # None => finish = 1

\* What the grammar's comments say of a decimal octet: 0 .. 255 are read, from st59 to
\* the closing bracket.
Walk(s, text) ==
    Seqs!FoldLeft(LAMBDA q, c : {r.to : r \in {x \in UNION {From[t] : t \in q} : c \in x.on}},
                  {s}, text)

Decimal(n) ==
    (IF n > 99 THEN <<48 + (n \div 100)>> ELSE <<>>)
    \o (IF n > 9 THEN <<48 + ((n \div 10) % 10)>> ELSE <<>>) \o <<48 + (n % 10)>>

OctetsRead == cs = 59 => \A n \in 0 .. 255 : Walk(cs, Decimal(n) \o <<93>>) = {61}

==============================================================================
