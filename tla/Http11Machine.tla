---------------------------- MODULE Http11Machine ----------------------------
(***************************************************************************)
(* The automaton of the HTTP request parser, http11_parser.rl.cc, as a set *)
(* of rules.  The numbers are the states of the generated code (st1 ..     *)
(* st349; no rule means st0, the error state); a rule's "do" names the     *)
(* actions of http11_parser.rl that the code runs on the way, in order.    *)
(*                                                                         *)
(* The code reads its characters as signed char: 0 .. 127 are themselves   *)
(* and 128 stands for every other one.  uri_relaxed is never initialised   *)
(* by http_parser_init or HttpRequestParser, so Relaxed may be either.     *)
(***************************************************************************)
EXTENDS Integers, Sequences

CONSTANT Relaxed    \* parser->uri_relaxed

ASSUME RelaxedAssumption == Relaxed \in BOOLEAN

Char == 0 .. 128
Start == 1          \* http_parser_start
ErrorState == 0     \* http_parser_error
FirstFinal == 348   \* http_parser_first_final

Rule == [from : Nat, on : SUBSET Char, to : Nat, do : Seq(STRING)]

Go(from, on, to, do) == [from |-> from, on |-> on, to |-> to, do |-> do]

\* Character classes, under the names of the grammar.
SP == {32}
Slash == {47}
Colon == {58}
Digit == 48 .. 57
Upper == 65 .. 90
Alpha == Upper \cup (97 .. 122)
XLetter == (65 .. 70) \cup (97 .. 102)
XDigit == Digit \cup XLetter
MethodChar == Upper \cup Digit
MoreDelims == IF Relaxed THEN {94, 123, 125} ELSE {}
RegChar == Alpha \cup Digit \cup {33, 36, 59, 61, 95, 126} \cup (38 .. 46) \cup MoreDelims
PChar == RegChar \cup Colon \cup {64}
QChar == PChar \cup Slash \cup {63}
SchemeChar == Alpha \cup Digit \cup {43, 45, 46}
Separator == {9, 32, 34, 40, 41, 44, 47, 91, 92, 93, 123, 125} \cup (58 .. 64)
Token == (1 .. 126) \ Separator
Content == Char \ {0, 127}
XmlName == Alpha \cup Digit \cup {45, 46}

------------------------------------------------------------------------------
(* The request line: method, URI, version *)

\* The first character tells a request from an XML or a JSON message.
First ==
    {Go(1, MethodChar, 2, <<"mark">>),
     Go(1, {60}, 194, <<"mark">>),
     Go(1, {64}, 198, <<"mark">>)}

\* One to twenty upper-case letters or digits: st2, then st175 .. st193.
Method ==
    {Go(2, MethodChar, 175, <<>>)}
    \cup {Go(s, MethodChar, s + 1, <<>>) : s \in 175 .. 192}
    \cup {Go(s, SP, 3, <<"request_method">>) : s \in {2} \cup 175 .. 193}

\* Faulty variant: a query hides the path.
PathlessQuery(s) ==
    {Go(s, SP, 4, <<"request_path", "request_uri">>),
     Go(s, {35}, 20, <<"request_path", "request_uri">>),
     Go(s, {63}, 29, <<>>)}

\* The URI's path ends: at the version, a fragment or a query.
LeaveUri(s) ==
    {Go(s, SP, 4, <<"request_path", "request_uri">>),
     Go(s, {35}, 20, <<"request_path", "request_uri">>),
     Go(s, {63}, 29, <<"request_path">>)}

\* "%" and two hexadecimal digits, st p and st p + 1, and back.
Percent(p, back) == {Go(p, XDigit, p + 1, <<>>), Go(p + 1, XDigit, back, <<>>)}

UriStart ==
    {Go(3, SP, 4, <<"mark", "request_path", "request_uri">>),
     Go(3, (RegChar \ Alpha) \cup {64}, 19, <<"mark">>),
     Go(3, Alpha, 173, <<"mark">>),
     Go(3, {35}, 20, <<"mark", "request_path", "request_uri">>),
     Go(3, {37}, 24, <<"mark">>),
     Go(3, Slash, 33, <<"mark">>),
     Go(3, {63}, 29, <<"mark", "request_path">>)}

\* "HTTP/1.0" or "HTTP/1.1" and the end of the line.
Version ==
    LET word == <<72, 84, 84, 80, 47, 49, 46>>
    IN  {Go(3 + i, {word[i]}, 4 + i, IF i = 1 THEN <<"mark">> ELSE <<>>) : i \in 1 .. 7}
        \cup {Go(11, {48, 49}, 12, <<>>),
              Go(12, {10}, 13, <<"http_version">>),
              Go(12, {13}, 17, <<"http_version">>)}

------------------------------------------------------------------------------
(* Header fields *)

\* Faulty variant: the end of a name is noticed with its value only.
NameUnended ==
    {Go(13, Token \ {10, 13}, 14, <<"start_field">>),
     Go(13, {10}, 348, <<"start_field", "done">>),
     Go(13, {13}, 18, <<"start_field">>),
     Go(14, Token, 14, <<>>),
     Go(14, Colon, 15, <<>>)}

FieldName ==
    {Go(13, Token \ {10, 13}, 14, <<"start_field">>),
     Go(13, {10}, 348, <<"start_field", "done">>),
     Go(13, {13}, 18, <<"start_field">>),
     Go(14, Token, 14, <<>>),
     Go(14, Colon, 15, <<"write_field">>)}

FieldValue ==
    {Go(15, Content \ {9, 10, 13, 32}, 16, <<"start_value">>),
     Go(15, {9, 32}, 15, <<"start_value">>),
     Go(15, {10}, 13, <<"start_value", "write_value">>),
     Go(15, {13}, 17, <<"start_value", "write_value">>),
     Go(16, Content \ {10, 13}, 16, <<>>),
     Go(16, {10}, 13, <<"write_value">>),
     Go(16, {13}, 17, <<"write_value">>),
     Go(17, {10}, 13, <<>>)}

\* After an empty line; control characters count as token characters here.
HeaderEnd ==
    {Go(18, {10}, 348, <<"done">>),
     Go(18, Token \ {10}, 14, <<>>),
     Go(18, Colon, 15, <<"write_field">>),
     Go(348, Token, 14, <<>>),
     Go(348, Colon, 15, <<"write_field">>)}

------------------------------------------------------------------------------
(* Paths, queries, fragments *)

\* A first segment without a colon, and its percent signs.
FirstSegment ==
    LeaveUri(19) \cup Percent(24, 19)
    \cup {Go(19, RegChar \cup {64}, 19, <<>>), Go(19, {37}, 24, <<>>), Go(19, Slash, 26, <<>>)}

\* Faulty variant: a fragment's start is not marked.
FragmentUnmarked ==
    Percent(22, 21)
    \cup {Go(20, SP, 4, <<"fragment">>), Go(20, QChar, 21, <<>>), Go(20, {37}, 22, <<>>),
          Go(21, SP, 4, <<"fragment">>), Go(21, QChar, 21, <<>>), Go(21, {37}, 22, <<>>)}

Fragment ==
    Percent(22, 21)
    \cup {Go(20, SP, 4, <<"mark", "fragment">>), Go(20, QChar, 21, <<"mark">>),
          Go(20, {37}, 22, <<"mark">>),
          Go(21, SP, 4, <<"fragment">>), Go(21, QChar, 21, <<>>), Go(21, {37}, 22, <<>>)}

PathRest ==
    LeaveUri(26) \cup Percent(27, 26)
    \cup {Go(26, PChar \cup Slash, 26, <<>>), Go(26, {37}, 27, <<>>)}

Query ==
    LET leave == <<"query_string", "request_uri">>
    IN  Percent(31, 30)
        \cup UNION {{Go(s, SP, 4, IF s = 29 THEN <<"start_query">> \o leave ELSE leave),
                     Go(s, {35}, 20, IF s = 29 THEN <<"start_query">> \o leave ELSE leave),
                     Go(s, QChar, 30, IF s = 29 THEN <<"start_query">> ELSE <<>>),
                     Go(s, {37}, 31, IF s = 29 THEN <<"start_query">> ELSE <<>>)} :
                    s \in {29, 30}}

PathStart ==
    LeaveUri(33)
    \cup {Go(33, PChar, 26, <<>>), Go(33, {37}, 27, <<>>), Go(33, Slash, 34, <<>>)}

Scheme ==
    LeaveUri(173)
    \cup {Go(173, SchemeChar, 173, <<>>),
          Go(173, (RegChar \cup {64}) \ SchemeChar, 19, <<>>),
          Go(173, {37}, 24, <<>>), Go(173, Slash, 26, <<>>), Go(173, Colon, 174, <<>>),
          Go(174, SP, 4, <<"mark", "request_path", "request_uri">>),
          Go(174, PChar, 26, <<"mark">>),
          Go(174, {35}, 20, <<"mark", "request_path", "request_uri">>),
          Go(174, {37}, 27, <<"mark">>), Go(174, Slash, 33, <<"mark">>),
          Go(174, {63}, 29, <<"mark", "request_path">>)}

------------------------------------------------------------------------------
(* What follows "//".  The code has it twice: from st34 in a URI and, 175   *)
(* states on, from st209 in a JSON message's path; Path is the state after  *)
(* a "/" and Leave the rules for the end of the path.                       *)

LeaveJson(s) == {Go(s, SP, 199, <<"request_path">>)}

Leave(k, s) == IF k = 0 THEN LeaveUri(s) ELSE LeaveJson(s)

Path(k) == IF k = 0 THEN 26 ELSE 205

\* User information or a host name.
NameStart(k) ==
    Percent(k + 36, k + 35)
    \cup UNION {Leave(k, k + s)
                \cup {Go(k + s, RegChar, k + 35, <<>>), Go(k + s, {37}, k + 36, <<>>),
                      Go(k + s, Slash, Path(k), <<>>), Go(k + s, Colon, k + 38, <<>>),
                      Go(k + s, {64}, k + 42, <<>>)} : s \in {34, 35}}
    \cup {Go(k + 34, {91}, k + 47, <<>>)}

\* A port, or still user information.
PortOrUser(k) ==
    Leave(k, k + 38) \cup Percent(k + 40, k + 39)
    \cup {Go(k + 38, Digit, k + 38, <<>>), Go(k + 38, (RegChar \ Digit) \cup Colon, k + 39, <<>>),
          Go(k + 38, Slash, Path(k), <<>>), Go(k + 39, RegChar \cup Colon, k + 39, <<>>)}
    \cup {Go(k + s, {37}, k + 40, <<>>) : s \in {38, 39}}
    \cup {Go(k + s, {64}, k + 42, <<>>) : s \in {38, 39}}

\* The host after "@", and its port.
Host(k) ==
    Percent(k + 44, k + 43)
    \cup UNION {Leave(k, k + s) \cup {Go(k + s, Slash, Path(k), <<>>)} : s \in {42, 43, 46}}
    \cup UNION {{Go(k + s, RegChar, k + 43, <<>>), Go(k + s, {37}, k + 44, <<>>),
                 Go(k + s, Colon, k + 46, <<>>)} : s \in {42, 43}}
    \cup {Go(k + 42, {91}, k + 47, <<>>), Go(k + 46, Digit, k + 46, <<>>)}

------------------------------------------------------------------------------
(* An address in brackets *)

\* Up to four hexadecimal digits from st a, and a colon.
H16(a, colon) ==
    {Go(s, XDigit, s + 1, <<>>) : s \in a .. a + 2}
    \cup {Go(s, Colon, colon, <<>>) : s \in a .. a + 3}

\* "6( h16 ":" )" is the character 6 and one group, not six groups.
LiteralStart(k) ==
    H16(k + 49, k + 53)
    \cup {Go(k + 47, {6}, k + 48, <<>>), Go(k + 47, XDigit, k + 91, <<>>),
          Go(k + 47, Colon, k + 167, <<>>), Go(k + 47, {118}, k + 169, <<>>),
          Go(k + 48, XDigit, k + 49, <<>>)}

\* After the address: the path, the port or the end.
LiteralEnd(k) ==
    Leave(k, k + 61)
    \cup {Go(k + 60, {93}, k + 61, <<>>), Go(k + 61, Slash, Path(k), <<>>),
          Go(k + 61, Colon, k + 46, <<>>)}

\* A decimal octet from st e: a lone digit leads to st full, a 1 to st one, a 2
\* to st two.  ("0"-"4") and ("0"-"5") are the character 0 only.
Octet(e, full, one, two, on, next) ==
    {Go(e, {48} \cup (51 .. 57), full, <<>>), Go(e, {49}, one, <<>>), Go(e, {50}, two, <<>>),
     Go(one, Digit, one + 1, <<>>), Go(one + 1, Digit, full, <<>>),
     Go(two, {48}, two + 1, <<>>), Go(two, {53}, two + 2, <<>>),
     Go(two + 1, Digit, full, <<>>), Go(two + 2, {48}, full, <<>>)}
    \cup {Go(s, on, next, <<>>) : s \in {one, one + 1, two}}

\* The second to the fourth octet.
Octets(k) ==
    Octet(k + 55, k + 56, k + 72, k + 74, {46}, k + 57)
    \cup Octet(k + 57, k + 58, k + 67, k + 69, {46}, k + 59)
    \cup Octet(k + 59, k + 60, k + 62, k + 64, {93}, k + 61)
    \cup {Go(k + 56, {46}, k + 57, <<>>), Go(k + 58, {46}, k + 59, <<>>)}

\* A group that may still turn out to be the first octet.  From st e the group
\* starts with 0 or 3 .. 9 (st d), 1 (one), 2 (two) or a letter (hex); h is the
\* state after two digits that are no octet.
Entry(e, d, one, two, hex) ==
    {Go(e, {48} \cup (51 .. 57), d, <<>>), Go(e, {49}, one, <<>>), Go(e, {50}, two, <<>>),
     Go(e, XLetter, hex, <<>>)}

Group(k, d, h, one, two, hex, colon) ==
    {Go(d, XDigit, h, <<>>), Go(h, XDigit, h + 1, <<>>), Go(h + 1, XDigit, h + 2, <<>>),
     Go(one, Digit, one + 1, <<>>), Go(one, XLetter, h, <<>>),
     Go(one + 1, Digit, one + 2, <<>>), Go(one + 1, XLetter, h + 1, <<>>),
     Go(one + 2, XDigit, h + 2, <<>>),
     Go(two, {48}, two + 1, <<>>), Go(two, {53}, two + 2, <<>>),
     Go(two, XDigit \ {48, 53}, h, <<>>),
     Go(two + 1, Digit, one + 2, <<>>), Go(two + 1, XLetter, h + 1, <<>>),
     Go(two + 2, {48}, one + 2, <<>>), Go(two + 2, XDigit \ {48}, h + 1, <<>>),
     Go(hex, XDigit, h, <<>>)}
    \cup {Go(s, {46}, k + 55, <<>>) : s \in {d, one, one + 1, one + 2, two}}
    \cup {Go(s, Colon, colon, <<>>) :
            s \in {d, hex} \cup (h .. h + 2) \cup (one .. one + 2) \cup (two .. two + 2)}

Closing(k, states) == {Go(s, {93}, k + 61, <<>>) : s \in states}

\* The last two groups, or the octets.
LastGroups(k) ==
    Entry(k + 53, k + 54, k + 84, k + 87, k + 90)
    \cup Group(k, k + 54, k + 77, k + 84, k + 87, k + 90, k + 80)

\* ... and the very last one.
LastGroup(k) ==
    {Go(s, XDigit, s + 1, <<>>) : s \in k + 80 .. k + 82}
    \cup {Go(k + 83, XDigit, k + 60, <<>>)} \cup Closing(k, k + 81 .. k + 83)

\* Seven groups from the left, or more: the last one repeats.
LeftGroups(k) ==
    UNION {H16(a, a + 4) : a \in {k + 91 + 5 * i : i \in 0 .. 6}}
    \cup {Go(k + 90 + 5 * i, XDigit, k + 91 + 5 * i, <<>>) : i \in 1 .. 6}
    \cup {Go(k + 125, XDigit, k + 121, <<>>)}

\* "::" after each of them.
Elided(k) ==
    {Go(k + 95, Colon, k + 166, <<>>), Go(k + 100, Colon, k + 165, <<>>),
     Go(k + 105, Colon, k + 164, <<>>), Go(k + 110, Colon, k + 163, <<>>),
     Go(k + 115, Colon, k + 151, <<>>), Go(k + 120, Colon, k + 150, <<>>),
     Go(k + 125, Colon, k + 126, <<>>)}

\* After "::": the end, a group, or a repeat count taken literally.
RightGroups(k) ==
    UNION {Entry(s, k + 127, k + 143, k + 146, k + 149) : s \in {k + 126, k + 150, k + 168}}
    \cup Group(k, k + 127, k + 128, k + 143, k + 146, k + 149, k + 131)
    \cup Closing(k, {k + 126, k + 168} \cup (k + 127 .. k + 130) \cup (k + 143 .. k + 149))

\* One more group after a right one.
RightLast(k) ==
    Entry(k + 131, k + 132, k + 136, k + 139, k + 142)
    \cup Group(k, k + 132, k + 133, k + 136, k + 139, k + 142, k + 80)
    \cup Closing(k, k + 132 .. k + 142)

\* The same where the address cannot end yet.
MiddleGroups(k) ==
    Entry(k + 151, k + 152, k + 156, k + 159, k + 162)
    \cup Group(k, k + 152, k + 153, k + 156, k + 159, k + 162, k + 131)

Counts(k) ==
    {Go(k + s, {2, 3}, k + 48, <<>>) : s \in {126, 150, 151, 163, 164}}
    \cup {Go(k + 163, XDigit, k + 49, <<>>), Go(k + 165, {3}, k + 48, <<>>),
          Go(k + 166, {4}, k + 48, <<>>), Go(k + 167, Colon, k + 168, <<>>),
          Go(k + 168, 2 .. 5, k + 48, <<>>)}

\* "v", a version and an address of the future.
Future(k) ==
    Closing(k, {k + 172})
    \cup {Go(k + s, XDigit, k + 170, <<>>) : s \in {169, 170}}
    \cup {Go(k + 170, {46}, k + 171, <<>>)}
    \cup {Go(k + s, RegChar \cup Colon, k + 172, <<>>) : s \in {171, 172}}

------------------------------------------------------------------------------
(* XML and JSON messages *)

Xml ==
    {Go(s, XmlName, 195, <<>>) : s \in {194, 195}}
    \cup {Go(195, (9 .. 13) \cup {32, 47, 62}, 196, <<"request_path">>),
          Go(196, Char \ {62}, 196, <<>>), Go(197, Char \ {0, 62}, 196, <<>>),
          Go(197, {0}, 349, <<"xml", "done">>)}
    \cup {Go(s, {62}, 197, <<>>) : s \in {196, 197}}

JsonPath ==
    UNION {LeaveJson(s) : s \in {198, 202, 205, 208}}
    \cup Percent(203, 202) \cup Percent(206, 205)
    \cup {Go(s, RegChar \cup {64}, 202, <<>>) : s \in {198, 202}}
    \cup {Go(s, {37}, 203, <<>>) : s \in {198, 202}}
    \cup {Go(198, Slash, 208, <<>>), Go(202, Slash, 205, <<>>), Go(208, Slash, 209, <<>>),
          Go(205, PChar \cup Slash, 205, <<>>), Go(208, PChar, 205, <<>>)}
    \cup {Go(s, {37}, 206, <<>>) : s \in {205, 208}}

JsonData ==
    {Go(199, {123}, 200, <<"mark">>),
     Go(200, Char \ {125}, 200, <<>>), Go(201, Char \ {0, 125}, 200, <<>>),
     Go(201, {0}, 349, <<"json", "done">>)}
    \cup {Go(s, {125}, 201, <<>>) : s \in {200, 201}}

\* The second copy of the authority.
JsonName == NameStart(175)
JsonPort == PortOrUser(175)
JsonHost == Host(175)
JsonLiteral == LiteralStart(175) \cup LiteralEnd(175)
JsonOctets == Octets(175)
JsonLastGroups == LastGroups(175) \cup LastGroup(175)
JsonLeftGroups == LeftGroups(175) \cup Elided(175)
JsonRightGroups == RightGroups(175)
JsonRightLast == RightLast(175)
JsonMiddle == MiddleGroups(175) \cup Counts(175)
JsonFuture == Future(175)

------------------------------------------------------------------------------
RequestLine ==
    First \cup Method \cup UriStart \cup Version \cup FirstSegment \cup Fragment
    \cup PathRest \cup Query \cup PathStart \cup Scheme

Authority ==
    NameStart(0) \cup PortOrUser(0) \cup Host(0) \cup LiteralStart(0) \cup LiteralEnd(0)
    \cup Octets(0)
    \cup LastGroups(0) \cup LastGroup(0) \cup LeftGroups(0) \cup Elided(0)
    \cup RightGroups(0) \cup RightLast(0) \cup MiddleGroups(0) \cup Counts(0) \cup Future(0)

Messages ==
    Xml \cup JsonPath \cup JsonData \cup JsonName \cup JsonPort \cup JsonHost \cup JsonLiteral
    \cup JsonOctets \cup JsonLastGroups \cup JsonLeftGroups \cup JsonRightGroups
    \cup JsonRightLast \cup JsonMiddle \cup JsonFuture

Rules == RequestLine \cup FieldName \cup FieldValue \cup HeaderEnd \cup Authority \cup Messages

States == 0 .. 349

\* The rules by state.
From == [s \in States |-> {r \in Rules : r.from = s}]

==============================================================================
