----------------------------- MODULE MCLogConfig -----------------------------
EXTENDS LogConfig

CONSTANTS w1, w2, t1, k, b, pat0, pat1, pat2, broken

LogsKey == <<"logs">>
InnerKey == <<"tcp", "timeout">>
TwoKeys == {LogsKey, InnerKey}
Start == (LogsKey :> <<>>) @@ (InnerKey :> "d")
LogsOnly == 1 :> LogsKey

App(to, fmt) == [to |-> to, fmt |-> fmt]
Def(level, fmt, apps) == [level |-> level, fmt |-> fmt, apps |-> apps]

\* System (2) alone, with a file that has its own pattern; system changed and root (1)
\* defined, with a broken pattern; root changed and system gone.
Value1 == 2 :> Def(1, NoPattern, <<App("file", pat1)>>)
Value2 == (2 :> Def(2, pat2, <<App("stdout", NoPattern), App("file", broken)>>))
          @@ (1 :> Def(1, broken, <<App("stdout", NoPattern)>>))
Value3 == 1 :> Def(2, NoPattern, <<>>)
\* System stays as Value1 has it and root is added.
Value4 == Value1 @@ (1 :> Def(2, NoPattern, <<>>))

Entry(key, value) == [key |-> key, value |-> value]

\* A document with a key nobody has, one with a bad name and values that do not convert
\* before one that does.
Documents ==
    {<<Entry(<<>>, "x"), Entry(LogsKey, Value1), Entry(<<"tcp">>, "x"), Entry(InnerKey, "e")>>,
     <<Entry(LogsKey, Value2), Entry(<<"tcp">>, "x"), Entry(InnerKey, Bad), Entry(InnerKey, "f")>>,
     <<Entry(<<"Tcp">>, "x"), Entry(<<"Tcp", "timeout">>, "g"), Entry(LogsKey, Bad),
       Entry(LogsKey, Value3)>>}

Unchanged == {<<Entry(LogsKey, Value1)>>, <<Entry(LogsKey, Value4)>>}
==============================================================================
