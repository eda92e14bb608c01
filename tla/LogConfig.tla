------------------------------ MODULE LogConfig ------------------------------
(***************************************************************************)
(* The loggers, and the listener of the variable "logs" that configures    *)
(* them while threads log.                                                 *)
(*                                                                         *)
(* The value of the variable is a function from the names it lists to      *)
(* their LogDefine.  An appender is what it writes to, the formatter it    *)
(* has and whether that is its own.  Each call of the listener takes and   *)
(* releases the logger's lock: one step each.  setLevel and the test of    *)
(* the level take none.                                                    *)
(***************************************************************************)
EXTENDS Config, SequencesExt

CONSTANTS Name,         \* names of loggers, numbered in their order
          Root,         \* the root logger's
          Logs,         \* the key of the variable
          Pattern0,     \* the pattern of a new logger
          NoPattern,    \* an empty formatter
          BadPattern,   \* patterns LogFormatter::init finds an error in
          Thread,       \* threads that log
          Level,        \* levels they log at
          UserPattern   \* patterns the users set

LogListener == CHOOSE c \in Cb : Listening[c] = Logs

Gone == 100             \* the level of a logger whose definition is deleted

Debug == 1

VARIABLES
    m_loggers,  \* name -> [level, fmt, apps]
    known,      \* names with a logger
    ops,        \* writer: what its call of the listener has still to do
    crashed,    \* a null pointer was used
    ever,       \* names a value of the variable has ever listed
    formats,    \* name -> the formats last asked for: by a value, or by its users
    msg,        \* thread: the message it logs, or none
    wrote       \* thread: where its last message went, if it was calm

vars == <<configVars, m_loggers, known, ops, crashed, ever, formats, msg, wrote>>

logVars == <<m_loggers, known, ops, crashed, ever, formats>>

Stdout == [to |-> "stdout", fmt |-> Pattern0, own |-> FALSE]

NewLogger == [level |-> Debug, fmt |-> Pattern0, apps |-> <<>>]

NoMessage == [name |-> Root, level |-> 0, calm |-> FALSE]

Result(m, to) == IF m.calm THEN [msg |-> m, to |-> to] ELSE [msg |-> NoMessage, to |-> {}]

Init ==
    /\ InitConfig
    /\ m_loggers = [n \in Name |-> IF n = Root THEN [NewLogger EXCEPT !.apps = <<Stdout>>]
                                   ELSE NewLogger]
    /\ known = {Root}
    /\ ops = [w \in Writer |-> <<>>]
    /\ crashed = FALSE
    /\ ever = {}
    /\ formats = [n \in Name |-> {Pattern0}]
    /\ msg = [t \in Thread |-> NoMessage]
    /\ wrote = [t \in Thread |-> Result(NoMessage, {})]

------------------------------------------------------------------------------
(* The calls on a logger *)

\* Faulty variant: the appenders keep the formatter they were given.
setFormatterAlone(l, f) == [l EXCEPT !.fmt = f]

\* Appenders without a formatter of their own get the logger's.
setFormatter(l, f) ==
    [l EXCEPT !.fmt = f,
              !.apps = [i \in DOMAIN @ |-> IF @[i].own THEN @[i] ELSE [@[i] EXCEPT !.fmt = f]]]

addAppender(l, a) ==
    [l EXCEPT !.apps = Append(@, IF a.own THEN a ELSE [a EXCEPT !.fmt = l.fmt])]

clearAppenders(l) == [l EXCEPT !.apps = <<>>]

\* Only a pattern without an error is taken.
Valid(f) == f # NoPattern /\ f \notin BadPattern

\* The formatter of an appender counts if it is there and has no error.
Appender(a) ==
    [to |-> a.to, fmt |-> a.fmt, own |-> Valid(a.fmt)]

------------------------------------------------------------------------------
(* The listener *)

Ordered(S) == SetToSortSeq(S, <)

Ops(n, list) == [i \in DOMAIN list |-> [name |-> n, op |-> list[i][1], arg |-> list[i][2]]]

\* What it does for a logger that is new or changed.
Define(n, d) ==
    Ops(n, <<<<"setLevel", d.level>>>>
             \o (IF Valid(d.fmt) THEN <<<<"setFormatter", d.fmt>>>> ELSE <<>>)
             \o <<<<"clearAppenders", 0>>>>
             \o [i \in DOMAIN d.apps |-> <<"addAppender", Appender(d.apps[i])>>])

Delete(n) == Ops(n, <<<<"setLevel", Gone>>, <<"clearAppenders", 0>>>>)

\* For a logger whose definition has not changed the pointer stays null, and is used.
Plan(old, new) ==
    LET names == Ordered(DOMAIN new)
        gone == Ordered(DOMAIN old \ DOMAIN new)
        Same(n) == n \in DOMAIN old /\ old[n] = new[n]
    IN  FlattenSeq([i \in DOMAIN names |->
                        IF Same(names[i]) THEN Ops(names[i], <<<<"null", 0>>>>)
                        ELSE Define(names[i], new[names[i]])])
            \o FlattenSeq([i \in DOMAIN gone |-> Delete(gone[i])])

KeepConfig == UNCHANGED configVars

KeepThreads == UNCHANGED <<msg, wrote>>

\* The loggers a new value gives a format.
Formatted(old, new) ==
    {n \in DOMAIN new : Valid(new[n].fmt) /\ (n \in DOMAIN old => old[n] # new[n])}

\* The message a thread is logging can no longer be judged by the configuration.
Disturb == msg' = [t \in Thread |-> [msg[t] EXCEPT !.calm = FALSE]]

\* setValue calls the listener, which has its old and new value.
Begin(w) ==
    /\ at[w] = "notify" /\ Current(w) = LogListener /\ ops[w] = <<>>
    /\ ops' = [ops EXCEPT ![w] = Append(Plan(m_val[Logs], Node(w).value),
                                        [name |-> Root, op |-> "return", arg |-> 0])]
    /\ ever' = ever \cup DOMAIN Node(w).value
    /\ formats' = [n \in Name |-> IF n \in Formatted(m_val[Logs], Node(w).value)
                                  THEN {Node(w).value[n].fmt} ELSE formats[n]]
    /\ Disturb
    /\ KeepConfig
    /\ UNCHANGED <<m_loggers, known, crashed, wrote>>

\* One call the listener makes; getLogger makes the logger if there is none.
Apply(w) ==
    LET o == Head(ops[w])
        l == m_loggers[o.name]
        Becomes(r) == m_loggers' = [m_loggers EXCEPT ![o.name] = r]
    IN  /\ ops[w] # <<>> /\ o.op # "return" /\ ~crashed
        /\ known' = known \cup {o.name}
        /\ CASE o.op = "setLevel" -> Becomes([l EXCEPT !.level = o.arg])
             [] o.op = "setFormatter" -> Becomes(setFormatter(l, o.arg))
             [] o.op = "clearAppenders" -> Becomes(clearAppenders(l))
             [] o.op = "addAppender" -> Becomes(addAppender(l, o.arg))
             [] o.op = "null" -> UNCHANGED m_loggers
        /\ crashed' = (o.op = "null")
        /\ ops' = [ops EXCEPT ![w] = Tail(@)]
        /\ KeepConfig
        /\ KeepThreads
        /\ UNCHANGED <<ever, formats>>

\* The listener returns, or another one, which does nothing to loggers.
EndNotify(w) ==
    /\ at[w] = "notify" /\ ~crashed
    /\ IF Current(w) = LogListener THEN ops[w] # <<>> /\ Head(ops[w]).op = "return" ELSE TRUE
    /\ ops' = [ops EXCEPT ![w] = <<>>]
    /\ Returns(w)
    /\ KeepThreads
    /\ UNCHANGED <<m_loggers, known, crashed, ever, formats>>

------------------------------------------------------------------------------
(* The threads *)

\* SYLAR_LOG_LEVEL and Logger::log: the level is tested before the lock is taken.
Passes(t, n, level) ==
    /\ msg[t].level = 0 /\ ~crashed
    /\ known' = known \cup {n}
    /\ LET m == [name |-> n, level |-> level, calm |-> ~Setting(Logs)]
       IN  IF level >= m_loggers[n].level
           THEN msg' = [msg EXCEPT ![t] = m] /\ UNCHANGED wrote
           ELSE wrote' = [wrote EXCEPT ![t] = Result(m, {})] /\ UNCHANGED msg
    /\ KeepConfig
    /\ UNCHANGED <<m_loggers, ops, crashed, ever, formats>>

Sinks(l) == {[to |-> l.apps[i].to, fmt |-> l.apps[i].fmt] : i \in DOMAIN l.apps}

\* The logger's appenders; a logger without any hands on to the root logger.
Reached(n, level) ==
    IF m_loggers[n].apps # <<>> THEN Sinks(m_loggers[n])
    ELSE IF n # Root /\ level >= m_loggers[Root].level THEN Sinks(m_loggers[Root])
    ELSE {}

Writes(t) ==
    /\ msg[t].level # 0 /\ ~crashed
    /\ wrote' = [wrote EXCEPT ![t] = Result(msg[t], Reached(msg[t].name, msg[t].level))]
    /\ msg' = [msg EXCEPT ![t] = NoMessage]
    /\ KeepConfig
    /\ UNCHANGED logVars

\* A user of the logger sets a pattern; while the listener is at work either may be last.
UserFormat(n, f) ==
    /\ n \in known /\ m_loggers[n].fmt # f /\ ~crashed
    /\ m_loggers' = [m_loggers EXCEPT ![n] = setFormatter(@, f)]
    /\ formats' = [formats EXCEPT ![n] = IF \E w \in Writer : ops[w] # <<>> THEN @ \cup {f} ELSE {f}]
    /\ KeepConfig /\ KeepThreads
    /\ UNCHANGED <<known, ops, crashed, ever>>

ConfigStep(w) == NextNode(w) \/ Check(w) \/ Store(w)

WriterStep(w) ==
    \/ ~crashed /\ ConfigStep(w) /\ UNCHANGED logVars /\ KeepThreads
    \/ Begin(w) \/ Apply(w) \/ EndNotify(w)

UserStep ==
    /\ \/ \E w \in Writer, doc \in Docs : LoadFromYaml(w, doc)
       \/ \E v \in Var : Lookup(v)
    /\ ~crashed
    /\ UNCHANGED logVars
    /\ KeepThreads

Next ==
    \/ UserStep
    \/ \E w \in Writer : WriterStep(w)
    \/ \E t \in Thread : Writes(t) \/ \E n \in Name, level \in Level : Passes(t, n, level)
    \/ \E n \in Name, f \in UserPattern : UserFormat(n, f)

Spec == Init /\ [][Next]_vars /\ \A w \in Writer : WF_vars(WriterStep(w))

------------------------------------------------------------------------------
(* Properties *)

\* A logger as the value of the variable has it: as defined; switched off if it was
\* defined once; else as it is made.
Configured(n) ==
    IF n \in DOMAIN m_val[Logs]
    THEN [level |-> m_val[Logs][n].level,
          apps |-> [i \in DOMAIN m_val[Logs][n].apps |-> Appender(m_val[Logs][n].apps[i])]]
    ELSE IF n \in ever THEN [level |-> Gone, apps |-> <<>>]
    ELSE [level |-> Debug, apps |-> IF n = Root THEN <<Stdout>> ELSE <<>>]

\* Where it writes: with the appender's own formatter or, if the logger's is to be f, with f.
Targets(n, f) ==
    {[to |-> a.to, fmt |-> IF a.own THEN a.fmt ELSE f] :
        a \in {Configured(n).apps[i] : i \in DOMAIN Configured(n).apps}}

\* The logger whose appenders a message goes to: its own, or the root's.
Writing(n) == IF Configured(n).apps # <<>> THEN n ELSE Root

Silent(n, level) ==
    level < Configured(n).level \/ (Configured(n).apps = <<>> /\ level < Configured(Root).level)

\* A message whose test of the level and whose writing both come while nobody is inside
\* setValue for the variable, with no call of the listener between the two, goes exactly
\* where the value of the variable says: to the appenders it defines, each in its own
\* format or in the one its logger was last given, by a value or by a user (by either of
\* them, if they were at it at the same time).  That after any sequence of documents that
\* add, change and delete loggers.  Nothing is said of a message that a change overtakes
\* between the test and the writing: it may go by the old level to the new appenders.
MessagesObey ==
    [][\A t \in Thread :
          wrote'[t] # wrote[t] /\ wrote'[t].msg.calm =>
              LET m == wrote'[t].msg
              IN  IF Silent(m.name, m.level) THEN wrote'[t].to = {}
                  ELSE \E f \in formats[Writing(m.name)] :
                          wrote'[t].to = Targets(Writing(m.name), f)]_vars

\* The listener uses a logger it has.
NoNull == ~crashed

==============================================================================
