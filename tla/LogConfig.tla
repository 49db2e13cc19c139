----------------------------- MODULE LogConfig -----------------------------
(***************************************************************************)
(* The "logs" configuration of src/src/log.cpp: the parsing of a YAML list *)
(* into a std::set<LogDefine>, its printing, and the listener of LogIniter *)
(* that brings the loggers in line when the value of g_log_defines         *)
(* changes.                                                                *)
(*                                                                         *)
(* A YAML document is a sequence of nodes; a key that is missing has value *)
(* None, which is also the empty string of a define.  The listener runs in *)
(* the thread that loads the file: one load is one step here, Logger and   *)
(* ConfigVar have the interleavings.  The loggers are independent of each  *)
(* other, so the loop over the defines is one update of all of them.       *)
(***************************************************************************)
EXTENDS LogFormatter

CONSTANTS
    Loggers,        \* names
    Root,
    Patterns,       \* formatter patterns
    Default,        \* the pattern of the Logger constructor
    Files,
    None,
    Docs            \* the documents that get loaded

LevelNames == <<"DEBUG", "INFO", "WARN", "ERROR", "FATAL">>
levelNames == <<"debug", "info", "warn", "error", "fatal">>

UNKNOW == 0
\* The patterns whose LogFormatter is not isError()
Valid == {p \in Patterns : ~isError(p)}

CLOSED == 100       \* (LogLevel::Level)100, of a removed logger
Levels == 0..5

\* The value of a formatter: key
Formatters == (Patterns \ {<<>>}) \cup {None}

AppenderNodes ==
    [type : {"FileLogAppender", "StdoutLogAppender", "other", None},
     file : Files \cup {None},
     level : ToSet(LevelNames) \cup ToSet(levelNames) \cup {"UNKNOW", None},
     formatter : Formatters]

Nodes ==
    [name : Loggers \cup {None},
     level : ToSet(LevelNames) \cup ToSet(levelNames) \cup {"UNKNOW", None},
     formatter : Formatters,
     appenders : Seq(AppenderNodes)]

ASSUME LogConfigConstants ==
    /\ Root \in Loggers /\ Default \in Valid
    /\ Patterns \subseteq Seq(STRING)
    /\ None \notin Loggers \cup Patterns \cup Files \cup ToSet(LevelNames) \cup ToSet(levelNames)
    /\ Docs \subseteq Seq(Nodes)

\* LogAppenderDefine and LogDefine
AppenderDefines ==
    [type : {"File"}, file : Files, level : Levels, formatter : Formatters]
    \cup [type : {"Stdout"}, file : {None}, level : Levels, formatter : {None}]

LogDefines ==
    [name : Loggers, level : Levels, formatter : Formatters, appenders : Seq(AppenderDefines)]

VARIABLES
    m_loggers,      \* the loggers the manager has created
    m_level, m_formatter,
    m_appenders,    \* per logger: type, file, level, pattern of m_formatter,
                    \* m_has_formatter
    conf,           \* g_log_defines->m_val
    ever            \* history: the names configured so far

vars == <<m_loggers, m_level, m_formatter, m_appenders, conf, ever>>

-----------------------------------------------------------------------------
LevelToString(lv) == IF lv \in 1..5 THEN LevelNames[lv] ELSE "UNKNOW"

\* Fault: only the lower-case names are known.
LevelFromStringLower(s) ==
    IF \E i \in 1..5 : s = levelNames[i] THEN CHOOSE i \in 1..5 : s = levelNames[i] ELSE UNKNOW

LevelFromString(s) ==
    IF \E i \in 1..5 : s \in {levelNames[i], LevelNames[i]}
    THEN CHOOSE i \in 1..5 : s \in {levelNames[i], LevelNames[i]}
    ELSE UNKNOW

\* The appender nodes that are not skipped
Accepted(node) ==
    \/ node.type = "FileLogAppender" /\ node.file # None
    \/ node.type = "StdoutLogAppender"

\* The level of an appender node is not read, nor is the formatter of a stdout one.
ParseAppender(node) ==
    IF node.type = "FileLogAppender"
    THEN [type |-> "File", file |-> node.file, level |-> UNKNOW, formatter |-> node.formatter]
    ELSE [type |-> "Stdout", file |-> None, level |-> UNKNOW, formatter |-> None]

\* The loop over the appender nodes, by the number of nodes read
ParseAppenders(nodes) ==
    LET read[n \in 0..Len(nodes)] ==
            IF n = 0 THEN <<>>
            ELSE IF Accepted(nodes[n]) THEN Append(read[n - 1], ParseAppender(nodes[n]))
            ELSE read[n - 1]
    IN  read[Len(nodes)]

\* LexicalCast<std::string, LogDefine>, of a node that has a name
ParseDefine(node) ==
    [name |-> node.name, level |-> LevelFromString(node.level), formatter |-> node.formatter,
     appenders |-> ParseAppenders(node.appenders)]

\* insert() into a set that is ordered by name: the first node of a name counts.
Firsts(d) == {i \in DOMAIN d : \A j \in 1..(i - 1) : d[j].name # d[i].name}

Parse(d) == {ParseDefine(d[i]) : i \in Firsts(d)}

\* Parsing throws at a node without a name; fromString() catches it.
WellFormed(d) == \A i \in DOMAIN d : d[i].name # None

\* LexicalCast<LogDefine, std::string>.  A level would take the place of the
\* whole appender node; no define has one.
PrintAppender(a) ==
    IF a.level # UNKNOW
    THEN [type |-> None, file |-> None, level |-> None, formatter |-> None]
    ELSE [type |-> IF a.type = "File" THEN "FileLogAppender" ELSE "StdoutLogAppender",
          file |-> a.file, level |-> None, formatter |-> a.formatter]

PrintDefine(d) ==
    [name |-> d.name, level |-> IF d.level # UNKNOW THEN LevelToString(d.level) ELSE None,
     formatter |-> d.formatter,
     appenders |-> [i \in DOMAIN d.appenders |-> PrintAppender(d.appenders[i])]]

-----------------------------------------------------------------------------
\* The define of a name: std::set::find()
Named(defs, n) == {d \in defs : d.name = n}

\* Fault: a name that is known is taken to be unchanged.
ChangedNew(old, new) == {d \in new : Named(old, d.name) = {}}

\* The added and the modified ones
Changed(old, new) == new \ old

Removed(old, new) == {d.name : d \in old} \ {d.name : d \in new}

\* Logger::setFormatter(pattern) under the test of the listener: an invalid
\* pattern leaves the formatter as it is.
SetPattern(f, pattern) == IF pattern \in Valid THEN pattern ELSE f

\* A new appender: setLevel(), setFormatter(), and addAppender() to a logger
\* with formatter f
NewAppender(a, f) ==
    [type |-> a.type, file |-> a.file, level |-> a.level,
     formatter |-> IF a.formatter \in Valid THEN a.formatter ELSE f,
     has_formatter |-> a.formatter \in Valid]

\* Fault: the level is left as it is.
NewLevelKept(n, old, new) ==
    IF Named(Changed(old, new), n) # {} THEN (CHOOSE d \in Named(new, n) : TRUE).level
    ELSE m_level[n]

NewLevel(n, old, new) ==
    IF n \in Removed(old, new) THEN CLOSED
    ELSE IF Named(Changed(old, new), n) # {} THEN (CHOOSE d \in Named(new, n) : TRUE).level
    ELSE m_level[n]

NewFormatter(n, old, new) ==
    IF Named(Changed(old, new), n) # {}
    THEN SetPattern(m_formatter[n], (CHOOSE d \in Named(new, n) : TRUE).formatter)
    ELSE m_formatter[n]

NewAppenders(n, old, new) ==
    IF n \in Removed(old, new) THEN <<>>
    ELSE IF Named(Changed(old, new), n) # {}
    THEN LET ds == (CHOOSE d \in Named(new, n) : TRUE).appenders IN
         [i \in DOMAIN ds |-> NewAppender(ds[i], NewFormatter(n, old, new))]
    ELSE m_appenders[n]

\* Fault: the formatter is printed of every appender.
AppenderToYamlAll(a) ==
    [type |-> IF a.type = "File" THEN "FileLogAppender" ELSE "StdoutLogAppender",
     file |-> a.file, level |-> IF a.level # UNKNOW THEN LevelToString(a.level) ELSE None,
     formatter |-> a.formatter]

\* toYamlString() of an appender and of a logger: not the configuration but what
\* has become of it.  The manager's is the list of all loggers.
AppenderToYaml(a) ==
    [type |-> IF a.type = "File" THEN "FileLogAppender" ELSE "StdoutLogAppender",
     file |-> a.file, level |-> IF a.level # UNKNOW THEN LevelToString(a.level) ELSE None,
     formatter |-> IF a.has_formatter THEN a.formatter ELSE None]

LoggerToYaml(n) ==
    [name |-> n, level |-> LevelToString(m_level[n]), formatter |-> m_formatter[n],
     appenders |-> [i \in DOMAIN m_appenders[n] |-> AppenderToYaml(m_appenders[n][i])]]

-----------------------------------------------------------------------------
\* LoggerManager's constructor, before any file is loaded
Init ==
    /\ m_loggers = {Root}
    /\ m_level = [n \in Loggers |-> 1]
    /\ m_formatter = [n \in Loggers |-> Default]
    /\ m_appenders = [n \in Loggers |->
          IF n = Root THEN <<[type |-> "Stdout", file |-> None, level |-> 1,
                              formatter |-> Default, has_formatter |-> FALSE]>>
          ELSE <<>>]
    /\ conf = {} /\ ever = {}

\* SYLAR_LOG_NAME(n) in client code
getLogger(n) ==
    /\ n \notin m_loggers
    /\ m_loggers' = m_loggers \cup {n}
    /\ UNCHANGED <<m_level, m_formatter, m_appenders, conf, ever>>

\* The listener of LogIniter, called with the old and the new value
OnChange(old, new) ==
    /\ m_loggers' = m_loggers \cup {d.name : d \in Changed(old, new)} \cup Removed(old, new)
    /\ m_level' = [n \in Loggers |-> NewLevel(n, old, new)]
    /\ m_formatter' = [n \in Loggers |-> NewFormatter(n, old, new)]
    /\ m_appenders' = [n \in Loggers |-> NewAppenders(n, old, new)]

\* fromString() and setValue() with the text of document d
Load(d) ==
    /\ WellFormed(d)
    /\ conf' = Parse(d)
    /\ ever' = ever \cup {e.name : e \in Parse(d)}
    /\ \/ Parse(d) = conf /\ UNCHANGED <<m_loggers, m_level, m_formatter, m_appenders>>
       \/ Parse(d) # conf /\ OnChange(conf, Parse(d))

\* The exception is swallowed: nothing happens.
LoadFails(d) == ~WellFormed(d) /\ UNCHANGED vars

Next ==
    \/ \E n \in Loggers : getLogger(n)
    \/ \E d \in Docs : Load(d) \/ LoadFails(d)

Spec == Init /\ [][Next]_vars

-----------------------------------------------------------------------------
LoggerAppenders ==
    [type : {"File", "Stdout"}, file : Files \cup {None}, level : Levels,
     formatter : Valid, has_formatter : BOOLEAN]

\* Only valid formatters reach a logger or an appender, only files that are
\* named reach a FileLogAppender.
TypeOK ==
    /\ m_loggers \in SUBSET Loggers
    /\ m_level \in [Loggers -> Levels \cup {CLOSED}]
    /\ m_formatter \in [Loggers -> Valid]
    /\ m_appenders \in [Loggers -> Seq(LoggerAppenders)]
    /\ conf \in SUBSET LogDefines
    /\ ever \in SUBSET Loggers

\* What the listener works out from the difference of two values is what the
\* new value says: level and appenders of each logger that is configured, and
\* its formatter if the value names a valid one, in any order of adding,
\* changing, removing and adding again.  A logger whose define has no valid
\* formatter keeps the one it has, from whatever load.
ConfigApplied ==
    \A d \in conf :
        /\ d.name \in m_loggers
        /\ m_level[d.name] = d.level
        /\ d.formatter \in Valid => m_formatter[d.name] = d.formatter
        /\ m_appenders[d.name] =
              [i \in DOMAIN d.appenders |-> NewAppender(d.appenders[i], m_formatter[d.name])]

\* The comment on setFormatter() in the listener says: if the format of
\* log_define.formatter is wrong, logger.formatter keeps the default.
WrongFormatDefault ==
    \A d \in conf :
        d.formatter \notin Valid \cup {None} => m_formatter[d.name] = Default

\* A logger that left the configuration writes nothing, not even through the
\* root logger, and one that never was in it is as it was constructed.
OthersUntouched ==
    \A n \in Loggers : Named(conf, n) = {} =>
        IF n \in ever THEN m_level[n] = CLOSED /\ m_appenders[n] = <<>>
        ELSE m_level[n] = 1 /\ m_formatter[n] = Default /\ (n # Root => m_appenders[n] = <<>>)

\* What toString() prints of the value is parsed as the value again.
RoundTrip == \A d \in conf : ParseDefine(PrintDefine(d)) = d

\* What toYamlString() says of a configured logger is a node that, taken for
\* its configuration, gives the logger as it is.
DumpReloads ==
    \A d \in conf :
        LET n == d.name
            e == ParseDefine(LoggerToYaml(n))
        IN  /\ e.level = m_level[n]
            /\ SetPattern(Default, e.formatter) = m_formatter[n]
            /\ [i \in DOMAIN e.appenders |-> NewAppender(e.appenders[i], m_formatter[n])]
                  = m_appenders[n]

\* LogFormatter::init() reports an error for exactly the patterns that are not
\* well written, and otherwise its items are the pattern, in its order.  (No
\* state matters to it; it is looked at before the first load.)
FormatterReads == ever = {} => \A p \in Patterns : AcceptsWritten(p) /\ ReadsBack(p)
=============================================================================
