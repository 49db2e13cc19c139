------------------------------- MODULE Logger -------------------------------
(***************************************************************************)
(* Loggers, their appenders and the LoggerManager of src/src/log.{h,cpp},  *)
(* used by several threads: the level and formatter of each logger and     *)
(* appender, the lists of appenders, and the mutexes.                      *)
(*                                                                         *)
(* Mutexes nest as manager -> logger -> root logger -> appender.  An       *)
(* appender's m_mutex is only ever held around code that takes no other    *)
(* lock, so that its critical sections are single steps here; those of the *)
(* loggers and of the manager are not.  Levels are read and written        *)
(* without a lock.  What a formatter makes of an event is left out, and so *)
(* is the file behind a FileLogAppender.                                   *)
(***************************************************************************)
EXTENDS Naturals, SequencesExt

CONSTANTS
    Threads,
    Loggers,        \* the names that getLogger() is asked for
    Root,           \* "root", created by the manager's constructor
    Appenders,
    RootAppender,   \* the StdoutLogAppender of the root logger
    Formatters,     \* the valid LogFormatters
    Default,        \* the formatter of the Logger constructor
    NULL,
    Levels,         \* the log levels, numbers
    Rules,          \* the rules of section Clients that clients keep to
    MaxCalls        \* bound: how many calls are made

ASSUME LoggerConstants ==
    /\ Root \in Loggers /\ RootAppender \in Appenders /\ Default \in Formatters
    /\ NULL \notin Formatters \cup Loggers \cup Threads \cup Appenders
    /\ Levels \subseteq Nat /\ 1 \in Levels
    /\ Rules \subseteq {"once", "apart", "nonempty"}
    /\ MaxCalls \in Nat

VARIABLES
    \* LoggerManager
    m_loggers,          \* the loggers created so far
    manager,            \* who holds the manager's m_mutex
    \* Logger
    m_level, m_formatter, m_appenders,
    m_mutex,            \* who holds a logger's m_mutex
    \* LogAppender
    a_level, a_formatter, a_has_formatter,
    \* threads
    pc, call,
    \* history and bounds
    own,                \* the formatter an appender was itself given
    calls

managerVars == <<m_loggers, manager>>
loggerVars == <<m_level, m_formatter, m_appenders>>
appenderVars == <<a_level, a_formatter, a_has_formatter>>
histVars == <<own, calls>>
vars == <<managerVars, loggerVars, m_mutex, appenderVars, pc, call, histVars>>

\* The arguments and locals of the call a thread is in.
Calls ==
    [logger   : Loggers \cup {NULL},            \* this
     at       : Loggers \cup {NULL},            \* the logger whose list is walked
     level    : Levels \cup {0},
     appender : Appenders \cup {NULL},
     fmt      : Formatters \cup {NULL},
     todo     : Seq(Appenders),                 \* the rest of the list
     rest     : SUBSET Loggers]                 \* toYamlString(): loggers to visit

NoCall == [logger |-> NULL, at |-> NULL, level |-> 0, appender |-> NULL, fmt |-> NULL,
           todo |-> <<>>, rest |-> {}]

TypeOK ==
    /\ m_loggers \in SUBSET Loggers
    /\ manager \in Threads \cup {NULL}
    /\ m_level \in [Loggers -> Levels]
    /\ m_formatter \in [Loggers -> Formatters]
    /\ m_appenders \in [Loggers -> Seq(Appenders)]
    /\ m_mutex \in [Loggers -> Threads \cup {NULL}]
    /\ a_level \in [Appenders -> Levels]
    /\ a_formatter \in [Appenders -> Formatters \cup {NULL}]
    /\ a_has_formatter \in [Appenders -> BOOLEAN]
    /\ pc \in [Threads -> {"idle", "event", "log", "append", "add", "get", "init", "push",
                           "format", "spread", "yaml", "visit", "crash"}]
    /\ call \in [Threads -> Calls]
    /\ own \in [Appenders -> Formatters \cup {NULL}]
    /\ calls \in Nat

\* LoggerManager::LoggerManager()
Init ==
    /\ m_loggers = {Root} /\ manager = NULL
    /\ m_level = [g \in Loggers |-> 1]
    /\ m_formatter = [g \in Loggers |-> Default]
    /\ m_appenders = [g \in Loggers |-> IF g = Root THEN <<RootAppender>> ELSE <<>>]
    /\ m_mutex = [g \in Loggers |-> NULL]
    /\ a_level = [a \in Appenders |-> 1]
    /\ a_formatter = [a \in Appenders |-> IF a = RootAppender THEN Default ELSE NULL]
    /\ a_has_formatter = [a \in Appenders |-> FALSE]
    /\ pc = [t \in Threads |-> "idle"]
    /\ call = [t \in Threads |-> NoCall]
    /\ own = [a \in Appenders |-> NULL]
    /\ calls = 0

Goto(t, label) == pc' = [pc EXCEPT ![t] = label]

\* A thread enters a call.
Enter(t) == pc[t] = "idle" /\ calls < MaxCalls /\ calls' = calls + 1

\* The loggers whose m_mutex thread t holds.
Held(t) == {g \in Loggers : m_mutex[g] = t}

\* The scoped locks go out of scope, the call returns.
Return(t) ==
    /\ m_mutex' = [g \in Loggers |-> IF g \in Held(t) THEN NULL ELSE m_mutex[g]]
    /\ call' = [call EXCEPT ![t] = NoCall]
    /\ Goto(t, "idle")

-----------------------------------------------------------------------------
(***************************************************************************)
(* Clients, and the rules they may keep to:                                *)
(*   once      an appender is added once, to one logger                    *)
(*   apart     its own formatter is not set while it is being added        *)
(*   nonempty  no empty formatter is set                                   *)
(***************************************************************************)
Attached(a) == \E g \in Loggers : a \in ToSet(m_appenders[g])

BeingAdded(a) ==
    \E t \in Threads : pc[t] \in {"add", "get", "init", "push"} /\ call[t].appender = a

\* An appender that was added before and removed keeps the logger's formatter.
MayAdd(a) ==
    "once" \in Rules => /\ ~BeingAdded(a) /\ ~Attached(a)
                        /\ a_formatter[a] # NULL => a_has_formatter[a]

MaySet(a, f) ==
    /\ "apart" \in Rules => ~BeingAdded(a)
    /\ "nonempty" \in Rules => f # NULL

\* getLogger(name) of a name that is not known yet
getLogger(t, g) ==
    /\ Enter(t) /\ manager = NULL /\ g \notin m_loggers
    /\ m_loggers' = m_loggers \cup {g}
    /\ UNCHANGED <<manager, loggerVars, m_mutex, appenderVars, pc, call, own>>

-----------------------------------------------------------------------------
\* A logging statement: an event is constructed if its level is high enough.
\* Its text is streamed or formatted into the LogEventWrap.
SYLAR_LOG_LEVEL(t, g, lv) ==
    /\ Enter(t) /\ g \in m_loggers /\ lv >= m_level[g]
    /\ call' = [call EXCEPT ![t] = [NoCall EXCEPT !.logger = g, !.at = g, !.level = lv]]
    /\ Goto(t, "event")
    /\ UNCHANGED <<managerVars, loggerVars, m_mutex, appenderVars, own>>

\* At the end of the statement ~LogEventWrap() calls Logger::log(), which compares
\* the level again, before it takes the lock.
log(t) ==
    /\ pc[t] = "event"
    /\ IF call[t].level >= m_level[call[t].logger]
       THEN Goto(t, "log") /\ UNCHANGED <<m_mutex, call>>
       ELSE Return(t)
    /\ UNCHANGED <<managerVars, loggerVars, appenderVars, histVars>>

\* Fault: the lock is given up before the event is passed on.
LogLockLetsGo(t) ==
    LET g == call[t].at IN
    /\ pc[t] = "log" /\ m_mutex[g] = NULL
    /\ \/ /\ m_appenders[g] # <<>> \/ g = Root \/ call[t].level < m_level[Root]
          /\ m_mutex' = [m_mutex EXCEPT ![g] = t]
          /\ call' = [call EXCEPT ![t].todo = m_appenders[g]]
          /\ Goto(t, "append")
       \/ /\ m_appenders[g] = <<>> /\ g # Root /\ call[t].level >= m_level[Root]
          /\ call' = [call EXCEPT ![t].at = Root]
          /\ UNCHANGED <<pc, m_mutex>>
    /\ UNCHANGED <<managerVars, loggerVars, appenderVars, histVars>>

\* Lock; walk the list, or pass the event on to the root logger while the lock
\* is held.  Nobody takes an event that finds the root logger's list empty too.
LogLock(t) ==
    LET g == call[t].at IN
    /\ pc[t] = "log" /\ m_mutex[g] = NULL
    /\ m_mutex' = [m_mutex EXCEPT ![g] = t]
    /\ \/ /\ m_appenders[g] # <<>> \/ g = Root \/ call[t].level < m_level[Root]
          /\ call' = [call EXCEPT ![t].todo = m_appenders[g]]
          /\ Goto(t, "append")
       \/ /\ m_appenders[g] = <<>> /\ g # Root /\ call[t].level >= m_level[Root]
          /\ call' = [call EXCEPT ![t].at = Root]
          /\ UNCHANGED pc
    /\ UNCHANGED <<managerVars, loggerVars, appenderVars, histVars>>

\* LogAppender::log(): the appender compares the level, locks, formats, writes.
\* An empty m_formatter would be dereferenced.
AppenderLog(t) ==
    LET a == Head(call[t].todo) IN
    /\ pc[t] = "append" /\ call[t].todo # <<>>
    /\ IF call[t].level >= a_level[a] /\ a_formatter[a] = NULL
       THEN Goto(t, "crash") /\ UNCHANGED call
       ELSE call' = [call EXCEPT ![t].todo = Tail(@)] /\ UNCHANGED pc
    /\ UNCHANGED <<managerVars, loggerVars, m_mutex, appenderVars, histVars>>

LogReturn(t) ==
    /\ pc[t] = "append" /\ call[t].todo = <<>>
    /\ Return(t)
    /\ UNCHANGED <<managerVars, loggerVars, appenderVars, histVars>>

-----------------------------------------------------------------------------
\* Logger::addAppender()
addAppender(t, g, a) ==
    /\ Enter(t) /\ g \in m_loggers /\ MayAdd(a)
    /\ call' = [call EXCEPT ![t] = [NoCall EXCEPT !.logger = g, !.appender = a]]
    /\ Goto(t, "add")
    /\ UNCHANGED <<managerVars, loggerVars, m_mutex, appenderVars, own>>

AddLock(t) ==
    /\ pc[t] = "add" /\ m_mutex[call[t].logger] = NULL
    /\ m_mutex' = [m_mutex EXCEPT ![call[t].logger] = t]
    /\ Goto(t, "get")
    /\ UNCHANGED <<managerVars, loggerVars, appenderVars, call, histVars>>

\* Fault: the appender is not given the logger's formatter.
AddGetNoInit(t) ==
    /\ pc[t] = "get"
    /\ Goto(t, "push")
    /\ UNCHANGED <<managerVars, loggerVars, m_mutex, appenderVars, call, histVars>>

\* appender->getFormatter() locks the appender and unlocks it again.
AddGet(t) ==
    /\ pc[t] = "get"
    /\ Goto(t, IF a_formatter[call[t].appender] = NULL THEN "init" ELSE "push")
    /\ UNCHANGED <<managerVars, loggerVars, m_mutex, appenderVars, call, histVars>>

\* The appender is locked a second time.
AddInit(t) ==
    /\ pc[t] = "init"
    /\ a_formatter' = [a_formatter EXCEPT ![call[t].appender] = m_formatter[call[t].logger]]
    /\ Goto(t, "push")
    /\ UNCHANGED <<managerVars, loggerVars, m_mutex, a_level, a_has_formatter, call,
                   histVars>>

AddPush(t) ==
    /\ pc[t] = "push"
    /\ m_appenders' = [m_appenders EXCEPT ![call[t].logger] = Append(@, call[t].appender)]
    /\ Return(t)
    /\ UNCHANGED <<managerVars, m_level, m_formatter, appenderVars, histVars>>

\* delAppender(): the first occurrence is erased.
delAppender(t, g, a) ==
    /\ Enter(t) /\ g \in m_loggers /\ m_mutex[g] = NULL
    /\ a \in ToSet(m_appenders[g])
    /\ m_appenders' = [m_appenders EXCEPT ![g] = RemoveFirst(@, a)]
    /\ UNCHANGED <<managerVars, m_level, m_formatter, m_mutex, appenderVars, pc, call, own>>

clearAppenders(t, g) ==
    /\ Enter(t) /\ g \in m_loggers /\ m_mutex[g] = NULL
    /\ m_appenders' = [m_appenders EXCEPT ![g] = <<>>]
    /\ UNCHANGED <<managerVars, m_level, m_formatter, m_mutex, appenderVars, pc, call, own>>

-----------------------------------------------------------------------------
\* Logger::setFormatter(); the one with a pattern calls it for a valid pattern.
setFormatter(t, g, f) ==
    /\ Enter(t) /\ g \in m_loggers
    /\ call' = [call EXCEPT ![t] = [NoCall EXCEPT !.logger = g, !.fmt = f]]
    /\ Goto(t, "format")
    /\ UNCHANGED <<managerVars, loggerVars, m_mutex, appenderVars, own>>

SetLock(t) ==
    LET g == call[t].logger IN
    /\ pc[t] = "format" /\ m_mutex[g] = NULL
    /\ m_mutex' = [m_mutex EXCEPT ![g] = t]
    /\ m_formatter' = [m_formatter EXCEPT ![g] = call[t].fmt]
    /\ call' = [call EXCEPT ![t].todo = m_appenders[g]]
    /\ Goto(t, "spread")
    /\ UNCHANGED <<managerVars, m_level, m_appenders, appenderVars, histVars>>

\* Faults: every appender, or none, gets the new formatter.
SpreadAll(t) ==
    LET a == Head(call[t].todo) IN
    /\ pc[t] = "spread" /\ call[t].todo # <<>>
    /\ a_formatter' = [a_formatter EXCEPT ![a] = call[t].fmt]
    /\ call' = [call EXCEPT ![t].todo = Tail(@)]
    /\ UNCHANGED <<managerVars, loggerVars, m_mutex, a_level, a_has_formatter, pc, histVars>>

SpreadNone(t) ==
    /\ pc[t] = "spread" /\ call[t].todo # <<>>
    /\ call' = [call EXCEPT ![t].todo = Tail(@)]
    /\ UNCHANGED <<managerVars, loggerVars, m_mutex, appenderVars, pc, histVars>>

\* Fault: the loop does not get past an appender that has its own formatter.
SpreadStuck(t) ==
    LET a == Head(call[t].todo) IN
    /\ pc[t] = "spread" /\ call[t].todo # <<>>
    /\ a_formatter' = IF a_has_formatter[a] THEN a_formatter
                      ELSE [a_formatter EXCEPT ![a] = call[t].fmt]
    /\ call' = IF a_has_formatter[a] THEN call ELSE [call EXCEPT ![t].todo = Tail(@)]
    /\ UNCHANGED <<managerVars, loggerVars, m_mutex, a_level, a_has_formatter, pc, histVars>>

\* The appenders that have no formatter of their own follow, one by one.
Spread(t) ==
    LET a == Head(call[t].todo) IN
    /\ pc[t] = "spread" /\ call[t].todo # <<>>
    /\ a_formatter' = IF a_has_formatter[a] THEN a_formatter
                      ELSE [a_formatter EXCEPT ![a] = call[t].fmt]
    /\ call' = [call EXCEPT ![t].todo = Tail(@)]
    /\ UNCHANGED <<managerVars, loggerVars, m_mutex, a_level, a_has_formatter, pc, histVars>>

SetReturn(t) ==
    /\ pc[t] = "spread" /\ call[t].todo = <<>>
    /\ Return(t)
    /\ UNCHANGED <<managerVars, loggerVars, appenderVars, histVars>>

\* LogAppender::setFormatter()
setAppenderFormatter(t, a, f) ==
    /\ Enter(t) /\ MaySet(a, f)
    /\ a_formatter' = [a_formatter EXCEPT ![a] = f]
    /\ a_has_formatter' = [a_has_formatter EXCEPT ![a] = f # NULL]
    /\ own' = [own EXCEPT ![a] = f]
    /\ UNCHANGED <<managerVars, loggerVars, m_mutex, a_level, pc, call>>

\* setLevel() of a logger and of an appender
setLevel(t, g, lv) ==
    /\ Enter(t) /\ g \in m_loggers
    /\ m_level' = [m_level EXCEPT ![g] = lv]
    /\ UNCHANGED <<managerVars, m_formatter, m_appenders, m_mutex, appenderVars, pc, call,
                   own>>

setAppenderLevel(t, a, lv) ==
    /\ Enter(t)
    /\ a_level' = [a_level EXCEPT ![a] = lv]
    /\ UNCHANGED <<managerVars, loggerVars, m_mutex, a_formatter, a_has_formatter, pc, call,
                   own>>

-----------------------------------------------------------------------------
\* LoggerManager::toYamlString(): the manager is locked while every logger is
\* locked in turn.  The appenders' toYamlString() only reads.
toYamlString(t) ==
    /\ Enter(t) /\ manager = NULL
    /\ manager' = t
    /\ call' = [call EXCEPT ![t] = [NoCall EXCEPT !.rest = m_loggers]]
    /\ Goto(t, "yaml")
    /\ UNCHANGED <<m_loggers, loggerVars, m_mutex, appenderVars, own>>

YamlLock(t) ==
    /\ pc[t] = "yaml"
    /\ \E g \in call[t].rest :
          /\ m_mutex[g] = NULL
          /\ m_mutex' = [m_mutex EXCEPT ![g] = t]
          /\ call' = [call EXCEPT ![t].rest = @ \ {g}]
    /\ Goto(t, "visit")
    /\ UNCHANGED <<managerVars, loggerVars, appenderVars, histVars>>

\* Fault: a logger stays locked while the next one is waited for.
YamlHold(t) ==
    /\ pc[t] = "visit"
    /\ Goto(t, "yaml")
    /\ UNCHANGED <<managerVars, loggerVars, m_mutex, appenderVars, call, histVars>>

YamlUnlock(t) ==
    /\ pc[t] = "visit"
    /\ m_mutex' = [g \in Loggers |-> IF g \in Held(t) THEN NULL ELSE m_mutex[g]]
    /\ Goto(t, "yaml")
    /\ UNCHANGED <<managerVars, loggerVars, appenderVars, call, histVars>>

YamlReturn(t) ==
    /\ pc[t] = "yaml" /\ call[t].rest = {}
    /\ manager' = NULL
    /\ Goto(t, "idle")
    /\ UNCHANGED <<m_loggers, loggerVars, m_mutex, appenderVars, call, histVars>>

-----------------------------------------------------------------------------
Call(t) ==
    \/ toYamlString(t)
    \/ \E g \in Loggers :
          \/ getLogger(t, g) \/ clearAppenders(t, g)
          \/ \E lv \in Levels : SYLAR_LOG_LEVEL(t, g, lv) \/ setLevel(t, g, lv)
          \/ \E a \in Appenders : addAppender(t, g, a) \/ delAppender(t, g, a)
          \/ \E f \in Formatters : setFormatter(t, g, f)
    \/ \E a \in Appenders :
          \/ \E f \in Formatters \cup {NULL} : setAppenderFormatter(t, a, f)
          \/ \E lv \in Levels : setAppenderLevel(t, a, lv)

Continue(t) ==
    \/ log(t) \/ LogLock(t) \/ AppenderLog(t) \/ LogReturn(t)
    \/ AddLock(t) \/ AddGet(t) \/ AddInit(t) \/ AddPush(t)
    \/ SetLock(t) \/ Spread(t) \/ SetReturn(t)
    \/ YamlLock(t) \/ YamlUnlock(t) \/ YamlReturn(t)

\* Every call has returned, or one has crashed.
Quiet ==
    /\ \/ \A t \in Threads : pc[t] = "idle"
       \/ \E t \in Threads : pc[t] = "crash"
    /\ UNCHANGED vars

Next == (\E t \in Threads : Call(t) \/ Continue(t)) \/ Quiet

Spec == Init /\ [][Next]_vars

\* A thread that waits for a mutex is not locked out for ever.
Fairness == \A t \in Threads : SF_vars(Continue(t))

FairSpec == Spec /\ Fairness

-----------------------------------------------------------------------------
\* m_formatter->format(): an appender that a logger can reach has a formatter
\* when an event arrives, although it is constructed without one.
NoNullFormatter == \A t \in Threads : pc[t] # "crash"

\* An appender that was given a formatter keeps it, whatever happens to the
\* formatter of the loggers it is added to.
OwnFormatterKept ==
    \A a \in Appenders : a_has_formatter[a] => a_formatter[a] = own[a]

\* "An appender without a style of its own is initialised with the logger's":
\* whenever no call holds the logger, its list agrees with its formatter.
FormatterInherited ==
    \A g \in Loggers : m_mutex[g] = NULL =>
        \A a \in ToSet(m_appenders[g]) :
            ~a_has_formatter[a] => a_formatter[a] = m_formatter[g]

\* The logger whose list thread t walks, in log() or in setFormatter().
Walked(t) == IF pc[t] = "append" THEN call[t].at ELSE call[t].logger

\* The loops over m_appenders (log.cpp:249, setFormatter()): what is left of the way
\* is what is left of the list, whoever adds, deletes and clears appenders
\* meanwhile; and as long as the root logger's appenders take the event of another
\* logger, that logger has none of its own: no event goes to both lists, and none
\* to the root logger when the list was filled before.
WalkUndisturbed ==
    \A t \in Threads : pc[t] \in {"append", "spread"} =>
        /\ \E k \in 0..Len(m_appenders[Walked(t)]) :
              call[t].todo = SubSeq(m_appenders[Walked(t)], k + 1, Len(m_appenders[Walked(t)]))
        /\ Walked(t) # call[t].logger => m_appenders[call[t].logger] = <<>>

\* Thread t waits for the m_mutex of logger g, or may be about to.
WaitsFor(t, g) ==
    \/ pc[t] = "log" /\ g = call[t].at
    \/ pc[t] \in {"add", "format"} /\ g = call[t].logger
    \/ pc[t] = "yaml" /\ g \in call[t].rest

\* Why no threads wait for each other: a thread that holds the mutex of a logger
\* waits for none but the root logger's, the way log() passes an event on, and one
\* that holds the root logger's waits for none; the manager's is taken by calls that
\* hold nothing, for a call leaves nothing locked behind.
LockOrder ==
    /\ \A t \in Threads, h \in Loggers : m_mutex[h] = t =>
          \A g \in Loggers : WaitsFor(t, g) => g = Root /\ h # Root
    /\ \A t \in Threads : pc[t] = "idle" => manager # t /\ Held(t) = {}

\* The mutexes are taken in one order: every call of every thread returns.
CallsReturn == \A t \in Threads : pc[t] # "idle" ~> pc[t] = "idle"
=============================================================================
