---------------------------- MODULE LoggerProofs ----------------------------
(***************************************************************************)
(* TLAPS proofs about Logger, for any threads, loggers, appenders,         *)
(* formatters and levels: the order of the mutexes, and what each of the   *)
(* clients' rules buys.                                                    *)
(***************************************************************************)
EXTENDS Logger, SequenceTheorems, WellFoundedInduction, TLAPS

USE LoggerConstants DEF Goto

-----------------------------------------------------------------------------
(***************************************************************************)
(* The invariants.                                                         *)
(***************************************************************************)

Adding(t) == pc[t] \in {"add", "get", "init", "push"}

\* What the arguments and locals of a call hold where.
Locals ==
    /\ \A t \in Threads : pc[t] \in {"event", "log", "append"} =>
          call[t].logger \in Loggers /\ call[t].at \in Loggers
    /\ \A t \in Threads : pc[t] \in {"event", "log"} => call[t].todo = <<>>
    /\ \A t \in Threads : Adding(t) =>
          call[t].logger \in Loggers /\ call[t].appender \in Appenders
    /\ \A t \in Threads : pc[t] \in {"format", "spread"} =>
          call[t].logger \in Loggers /\ call[t].fmt \in Formatters

\* Which mutexes a call holds where.
Locks ==
    /\ \A t \in Threads : pc[t] \in {"get", "init", "push", "spread"} =>
          m_mutex[call[t].logger] = t
    /\ \A t \in Threads : pc[t] \in {"idle", "event", "add", "format", "yaml"} =>
          \A g \in Loggers : m_mutex[g] # t
    /\ \A t \in Threads : pc[t] = "log" =>
          \A g \in Loggers : m_mutex[g] = t => call[t].at = Root /\ g # Root
    /\ \A t \in Threads : manager = t => pc[t] \in {"yaml", "visit"}

\* With "nonempty": whoever an event reaches has a formatter.
Formatted ==
    "nonempty" \in Rules =>
        /\ NoNullFormatter
        /\ \A g \in Loggers : \A a \in ToSet(m_appenders[g]) : a_formatter[a] # NULL
        /\ \A t \in Threads : pc[t] \in {"append", "spread"} =>
              \A a \in ToSet(call[t].todo) : a_formatter[a] # NULL
        /\ \A t \in Threads : pc[t] = "push" => a_formatter[call[t].appender] # NULL

\* With "apart": addAppender() does not overwrite a formatter of the appender's own.
OwnOnes ==
    "apart" \in Rules =>
        /\ OwnFormatterKept
        /\ \A a \in Appenders : a_has_formatter[a] => own[a] # NULL
        /\ \A t \in Threads : pc[t] = "init" => ~a_has_formatter[call[t].appender]

\* With "once", "apart" and "nonempty": an appender has one logger at most, and the
\* formatter of this logger, but where a call that holds the mutex still has to see
\* to it.
Inheriting == {"once", "apart", "nonempty"} \subseteq Rules

OneLogger ==
    /\ \A g, h \in Loggers : \A a \in ToSet(m_appenders[g]) :
          a \in ToSet(m_appenders[h]) => g = h
    /\ \A t, u \in Threads :
          Adding(t) /\ Adding(u) /\ call[t].appender = call[u].appender => t = u
    /\ \A t \in Threads, g \in Loggers :
          Adding(t) => call[t].appender \notin ToSet(m_appenders[g])

Joining ==
    /\ \A t \in Threads :
          pc[t] \in {"add", "get"} /\ ~a_has_formatter[call[t].appender] =>
              a_formatter[call[t].appender] = NULL
    /\ \A t \in Threads : pc[t] = "push" /\ ~a_has_formatter[call[t].appender] =>
          a_formatter[call[t].appender] = m_formatter[call[t].logger]

Spreading ==
    \A t \in Threads : pc[t] = "spread" =>
        /\ call[t].fmt = m_formatter[call[t].logger]
        /\ ToSet(call[t].todo) \subseteq ToSet(m_appenders[call[t].logger])

Following ==
    \A g \in Loggers : \A a \in ToSet(m_appenders[g]) :
        \/ a_has_formatter[a]
        \/ a_formatter[a] = m_formatter[g]
        \/ \E t \in Threads :
              pc[t] = "spread" /\ call[t].logger = g /\ a \in ToSet(call[t].todo)

Inherited == Inheriting => OneLogger /\ Joining /\ Spreading /\ Following

LoggerInv ==
    TypeOK /\ Locals /\ Locks /\ Formatted /\ OwnOnes /\ Inherited

-----------------------------------------------------------------------------
(***************************************************************************)
(* Facts about lists of appenders.                                         *)
(***************************************************************************)

\* m_appenders.push_back()
LEMMA AppendFacts ==
    ASSUME NEW s \in Seq(Appenders), NEW a \in Appenders
    PROVE  /\ Append(s, a) \in Seq(Appenders) /\ Append(s, a) # <<>>
           /\ ToSet(Append(s, a)) = ToSet(s) \cup {a}
<1>1. /\ Append(s, a) \in Seq(Appenders) /\ Append(s, a) # <<>>
      /\ Len(s) \in Nat /\ DOMAIN s = 1 .. Len(s)
      /\ DOMAIN Append(s, a) = 1 .. Len(s) + 1
      /\ \A i \in 1 .. Len(s) : Append(s, a)[i] = s[i]
      /\ Append(s, a)[Len(s) + 1] = a
  OBVIOUS
<1>2. \A i \in 1 .. Len(s) : s[i] \in ToSet(s) /\ i \in DOMAIN Append(s, a)
  BY <1>1 DEF ToSet
<1>3. ToSet(s) \subseteq ToSet(Append(s, a))
  BY <1>1, <1>2 DEF ToSet
<1>4. a \in ToSet(Append(s, a))
  BY <1>1 DEF ToSet
<1>5. ASSUME NEW i \in 1 .. Len(s) + 1 PROVE Append(s, a)[i] \in ToSet(s) \cup {a}
  <2>1. i \in 1 .. Len(s) \/ i = Len(s) + 1
    BY <1>1
  <2> QED BY <1>1, <1>2, <2>1
<1>6. ToSet(Append(s, a)) \subseteq ToSet(s) \cup {a}
  BY <1>1, <1>5 DEF ToSet
<1> QED BY <1>1, <1>3, <1>4, <1>6

\* One step of a loop over the list.
LEMMA TailFacts ==
    ASSUME NEW s \in Seq(Appenders), s # <<>>
    PROVE  /\ Head(s) \in Appenders /\ Tail(s) \in Seq(Appenders)
           /\ ToSet(s) = {Head(s)} \cup ToSet(Tail(s))
<1>1. /\ Head(s) \in Appenders /\ Tail(s) \in Seq(Appenders)
      /\ Len(s) \in Nat /\ Len(s) > 0 /\ Head(s) = s[1]
      /\ Len(Tail(s)) = Len(s) - 1 /\ DOMAIN s = 1 .. Len(s)
      /\ DOMAIN Tail(s) = 1 .. Len(s) - 1
      /\ \A i \in 1 .. Len(s) - 1 : Tail(s)[i] = s[i + 1]
  OBVIOUS
<1>2. ASSUME NEW x \in ToSet(s) PROVE x \in {Head(s)} \cup ToSet(Tail(s))
  <2>1. PICK i \in 1 .. Len(s) : x = s[i]
    BY <1>1 DEF ToSet
  <2>2. CASE i = 1
    BY <1>1, <2>1, <2>2
  <2>3. CASE i # 1
    <3>1. i - 1 \in 1 .. Len(s) - 1 /\ (i - 1) + 1 = i
      BY <1>1, <2>3
    <3>2. x = Tail(s)[i - 1]
      BY <1>1, <2>1, <3>1
    <3> QED BY <1>1, <3>1, <3>2 DEF ToSet
  <2> QED BY <2>2, <2>3
<1>3. ASSUME NEW i \in 1 .. Len(s) - 1 PROVE Tail(s)[i] \in ToSet(s)
  <2>1. i + 1 \in 1 .. Len(s) /\ Tail(s)[i] = s[i + 1]
    BY <1>1
  <2> QED BY <1>1, <2>1 DEF ToSet
<1>4. Head(s) \in ToSet(s)
  BY <1>1 DEF ToSet
<1>5. ToSet(Tail(s)) \subseteq ToSet(s)
  BY <1>1, <1>3 DEF ToSet
<1> QED BY <1>1, <1>2, <1>4, <1>5

\* m_appenders.erase(): nobody new is on the list.
LEMMA RemoveFacts ==
    ASSUME NEW s \in Seq(Appenders), NEW a \in Appenders
    PROVE  /\ RemoveFirst(s, a) \in Seq(Appenders)
           /\ ToSet(RemoveFirst(s, a)) \subseteq ToSet(s)
<1> DEFINE I == {i \in 1 .. Len(s) : s[i] = a}
           less == OpToRel(<, Nat)
<1>1. Len(s) \in Nat /\ DOMAIN s = 1 .. Len(s)
  OBVIOUS
<1>2. CASE I = {}
  BY <1>2 DEF RemoveFirst
<1>3. CASE I # {}
  <2>1. I \subseteq Nat
    BY <1>1
  <2>2. PICK n \in I : \A k \in I : <<k, n>> \notin less
    BY <1>3, <2>1, NatLessThanWellFounded, WFMin, Zenon
  <2>3. \A k, m \in Nat : k < m => <<k, m>> \in less
    BY DEF OpToRel
  <2> HIDE DEF less
  <2>4. ASSUME NEW k \in I PROVE n <= k
    <3>1. n \in Nat /\ k \in Nat
      BY <2>1
    <3>2. ~(k < n)
      BY <2>2, <2>3, <3>1, Zenon
    <3> QED BY <3>1, <3>2
  <2> DEFINE m == SelectInSeq(s, LAMBDA v : v = a)
  <2>5. m = Min(I)
    BY <1>3 DEF SelectInSeq
  <2>6. Min(I) \in I
    BY <2>4, Zenon DEF Min
  <2>7. m \in 1 .. Len(s)
    BY <2>5, <2>6
  <2>8. RemoveFirst(s, a) = RemoveAt(s, m)
    BY <1>3 DEF RemoveFirst
  <2> HIDE DEF m, I
  <2>9. \A i \in 1 .. Len(s) : s[i] \in ToSet(s)
    BY <1>1 DEF ToSet
  <2>10. SubSeq(s, 1, m - 1) \in Seq(ToSet(s))
    <3>1. s \in Seq(ToSet(s))
      BY <1>1, <2>9, LenProperties, SeqDef
    <3> QED BY <1>1, <2>7, <3>1, <2>9, SubSeqProperties
  <2>11. SubSeq(s, m + 1, Len(s)) \in Seq(ToSet(s))
    <3>1. s \in Seq(ToSet(s))
      BY <1>1, <2>9, LenProperties, SeqDef
    <3> QED BY <1>1, <2>7, <3>1, <2>9, SubSeqProperties
  <2>12. RemoveFirst(s, a) \in Seq(ToSet(s))
    BY <2>8, <2>10, <2>11, ConcatProperties DEF RemoveAt
  <2>13. ToSet(s) \subseteq Appenders
    BY <1>1, ElementOfSeq DEF ToSet
  <2>14. RemoveFirst(s, a) \in Seq(Appenders)
    BY <2>12, <2>13, SeqMonotonic
  <2>15. ToSet(RemoveFirst(s, a)) \subseteq ToSet(s)
    BY <2>12, LenProperties, ElementOfSeq DEF ToSet
  <2> QED BY <2>14, <2>15
<1> QED BY <1>2, <1>3
\* The members of the lists of a state.
LEMMA ListFacts ==
    ASSUME TypeOK
    PROVE  /\ \A g \in Loggers : ToSet(m_appenders[g]) \subseteq Appenders
           /\ \A t \in Threads : ToSet(call[t].todo) \subseteq Appenders
<1>1. ASSUME NEW s \in Seq(Appenders) PROVE ToSet(s) \subseteq Appenders
  BY DEF ToSet
<1>2. \A t \in Threads : call[t].todo \in Seq(Appenders)
  BY DEF TypeOK, Calls
<1> QED BY <1>1, <1>2 DEF TypeOK

\* Arguments and locals keep their types.
LEMMA NoCallFacts == NoCall \in Calls
  BY DEF NoCall, Calls

LEMMA CallFacts ==
    ASSUME TypeOK
    PROVE  /\ NoCall \in Calls
           /\ [NoCall EXCEPT !.rest = m_loggers] \in Calls
           /\ \A g \in Loggers, lv \in Levels :
                 [NoCall EXCEPT !.logger = g, !.at = g, !.level = lv] \in Calls
           /\ \A g \in Loggers, a \in Appenders :
                 [NoCall EXCEPT !.logger = g, !.appender = a] \in Calls
           /\ \A g \in Loggers, f \in Formatters :
                 [NoCall EXCEPT !.logger = g, !.fmt = f] \in Calls
<1>1. NoCall \in Calls
  BY NoCallFacts
<1>2. [NoCall EXCEPT !.rest = m_loggers] \in Calls
  BY <1>1 DEF Calls, TypeOK
<1>3. ASSUME NEW g \in Loggers, NEW lv \in Levels
      PROVE  [NoCall EXCEPT !.logger = g, !.at = g, !.level = lv] \in Calls
  BY <1>1 DEF Calls
<1>4. ASSUME NEW g \in Loggers, NEW a \in Appenders
      PROVE  [NoCall EXCEPT !.logger = g, !.appender = a] \in Calls
  BY <1>1 DEF Calls
<1>5. ASSUME NEW g \in Loggers, NEW f \in Formatters
      PROVE  [NoCall EXCEPT !.logger = g, !.fmt = f] \in Calls
  BY <1>1 DEF Calls
<1> QED BY <1>1, <1>2, <1>3, <1>4, <1>5

LEMMA LocalFacts ==
    ASSUME NEW c \in Calls
    PROVE  /\ \A g \in Loggers :
                 [c EXCEPT !.at = g] \in Calls /\ [c EXCEPT !.rest = @ \ {g}] \in Calls
           /\ \A s \in Seq(Appenders) : [c EXCEPT !.todo = s] \in Calls
  BY DEF Calls

-----------------------------------------------------------------------------
(***************************************************************************)
(* Every step keeps the invariant.                                         *)
(***************************************************************************)

\* What Return() and YamlUnlock() do to the mutexes.
LEMMA UnlockFacts ==
    ASSUME TypeOK, NEW t \in Threads,
           m_mutex' = [g \in Loggers |-> IF g \in Held(t) THEN NULL ELSE m_mutex[g]]
    PROVE  /\ m_mutex' \in [Loggers -> Threads \cup {NULL}]
           /\ \A h \in Loggers : /\ m_mutex[h] = t => m_mutex'[h] = NULL
                                 /\ m_mutex[h] # t => m_mutex'[h] = m_mutex[h]
  BY DEF TypeOK, Held

\* A step that adds no appender, logs to none and sets no formatter keeps what the
\* rules are for.
LEMMA Aside ==
    ASSUME LoggerInv, NEW t \in Threads,
           pc[t] = "spread" => call[t].todo = <<>> \/ pc'[t] = "spread",
           pc'[t] \notin {"add", "get", "init", "push", "append", "spread", "crash"},
           \A u \in Threads \ {t} : pc'[u] = pc[u] /\ call'[u] = call[u],
           UNCHANGED <<m_formatter, m_appenders, a_formatter, a_has_formatter, own>>
    PROVE  Formatted' /\ OwnOnes' /\ Inherited'
<1>1. Formatted'
  BY DEF LoggerInv, Formatted, NoNullFormatter
<1>2. OwnOnes'
  BY DEF LoggerInv, OwnOnes, OwnFormatterKept
<1>4. ASSUME Inheriting PROVE OneLogger' /\ Joining' /\ Spreading' /\ Following'
  <2>0. OneLogger /\ Joining /\ Spreading /\ Following
    BY <1>4 DEF LoggerInv, Inherited
  <2>1. OneLogger'
    BY <2>0 DEF OneLogger, Adding
  <2>2. Joining'
    BY <2>0 DEF Joining
  <2>3. Spreading'
    BY <2>0 DEF Spreading
  <2>4. Following'
    BY <2>0 DEF Following, ToSet
  <2> QED BY <2>1, <2>2, <2>3, <2>4
<1> QED BY <1>1, <1>2, <1>4 DEF Inherited, Inheriting

LEMMA ToYamlStringStep ==
    ASSUME LoggerInv, NEW t \in Threads, toYamlString(t)
    PROVE  LoggerInv'
<1>0. TypeOK /\ Locals /\ Locks /\ Formatted /\ OwnOnes /\ Inherited
  BY DEF LoggerInv
<1>1. TypeOK'
  <2>1. [NoCall EXCEPT !.rest = m_loggers] \in Calls
    BY <1>0, CallFacts
  <2>2. call' \in [Threads -> Calls]
    BY <1>0, <2>1 DEF toYamlString, TypeOK
  <2>3. calls' \in Nat
    BY <1>0 DEF toYamlString, Enter, TypeOK
  <2> QED BY <1>0, <2>2, <2>3 DEF toYamlString, loggerVars, appenderVars, TypeOK
<1>2. /\ pc[t] = "idle" /\ pc'[t] = "yaml"
      /\ \A u \in Threads \ {t} : pc'[u] = pc[u] /\ call'[u] = call[u]
      /\ manager = NULL /\ manager' = t
      /\ UNCHANGED <<m_mutex, m_formatter, m_appenders, a_formatter, a_has_formatter,
                     own>>
  BY <1>0 DEF toYamlString, loggerVars, appenderVars, Enter, TypeOK
<1>3. Locals'
  BY <1>0, <1>2 DEF Locals, Adding
<1>4. Locks'
  BY <1>0, <1>2 DEF Locks, Locals, Adding
<1>5. Formatted' /\ OwnOnes' /\ Inherited'
  BY <1>0, <1>2, Aside
<1> QED BY <1>1, <1>3, <1>4, <1>5 DEF LoggerInv

LEMMA GetLoggerStep ==
    ASSUME LoggerInv, NEW t \in Threads, NEW g \in Loggers, getLogger(t, g)
    PROVE  LoggerInv'
<1>0. TypeOK /\ Locals /\ Locks /\ Formatted /\ OwnOnes /\ Inherited
  BY DEF LoggerInv
<1>1. TypeOK'
  BY <1>0 DEF getLogger, loggerVars, appenderVars, Enter, TypeOK
<1>2. /\ pc[t] = "idle"
      /\ UNCHANGED <<manager, m_mutex, pc, call, m_formatter, m_appenders, a_formatter,
                     a_has_formatter, own>>
  BY DEF getLogger, loggerVars, appenderVars, Enter
<1>3. Locals'
  BY <1>0, <1>2 DEF Locals, Adding
<1>4. Locks'
  BY <1>0, <1>2 DEF Locks, Locals, Adding
<1>5. Formatted' /\ OwnOnes' /\ Inherited'
  BY <1>0, <1>2, Aside
<1> QED BY <1>1, <1>3, <1>4, <1>5 DEF LoggerInv

LEMMA ClearAppendersStep ==
    ASSUME LoggerInv, NEW t \in Threads, NEW g \in Loggers, clearAppenders(t, g)
    PROVE  LoggerInv'
<1>0. TypeOK /\ Locals /\ Locks /\ Formatted /\ OwnOnes /\ Inherited
  BY DEF LoggerInv
<1>1. TypeOK'
  BY <1>0 DEF clearAppenders, managerVars, appenderVars, Enter, TypeOK
<1>2. /\ m_mutex[g] = NULL /\ ToSet(m_appenders'[g]) = {}
      /\ \A h \in Loggers \ {g} : m_appenders'[h] = m_appenders[h]
      /\ UNCHANGED <<manager, m_mutex, pc, call, m_formatter, a_formatter,
                     a_has_formatter, own>>
  <2>1. ToSet(<<>>) = {}
    BY DEF ToSet
  <2> QED BY <1>0, <2>1 DEF clearAppenders, managerVars, appenderVars, TypeOK
<1>3. Locals'
  BY <1>0, <1>2 DEF Locals, Adding
<1>4. Locks'
  BY <1>0, <1>2 DEF Locks, Locals, Adding
<1>5. Formatted'
  BY <1>0, <1>2 DEF Formatted, NoNullFormatter
<1>6. OwnOnes'
  BY <1>0, <1>2 DEF OwnOnes, OwnFormatterKept
<1>8. ASSUME Inheriting PROVE OneLogger' /\ Joining' /\ Spreading' /\ Following'
  <2>0. OneLogger /\ Joining /\ Spreading /\ Following
    BY <1>0, <1>8 DEF Inherited
  <2>1. OneLogger'
    BY <1>2, <2>0 DEF OneLogger, Adding
  <2>2. Joining'
    BY <1>2, <2>0 DEF Joining
  <2>3. Spreading'
    BY <1>0, <1>2, <2>0 DEF Spreading, Locals, Locks
  <2>4. Following'
    BY <1>2, <2>0 DEF Following, Joining, Spreading, OneLogger
  <2> QED BY <2>1, <2>2, <2>3, <2>4
<1> QED BY <1>1, <1>3, <1>4, <1>5, <1>6, <1>8 DEF LoggerInv, Inherited

LEMMA LogLevelStep ==
    ASSUME LoggerInv, NEW t \in Threads, NEW g \in Loggers, NEW lv \in Levels,
           SYLAR_LOG_LEVEL(t, g, lv)
    PROVE  LoggerInv'
<1>0. TypeOK /\ Locals /\ Locks /\ Formatted /\ OwnOnes /\ Inherited
  BY DEF LoggerInv
<1>1. TypeOK'
  <2>1. [NoCall EXCEPT !.logger = g, !.at = g, !.level = lv] \in Calls
    BY <1>0, CallFacts
  <2>2. call' \in [Threads -> Calls]
    BY <1>0, <2>1 DEF SYLAR_LOG_LEVEL, TypeOK
  <2>3. calls' \in Nat
    BY <1>0 DEF SYLAR_LOG_LEVEL, Enter, TypeOK
  <2> QED BY <1>0, <2>2, <2>3
             DEF SYLAR_LOG_LEVEL, managerVars, loggerVars, appenderVars,
                 TypeOK
<1>2. /\ pc[t] = "idle" /\ pc'[t] = "event"
      /\ call'[t].logger = g /\ call'[t].at = g /\ call'[t].todo = <<>>
      /\ \A u \in Threads \ {t} : pc'[u] = pc[u] /\ call'[u] = call[u]
      /\ UNCHANGED <<manager, m_mutex, m_formatter, m_appenders, a_formatter,
                     a_has_formatter, own>>
  BY <1>0
     DEF SYLAR_LOG_LEVEL, managerVars, loggerVars, appenderVars, Enter, TypeOK,
         NoCall
<1>3. Locals'
  BY <1>0, <1>2 DEF Locals, Adding
<1>4. Locks'
  BY <1>0, <1>2 DEF Locks, Locals, Adding
<1>5. Formatted' /\ OwnOnes' /\ Inherited'
  BY <1>0, <1>2, Aside
<1> QED BY <1>1, <1>3, <1>4, <1>5 DEF LoggerInv

LEMMA SetLevelStep ==
    ASSUME LoggerInv, NEW t \in Threads, NEW g \in Loggers, NEW lv \in Levels,
           setLevel(t, g, lv)
    PROVE  LoggerInv'
<1>0. TypeOK /\ Locals /\ Locks /\ Formatted /\ OwnOnes /\ Inherited
  BY DEF LoggerInv
<1>1. TypeOK'
  BY <1>0 DEF setLevel, managerVars, appenderVars, Enter, TypeOK
<1>2. /\ pc[t] = "idle"
      /\ UNCHANGED <<manager, m_mutex, pc, call, m_formatter, m_appenders, a_formatter,
                     a_has_formatter, own>>
  BY DEF setLevel, managerVars, appenderVars, Enter
<1>3. Locals'
  BY <1>0, <1>2 DEF Locals, Adding
<1>4. Locks'
  BY <1>0, <1>2 DEF Locks, Locals, Adding
<1>5. Formatted' /\ OwnOnes' /\ Inherited'
  BY <1>0, <1>2, Aside
<1> QED BY <1>1, <1>3, <1>4, <1>5 DEF LoggerInv

LEMMA AddAppenderStep ==
    ASSUME LoggerInv, NEW t \in Threads, NEW g \in Loggers, NEW a \in Appenders,
           addAppender(t, g, a)
    PROVE  LoggerInv'
<1>0. TypeOK /\ Locals /\ Locks /\ Formatted /\ OwnOnes /\ Inherited
  BY DEF LoggerInv
<1>1. TypeOK'
  <2>1. [NoCall EXCEPT !.logger = g, !.appender = a] \in Calls
    BY <1>0, CallFacts
  <2>2. call' \in [Threads -> Calls]
    BY <1>0, <2>1 DEF addAppender, TypeOK
  <2>3. calls' \in Nat
    BY <1>0 DEF addAppender, Enter, TypeOK
  <2> QED BY <1>0, <2>2, <2>3
             DEF addAppender, managerVars, loggerVars, appenderVars, TypeOK
<1>2. /\ MayAdd(a)
      /\ pc[t] = "idle" /\ pc'[t] = "add"
      /\ call'[t].logger = g /\ call'[t].appender = a
      /\ \A u \in Threads \ {t} : pc'[u] = pc[u] /\ call'[u] = call[u]
      /\ UNCHANGED <<manager, m_mutex, m_formatter, m_appenders, a_formatter,
                     a_has_formatter, own>>
  BY <1>0 DEF addAppender, managerVars, loggerVars, appenderVars, Enter, TypeOK
<1>3. Locals'
  BY <1>0, <1>2 DEF Locals, Adding
<1>4. Locks'
  BY <1>0, <1>2 DEF Locks, Locals, Adding
<1>5. Formatted'
  BY <1>0, <1>2 DEF Formatted, NoNullFormatter
<1>6. OwnOnes'
  BY <1>0, <1>2 DEF OwnOnes, OwnFormatterKept
<1>8. ASSUME Inheriting PROVE OneLogger' /\ Joining' /\ Spreading' /\ Following'
  <2>0. OneLogger /\ Joining /\ Spreading /\ Following
    BY <1>0, <1>8 DEF Inherited
  <2>1. OneLogger'
    BY <1>2, <1>8, <2>0 DEF OneLogger, Adding, MayAdd, Attached, BeingAdded, Inheriting
  <2>2. Joining'
    BY <1>2, <1>8, <2>0 DEF Joining, MayAdd, Inheriting
  <2>3. Spreading'
    BY <1>2, <2>0 DEF Spreading
  <2>4. Following'
    BY <1>2, <2>0 DEF Following
  <2> QED BY <2>1, <2>2, <2>3, <2>4
<1> QED BY <1>1, <1>3, <1>4, <1>5, <1>6, <1>8 DEF LoggerInv, Inherited

LEMMA DelAppenderStep ==
    ASSUME LoggerInv, NEW t \in Threads, NEW g \in Loggers, NEW a \in Appenders,
           delAppender(t, g, a)
    PROVE  LoggerInv'
<1>0. TypeOK /\ Locals /\ Locks /\ Formatted /\ OwnOnes /\ Inherited
  BY DEF LoggerInv
<1>1. TypeOK'
  <2>1. m_appenders' \in [Loggers -> Seq(Appenders)]
    <3>1. m_appenders[g] \in Seq(Appenders)
      BY <1>0 DEF TypeOK
    <3>2. RemoveFirst(m_appenders[g], a) \in Seq(Appenders)
      BY <3>1, RemoveFacts
    <3> QED BY <1>0, <3>2 DEF delAppender, TypeOK
  <2> QED BY <1>0, <2>1 DEF delAppender, Enter, managerVars, appenderVars, TypeOK
<1>2. /\ m_mutex[g] = NULL
      /\ ToSet(m_appenders'[g]) \subseteq ToSet(m_appenders[g])
      /\ \A h \in Loggers \ {g} : m_appenders'[h] = m_appenders[h]
      /\ UNCHANGED <<manager, m_mutex, pc, call, m_formatter, a_formatter,
                     a_has_formatter, own>>
  BY <1>0, RemoveFacts DEF delAppender, managerVars, appenderVars, TypeOK
<1>3. Locals'
  BY <1>0, <1>2 DEF Locals, Adding
<1>4. Locks'
  BY <1>0, <1>2 DEF Locks, Locals, Adding
<1>5. Formatted'
  BY <1>0, <1>2 DEF Formatted, NoNullFormatter
<1>6. OwnOnes'
  BY <1>0, <1>2 DEF OwnOnes, OwnFormatterKept
<1>8. ASSUME Inheriting PROVE OneLogger' /\ Joining' /\ Spreading' /\ Following'
  <2>0. OneLogger /\ Joining /\ Spreading /\ Following
    BY <1>0, <1>8 DEF Inherited
  <2>1. OneLogger'
    BY <1>2, <2>0 DEF OneLogger, Adding
  <2>2. Joining'
    BY <1>2, <2>0 DEF Joining
  <2>3. Spreading'
    BY <1>0, <1>2, <2>0 DEF Spreading, Locals, Locks
  <2>4. Following'
    BY <1>2, <2>0 DEF Following
  <2> QED BY <2>1, <2>2, <2>3, <2>4
<1> QED BY <1>1, <1>3, <1>4, <1>5, <1>6, <1>8 DEF LoggerInv, Inherited

LEMMA SetFormatterStep ==
    ASSUME LoggerInv, NEW t \in Threads, NEW g \in Loggers, NEW f \in Formatters,
           setFormatter(t, g, f)
    PROVE  LoggerInv'
<1>0. TypeOK /\ Locals /\ Locks /\ Formatted /\ OwnOnes /\ Inherited
  BY DEF LoggerInv
<1>1. TypeOK'
  <2>1. [NoCall EXCEPT !.logger = g, !.fmt = f] \in Calls
    BY <1>0, CallFacts
  <2>2. call' \in [Threads -> Calls]
    BY <1>0, <2>1 DEF setFormatter, TypeOK
  <2>3. calls' \in Nat
    BY <1>0 DEF setFormatter, Enter, TypeOK
  <2> QED BY <1>0, <2>2, <2>3
             DEF setFormatter, managerVars, loggerVars, appenderVars,
                 TypeOK
<1>2. /\ pc[t] = "idle" /\ pc'[t] = "format"
      /\ call'[t].logger = g /\ call'[t].fmt = f
      /\ \A u \in Threads \ {t} : pc'[u] = pc[u] /\ call'[u] = call[u]
      /\ UNCHANGED <<manager, m_mutex, m_formatter, m_appenders, a_formatter,
                     a_has_formatter, own>>
  BY <1>0 DEF setFormatter, managerVars, loggerVars, appenderVars, Enter, TypeOK
<1>3. Locals'
  BY <1>0, <1>2 DEF Locals, Adding
<1>4. Locks'
  BY <1>0, <1>2 DEF Locks, Locals, Adding
<1>5. Formatted' /\ OwnOnes' /\ Inherited'
  BY <1>0, <1>2, Aside
<1> QED BY <1>1, <1>3, <1>4, <1>5 DEF LoggerInv

LEMMA SetAppenderFormatterStep ==
    ASSUME LoggerInv, NEW t \in Threads, NEW a \in Appenders,
           NEW f \in Formatters \cup {NULL},
           setAppenderFormatter(t, a, f)
    PROVE  LoggerInv'
<1>0. TypeOK /\ Locals /\ Locks /\ Formatted /\ OwnOnes /\ Inherited
  BY DEF LoggerInv
<1>1. TypeOK'
  BY <1>0 DEF setAppenderFormatter, managerVars, loggerVars, Enter, TypeOK
<1>2. /\ MaySet(a, f)
      /\ a_formatter'[a] = f /\ own'[a] = f /\ a_has_formatter'[a] = (f # NULL)
      /\ \A b \in Appenders \ {a} :
            /\ a_formatter'[b] = a_formatter[b] /\ own'[b] = own[b]
            /\ a_has_formatter'[b] = a_has_formatter[b]
      /\ UNCHANGED <<manager, m_mutex, pc, call, m_formatter, m_appenders>>
  BY <1>0 DEF setAppenderFormatter, managerVars, loggerVars, TypeOK
<1>3. Locals'
  BY <1>0, <1>2 DEF Locals, Adding
<1>4. Locks'
  BY <1>0, <1>2 DEF Locks, Locals, Adding
<1>5. Formatted'
  BY <1>0, <1>2, ListFacts DEF Formatted, NoNullFormatter, Locals, Adding, MaySet
<1>6. OwnOnes'
  BY <1>0, <1>2 DEF OwnOnes, OwnFormatterKept, Locals, Adding, MaySet, BeingAdded
<1>8. ASSUME Inheriting PROVE OneLogger' /\ Joining' /\ Spreading' /\ Following'
  <2>0. OneLogger /\ Joining /\ Spreading /\ Following
    BY <1>0, <1>8 DEF Inherited
  <2>1. OneLogger'
    BY <1>2, <2>0 DEF OneLogger, Adding
  <2>2. Joining'
    BY <1>0, <1>2, <1>8, <2>0
       DEF Joining, Locals, Adding, MaySet, BeingAdded, Inheriting
  <2>3. Spreading'
    BY <1>2, <2>0 DEF Spreading
  <2>4. Following'
    <3>1. a_has_formatter'[a]
      BY <1>2, <1>8 DEF MaySet, Inheriting
    <3>2. ASSUME NEW h \in Loggers, NEW b \in ToSet(m_appenders[h]), b # a
          PROVE  b \in Appenders /\ a_has_formatter'[b] = a_has_formatter[b]
                 /\ a_formatter'[b] = a_formatter[b]
      BY <1>0, <1>2, <3>2, ListFacts
    <3> QED BY <1>2, <2>0, <3>1, <3>2 DEF Following
  <2> QED BY <2>1, <2>2, <2>3, <2>4
<1> QED BY <1>1, <1>3, <1>4, <1>5, <1>6, <1>8 DEF LoggerInv, Inherited

LEMMA SetAppenderLevelStep ==
    ASSUME LoggerInv, NEW t \in Threads, NEW a \in Appenders, NEW lv \in Levels,
           setAppenderLevel(t, a, lv)
    PROVE  LoggerInv'
<1>0. TypeOK /\ Locals /\ Locks /\ Formatted /\ OwnOnes /\ Inherited
  BY DEF LoggerInv
<1>1. TypeOK'
  BY <1>0 DEF setAppenderLevel, managerVars, loggerVars, Enter, TypeOK
<1>2. /\ pc[t] = "idle"
      /\ UNCHANGED <<manager, m_mutex, pc, call, m_formatter, m_appenders, a_formatter,
                     a_has_formatter, own>>
  BY DEF setAppenderLevel, managerVars, loggerVars, Enter
<1>3. Locals'
  BY <1>0, <1>2 DEF Locals, Adding
<1>4. Locks'
  BY <1>0, <1>2 DEF Locks, Locals, Adding
<1>5. Formatted' /\ OwnOnes' /\ Inherited'
  BY <1>0, <1>2, Aside
<1> QED BY <1>1, <1>3, <1>4, <1>5 DEF LoggerInv

LEMMA LogReturnStep ==
    ASSUME LoggerInv, NEW t \in Threads, LogReturn(t)
    PROVE  LoggerInv'
<1>0. TypeOK /\ Locals /\ Locks /\ Formatted /\ OwnOnes /\ Inherited
  BY DEF LoggerInv
<1>1. TypeOK'
  BY <1>0, CallFacts
     DEF LogReturn, managerVars, loggerVars, appenderVars, histVars, Return, TypeOK
<1>2. /\ pc[t] = "append" /\ pc'[t] = "idle"
      /\ \A u \in Threads \ {t} : pc'[u] = pc[u] /\ call'[u] = call[u]
      /\ \A h \in Loggers : /\ m_mutex[h] = t => m_mutex'[h] = NULL
                            /\ m_mutex[h] # t => m_mutex'[h] = m_mutex[h]
      /\ UNCHANGED <<manager, m_formatter, m_appenders, a_formatter, a_has_formatter,
                     own>>
  BY <1>0, UnlockFacts
     DEF LogReturn, managerVars, loggerVars, appenderVars, histVars, Return, TypeOK
<1>3. Locals'
  BY <1>0, <1>2 DEF Locals, Adding
<1>4. Locks'
  BY <1>0, <1>2 DEF Locks, Locals, Adding
<1>5. Formatted' /\ OwnOnes' /\ Inherited'
  BY <1>0, <1>2, Aside
<1> QED BY <1>1, <1>3, <1>4, <1>5 DEF LoggerInv

LEMMA AddLockStep ==
    ASSUME LoggerInv, NEW t \in Threads, AddLock(t)
    PROVE  LoggerInv'
<1>0. TypeOK /\ Locals /\ Locks /\ Formatted /\ OwnOnes /\ Inherited
  BY DEF LoggerInv
<1>1. TypeOK'
  BY <1>0 DEF AddLock, managerVars, loggerVars, appenderVars, histVars, TypeOK
<1>2. /\ pc[t] = "add" /\ pc'[t] = "get"
      /\ \A u \in Threads \ {t} : pc'[u] = pc[u]
      /\ m_mutex[call[t].logger] = NULL /\ m_mutex'[call[t].logger] = t
      /\ \A h \in Loggers \ {call[t].logger} : m_mutex'[h] = m_mutex[h]
      /\ UNCHANGED <<manager, call, m_formatter, m_appenders, a_formatter,
                     a_has_formatter, own>>
  BY <1>0
     DEF AddLock, managerVars, loggerVars, appenderVars, histVars, TypeOK, Locals,
         Adding
<1>3. Locals'
  BY <1>0, <1>2 DEF Locals, Adding
<1>4. Locks'
  BY <1>0, <1>2 DEF Locks, Locals, Adding
<1>5. Formatted'
  BY <1>0, <1>2 DEF Formatted, NoNullFormatter
<1>6. OwnOnes'
  BY <1>0, <1>2 DEF OwnOnes, OwnFormatterKept
<1>8. ASSUME Inheriting PROVE OneLogger' /\ Joining' /\ Spreading' /\ Following'
  <2>0. OneLogger /\ Joining /\ Spreading /\ Following
    BY <1>0, <1>8 DEF Inherited
  <2>1. OneLogger'
    BY <1>2, <2>0 DEF OneLogger, Adding
  <2>2. Joining'
    BY <1>2, <2>0 DEF Joining
  <2>3. Spreading'
    BY <1>2, <2>0 DEF Spreading
  <2>4. Following'
    BY <1>2, <2>0 DEF Following
  <2> QED BY <2>1, <2>2, <2>3, <2>4
<1> QED BY <1>1, <1>3, <1>4, <1>5, <1>6, <1>8 DEF LoggerInv, Inherited

LEMMA AddInitStep ==
    ASSUME LoggerInv, NEW t \in Threads, AddInit(t)
    PROVE  LoggerInv'
<1>0. TypeOK /\ Locals /\ Locks /\ Formatted /\ OwnOnes /\ Inherited
  BY DEF LoggerInv
<1>1. TypeOK'
  BY <1>0 DEF AddInit, managerVars, loggerVars, histVars, TypeOK, Locals, Adding
<1>2. /\ pc[t] = "init" /\ pc'[t] = "push"
      /\ \A u \in Threads \ {t} : pc'[u] = pc[u]
      /\ a_formatter'[call[t].appender] = m_formatter[call[t].logger]
      /\ \A a \in Appenders \ {call[t].appender} : a_formatter'[a] = a_formatter[a]
      /\ UNCHANGED <<manager, m_mutex, call, m_formatter, m_appenders, a_has_formatter,
                     own>>
  BY <1>0 DEF AddInit, managerVars, loggerVars, histVars, TypeOK, Locals, Adding
<1>3. Locals'
  BY <1>0, <1>2 DEF Locals, Adding
<1>4. Locks'
  BY <1>0, <1>2 DEF Locks, Locals, Adding
<1>5. Formatted'
  <2>1. call[t].logger \in Loggers /\ call[t].appender \in Appenders
    BY <1>0, <1>2 DEF Locals, Adding
  <2>2. m_formatter[call[t].logger] # NULL
    BY <1>0, <2>1 DEF TypeOK
  <2>3. \A a \in Appenders : a_formatter[a] # NULL => a_formatter'[a] # NULL
    BY <1>2, <2>1, <2>2
  <2>4. \A u \in Threads : pc[u] = "push" => call[u].appender \in Appenders
    BY <1>0 DEF Locals, Adding
  <2>5. a_formatter'[call[t].appender] # NULL
    BY <1>2, <2>2
  <2> QED BY <1>0, <1>2, <2>4, <2>5, ListFacts DEF Formatted, NoNullFormatter
<1>6. OwnOnes'
  BY <1>0, <1>2 DEF OwnOnes, OwnFormatterKept
<1>8. ASSUME Inheriting PROVE OneLogger' /\ Joining' /\ Spreading' /\ Following'
  <2>0. OneLogger /\ Joining /\ Spreading /\ Following
    BY <1>0, <1>8 DEF Inherited
  <2>1. OneLogger'
    BY <1>2, <2>0 DEF OneLogger, Adding
  <2>2. Joining'
    BY <1>0, <1>2, <2>0 DEF Joining, Locals, Adding, OneLogger
  <2>3. Spreading'
    BY <1>2, <2>0 DEF Spreading
  <2>4. Following'
    BY <1>0, <1>2, <2>0, ListFacts DEF Following, OneLogger, Adding
  <2> QED BY <2>1, <2>2, <2>3, <2>4
<1> QED BY <1>1, <1>3, <1>4, <1>5, <1>6, <1>8 DEF LoggerInv, Inherited

LEMMA AddPushStep ==
    ASSUME LoggerInv, NEW t \in Threads, AddPush(t)
    PROVE  LoggerInv'
<1>0. TypeOK /\ Locals /\ Locks /\ Formatted /\ OwnOnes /\ Inherited
  BY DEF LoggerInv
<1>1. TypeOK'
  BY <1>0, AppendFacts, CallFacts
     DEF AddPush, managerVars, appenderVars, histVars, Return, TypeOK, Locals,
         Adding
<1>2. /\ pc[t] = "push" /\ pc'[t] = "idle"
      /\ \A u \in Threads \ {t} : pc'[u] = pc[u] /\ call'[u] = call[u]
      /\ \A h \in Loggers : /\ m_mutex[h] = t => m_mutex'[h] = NULL
                            /\ m_mutex[h] # t => m_mutex'[h] = m_mutex[h]
      /\ m_appenders'[call[t].logger] # <<>>
      /\ ToSet(m_appenders'[call[t].logger]) =
            ToSet(m_appenders[call[t].logger]) \cup {call[t].appender}
      /\ \A h \in Loggers \ {call[t].logger} : m_appenders'[h] = m_appenders[h]
      /\ UNCHANGED <<manager, m_formatter, a_formatter, a_has_formatter, own>>
  <2>1. /\ call[t].logger \in Loggers /\ call[t].appender \in Appenders
        /\ m_appenders[call[t].logger] \in Seq(Appenders) /\ pc[t] = "push"
    BY <1>0 DEF AddPush, TypeOK, Locals, Adding
  <2>2. m_appenders'[call[t].logger] = Append(m_appenders[call[t].logger], call[t].appender)
    BY <1>0, <2>1 DEF AddPush, TypeOK
  <2>3. \A h \in Loggers : /\ m_mutex[h] = t => m_mutex'[h] = NULL
                           /\ m_mutex[h] # t => m_mutex'[h] = m_mutex[h]
    BY <1>0, UnlockFacts DEF AddPush, Return
  <2>4. /\ pc'[t] = "idle" /\ \A u \in Threads \ {t} : pc'[u] = pc[u] /\ call'[u] = call[u]
        /\ \A h \in Loggers \ {call[t].logger} : m_appenders'[h] = m_appenders[h]
    BY <1>0 DEF AddPush, Return, TypeOK
  <2>5. UNCHANGED <<manager, m_formatter, a_formatter, a_has_formatter, own>>
    BY DEF AddPush, managerVars, appenderVars, histVars
  <2>6. /\ m_appenders'[call[t].logger] # <<>>
        /\ ToSet(m_appenders'[call[t].logger]) =
              ToSet(m_appenders[call[t].logger]) \cup {call[t].appender}
    BY <2>1, <2>2, AppendFacts
  <2> QED BY <2>1, <2>3, <2>4, <2>5, <2>6
<1>3. Locals'
  BY <1>0, <1>2 DEF Locals, Adding
<1>4. Locks'
  BY <1>0, <1>2 DEF Locks, Locals, Adding
<1>5. Formatted'
  BY <1>0, <1>2 DEF Formatted, NoNullFormatter
<1>6. OwnOnes'
  BY <1>0, <1>2 DEF OwnOnes, OwnFormatterKept
<1>8. ASSUME Inheriting PROVE OneLogger' /\ Joining' /\ Spreading' /\ Following'
  <2>0. OneLogger /\ Joining /\ Spreading /\ Following
    BY <1>0, <1>8 DEF Inherited
  <2>1. OneLogger'
    <3>1. call[t].logger \in Loggers /\ Adding(t) /\ ~Adding(t)'
      BY <1>0, <1>2 DEF Locals, Adding
    <3>2. \A u \in Threads \ {t} : (Adding(u)' <=> Adding(u)) /\ call'[u] = call[u]
      BY <1>2 DEF Adding
    <3>3. \A h \in Loggers : \A a \in ToSet(m_appenders'[h]) :
             \/ a \in ToSet(m_appenders[h])
             \/ h = call[t].logger /\ a = call[t].appender
      BY <1>2, <3>1
    <3>4. \A h \in Loggers : call[t].appender \notin ToSet(m_appenders[h])
      BY <2>0, <3>1 DEF OneLogger
    <3>5. \A g, h \in Loggers : \A a \in ToSet(m_appenders'[g]) :
             a \in ToSet(m_appenders'[h]) => g = h
      BY <2>0, <3>3, <3>4 DEF OneLogger
    <3>6. \A u \in Threads, h \in Loggers :
             Adding(u)' => call'[u].appender \notin ToSet(m_appenders'[h])
      BY <2>0, <3>1, <3>2, <3>3 DEF OneLogger
    <3>7. \A u, v \in Threads :
             Adding(u)' /\ Adding(v)' /\ call'[u].appender = call'[v].appender => u = v
      BY <2>0, <3>1, <3>2 DEF OneLogger
    <3> QED BY <3>5, <3>6, <3>7 DEF OneLogger
  <2>2. Joining'
    BY <1>2, <2>0 DEF Joining
  <2>3. Spreading'
    <3>1. \A h \in Loggers : ToSet(m_appenders[h]) \subseteq ToSet(m_appenders'[h])
      BY <1>2
    <3>2. \A u \in Threads : pc'[u] = "spread" =>
             call'[u] = call[u] /\ pc[u] = "spread" /\ call[u].logger \in Loggers
      BY <1>0, <1>2 DEF Locals
    <3> QED BY <1>2, <2>0, <3>1, <3>2 DEF Spreading
  <2>4. Following'
    <3>1. call[t].logger \in Loggers
      BY <1>0, <1>2 DEF Locals, Adding
    <3>2. \A h \in Loggers : \A a \in ToSet(m_appenders'[h]) :
             \/ a \in ToSet(m_appenders[h])
             \/ h = call[t].logger /\ a = call[t].appender
      BY <1>2, <3>1
    <3>3. \A u \in Threads : pc[u] = "spread" => pc'[u] = "spread" /\ call'[u] = call[u]
      BY <1>2
    <3>4. \/ a_has_formatter[call[t].appender]
          \/ a_formatter[call[t].appender] = m_formatter[call[t].logger]
      BY <1>2, <2>0 DEF Joining
    <3>5. ASSUME NEW h \in Loggers, NEW a \in ToSet(m_appenders[h])
          PROVE  \/ a_has_formatter[a]
                 \/ a_formatter[a] = m_formatter[h]
                 \/ \E u \in Threads : /\ pc'[u] = "spread" /\ call'[u].logger = h
                                       /\ a \in ToSet(call'[u].todo)
      BY <2>0, <3>3 DEF Following
    <3>6. ASSUME NEW h \in Loggers, NEW a \in ToSet(m_appenders'[h])
          PROVE  \/ a_has_formatter'[a]
                 \/ a_formatter'[a] = m_formatter'[h]
                 \/ \E u \in Threads : /\ pc'[u] = "spread" /\ call'[u].logger = h
                                       /\ a \in ToSet(call'[u].todo)
      <4>1. CASE a \in ToSet(m_appenders[h])
        BY <1>2, <3>5, <4>1
      <4>2. CASE h = call[t].logger /\ a = call[t].appender
        BY <1>2, <3>4, <4>2
      <4> QED BY <3>2, <4>1, <4>2
    <3> QED BY <3>6 DEF Following
  <2> QED BY <2>1, <2>2, <2>3, <2>4
<1> QED BY <1>1, <1>3, <1>4, <1>5, <1>6, <1>8 DEF LoggerInv, Inherited

LEMMA SetLockStep ==
    ASSUME LoggerInv, NEW t \in Threads, SetLock(t)
    PROVE  LoggerInv'
<1>0. TypeOK /\ Locals /\ Locks /\ Formatted /\ OwnOnes /\ Inherited
  BY DEF LoggerInv
<1>1. TypeOK'
  BY <1>0, LocalFacts DEF SetLock, managerVars, appenderVars, histVars, TypeOK, Locals
<1>2. /\ pc[t] = "format" /\ pc'[t] = "spread"
      /\ \A u \in Threads \ {t} : pc'[u] = pc[u] /\ call'[u] = call[u]
      /\ m_mutex[call[t].logger] = NULL /\ m_mutex'[call[t].logger] = t
      /\ \A h \in Loggers \ {call[t].logger} : m_mutex'[h] = m_mutex[h]
      /\ m_formatter'[call[t].logger] = call[t].fmt
      /\ \A h \in Loggers \ {call[t].logger} : m_formatter'[h] = m_formatter[h]
      /\ call'[t].logger = call[t].logger /\ call'[t].fmt = call[t].fmt
      /\ call'[t].todo = m_appenders[call[t].logger]
      /\ UNCHANGED <<manager, m_appenders, a_formatter, a_has_formatter, own>>
  BY <1>0 DEF SetLock, managerVars, appenderVars, histVars, TypeOK, Locals
<1>3. Locals'
  BY <1>0, <1>2 DEF Locals, Adding
<1>4. Locks'
  BY <1>0, <1>2 DEF Locks, Locals, Adding
<1>5. Formatted'
  BY <1>0, <1>2 DEF Formatted, NoNullFormatter, Locals
<1>6. OwnOnes'
  BY <1>0, <1>2 DEF OwnOnes, OwnFormatterKept
<1>8. ASSUME Inheriting PROVE OneLogger' /\ Joining' /\ Spreading' /\ Following'
  <2>0. OneLogger /\ Joining /\ Spreading /\ Following
    BY <1>0, <1>8 DEF Inherited
  <2>1. OneLogger'
    BY <1>2, <2>0 DEF OneLogger, Adding
  <2>2. Joining'
    BY <1>0, <1>2, <2>0 DEF Joining, Locals, Locks, Adding
  <2>3. Spreading'
    <3>1. call[t].logger \in Loggers /\ call'[t].fmt = m_formatter'[call'[t].logger]
      BY <1>0, <1>2 DEF Locals
    <3>2. ASSUME NEW u \in Threads, u # t, pc[u] = "spread"
          PROVE  m_formatter'[call[u].logger] = m_formatter[call[u].logger]
      <4>1. call[u].logger \in Loggers /\ m_mutex[call[u].logger] = u /\ u # NULL
        BY <1>0, <3>2 DEF Locals, Locks
      <4> QED BY <1>2, <4>1
    <3> QED BY <1>2, <2>0, <3>1, <3>2 DEF Spreading
  <2>4. Following'
    BY <1>2, <2>0 DEF Following
  <2> QED BY <2>1, <2>2, <2>3, <2>4
<1> QED BY <1>1, <1>3, <1>4, <1>5, <1>6, <1>8 DEF LoggerInv, Inherited

LEMMA SpreadStep ==
    ASSUME LoggerInv, NEW t \in Threads, Spread(t)
    PROVE  LoggerInv'
<1>0. TypeOK /\ Locals /\ Locks /\ Formatted /\ OwnOnes /\ Inherited
  BY DEF LoggerInv
<1>1. TypeOK'
  <2>1. call[t] \in Calls /\ call[t].todo \in Seq(Appenders) /\ call[t].fmt \in Formatters
    BY <1>0 DEF Spread, TypeOK, Locals, Calls
  <2>2. Head(call[t].todo) \in Appenders /\ Tail(call[t].todo) \in Seq(Appenders)
    BY <2>1, TailFacts DEF Spread
  <2>3. [call[t] EXCEPT !.todo = Tail(call[t].todo)] \in Calls
    BY <2>1, <2>2, LocalFacts
  <2>4. call' \in [Threads -> Calls]
    BY <1>0, <2>3 DEF Spread, TypeOK
  <2>5. a_formatter' \in [Appenders -> Formatters \cup {NULL}]
    BY <1>0, <2>1, <2>2 DEF Spread, TypeOK
  <2> QED BY <1>0, <2>4, <2>5 DEF Spread, managerVars, loggerVars, histVars, TypeOK
<1>2. /\ pc[t] = "spread"
      /\ \A u \in Threads \ {t} : call'[u] = call[u]
      /\ call'[t].logger = call[t].logger /\ call'[t].fmt = call[t].fmt
      /\ ToSet(call[t].todo) = {Head(call[t].todo)} \cup ToSet(call'[t].todo)
      /\ Head(call[t].todo) \in Appenders
      /\ \A a \in Appenders :
            a # Head(call[t].todo) \/ a_has_formatter[a] => a_formatter'[a] = a_formatter[a]
      /\ ~a_has_formatter[Head(call[t].todo)] =>
            a_formatter'[Head(call[t].todo)] = call[t].fmt
      /\ UNCHANGED <<manager, m_mutex, pc, m_formatter, m_appenders, a_has_formatter,
                     own>>
  BY <1>0, TailFacts
     DEF Spread, managerVars, loggerVars, appenderVars, histVars, TypeOK, Calls
<1>3. Locals'
  BY <1>0, <1>2 DEF Locals, Adding
<1>4. Locks'
  BY <1>0, <1>2 DEF Locks, Locals, Adding
<1>5. Formatted'
  BY <1>0, <1>2, ListFacts DEF Formatted, NoNullFormatter, Locals, Adding
<1>6. OwnOnes'
  BY <1>0, <1>2 DEF OwnOnes, OwnFormatterKept
<1>8. ASSUME Inheriting PROVE OneLogger' /\ Joining' /\ Spreading' /\ Following'
  <2>0. OneLogger /\ Joining /\ Spreading /\ Following
    BY <1>0, <1>8 DEF Inherited
  <2>1. OneLogger'
    BY <1>2, <2>0 DEF OneLogger, Adding
  <2>2. Joining'
    <3>1. \A u \in Threads : pc[u] \in {"add", "get", "push"} =>
             /\ u # t /\ call[u].appender \in Appenders
             /\ call[u].appender # Head(call[t].todo)
      <4>1. Head(call[t].todo) \in ToSet(m_appenders[call[t].logger])
        BY <1>2, <2>0 DEF Spreading
      <4>2. call[t].logger \in Loggers
        BY <1>0, <1>2 DEF Locals
      <4> QED BY <1>0, <1>2, <2>0, <4>1 DEF OneLogger, Locals, Adding
    <3> QED BY <1>2, <2>0, <3>1 DEF Joining
  <2>3. Spreading'
    BY <1>2, <2>0 DEF Spreading
  <2>4. Following'
    <3> SUFFICES ASSUME NEW g \in Loggers, NEW a \in ToSet(m_appenders[g]),
                        ~a_has_formatter[a]
                 PROVE  \/ a_formatter'[a] = m_formatter[g]
                        \/ \E u \in Threads : /\ pc[u] = "spread" /\ call'[u].logger = g
                                              /\ a \in ToSet(call'[u].todo)
      BY <1>2 DEF Following
    <3> DEFINE b == Head(call[t].todo)
    <3>1. call[t].logger \in Loggers /\ a \in Appenders
      BY <1>0, <1>2, ListFacts DEF Locals
    <3>2. /\ b \in ToSet(m_appenders[call[t].logger])
          /\ call[t].fmt = m_formatter[call[t].logger]
      BY <1>2, <2>0 DEF Spreading
    <3>3. CASE a = b
      <4>1. call[t].logger = g
        BY <2>0, <3>1, <3>2, <3>3 DEF OneLogger
      <4> QED BY <1>2, <3>2, <3>3, <4>1
    <3>4. CASE a # b
      <4>1. a_formatter'[a] = a_formatter[a]
        BY <1>2, <3>1, <3>4
      <4>2. CASE a_formatter[a] = m_formatter[g]
        BY <4>1, <4>2
      <4>3. CASE a_formatter[a] # m_formatter[g]
        <5>1. PICK u \in Threads : /\ pc[u] = "spread" /\ call[u].logger = g
                                   /\ a \in ToSet(call[u].todo)
          BY <2>0, <4>3 DEF Following
        <5>2. call'[u].logger = g /\ a \in ToSet(call'[u].todo)
          BY <1>2, <3>4, <5>1
        <5> QED BY <5>1, <5>2
      <4> QED BY <4>2, <4>3
    <3> QED BY <3>3, <3>4
  <2> QED BY <2>1, <2>2, <2>3, <2>4
<1> QED BY <1>1, <1>3, <1>4, <1>5, <1>6, <1>8 DEF LoggerInv, Inherited

LEMMA SetReturnStep ==
    ASSUME LoggerInv, NEW t \in Threads, SetReturn(t)
    PROVE  LoggerInv'
<1>0. TypeOK /\ Locals /\ Locks /\ Formatted /\ OwnOnes /\ Inherited
  BY DEF LoggerInv
<1>1. TypeOK'
  BY <1>0, CallFacts
     DEF SetReturn, managerVars, loggerVars, appenderVars, histVars, Return, TypeOK
<1>2. /\ pc[t] = "spread" /\ pc'[t] = "idle"
      /\ call[t].todo = <<>>
      /\ \A u \in Threads \ {t} : pc'[u] = pc[u] /\ call'[u] = call[u]
      /\ \A h \in Loggers : /\ m_mutex[h] = t => m_mutex'[h] = NULL
                            /\ m_mutex[h] # t => m_mutex'[h] = m_mutex[h]
      /\ UNCHANGED <<manager, m_formatter, m_appenders, a_formatter, a_has_formatter,
                     own>>
  BY <1>0, UnlockFacts
     DEF SetReturn, managerVars, loggerVars, appenderVars, histVars, Return, TypeOK
<1>3. Locals'
  BY <1>0, <1>2 DEF Locals, Adding
<1>4. Locks'
  BY <1>0, <1>2 DEF Locks, Locals, Adding
<1>5. Formatted' /\ OwnOnes' /\ Inherited'
  BY <1>0, <1>2, Aside
<1> QED BY <1>1, <1>3, <1>4, <1>5 DEF LoggerInv

LEMMA YamlUnlockStep ==
    ASSUME LoggerInv, NEW t \in Threads, YamlUnlock(t)
    PROVE  LoggerInv'
<1>0. TypeOK /\ Locals /\ Locks /\ Formatted /\ OwnOnes /\ Inherited
  BY DEF LoggerInv
<1>1. TypeOK'
  BY <1>0 DEF YamlUnlock, managerVars, loggerVars, appenderVars, histVars, TypeOK
<1>2. /\ pc[t] = "visit" /\ pc'[t] = "yaml"
      /\ \A u \in Threads \ {t} : pc'[u] = pc[u]
      /\ \A h \in Loggers : /\ m_mutex[h] = t => m_mutex'[h] = NULL
                            /\ m_mutex[h] # t => m_mutex'[h] = m_mutex[h]
      /\ UNCHANGED <<manager, call, m_formatter, m_appenders, a_formatter,
                     a_has_formatter, own>>
  BY <1>0, UnlockFacts
     DEF YamlUnlock, managerVars, loggerVars, appenderVars, histVars, TypeOK
<1>3. Locals'
  BY <1>0, <1>2 DEF Locals, Adding
<1>4. Locks'
  BY <1>0, <1>2 DEF Locks, Locals, Adding
<1>5. Formatted' /\ OwnOnes' /\ Inherited'
  BY <1>0, <1>2, Aside
<1> QED BY <1>1, <1>3, <1>4, <1>5 DEF LoggerInv

LEMMA YamlReturnStep ==
    ASSUME LoggerInv, NEW t \in Threads, YamlReturn(t)
    PROVE  LoggerInv'
<1>0. TypeOK /\ Locals /\ Locks /\ Formatted /\ OwnOnes /\ Inherited
  BY DEF LoggerInv
<1>1. TypeOK'
  BY <1>0 DEF YamlReturn, loggerVars, appenderVars, histVars, TypeOK
<1>2. /\ pc[t] = "yaml" /\ pc'[t] = "idle"
      /\ \A u \in Threads \ {t} : pc'[u] = pc[u]
      /\ manager' = NULL
      /\ UNCHANGED <<m_mutex, call, m_formatter, m_appenders, a_formatter,
                     a_has_formatter, own>>
  BY <1>0 DEF YamlReturn, loggerVars, appenderVars, histVars, TypeOK
<1>3. Locals'
  BY <1>0, <1>2 DEF Locals, Adding
<1>4. Locks'
  BY <1>0, <1>2 DEF Locks, Locals, Adding
<1>5. Formatted' /\ OwnOnes' /\ Inherited'
  BY <1>0, <1>2, Aside
<1> QED BY <1>1, <1>3, <1>4, <1>5 DEF LoggerInv

LEMMA LogStep ==
    ASSUME LoggerInv, NEW t \in Threads, log(t)
    PROVE  LoggerInv'
<1>0. TypeOK /\ Locals /\ Locks /\ Formatted /\ OwnOnes /\ Inherited
  BY DEF LoggerInv
<1>1. TypeOK'
  <2>1. NoCall \in Calls
    BY <1>0, CallFacts
  <2>2. CASE call[t].level >= m_level[call[t].logger]
    BY <1>0, <2>2 DEF log, managerVars, loggerVars, appenderVars, histVars, TypeOK
  <2>3. CASE ~(call[t].level >= m_level[call[t].logger])
    <3>1. Return(t)
      BY <2>3 DEF log
    <3>2. m_mutex' \in [Loggers -> Threads \cup {NULL}]
      BY <1>0, <3>1, UnlockFacts DEF Return
    <3> QED BY <1>0, <2>1, <3>1, <3>2
        DEF log, Return, managerVars, loggerVars, appenderVars, histVars, TypeOK
  <2> QED BY <2>2, <2>3
<1>2. /\ pc[t] = "event" /\ pc'[t] \in {"log", "idle"}
      /\ pc'[t] = "log" => call'[t] = call[t]
      /\ \A u \in Threads \ {t} : pc'[u] = pc[u] /\ call'[u] = call[u]
      /\ \A g \in Loggers : m_mutex'[g] = m_mutex[g]
      /\ UNCHANGED <<manager, m_formatter, m_appenders, a_formatter, a_has_formatter, own>>
  <2>1. /\ UNCHANGED <<manager, m_formatter, m_appenders, a_formatter, a_has_formatter, own>>
        /\ pc[t] = "event"
    BY DEF log, managerVars, loggerVars, appenderVars, histVars
  <2>2. CASE call[t].level >= m_level[call[t].logger]
    BY <1>0, <2>1, <2>2 DEF log, TypeOK
  <2>3. CASE ~(call[t].level >= m_level[call[t].logger])
    <3>1. \A g \in Loggers : m_mutex[g] # t
      BY <1>0, <2>1 DEF Locks
    <3>2. \A g \in Loggers : m_mutex'[g] = m_mutex[g]
      BY <1>0, <2>3, <3>1, UnlockFacts DEF log, Return
    <3> QED BY <1>0, <2>1, <2>3, <3>2 DEF log, Return, TypeOK
  <2> QED BY <2>2, <2>3
<1>3. Locals'
  BY <1>0, <1>2 DEF Locals, Adding
<1>4. Locks'
  BY <1>0, <1>2 DEF Locks, Locals, Adding
<1>5. Formatted' /\ OwnOnes' /\ Inherited'
  BY <1>0, <1>2, Aside
<1> QED BY <1>1, <1>3, <1>4, <1>5 DEF LoggerInv

LEMMA LogLockStep ==
    ASSUME LoggerInv, NEW t \in Threads, LogLock(t)
    PROVE  LoggerInv'
<1>0. TypeOK /\ Locals /\ Locks /\ Formatted /\ OwnOnes /\ Inherited
  BY DEF LoggerInv
<1> DEFINE g == call[t].at
<1>1. /\ call[t] \in Calls /\ call[t].todo \in Seq(Appenders)
      /\ call[t].logger \in Loggers /\ g \in Loggers
  BY <1>0 DEF LogLock, TypeOK, Locals, Calls
<1>2. /\ pc[t] = "log" /\ m_mutex[g] = NULL /\ m_mutex'[g] = t
      /\ \A h \in Loggers \ {g} : m_mutex'[h] = m_mutex[h]
      /\ m_mutex' \in [Loggers -> Threads \cup {NULL}]
      /\ UNCHANGED <<m_loggers, manager, m_level, m_formatter, m_appenders, a_level,
                     a_formatter, a_has_formatter, own, calls>>
  BY <1>0, <1>1 DEF LogLock, managerVars, loggerVars, appenderVars, histVars, TypeOK
<1>3. \A h \in Loggers : m_mutex[h] = t => g = Root /\ h # Root
  BY <1>0, <1>2 DEF Locks
<1> DEFINE passes == m_appenders[g] = <<>> /\ g # Root /\ call[t].level >= m_level[Root]
<1>4. CASE passes
  <2>1. call' = [call EXCEPT ![t].at = Root] /\ UNCHANGED pc
    <3>1. call[t].level \in Nat /\ m_level[Root] \in Nat
      <4>1. call[t].level \in Levels \cup {0} /\ m_level[Root] \in Levels
        BY <1>0, <1>1 DEF TypeOK, Calls
      <4>2. Levels \subseteq Nat /\ 0 \in Nat
        BY LoggerConstants
      <4> QED BY <4>1, <4>2
    <3>2. ~(call[t].level < m_level[Root])
      BY <1>4, <3>1
    <3> QED BY <1>4, <3>2 DEF LogLock
  <2>2. TypeOK'
    <3>1. [call[t] EXCEPT !.at = Root] \in Calls
      BY <1>1, LocalFacts
    <3> QED BY <1>0, <1>2, <2>1, <3>1 DEF TypeOK
  <2>3. /\ call'[t].at = Root /\ call'[t].logger = call[t].logger
        /\ \A u \in Threads \ {t} : call'[u] = call[u]
    BY <1>0, <1>1, <2>1 DEF TypeOK, Calls
  <2>4. Locals'
    BY <1>0, <1>2, <2>1, <2>3 DEF Locals, Adding
  <2>5. Locks'
    BY <1>0, <1>1, <1>2, <1>3, <1>4, <2>1, <2>3 DEF Locks, Locals, Adding
  <2>6. Formatted' /\ OwnOnes' /\ Inherited'
    BY <1>2, <2>1, <2>3, Aside
  <2> QED BY <2>2, <2>4, <2>5, <2>6 DEF LoggerInv
<1>5. CASE ~passes
  <2>1. /\ pc' = [pc EXCEPT ![t] = "append"]
        /\ call' = [call EXCEPT ![t].todo = m_appenders[g]]
    BY <1>5 DEF LogLock
  <2>3. TypeOK'
    <3>1. call'[t] \in Calls
      BY <1>0, <1>1, <2>1, LocalFacts DEF TypeOK
    <3> QED BY <1>0, <1>2, <2>1, <3>1 DEF TypeOK
  <2>4. /\ pc'[t] = "append" /\ call'[t].at = g /\ call'[t].logger = call[t].logger
        /\ call'[t].todo = m_appenders[g]
        /\ \A u \in Threads \ {t} : pc'[u] = pc[u] /\ call'[u] = call[u]
    BY <1>0, <1>1, <2>1 DEF TypeOK, Calls
  <2>5. Locals'
    BY <1>0, <1>1, <2>4 DEF Locals, Adding
  <2>6. Locks'
    BY <1>0, <1>2, <2>4 DEF Locks, Locals, Adding
  <2>7. Formatted'
    BY <1>0, <1>1, <1>2, <2>4 DEF Formatted, NoNullFormatter
  <2>8. OwnOnes'
    BY <1>0, <1>2, <2>4 DEF OwnOnes, OwnFormatterKept
  <2>10. ASSUME Inheriting PROVE OneLogger' /\ Joining' /\ Spreading' /\ Following'
    <3>0. OneLogger /\ Joining /\ Spreading /\ Following
      BY <1>0, <2>10 DEF Inherited
    <3>1. OneLogger'
      BY <1>2, <2>4, <3>0 DEF OneLogger, Adding
    <3>2. Joining'
      BY <1>2, <2>4, <3>0 DEF Joining
    <3>3. Spreading'
      BY <1>2, <2>4, <3>0 DEF Spreading
    <3>4. Following'
      BY <1>2, <2>4, <3>0 DEF Following
    <3> QED BY <3>1, <3>2, <3>3, <3>4
  <2> QED BY <2>3, <2>5, <2>6, <2>7, <2>8, <2>10
             DEF LoggerInv, Inherited, Inheriting
<1> QED BY <1>4, <1>5

LEMMA AppenderLogStep ==
    ASSUME LoggerInv, NEW t \in Threads, AppenderLog(t)
    PROVE  LoggerInv'
<1>0. TypeOK /\ Locals /\ Locks /\ Formatted /\ OwnOnes /\ Inherited
  BY DEF LoggerInv
<1> DEFINE a == Head(call[t].todo)
<1>1. /\ call[t] \in Calls /\ call[t].todo \in Seq(Appenders) /\ call[t].todo # <<>>
      /\ pc[t] = "append"
      /\ UNCHANGED <<m_loggers, manager, m_level, m_formatter, m_appenders, m_mutex, a_level,
                     a_formatter, a_has_formatter, own, calls>>
  BY <1>0
     DEF AppenderLog, managerVars, loggerVars, appenderVars, histVars, TypeOK,
         Calls
<1>2. /\ a \in ToSet(call[t].todo) /\ Tail(call[t].todo) \in Seq(Appenders)
      /\ ToSet(Tail(call[t].todo)) \subseteq ToSet(call[t].todo)
  BY <1>1, TailFacts
<1>3. \/ /\ call' = [call EXCEPT ![t].todo = Tail(@)] /\ pc' = pc
      \/ call' = call /\ pc' = [pc EXCEPT ![t] = "crash"] /\ a_formatter[a] = NULL
  BY DEF AppenderLog
<1>4. TypeOK'
  <2>1. [call[t] EXCEPT !.todo = Tail(call[t].todo)] \in Calls
    BY <1>1, <1>2, LocalFacts
  <2>2. call' \in [Threads -> Calls]
    BY <1>0, <1>3, <2>1 DEF TypeOK
  <2> QED BY <1>0, <1>1, <1>3, <2>2 DEF TypeOK
<1>5. /\ call'[t].logger = call[t].logger /\ call'[t].at = call[t].at
      /\ ToSet(call'[t].todo) \subseteq ToSet(call[t].todo)
      /\ pc'[t] \in {"append", "crash"} /\ (pc'[t] = "crash" => a_formatter[a] = NULL)
      /\ \A u \in Threads \ {t} : pc'[u] = pc[u] /\ call'[u] = call[u]
  <2>1. CASE call' = [call EXCEPT ![t].todo = Tail(@)] /\ pc' = pc
    <3>1. call'[t] = [call[t] EXCEPT !.todo = Tail(call[t].todo)]
      BY <1>0, <2>1 DEF TypeOK
    <3>2. /\ call'[t].logger = call[t].logger /\ call'[t].at = call[t].at
          /\ call'[t].todo = Tail(call[t].todo)
      BY <1>1, <3>1 DEF Calls
    <3> QED BY <1>0, <1>1, <1>2, <2>1, <3>2 DEF TypeOK
  <2>2. CASE call' = call /\ pc' = [pc EXCEPT ![t] = "crash"] /\ a_formatter[a] = NULL
    BY <1>0, <1>1, <2>2 DEF TypeOK
  <2> QED BY <1>3, <2>1, <2>2
<1>6. Locals'
  BY <1>0, <1>1, <1>5 DEF Locals, Adding
<1>7. Locks'
  BY <1>0, <1>1, <1>5 DEF Locks
<1>8. Formatted'
  BY <1>0, <1>1, <1>2, <1>5 DEF Formatted, NoNullFormatter
<1>9. OwnOnes'
  BY <1>0, <1>1, <1>5 DEF OwnOnes, OwnFormatterKept
<1>10. ASSUME Inheriting PROVE OneLogger' /\ Joining' /\ Spreading' /\ Following'
  <2>0. OneLogger /\ Joining /\ Spreading /\ Following
    BY <1>0, <1>10 DEF Inherited
  <2>1. OneLogger'
    BY <1>1, <1>5, <2>0 DEF OneLogger, Adding
  <2>2. Joining'
    BY <1>1, <1>5, <2>0 DEF Joining
  <2>3. Spreading'
    BY <1>1, <1>5, <2>0 DEF Spreading
  <2>4. Following'
    BY <1>1, <1>5, <2>0 DEF Following
  <2> QED BY <2>1, <2>2, <2>3, <2>4
<1> QED BY <1>4, <1>6, <1>7, <1>8, <1>9, <1>10 DEF LoggerInv, Inherited, Inheriting

LEMMA AddGetStep ==
    ASSUME LoggerInv, NEW t \in Threads, AddGet(t)
    PROVE  LoggerInv'
<1>0. TypeOK /\ Locals /\ Locks /\ Formatted /\ OwnOnes /\ Inherited
  BY DEF LoggerInv
<1>1. TypeOK'
  BY <1>0 DEF AddGet, managerVars, loggerVars, appenderVars, histVars, TypeOK
<1>2. /\ pc[t] = "get" /\ pc'[t] \in {"init", "push"}
      /\ pc'[t] = "init" <=> a_formatter[call[t].appender] = NULL
      /\ \A u \in Threads \ {t} : pc'[u] = pc[u]
      /\ UNCHANGED <<manager, m_mutex, call, m_formatter, m_appenders, a_formatter,
                     a_has_formatter, own>>
  BY <1>0 DEF AddGet, managerVars, loggerVars, appenderVars, histVars, TypeOK
<1>3. Locals'
  BY <1>0, <1>2 DEF Locals, Adding
<1>4. Locks'
  BY <1>0, <1>2 DEF Locks
<1>5. Formatted'
  BY <1>0, <1>2 DEF Formatted, NoNullFormatter
<1>6. OwnOnes'
  BY <1>0, <1>2 DEF OwnOnes, OwnFormatterKept, Locals, Adding
<1>8. ASSUME Inheriting PROVE OneLogger' /\ Joining' /\ Spreading' /\ Following'
  BY <1>0, <1>2, <1>8 DEF Inherited, OneLogger, Joining, Spreading, Following, Adding
<1> QED BY <1>1, <1>3, <1>4, <1>5, <1>6, <1>8 DEF LoggerInv, Inherited, Inheriting

LEMMA YamlLockStep ==
    ASSUME LoggerInv, NEW t \in Threads, YamlLock(t)
    PROVE  LoggerInv'
<1>0. TypeOK /\ Locals /\ Locks /\ Formatted /\ OwnOnes /\ Inherited
  BY DEF LoggerInv
<1>1. PICK g \in call[t].rest : /\ m_mutex[g] = NULL
                                  /\ m_mutex' = [m_mutex EXCEPT ![g] = t]
                                  /\ call' = [call EXCEPT ![t].rest = @ \ {g}]
  BY DEF YamlLock
<1>2. call[t] \in Calls /\ g \in Loggers
  BY <1>0 DEF TypeOK, Calls
<1>3. TypeOK'
  <2>1. [call[t] EXCEPT !.rest = @ \ {g}] \in Calls
    BY <1>2, LocalFacts
  <2> QED BY <1>0, <1>1, <1>2, <2>1
      DEF YamlLock, managerVars, loggerVars, appenderVars, histVars, TypeOK
<1>4. /\ pc[t] = "yaml" /\ pc'[t] = "visit"
      /\ \A u \in Threads \ {t} : pc'[u] = pc[u] /\ call'[u] = call[u]
      /\ m_mutex[g] = NULL /\ m_mutex'[g] = t
      /\ \A h \in Loggers \ {g} : m_mutex'[h] = m_mutex[h]
      /\ UNCHANGED <<manager, m_formatter, m_appenders, a_formatter, a_has_formatter, own>>
  BY <1>0, <1>1, <1>2
     DEF YamlLock, managerVars, loggerVars, appenderVars, histVars, TypeOK
<1>5. Locals'
  BY <1>0, <1>4 DEF Locals, Adding
<1>6. Locks'
  BY <1>0, <1>2, <1>4 DEF Locks, Locals, Adding
<1>7. Formatted' /\ OwnOnes' /\ Inherited'
  BY <1>4, Aside
<1> QED BY <1>3, <1>5, <1>6, <1>7 DEF LoggerInv

LEMMA LoggerInit == Init => LoggerInv
<1> SUFFICES ASSUME Init PROVE LoggerInv
  OBVIOUS
<1>1. ToSet(<<>>) = {} /\ ToSet(<<RootAppender>>) = {RootAppender}
  BY DEF ToSet
<1>2. TypeOK
  <2>1. call \in [Threads -> Calls]
    BY NoCallFacts DEF Init
  <2> QED BY <2>1 DEF Init, TypeOK
<1>3. Locals /\ Locks
  BY DEF Init, Locals, Locks, Adding
<1>4. /\ m_appenders[Root] = <<RootAppender>>
      /\ \A g \in Loggers : g # Root => m_appenders[g] = <<>>
      /\ a_formatter[RootAppender] = Default
  BY DEF Init
<1>5. Formatted
  BY <1>1, <1>4 DEF Init, Formatted, NoNullFormatter
<1>6. OwnOnes
  BY <1>4 DEF Init, OwnOnes, OwnFormatterKept
<1>7. OneLogger /\ Joining /\ Spreading
  BY <1>1, <1>4 DEF Init, OneLogger, Joining, Spreading, Adding
<1>8. Following
  BY <1>1, <1>4 DEF Init, Following
<1> QED BY <1>2, <1>3, <1>5, <1>6, <1>7, <1>8 DEF LoggerInv, Inherited

LEMMA LoggerStep == LoggerInv /\ [Next]_vars => LoggerInv'
<1> SUFFICES ASSUME LoggerInv, [Next]_vars PROVE LoggerInv'
  OBVIOUS
<1>1. ASSUME NEW t \in Threads, Call(t) PROVE LoggerInv'
  BY <1>1, ToYamlStringStep, GetLoggerStep, ClearAppendersStep, LogLevelStep, SetLevelStep,
     AddAppenderStep, DelAppenderStep, SetFormatterStep, SetAppenderFormatterStep,
     SetAppenderLevelStep DEF Call
<1>2. ASSUME NEW t \in Threads, Continue(t) PROVE LoggerInv'
  BY <1>2, LogStep, LogLockStep, AppenderLogStep, LogReturnStep, AddLockStep, AddGetStep,
     AddInitStep, AddPushStep, SetLockStep, SpreadStep, SetReturnStep, YamlLockStep,
     YamlUnlockStep, YamlReturnStep DEF Continue
<1>3. CASE UNCHANGED vars
  <2>1. UNCHANGED <<m_loggers, manager, m_level, m_formatter, m_appenders, m_mutex, a_level,
                    a_formatter, a_has_formatter, pc, call, own, calls>>
    BY <1>3 DEF vars, managerVars, loggerVars, appenderVars, histVars
  <2>2. TypeOK' /\ Locals' /\ Locks'
    BY <2>1 DEF LoggerInv, TypeOK, Locals, Locks, Adding
  <2>3. Formatted' /\ OwnOnes'
    BY <2>1 DEF LoggerInv, Formatted, NoNullFormatter, OwnOnes, OwnFormatterKept
  <2>4. Inherited'
    BY <2>1 DEF LoggerInv, Inherited, OneLogger, Joining, Spreading, Following, Adding
  <2> QED BY <2>2, <2>3, <2>4 DEF LoggerInv
<1> QED BY <1>1, <1>2, <1>3 DEF Next, Quiet

\* LoggerInv is an invariant whatever rules the clients keep to.
THEOREM LoggerInvariant == Spec => []LoggerInv
  BY LoggerInit, LoggerStep, PTL DEF Spec

-----------------------------------------------------------------------------
\* Every member and local keeps a value of its type.
THEOREM LoggerTypeCorrect == Spec => []TypeOK
<1>1. LoggerInv => TypeOK
  BY DEF LoggerInv
<1> QED BY <1>1, LoggerInvariant, PTL

\* The mutexes of the loggers are taken in one order, the root logger's last, and no
\* call returns with a mutex it locked, whatever the clients do: for any number of
\* threads there is no circle of threads that wait for each other.
THEOREM LockOrderCorrect == Spec => []LockOrder
<1>1. LoggerInv => LockOrder
  <2> SUFFICES ASSUME LoggerInv PROVE LockOrder
    OBVIOUS
  <2>1. ASSUME NEW t \in Threads, NEW h \in Loggers, m_mutex[h] = t,
               NEW g \in Loggers, WaitsFor(t, g)
        PROVE  g = Root /\ h # Root
    BY <2>1 DEF LoggerInv, Locks, WaitsFor
  <2>2. ASSUME NEW t \in Threads, pc[t] = "idle" PROVE manager # t /\ Held(t) = {}
    BY <2>2 DEF LoggerInv, Locks, Held
  <2> QED BY <2>1, <2>2 DEF LockOrder
<1> QED BY <1>1, LoggerInvariant, PTL

\* When no client sets an empty formatter, m_formatter->format() never dereferences
\* an empty pointer, although appenders are constructed without a formatter and
\* added, removed and logged to by any number of threads.
THEOREM NoNullFormatterCorrect == "nonempty" \in Rules => (Spec => []NoNullFormatter)
<1> SUFFICES ASSUME "nonempty" \in Rules PROVE Spec => []NoNullFormatter
  OBVIOUS
<1>1. LoggerInv => NoNullFormatter
  BY DEF LoggerInv, Formatted
<1> QED BY <1>1, LoggerInvariant, PTL

\* When an appender's own formatter is not set while the appender is being added,
\* neither addAppender() nor a logger's setFormatter() ever overwrites it.
THEOREM OwnFormatterKeptCorrect == "apart" \in Rules => (Spec => []OwnFormatterKept)
<1> SUFFICES ASSUME "apart" \in Rules PROVE Spec => []OwnFormatterKept
  OBVIOUS
<1>1. LoggerInv => OwnFormatterKept
  BY DEF LoggerInv, OwnOnes
<1> QED BY <1>1, LoggerInvariant, PTL

-----------------------------------------------------------------------------
(***************************************************************************)
(* The walks over the lists.                                               *)
(***************************************************************************)

\* What is left of a way through the list l.
RestOf(s, l) == \E k \in 0..Len(l) : s = SubSeq(l, k + 1, Len(l))

\* Where thread t is with an event or a formatter: it holds the mutex of the logger
\* whose list it walks and, when that is the root logger for another, of both.
Walk(t) ==
    /\ pc[t] = "event" => call[t].at = call[t].logger
    /\ pc[t] \in {"log", "append"} /\ call[t].at # call[t].logger =>
          m_mutex[call[t].logger] = t /\ m_appenders[call[t].logger] = <<>>
    /\ pc[t] = "append" => m_mutex[call[t].at] = t /\ RestOf(call[t].todo, m_appenders[call[t].at])
    /\ pc[t] = "spread" => RestOf(call[t].todo, m_appenders[call[t].logger])

LEMMA WholeList ==
    ASSUME NEW l \in Seq(Appenders)
    PROVE  RestOf(l, l)
<1>1. 0 \in 0..Len(l) /\ l = SubSeq(l, 1, Len(l))
  OBVIOUS
<1> QED BY <1>1 DEF RestOf

LEMMA TailIsRest ==
    ASSUME NEW l \in Seq(Appenders), NEW s \in Seq(Appenders), s # <<>>, RestOf(s, l)
    PROVE  RestOf(Tail(s), l)
<1>1. PICK k \in 0..Len(l) : s = SubSeq(l, k + 1, Len(l))
  BY DEF RestOf
<1>2. Len(l) \in Nat /\ k \in Nat /\ k < Len(l)
  BY <1>1
<1>3. Tail(s) = SubSeq(l, k + 2, Len(l))
  BY <1>1, <1>2
<1>4. k + 1 \in 0..Len(l) /\ Tail(s) = SubSeq(l, (k + 1) + 1, Len(l))
  BY <1>2, <1>3
<1> QED BY <1>4 DEF RestOf

\* A step of thread t that leaves alone what other threads have locked does not
\* disturb them.
LEMMA WalkFrame ==
    ASSUME LoggerInv, NEW t \in Threads, NEW u \in Threads, u # t, Walk(u),
           pc'[u] = pc[u] /\ call'[u] = call[u],
           \A h \in Loggers : m_mutex[h] = u =>
               m_mutex'[h] = u /\ m_appenders'[h] = m_appenders[h]
    PROVE  Walk(u)'
<1>1. /\ pc[u] \in {"log", "append"} => call[u].logger \in Loggers /\ call[u].at \in Loggers
      /\ pc[u] = "spread" => call[u].logger \in Loggers /\ m_mutex[call[u].logger] = u
  BY DEF LoggerInv, Locals, Locks
<1> QED BY <1>1 DEF Walk

\* Most steps of thread t do not walk, and change no list.
LEMMA WalkAside ==
    ASSUME LoggerInv, NEW t \in Threads, \A u \in Threads : Walk(u),
           pc'[t] \notin {"event", "log", "append", "spread"},
           \A u \in Threads \ {t} : pc'[u] = pc[u] /\ call'[u] = call[u],
           \A h \in Loggers : m_mutex[h] \notin {t, NULL} => m_mutex'[h] = m_mutex[h],
           \A h \in Loggers : m_mutex[h] \notin {t, NULL} => m_appenders'[h] = m_appenders[h]
    PROVE  \A u \in Threads : Walk(u)'
<1>1. Walk(t)'
  BY DEF Walk
<1>2. ASSUME NEW u \in Threads, u # t PROVE Walk(u)'
  <2>1. \A h \in Loggers : m_mutex[h] = u =>
           m_mutex'[h] = u /\ m_appenders'[h] = m_appenders[h]
    BY <1>2
  <2> QED BY <1>2, <2>1, WalkFrame
<1> QED BY <1>1, <1>2

\* A call that one step makes leaves every other thread and every mutex alone.
LEMMA WalkCall ==
    ASSUME LoggerInv, NEW t \in Threads, \A u \in Threads : Walk(u), Call(t)
    PROVE  \A u \in Threads : Walk(u)'
<1>0. TypeOK /\ Locals /\ Locks
  BY DEF LoggerInv
<1>1. ASSUME NEW g \in Loggers, NEW lv \in Levels, SYLAR_LOG_LEVEL(t, g, lv)
      PROVE  \A u \in Threads : Walk(u)'
  <2>1. /\ pc'[t] = "event" /\ call'[t].at = call'[t].logger
        /\ \A u \in Threads \ {t} : pc'[u] = pc[u] /\ call'[u] = call[u]
        /\ UNCHANGED <<m_mutex, m_appenders>>
    BY <1>0, <1>1 DEF SYLAR_LOG_LEVEL, loggerVars, TypeOK, NoCall
  <2>2. Walk(t)'
    BY <2>1 DEF Walk
  <2>3. ASSUME NEW u \in Threads, u # t PROVE Walk(u)'
    BY <2>1, <2>3, WalkFrame
  <2> QED BY <2>2, <2>3
<1>2. CASE toYamlString(t)
  <2>1. /\ pc'[t] = "yaml" /\ UNCHANGED <<m_mutex, m_appenders>>
        /\ \A u \in Threads \ {t} : pc'[u] = pc[u] /\ call'[u] = call[u]
    BY <1>0, <1>2 DEF toYamlString, loggerVars, TypeOK
  <2> QED BY <2>1, WalkAside
<1>3. ASSUME NEW g \in Loggers, NEW a \in Appenders, addAppender(t, g, a)
      PROVE  \A u \in Threads : Walk(u)'
  <2>1. /\ pc'[t] = "add" /\ UNCHANGED <<m_mutex, m_appenders>>
        /\ \A u \in Threads \ {t} : pc'[u] = pc[u] /\ call'[u] = call[u]
    BY <1>0, <1>3 DEF addAppender, loggerVars, TypeOK
  <2> QED BY <2>1, WalkAside
<1>4. ASSUME NEW g \in Loggers, NEW f \in Formatters, setFormatter(t, g, f)
      PROVE  \A u \in Threads : Walk(u)'
  <2>1. /\ pc'[t] = "format" /\ UNCHANGED <<m_mutex, m_appenders>>
        /\ \A u \in Threads \ {t} : pc'[u] = pc[u] /\ call'[u] = call[u]
    BY <1>0, <1>4 DEF setFormatter, loggerVars, TypeOK
  <2> QED BY <2>1, WalkAside
<1>5. ASSUME NEW g \in Loggers, NEW a \in Appenders, clearAppenders(t, g) \/ delAppender(t, g, a)
      PROVE  \A u \in Threads : Walk(u)'
  <2>1. /\ pc[t] = "idle" /\ UNCHANGED <<pc, call, m_mutex>> /\ m_mutex[g] = NULL
        /\ \A h \in Loggers \ {g} : m_appenders'[h] = m_appenders[h]
    BY <1>0, <1>5 DEF clearAppenders, delAppender, Enter, TypeOK
  <2> QED BY <2>1, WalkAside
<1>6. ASSUME pc[t] = "idle", UNCHANGED <<pc, call, m_mutex, m_appenders>>
      PROVE  \A u \in Threads : Walk(u)'
  BY <1>6, WalkAside
<1>7. ASSUME NEW g \in Loggers, NEW lv \in Levels, getLogger(t, g) \/ setLevel(t, g, lv)
      PROVE  \A u \in Threads : Walk(u)'
  BY <1>6, <1>7 DEF getLogger, setLevel, Enter, loggerVars
<1>8. ASSUME NEW a \in Appenders, NEW lv \in Levels, NEW f \in Formatters \cup {NULL},
             setAppenderFormatter(t, a, f) \/ setAppenderLevel(t, a, lv)
      PROVE  \A u \in Threads : Walk(u)'
  BY <1>6, <1>8 DEF setAppenderFormatter, setAppenderLevel, Enter, loggerVars
<1>9. \E a \in Appenders, lv \in Levels, f \in Formatters : TRUE
  BY LoggerConstants
<1> QED BY <1>1, <1>2, <1>3, <1>4, <1>5, <1>7, <1>8, <1>9 DEF Call

\* log(), Logger::log() and the appenders, with m_mutex.
LEMMA WalkLogLock ==
    ASSUME LoggerInv, NEW t \in Threads, \A u \in Threads : Walk(u), LogLock(t)
    PROVE  \A u \in Threads : Walk(u)'
<1>0. TypeOK /\ Locals /\ Locks
  BY DEF LoggerInv
<1> DEFINE g == call[t].at
<1>1. /\ pc[t] = "log" /\ g \in Loggers /\ call[t].logger \in Loggers /\ call[t] \in Calls
      /\ m_mutex[g] = NULL /\ m_mutex' = [m_mutex EXCEPT ![g] = t]
      /\ m_appenders[g] \in Seq(Appenders) /\ m_appenders' = m_appenders
  BY <1>0 DEF LogLock, Locals, TypeOK, loggerVars
<1>2. m_mutex'[g] = t /\ \A h \in Loggers \ {g} : m_mutex'[h] = m_mutex[h]
  BY <1>0, <1>1 DEF TypeOK
<1>3. \A u \in Threads \ {t} : pc'[u] = pc[u] /\ call'[u] = call[u]
  BY <1>0 DEF LogLock, TypeOK
<1>4. /\ call'[t].logger = call[t].logger
      /\ \/ pc'[t] = "append" /\ call'[t].at = g /\ call'[t].todo = m_appenders[g]
         \/ pc'[t] = "log" /\ call'[t].at = Root /\ m_appenders[g] = <<>>
  BY <1>0, <1>1 DEF LogLock, TypeOK, Calls
<1>5. g # call[t].logger => m_mutex[call[t].logger] = t /\ m_appenders[call[t].logger] = <<>>
  BY <1>1 DEF Walk
<1>6. Walk(t)'
  <2>1. /\ m_mutex'[call[t].logger] = t
        /\ g # call[t].logger => m_appenders[call[t].logger] = <<>>
    BY <1>1, <1>2, <1>5
  <2>2. RestOf(m_appenders[g], m_appenders[g])
    BY <1>1, WholeList
  <2>3. CASE pc'[t] = "append" /\ call'[t].at = g /\ call'[t].todo = m_appenders[g]
    BY <1>1, <1>2, <1>4, <2>1, <2>2, <2>3 DEF Walk
  <2>4. CASE pc'[t] = "log" /\ call'[t].at = Root /\ m_appenders[g] = <<>>
    BY <1>1, <1>4, <2>1, <2>4 DEF Walk
  <2> QED BY <1>4, <2>3, <2>4
<1>7. ASSUME NEW u \in Threads, u # t PROVE Walk(u)'
  <2>1. u # NULL
    BY LoggerConstants
  <2>2. \A h \in Loggers : m_mutex[h] = u => m_mutex'[h] = u /\ m_appenders'[h] = m_appenders[h]
    BY <1>1, <1>2, <2>1
  <2> QED BY <1>3, <1>7, <2>2, WalkFrame
<1> QED BY <1>6, <1>7

LEMMA WalkOn ==
    ASSUME LoggerInv, NEW t \in Threads, \A u \in Threads : Walk(u),
           AppenderLog(t) \/ Spread(t) \/ SetLock(t)
    PROVE  \A u \in Threads : Walk(u)'
<1>0. TypeOK /\ Locals /\ Locks
  BY DEF LoggerInv
<1>1. /\ call[t] \in Calls /\ call[t].todo \in Seq(Appenders) /\ m_appenders' = m_appenders
      /\ \A u \in Threads \ {t} : pc'[u] = pc[u] /\ call'[u] = call[u]
  BY <1>0 DEF AppenderLog, Spread, SetLock, loggerVars, TypeOK, Calls
<1>2. \A h \in Loggers : m_mutex[h] \notin {t, NULL} => m_mutex'[h] = m_mutex[h]
  BY <1>0 DEF AppenderLog, Spread, SetLock, TypeOK
<1>3. ASSUME NEW u \in Threads, u # t PROVE Walk(u)'
  <2>1. u # NULL
    BY LoggerConstants
  <2> QED BY <1>1, <1>2, <1>3, <2>1, WalkFrame
<1>4. CASE AppenderLog(t)
  <2>1. /\ pc[t] = "append" /\ call[t].todo # <<>> /\ m_mutex' = m_mutex
        /\ call[t].at \in Loggers /\ m_appenders[call[t].at] \in Seq(Appenders)
    BY <1>0, <1>4 DEF AppenderLog, Locals, TypeOK
  <2>2. \/ pc'[t] = "crash"
        \/ /\ pc'[t] = "append" /\ call'[t].at = call[t].at /\ call'[t].logger = call[t].logger
           /\ call'[t].todo = Tail(call[t].todo)
    <3>1. \/ pc' = [pc EXCEPT ![t] = "crash"]
          \/ pc' = pc /\ call' = [call EXCEPT ![t].todo = Tail(call[t].todo)]
      BY <1>4 DEF AppenderLog, Goto
    <3>2. CASE pc' = [pc EXCEPT ![t] = "crash"]
      BY <1>0, <3>2 DEF TypeOK
    <3>3. CASE pc' = pc /\ call' = [call EXCEPT ![t].todo = Tail(call[t].todo)]
      <4>1. call'[t] = [call[t] EXCEPT !.todo = Tail(call[t].todo)]
        BY <1>0, <3>3 DEF TypeOK
      <4> QED BY <1>1, <2>1, <3>3, <4>1 DEF Calls
    <3> QED BY <3>1, <3>2, <3>3
  <2>3. RestOf(Tail(call[t].todo), m_appenders[call[t].at])
    BY <1>1, <2>1, TailIsRest DEF Walk
  <2>4. Walk(t)'
    BY <1>1, <2>1, <2>2, <2>3 DEF Walk
  <2> QED BY <1>3, <2>4
<1>5. CASE Spread(t)
  <2>1. /\ pc[t] = "spread" /\ call[t].todo # <<>> /\ m_mutex' = m_mutex /\ pc' = pc
        /\ call[t].logger \in Loggers /\ m_appenders[call[t].logger] \in Seq(Appenders)
    BY <1>0, <1>5 DEF Spread, Locals, TypeOK
  <2>2. call'[t].logger = call[t].logger /\ call'[t].todo = Tail(call[t].todo)
    BY <1>0, <1>1, <1>5 DEF Spread, TypeOK, Calls
  <2>3. RestOf(Tail(call[t].todo), m_appenders[call[t].logger])
    BY <1>1, <2>1, TailIsRest DEF Walk
  <2>4. Walk(t)'
    BY <1>1, <2>1, <2>2, <2>3 DEF Walk
  <2> QED BY <1>3, <2>4
<1>6. CASE SetLock(t)
  <2>1. /\ pc'[t] = "spread" /\ call'[t].logger = call[t].logger
        /\ call'[t].todo = m_appenders[call[t].logger] /\ m_appenders[call[t].logger] \in Seq(Appenders)
    BY <1>0, <1>1, <1>6 DEF SetLock, Locals, TypeOK, Calls
  <2>2. Walk(t)'
    BY <1>1, <2>1, WholeList DEF Walk
  <2> QED BY <1>3, <2>2
<1> QED BY <1>4, <1>5, <1>6

LEMMA WalkContinue ==
    ASSUME LoggerInv, NEW t \in Threads, \A u \in Threads : Walk(u), Continue(t)
    PROVE  \A u \in Threads : Walk(u)'
<1>0. TypeOK /\ Locals /\ Locks
  BY DEF LoggerInv
<1>1. CASE log(t)
  <2>1. /\ pc[t] = "event" /\ m_appenders' = m_appenders
        /\ pc'[t] = "idle" \/ (pc'[t] = "log" /\ call'[t] = call[t])
        /\ \A u \in Threads \ {t} : pc'[u] = pc[u] /\ call'[u] = call[u]
    BY <1>0, <1>1 DEF log, Return, loggerVars, TypeOK
  <2>2. \A h \in Loggers : m_mutex[h] # t => m_mutex'[h] = m_mutex[h]
    BY <1>0, <1>1, UnlockFacts DEF log, Return
  <2>3. Walk(t)'
    BY <2>1 DEF Walk
  <2>4. ASSUME NEW u \in Threads, u # t PROVE Walk(u)'
    BY <2>1, <2>2, <2>4, WalkFrame
  <2> QED BY <2>3, <2>4
<1>2. CASE LogReturn(t) \/ SetReturn(t)
  <2>1. /\ pc'[t] = "idle" /\ m_appenders' = m_appenders
        /\ \A u \in Threads \ {t} : pc'[u] = pc[u] /\ call'[u] = call[u]
    BY <1>0, <1>2 DEF LogReturn, SetReturn, Return, loggerVars, TypeOK
  <2>2. \A h \in Loggers : m_mutex[h] # t => m_mutex'[h] = m_mutex[h]
    BY <1>0, <1>2, UnlockFacts DEF LogReturn, SetReturn, Return
  <2> QED BY <2>1, <2>2, WalkAside
<1>3. CASE AddPush(t)
  <2>1. /\ pc'[t] = "idle" /\ m_mutex[call[t].logger] = t
        /\ \A u \in Threads \ {t} : pc'[u] = pc[u] /\ call'[u] = call[u]
        /\ \A h \in Loggers \ {call[t].logger} : m_appenders'[h] = m_appenders[h]
    BY <1>0, <1>3 DEF AddPush, Return, Locks, TypeOK
  <2>2. \A h \in Loggers : m_mutex[h] # t => m_mutex'[h] = m_mutex[h]
    BY <1>0, <1>3, UnlockFacts DEF AddPush, Return
  <2> QED BY <2>1, <2>2, WalkAside
<1>4. CASE AddLock(t) \/ AddGet(t) \/ AddInit(t)
  <2>1. /\ pc'[t] \in {"get", "init", "push"} /\ UNCHANGED <<m_appenders, call>>
        /\ \A u \in Threads \ {t} : pc'[u] = pc[u]
    BY <1>0, <1>4 DEF AddLock, AddGet, AddInit, loggerVars, TypeOK
  <2>2. \A h \in Loggers : m_mutex[h] \notin {t, NULL} => m_mutex'[h] = m_mutex[h]
    BY <1>0, <1>4 DEF AddLock, AddGet, AddInit, TypeOK
  <2> QED BY <2>1, <2>2, WalkAside
<1>5. CASE YamlUnlock(t) \/ YamlReturn(t)
  <2>1. /\ pc'[t] \in {"yaml", "idle"} /\ UNCHANGED <<m_appenders, call>>
        /\ \A u \in Threads \ {t} : pc'[u] = pc[u]
    BY <1>0, <1>5 DEF YamlUnlock, YamlReturn, loggerVars, TypeOK
  <2>2. \A h \in Loggers : m_mutex[h] # t => m_mutex'[h] = m_mutex[h]
    BY <1>0, <1>5, UnlockFacts DEF YamlUnlock, YamlReturn
  <2> QED BY <2>1, <2>2, WalkAside
<1>6. CASE YamlLock(t)
  <2>1. PICK g \in call[t].rest : /\ m_mutex[g] = NULL
                                  /\ m_mutex' = [m_mutex EXCEPT ![g] = t]
                                  /\ call' = [call EXCEPT ![t].rest = @ \ {g}]
    BY <1>6 DEF YamlLock
  <2>2. /\ pc'[t] = "visit" /\ m_appenders' = m_appenders
        /\ \A u \in Threads \ {t} : pc'[u] = pc[u] /\ call'[u] = call[u]
    BY <1>0, <1>6, <2>1 DEF YamlLock, loggerVars, TypeOK
  <2>3. \A h \in Loggers : m_mutex[h] \notin {t, NULL} => m_mutex'[h] = m_mutex[h]
    BY <1>0, <2>1 DEF TypeOK
  <2> QED BY <2>2, <2>3, WalkAside
<1> QED BY <1>1, <1>2, <1>3, <1>4, <1>5, <1>6, WalkLogLock, WalkOn DEF Continue

\* The loops over m_appenders run undisturbed, and an event is written by the
\* appenders of one logger, its own or the root logger's, whatever the clients do.
THEOREM WalkUndisturbedCorrect == Spec => []WalkUndisturbed
<1>1. Init => \A t \in Threads : Walk(t)
  BY DEF Init, Walk
<1>2. LoggerInv /\ (\A t \in Threads : Walk(t)) /\ [Next]_vars => (\A t \in Threads : Walk(t))'
  <2> SUFFICES ASSUME LoggerInv, \A t \in Threads : Walk(t), [Next]_vars
               PROVE  \A t \in Threads : Walk(t)'
    OBVIOUS
  <2>1. CASE UNCHANGED vars
    BY <2>1 DEF vars, loggerVars, Walk, RestOf
  <2> QED BY <2>1, WalkCall, WalkContinue DEF Next, Quiet
<1>3. LoggerInv /\ (\A t \in Threads : Walk(t)) => WalkUndisturbed
  BY DEF Walk, RestOf, Walked, WalkUndisturbed
<1> QED BY <1>1, <1>2, <1>3, LoggerInvariant, PTL DEF Spec

\* With clients that add an appender once, set its own formatter apart from that and
\* set no empty one, every appender on the list of a logger that nobody holds has the
\* logger's formatter or its own.
THEOREM FormatterInheritedCorrect == Inheriting => (Spec => []FormatterInherited)
<1> SUFFICES ASSUME Inheriting PROVE Spec => []FormatterInherited
  OBVIOUS
<1>1. LoggerInv => FormatterInherited
  <2> SUFFICES ASSUME LoggerInv PROVE FormatterInherited
    OBVIOUS
  <2>1. \A t \in Threads : pc[t] = "spread" => m_mutex[call[t].logger] = t /\ t # NULL
    BY DEF LoggerInv, Locks
  <2> QED BY <2>1 DEF LoggerInv, Inherited, Following, FormatterInherited
<1> QED BY <1>1, LoggerInvariant, PTL
=============================================================================
