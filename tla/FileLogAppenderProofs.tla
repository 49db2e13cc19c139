----------------------- MODULE FileLogAppenderProofs -----------------------
(***************************************************************************)
(* TLAPS proofs about FileLogAppender, for any number of threads, events,  *)
(* seconds and faults.                                                     *)
(***************************************************************************)
EXTENDS FileLogAppender, TLAPS

USE FileLogAppenderConstants DEF Times, Events, Streams, Good, Goto, histVars

\* The file that has the name has not lost it, and no clock runs ahead.
World ==
    /\ path # 0 => moved[path] = MaxTime + 1
    /\ m_last_time <= clock
    /\ \A t \in Threads : now[t] <= clock
    /\ disk # "works" => lastFault = clock

\* A thread that has come past the comparison, be it through reopen() or because
\* another thread had been there in the same second.
Past(t) == pc[t] = "set" \/ (pc[t] = "write" /\ event[t] \notin unset)

\* The stream is at least as new as m_last_time and as what any thread past the
\* comparison has read.
Fresh ==
    Good(m_filestream) =>
        /\ moved[m_filestream.file] >= m_last_time
        /\ \A t \in Threads : Past(t) => moved[m_filestream.file] >= now[t]

\* A stream that is not good, without a write having failed, was closed and could
\* not be opened in a second with a fault, and every thread has tried since.
Closed ==
    ~Good(m_filestream) /\ ~failed =>
        /\ m_filestream.file = 0
        /\ m_last_time <= lastFault
        /\ \A t \in Threads : Past(t) => now[t] <= lastFault

\* The events that are under way, in the buffer and lost have been logged.
Logged ==
    /\ \A t \in Threads : pc[t] # "idle" =>
          event[t] \in 1..events /\ when[event[t]] = now[t]
    /\ m_filestream.buf \subseteq 1..events /\ lost \subseteq 1..events
    /\ \A e \in Events : when[e] <= clock

AppenderInv == TypeOK /\ World /\ Fresh /\ Closed /\ Logged /\ Recovers

-----------------------------------------------------------------------------
LEMMA InitOK == Init => AppenderInv
<1> SUFFICES ASSUME Init PROVE AppenderInv
  OBVIOUS
<1> USE DEF Init
<1>1. TypeOK
  <2>1. m_filestream \in Streams /\ (Good(m_filestream) => m_filestream.file \in 1..files)
    OBVIOUS
  <2>2. moved \in [1..files -> Times \cup {MaxTime + 1}]
    OBVIOUS
  <2>3. /\ pc \in [Threads -> {"idle", "check", "reopen", "set", "write"}]
        /\ now \in [Threads -> Times] /\ event \in [Threads -> Events \cup {0}]
        /\ when \in [Events -> Times]
    OBVIOUS
  <2>4. /\ m_last_time \in Times \cup {0} /\ clock \in Times
        /\ path \in 0..files /\ files \in Nat /\ disk \in {"works", "full", "gone"}
        /\ events \in 0..MaxEvents /\ faults \in 0..MaxFaults /\ lastFault \in 0..MaxTime
    OBVIOUS
  <2>5. lost \in SUBSET Events /\ failed \in BOOLEAN /\ unset \in SUBSET Events
    OBVIOUS
  <2> QED BY <2>1, <2>2, <2>3, <2>4, <2>5 DEF TypeOK
<1>2. World /\ Fresh /\ Closed /\ Logged /\ Recovers
  BY DEF World, Fresh, Past, Closed, Logged, Recovers
<1> QED BY <1>1, <1>2 DEF AppenderInv

\* reopen() leaves the stream with the file that has the name, or without one.
LEMMA ReopenFacts ==
    ASSUME TypeOK, World, NEW t \in Threads, Reopen(t)
    PROVE  /\ path' # 0 => moved'[path'] = MaxTime + 1
           /\ Good(m_filestream') => path' # 0 /\ m_filestream'.file = path'
           /\ ~Good(m_filestream') /\ disk # "gone" => ~Good(m_filestream) /\ m_filestream.file # 0
           /\ path' \in 0..files' /\ files' \in Nat
           /\ m_filestream' \in Streams
           /\ moved' \in [1..files' -> Times \cup {MaxTime + 1}]
<1> USE DEF TypeOK
<1> DEFINE s == IF Good(m_filestream) THEN Close(m_filestream) ELSE m_filestream
           f == IF path = 0 THEN files + 1 ELSE path
<1>0. /\ s \in Streams
      /\ s.file # 0 => ~Good(m_filestream) /\ m_filestream.file # 0
  <2>1. CASE Good(m_filestream)
    BY <2>1 DEF Close
  <2>2. CASE ~Good(m_filestream)
    BY <2>2
  <2> QED BY <2>1, <2>2
<1>1. f \in Nat /\ f # 0 /\ f <= files + 1 /\ files \in Nat /\ path \in 0..files
  OBVIOUS
<1>2. /\ m_filestream' = Open(s, f)
      /\ path' = (IF CanOpen(s) THEN f ELSE path)
      /\ files' = IF path' > files THEN path' ELSE files
      /\ moved' = [g \in 1..files' |-> IF g \in DOMAIN moved THEN moved[g] ELSE MaxTime + 1]
  BY DEF Reopen
<1>3. f \in 1..files => moved[f] = MaxTime + 1
  BY DEF World
<1>4. moved \in [1..files -> Times \cup {MaxTime + 1}]
  OBVIOUS
<1> HIDE DEF s, f, TypeOK
<1>5. CASE CanOpen(s)
  <2>1. /\ path' = f /\ files' \in Nat /\ files <= files' /\ f \in 1..files'
        /\ files' \in {files, f}
    BY <1>1, <1>2, <1>5
  <2>2. Good(m_filestream') /\ m_filestream'.file = f /\ m_filestream' \in Streams
    <3>1. m_filestream' = [s EXCEPT !.file = f, !.state = "good"]
      BY <1>2, <1>5, Zenon DEF Open
    <3> QED BY <1>0, <1>1, <3>1
  <2>3. moved'[f] = MaxTime + 1
    BY <1>2, <1>3, <1>4, <2>1
  <2>4. moved' \in [1..files' -> Times \cup {MaxTime + 1}]
    BY <1>2, <1>4
  <2> QED BY <1>1, <2>1, <2>2, <2>3, <2>4
<1>6. CASE ~CanOpen(s)
  <2>1. path' = path /\ files' = files
    BY <1>1, <1>2, <1>6
  <2>2. moved' = moved
    BY <1>2, <1>4, <2>1
  <2>3. ~Good(m_filestream') /\ m_filestream' \in Streams
    <3>1. m_filestream' = [s EXCEPT !.state = "failed"]
      BY <1>2, <1>6, Zenon DEF Open
    <3> QED BY <1>0, <3>1
  <2>4. disk # "gone" => s.file # 0
    BY <1>6 DEF CanOpen
  <2>5. path' # 0 => moved'[path'] = MaxTime + 1
    BY <2>1, <2>2 DEF World
  <2>6. path' \in 0..files' /\ files' \in Nat
    BY <1>1, <2>1
  <2>7. moved' \in [1..files' -> Times \cup {MaxTime + 1}]
    BY <1>4, <2>1, <2>2
  <2>8. disk # "gone" => ~Good(m_filestream) /\ m_filestream.file # 0
    BY <1>0, <2>4
  <2> QED BY <2>3, <2>5, <2>6, <2>7, <2>8
<1> QED BY <1>5, <1>6

LEMMA TypeStep ==
    ASSUME AppenderInv, Next
    PROVE  TypeOK'
<1> USE DEF AppenderInv, TypeOK
<1>1. ASSUME NEW t \in Threads, log(t) PROVE TypeOK'
  <2>1. events + 1 \in Events /\ events' = events + 1
    BY <1>1 DEF log
  <2>2. event' \in [Threads -> Events \cup {0}] /\ when' \in [Events -> Times]
    BY <1>1, <2>1 DEF log
  <2>3. pc' \in [Threads -> {"idle", "check", "reopen", "set", "write"}]
    BY <1>1 DEF log
  <2>4. now' \in [Threads -> Times] /\ events' \in 0..MaxEvents
    BY <1>1, <2>1 DEF log
  <2>5. UNCHANGED <<m_filestream, m_last_time, clock, path, files, moved, disk, faults, lastFault,
                    histVars>>
    BY <1>1 DEF log, diskVars
  <2> QED BY <2>2, <2>3, <2>4, <2>5
<1>2. ASSUME NEW t \in Threads, Check(t) PROVE TypeOK'
  <2>1. event[t] \in Events
    BY <1>2 DEF Check, Logged
  <2>2. unset' \in SUBSET Events
    <3>1. unset \in SUBSET Events /\ {event[t]} \in SUBSET Events
      BY <2>1
    <3>2. unset' = unset \/ unset' = unset \cup {event[t]}
      BY <1>2 DEF Check
    <3> QED BY <3>1, <3>2, Zenon
  <2>3. pc' \in [Threads -> {"idle", "check", "reopen", "set", "write"}]
    BY <1>2 DEF Check
  <2>4. UNCHANGED <<m_filestream, m_last_time, now, event, events, when, diskVars, lost, failed>>
    BY <1>2 DEF Check
  <2> QED BY <2>2, <2>3, <2>4 DEF diskVars
<1>3. ASSUME NEW t \in Threads, Reopen(t) PROVE TypeOK'
  <2>1. lost' \in SUBSET Events
    BY <1>3 DEF Reopen
  <2>2. pc' \in [Threads -> {"idle", "check", "reopen", "set", "write"}]
    BY <1>3 DEF Reopen
  <2>3. UNCHANGED <<m_last_time, now, event, events, when, clock, disk, faults, lastFault, failed, unset>>
    BY <1>3 DEF Reopen
  <2>4. Good(m_filestream') => m_filestream'.file \in 1..files'
    <3>1. /\ Good(m_filestream') => path' # 0 /\ m_filestream'.file = path'
          /\ path' \in 0..files' /\ files' \in Nat
      BY <1>3, ReopenFacts
    <3> QED BY <3>1
  <2> QED BY <1>3, <2>1, <2>2, <2>3, <2>4, ReopenFacts
<1>4. ASSUME NEW t \in Threads, SetLast(t) PROVE TypeOK'
  BY <1>4 DEF SetLast, diskVars
<1>5. ASSUME NEW t \in Threads, Write(t) PROVE TypeOK'
  <2>1. event[t] \in Events
    BY <1>5 DEF Write, Logged
  <2>2. lost' \in SUBSET Events
    <3>1. lost \in SUBSET Events /\ {event[t]} \in SUBSET Events
      BY <2>1
    <3>2. lost' = lost \/ lost' = lost \cup {event[t]}
      BY <1>5 DEF Write
    <3> QED BY <3>1, <3>2, Zenon
  <2>3. m_filestream' \in Streams
    <3>1. m_filestream.buf \cup {event[t]} \in SUBSET Events
      <4>1. m_filestream.buf \in SUBSET Events /\ {event[t]} \in SUBSET Events
        BY <2>1
      <4> QED BY <4>1, Zenon
    <3> DEFINE B == m_filestream.buf \cup {event[t]}
    <3>2. B \in SUBSET Events
      BY <3>1
    <3>3. \/ m_filestream' = m_filestream
          \/ m_filestream' = [m_filestream EXCEPT !.buf = B]
          \/ m_filestream' = [m_filestream EXCEPT !.buf = {}]
          \/ m_filestream' = [m_filestream EXCEPT !.state = "failed"]
      BY <1>5 DEF Write
    <3> HIDE DEF B
    <3> QED BY <3>2, <3>3
  <2>4. Good(m_filestream') => m_filestream'.file \in 1..files'
    BY <1>5 DEF Write, diskVars
  <2>5. failed' \in BOOLEAN
    BY <1>5 DEF Write
  <2> QED BY <1>5, <2>2, <2>3, <2>4, <2>5 DEF Write, diskVars
<1>6. CASE Tick
  <2>1. UNCHANGED <<m_filestream, m_last_time, threadVars, path, files, moved, disk, faults,
                    histVars>>
    BY <1>6 DEF Tick
  <2>2. clock' \in Times /\ lastFault' \in 0..MaxTime
    BY <1>6 DEF Tick
  <2> QED BY <2>1, <2>2 DEF threadVars
<1>7. CASE Rotate
  <2>1. UNCHANGED <<m_filestream, m_last_time, threadVars, clock, files, disk, lastFault,
                    histVars>>
    BY <1>7 DEF Rotate
  <2>2. /\ path' = 0 /\ faults' \in 0..MaxFaults
        /\ moved' \in [1..files -> Times \cup {MaxTime + 1}]
    BY <1>7 DEF Rotate
  <2> QED BY <2>1, <2>2 DEF threadVars
<1>8. CASE Fail
  <2>1. UNCHANGED <<m_filestream, m_last_time, threadVars, clock, path, files, moved, histVars>>
    BY <1>8 DEF Fail
  <2>2. disk' \in {"full", "gone"} /\ faults' \in 0..MaxFaults /\ lastFault' \in 0..MaxTime
    BY <1>8 DEF Fail
  <2> QED BY <2>1, <2>2 DEF threadVars
<1>9. CASE Repair
  BY <1>9 DEF Repair, threadVars
<1> QED BY <1>1, <1>2, <1>3, <1>4, <1>5, <1>6, <1>7, <1>8, <1>9 DEF Next

LEMMA WorldStep ==
    ASSUME AppenderInv, Next
    PROVE  World'
<1> USE DEF AppenderInv, TypeOK, World
<1>1. ASSUME NEW t \in Threads, log(t) PROVE World'
  BY <1>1 DEF log, diskVars
<1>2. ASSUME NEW t \in Threads, Check(t) PROVE World'
  BY <1>2 DEF Check, diskVars
<1>3. ASSUME NEW t \in Threads, Reopen(t) PROVE World'
  <2>1. UNCHANGED <<m_last_time, now, clock, disk, lastFault>>
    BY <1>3 DEF Reopen
  <2> QED BY <1>3, <2>1, ReopenFacts
<1>4. ASSUME NEW t \in Threads, SetLast(t) PROVE World'
  BY <1>4 DEF SetLast, diskVars
<1>5. ASSUME NEW t \in Threads, Write(t) PROVE World'
  BY <1>5 DEF Write, diskVars
<1>6. CASE Tick
  BY <1>6 DEF Tick, threadVars
<1>7. CASE Rotate
  BY <1>7 DEF Rotate, threadVars
<1>8. CASE Fail
  BY <1>8 DEF Fail, threadVars
<1>9. CASE Repair
  BY <1>9 DEF Repair, threadVars
<1> QED BY <1>1, <1>2, <1>3, <1>4, <1>5, <1>6, <1>7, <1>8, <1>9 DEF Next

LEMMA FreshStep ==
    ASSUME AppenderInv, Next
    PROVE  Fresh'
<1> USE DEF AppenderInv, TypeOK, World, Fresh, Past
<1>1. ASSUME NEW t \in Threads, log(t) PROVE Fresh'
  BY <1>1 DEF log, diskVars
<1>2. ASSUME NEW t \in Threads, Check(t) PROVE Fresh'
  BY <1>2 DEF Check, diskVars
<1>3. ASSUME NEW t \in Threads, Reopen(t) PROVE Fresh'
  <2>1. UNCHANGED <<m_last_time, now>>
    BY <1>3 DEF Reopen
  <2>2. Good(m_filestream') => moved'[m_filestream'.file] = MaxTime + 1
    BY <1>3, ReopenFacts
  <2> QED BY <2>1, <2>2
<1>4. ASSUME NEW t \in Threads, SetLast(t) PROVE Fresh'
  BY <1>4 DEF SetLast, diskVars
<1>5. ASSUME NEW t \in Threads, Write(t) PROVE Fresh'
  BY <1>5 DEF Write, diskVars
<1>6. CASE Tick
  BY <1>6 DEF Tick, threadVars
<1>7. CASE Rotate
  BY <1>7 DEF Rotate, threadVars
<1>8. CASE Fail
  BY <1>8 DEF Fail, threadVars
<1>9. CASE Repair
  BY <1>9 DEF Repair, threadVars
<1> QED BY <1>1, <1>2, <1>3, <1>4, <1>5, <1>6, <1>7, <1>8, <1>9 DEF Next

LEMMA ClosedStep ==
    ASSUME AppenderInv, Next
    PROVE  Closed'
<1> USE DEF AppenderInv, TypeOK, World, Closed, Past
<1>1. ASSUME NEW t \in Threads, log(t) PROVE Closed'
  BY <1>1 DEF log, diskVars
<1>2. ASSUME NEW t \in Threads, Check(t) PROVE Closed'
  BY <1>2 DEF Check, diskVars
<1>3. ASSUME NEW t \in Threads, Reopen(t) PROVE Closed'
  BY <1>3 DEF Reopen, Open, Close, CanOpen
<1>4. ASSUME NEW t \in Threads, SetLast(t) PROVE Closed'
  BY <1>4 DEF SetLast, diskVars
<1>5. ASSUME NEW t \in Threads, Write(t) PROVE Closed'
  BY <1>5 DEF Write, diskVars
<1>6. CASE Tick
  BY <1>6 DEF Tick, threadVars
<1>7. CASE Rotate
  BY <1>7 DEF Rotate, threadVars
<1>8. CASE Fail
  BY <1>8 DEF Fail, threadVars
<1>9. CASE Repair
  BY <1>9 DEF Repair, threadVars
<1> QED BY <1>1, <1>2, <1>3, <1>4, <1>5, <1>6, <1>7, <1>8, <1>9 DEF Next

LEMMA LoggedStep ==
    ASSUME AppenderInv, Next
    PROVE  Logged'
<1> USE DEF AppenderInv, TypeOK, World, Logged
<1>1. ASSUME NEW t \in Threads, log(t) PROVE Logged'
  <2>1. events + 1 \in Events /\ events' = events + 1
    BY <1>1 DEF log
  <2>2. /\ event' = [event EXCEPT ![t] = events + 1] /\ now' = [now EXCEPT ![t] = clock]
        /\ when' = [when EXCEPT ![events + 1] = clock] /\ pc' = [pc EXCEPT ![t] = "check"]
        /\ UNCHANGED <<m_filestream, lost, clock>>
    BY <1>1, <2>1 DEF log, diskVars
  <2>3. ASSUME NEW u \in Threads, pc'[u] # "idle"
        PROVE  event'[u] \in 1..events' /\ when'[event'[u]] = now'[u]
    <3>1. CASE u = t
      BY <2>1, <2>2, <3>1
    <3>2. CASE u # t
      <4>1. event'[u] = event[u] /\ now'[u] = now[u] /\ pc[u] # "idle"
        BY <2>2, <2>3, <3>2
      <4>2. event[u] \in 1..events /\ when[event[u]] = now[u]
        BY <4>1
      <4>3. event[u] # events + 1 /\ event[u] \in Events
        BY <2>1, <4>2
      <4>4. when'[event[u]] = when[event[u]]
        BY <2>2, <4>3
      <4> QED BY <2>1, <4>1, <4>2, <4>4
    <3> QED BY <3>1, <3>2
  <2>4. \A e \in Events : when'[e] <= clock'
    BY <2>1, <2>2
  <2>5. m_filestream'.buf \subseteq 1..events' /\ lost' \subseteq 1..events'
    BY <2>1, <2>2
  <2> QED BY <2>3, <2>4, <2>5
<1>2. ASSUME NEW t \in Threads, Check(t) PROVE Logged'
  BY <1>2 DEF Check, diskVars
<1>3. ASSUME NEW t \in Threads, Reopen(t) PROVE Logged'
  BY <1>3 DEF Reopen, Open, Close, CanOpen
<1>4. ASSUME NEW t \in Threads, SetLast(t) PROVE Logged'
  BY <1>4 DEF SetLast, diskVars
<1>5. ASSUME NEW t \in Threads, Write(t) PROVE Logged'
  <2>1. event[t] \in 1..events /\ events <= MaxEvents
    BY <1>5 DEF Write, Logged
  <2>2. CASE lost' = lost \cup {event[t]} /\ m_filestream' = m_filestream
    BY <1>5, <2>1, <2>2 DEF Write, diskVars
  <2>3. CASE m_filestream' = [m_filestream EXCEPT !.buf = @ \cup {event[t]}] /\ lost' = lost
    BY <1>5, <2>1, <2>3 DEF Write, diskVars
  <2>4. CASE m_filestream' = [m_filestream EXCEPT !.buf = {}] /\ lost' = lost
    BY <1>5, <2>1, <2>4 DEF Write, diskVars
  <2>5. CASE /\ m_filestream' = [m_filestream EXCEPT !.state = "failed"]
             /\ lost' = lost \cup {event[t]}
    BY <1>5, <2>1, <2>5 DEF Write, diskVars
  <2> QED BY <1>5, <2>2, <2>3, <2>4, <2>5 DEF Write
<1>6. CASE Tick
  BY <1>6 DEF Tick, threadVars
<1>7. CASE Rotate
  BY <1>7 DEF Rotate, threadVars
<1>8. CASE Fail
  BY <1>8 DEF Fail, threadVars
<1>9. CASE Repair
  BY <1>9 DEF Repair, threadVars
<1> QED BY <1>1, <1>2, <1>3, <1>4, <1>5, <1>6, <1>7, <1>8, <1>9 DEF Next

LEMMA RecoversStep ==
    ASSUME AppenderInv, Next
    PROVE  Recovers'
<1> USE DEF AppenderInv, TypeOK, World, Closed, Past, Logged, Recovers
<1>1. ASSUME NEW t \in Threads, log(t) PROVE Recovers'
  BY <1>1 DEF log, diskVars
<1>2. ASSUME NEW t \in Threads, Check(t) PROVE Recovers'
  BY <1>2 DEF Check, diskVars
<1>3. ASSUME NEW t \in Threads, Reopen(t) PROVE Recovers'
  BY <1>3 DEF Reopen, Open, Close, CanOpen
<1>4. ASSUME NEW t \in Threads, SetLast(t) PROVE Recovers'
  BY <1>4 DEF SetLast, diskVars
<1>5. ASSUME NEW t \in Threads, Write(t) PROVE Recovers'
  <2>1. UNCHANGED <<when, lastFault, unset>> /\ (failed => failed')
    BY <1>5 DEF Write, diskVars
  <2>2. lost' = lost \/ (lost' = lost \cup {event[t]} /\ (failed' \/ ~Good(m_filestream)))
    BY <1>5 DEF Write
  <2>3. pc[t] = "write" /\ when[event[t]] = now[t]
    BY <1>5 DEF Write
  <2>4. ~Good(m_filestream) /\ ~failed /\ event[t] \notin unset => now[t] <= lastFault
    BY <2>3
  <2>5. ASSUME NEW e \in lost' \ unset', ~failed' PROVE when[e] <= lastFault
    <3>1. ~failed /\ e \notin unset
      BY <2>1, <2>5
    <3>2. CASE e \in lost
      BY <3>1, <3>2
    <3>3. CASE e \notin lost
      <4>1. e = event[t] /\ ~Good(m_filestream)
        BY <2>2, <2>5, <3>3
      <4> QED BY <2>3, <2>4, <3>1, <4>1
    <3> QED BY <3>2, <3>3
  <2> QED BY <2>1, <2>5
<1>6. CASE Tick
  BY <1>6 DEF Tick, threadVars
<1>7. CASE Rotate
  BY <1>7 DEF Rotate, threadVars
<1>8. CASE Fail
  BY <1>8 DEF Fail, threadVars
<1>9. CASE Repair
  BY <1>9 DEF Repair, threadVars
<1> QED BY <1>1, <1>2, <1>3, <1>4, <1>5, <1>6, <1>7, <1>8, <1>9 DEF Next

LEMMA StutterStep ==
    ASSUME AppenderInv, UNCHANGED vars
    PROVE  AppenderInv'
<1> USE DEF vars, threadVars, diskVars
<1>1. TypeOK'
  BY DEF AppenderInv, TypeOK
<1>2. World' /\ Fresh' /\ Closed'
  BY DEF AppenderInv, World, Fresh, Closed, Past
<1>3. Logged' /\ Recovers'
  BY DEF AppenderInv, Logged, Recovers
<1> QED BY <1>1, <1>2, <1>3 DEF AppenderInv

-----------------------------------------------------------------------------
\* The invariant behind the two results: whatever order threads that share the
\* appender read m_last_time, reopen and assign it in, and whatever happens to
\* the file system between, the stream is at least as new as every time that a
\* thread past the comparison has read, and a stream that is closed was closed
\* in a second in which the file system did not work.
THEOREM AppenderCorrect == Spec => []AppenderInv
<1>1. Init => AppenderInv
  BY InitOK
<1>2. AppenderInv /\ [Next]_vars => AppenderInv'
  <2> SUFFICES ASSUME AppenderInv, [Next]_vars PROVE AppenderInv'
    OBVIOUS
  <2>1. CASE Next
    BY <2>1, TypeStep, WorldStep, FreshStep, ClosedStep, LoggedStep, RecoversStep
       DEF AppenderInv
  <2>2. CASE UNCHANGED vars
    BY <2>2, StutterStep
  <2> QED BY <2>1, <2>2
<1> QED BY <1>1, <1>2, PTL DEF Spec

\* FileLogAppender::log() writes no event to a file that was moved away before
\* the second of the event, for any number of threads, files and faults.
THEOREM FreshFileCorrect == Spec => []FreshFile
<1>1. AppenderInv => FreshFile
  BY DEF AppenderInv, TypeOK, Fresh, Past, FreshFile
<1> QED BY <1>1, AppenderCorrect, PTL

\* Until a write fails, the file system's faults cost no event of a second after
\* the last of them, the events apart that log() did not call reopen() for because
\* m_last_time had no value yet.
THEOREM RecoversCorrect == Spec => []Recovers
<1>1. AppenderInv => Recovers
  BY DEF AppenderInv
<1> QED BY <1>1, AppenderCorrect, PTL

\* From the first write that fails on the stream is not good: reopen() does not
\* close it (log.cpp:412), and so it can not be opened, whatever becomes of the
\* disk.
Broken == ~Good(m_filestream) /\ m_filestream.file # 0

\* A write that failed is final: the appender takes no event ever again.
THEOREM FailedForGood == Spec => [](failed => Broken)
<1>1. Init => (failed => Broken)
  BY DEF Init
<1>2. AppenderInv /\ (failed => Broken) /\ [Next]_vars => (failed => Broken)'
  <2> SUFFICES ASSUME AppenderInv, failed => Broken, [Next]_vars, failed'
               PROVE  Broken'
    OBVIOUS
  <2> USE DEF AppenderInv, TypeOK, Broken
  <2>1. ASSUME NEW t \in Threads, Write(t) PROVE Broken'
    <3>1. CASE failed
      BY <2>1, <3>1 DEF Write
    <3>2. CASE ~failed
      <4>1. Good(m_filestream) /\ m_filestream' = [m_filestream EXCEPT !.state = "failed"]
        BY <2>1, <3>2 DEF Write
      <4>2. m_filestream.file # 0
        BY <4>1
      <4> QED BY <4>1, <4>2
    <3> QED BY <3>1, <3>2
  <2>2. ASSUME NEW t \in Threads, Reopen(t) PROVE Broken'
    BY <2>2 DEF Reopen, Open, CanOpen
  <2>3. ASSUME NEW t \in Threads, log(t) \/ Check(t) \/ SetLast(t) PROVE Broken'
    BY <2>3 DEF log, Check, SetLast
  <2>4. CASE Tick \/ Rotate \/ Fail \/ Repair \/ UNCHANGED vars
    BY <2>4 DEF Tick, Rotate, Fail, Repair, vars
  <2> QED BY <2>1, <2>2, <2>3, <2>4 DEF Next
<1> QED BY <1>1, <1>2, AppenderCorrect, PTL DEF Spec
=============================================================================
