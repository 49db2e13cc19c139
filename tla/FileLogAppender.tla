-------------------------- MODULE FileLogAppender --------------------------
(***************************************************************************)
(* FileLogAppender of src/src/log.{h,cpp}: threads that log through one    *)
(* appender, the ofstream behind it, and the file system, where the file   *)
(* is moved away, the disk fills up and the directory goes and comes back. *)
(*                                                                         *)
(* m_mutex is held around reopen() and around the write, each one step     *)
(* here; time(0), the comparison with m_last_time and the assignment to it *)
(* happen outside.  Threads meet here only when the appender is in two     *)
(* loggers, because a logger calls its appenders under its own mutex.      *)
(* Events are those that passed the level.                                 *)
(***************************************************************************)
EXTENDS Integers

CONSTANTS
    Threads,
    MaxTime,        \* bound: the last second
    MaxEvents,      \* bound: how many events are logged
    MaxFaults       \* bound: how many things happen to the file system

ASSUME FileLogAppenderConstants ==
    MaxTime \in Nat \ {0} /\ MaxEvents \in Nat /\ MaxFaults \in Nat

Times == 1..MaxTime
Events == 1..MaxEvents

VARIABLES
    m_filestream,   \* the open file (0 if none), the state, the events in the buffer
    m_last_time,    \* 0 before the first assignment: the constructor leaves it out
    pc, now, event, \* per thread: place, local variable, argument
    \* file system
    clock,
    path,           \* the file that has the name m_filename, 0 if none
    files,          \* how many files there have been
    moved,          \* when a file lost the name
    disk,           \* it works, has no space, has no directory to create a file in
    \* history and bounds
    events, faults,
    when,           \* per event: the second the thread read
    lost,           \* the events that will never be in a file
    lastFault,      \* the last second in which the file system did not work
    failed,         \* a write has failed
    unset           \* the events whose comparison found the uninitialised value equal

threadVars == <<pc, now, event, events, when>>
diskVars == <<clock, path, files, moved, disk, faults, lastFault>>
histVars == <<lost, failed, unset>>
vars == <<m_filestream, m_last_time, threadVars, diskVars, histVars>>

Streams == [file : Nat, state : {"good", "failed"}, buf : SUBSET Events]

\* m_filestream as a condition
Good(s) == s.state = "good"

\* Types; a stream that is good has a file.
TypeOK ==
    /\ m_filestream \in Streams
    /\ Good(m_filestream) => m_filestream.file \in 1..files
    /\ m_last_time \in Times \cup {0}
    /\ pc \in [Threads -> {"idle", "check", "reopen", "set", "write"}]
    /\ now \in [Threads -> Times]
    /\ event \in [Threads -> Events \cup {0}]
    /\ clock \in Times
    /\ path \in 0..files /\ files \in Nat
    /\ moved \in [1..files -> Times \cup {MaxTime + 1}]
    /\ disk \in {"works", "full", "gone"}
    /\ events \in 0..MaxEvents /\ faults \in 0..MaxFaults
    /\ when \in [Events -> Times]
    /\ lost \in SUBSET Events
    /\ lastFault \in 0..MaxTime
    /\ failed \in BOOLEAN /\ unset \in SUBSET Events

-----------------------------------------------------------------------------
(***************************************************************************)
(* std::ofstream, as far as the appender uses it.                          *)
(***************************************************************************)
\* close() writes the buffer out and closes, whether or not there is space.
Close(s) == [file |-> 0, state |-> s.state, buf |-> {}]

\* open() of a stream that has a file open fails; so does one without a
\* directory.  A success clears the error flags.
CanOpen(s) == s.file = 0 /\ disk # "gone"

Open(s, f) == IF CanOpen(s) THEN [s EXCEPT !.file = f, !.state = "good"]
              ELSE [s EXCEPT !.state = "failed"]

-----------------------------------------------------------------------------
\* The constructor calls reopen() on a new stream.
Init ==
    /\ disk \in {"works", "gone"} /\ clock = 1
    /\ path = (IF disk = "gone" THEN 0 ELSE 1) /\ files = path
    /\ moved = [f \in 1..files |-> MaxTime + 1]
    /\ m_filestream = [file |-> path, state |-> IF disk = "gone" THEN "failed" ELSE "good", buf |-> {}]
    /\ m_last_time = 0
    /\ pc = [t \in Threads |-> "idle"]
    /\ now = [t \in Threads |-> 1]
    /\ event = [t \in Threads |-> 0]
    /\ events = 0 /\ faults = 0
    /\ when = [e \in Events |-> 1]
    /\ lost = {} /\ lastFault = (IF disk = "gone" THEN 1 ELSE 0)
    /\ failed = FALSE /\ unset = {}

Goto(t, label) == pc' = [pc EXCEPT ![t] = label]

\* log(): uint64_t now = time(0)
log(t) ==
    /\ pc[t] = "idle" /\ events < MaxEvents
    /\ events' = events + 1
    /\ event' = [event EXCEPT ![t] = events']
    /\ now' = [now EXCEPT ![t] = clock]
    /\ when' = [when EXCEPT ![events'] = clock]
    /\ Goto(t, "check")
    /\ UNCHANGED <<m_filestream, m_last_time, diskVars, histVars>>

\* Fault: m_last_time is assigned before the file is opened again.
CheckSets(t) ==
    /\ pc[t] = "check"
    /\ \/ now[t] # m_last_time /\ Goto(t, "reopen") /\ m_last_time' = now[t]
       \/ now[t] = m_last_time /\ Goto(t, "write") /\ UNCHANGED m_last_time
    /\ UNCHANGED <<m_filestream, now, event, events, when, diskVars, histVars>>

\* now != m_last_time, where the value of m_last_time may be any as long as
\* nothing has been assigned to it
Check(t) ==
    /\ pc[t] = "check"
    /\ \/ now[t] # m_last_time /\ Goto(t, "reopen") /\ UNCHANGED unset
       \/ now[t] = m_last_time /\ Goto(t, "write") /\ UNCHANGED unset
       \/ m_last_time = 0 /\ Goto(t, "write") /\ unset' = unset \cup {event[t]}
    /\ UNCHANGED <<m_filestream, m_last_time, now, event, events, when, diskVars, lost, failed>>

\* Fault: a stream that is not good is left alone.
ReopenGood(t) ==
    LET f == IF path = 0 THEN files + 1 ELSE path IN
    /\ pc[t] = "reopen"
    /\ lost' = IF Good(m_filestream) /\ disk = "full" THEN lost \cup m_filestream.buf ELSE lost
    /\ m_filestream' = IF Good(m_filestream) THEN Open(Close(m_filestream), f) ELSE m_filestream
    /\ path' = IF Good(m_filestream') THEN f ELSE path
    /\ files' = IF path' > files THEN path' ELSE files
    /\ moved' = [g \in 1..files' |-> IF g \in DOMAIN moved THEN moved[g] ELSE MaxTime + 1]
    /\ Goto(t, "set")
    /\ UNCHANGED <<m_last_time, now, event, events, when, clock, disk, faults, lastFault,
                   failed, unset>>

\* reopen(): only a stream that is good is closed.  What is in the buffer is
\* lost when the disk is full.
Reopen(t) ==
    LET s == IF Good(m_filestream) THEN Close(m_filestream) ELSE m_filestream
        f == IF path = 0 THEN files + 1 ELSE path
    IN
    /\ pc[t] = "reopen"
    /\ lost' = IF Good(m_filestream) /\ disk = "full" THEN lost \cup m_filestream.buf ELSE lost
    /\ m_filestream' = Open(s, f)
    /\ path' = IF CanOpen(s) THEN f ELSE path
    /\ files' = IF path' > files THEN path' ELSE files
    /\ moved' = [g \in 1..files' |-> IF g \in DOMAIN moved THEN moved[g] ELSE MaxTime + 1]
    /\ Goto(t, "set")
    /\ UNCHANGED <<m_last_time, now, event, events, when, clock, disk, faults, lastFault,
                   failed, unset>>

\* m_last_time = now
SetLast(t) ==
    /\ pc[t] = "set"
    /\ m_last_time' = now[t]
    /\ Goto(t, "write")
    /\ UNCHANGED <<m_filestream, now, event, events, when, diskVars, histVars>>

\* m_filestream << ...: a stream that is not good takes nothing.  Otherwise the
\* event goes to the buffer, which may be written out for lack of room.
Write(t) ==
    /\ pc[t] = "write"
    /\ \/ /\ ~Good(m_filestream)
          /\ lost' = lost \cup {event[t]} /\ UNCHANGED <<m_filestream, failed>>
       \/ /\ Good(m_filestream)
          /\ m_filestream' = [m_filestream EXCEPT !.buf = @ \cup {event[t]}]
          /\ UNCHANGED <<lost, failed>>
       \/ /\ Good(m_filestream) /\ disk # "full"
          /\ m_filestream' = [m_filestream EXCEPT !.buf = {}]
          /\ UNCHANGED <<lost, failed>>
       \/ /\ Good(m_filestream) /\ disk = "full"
          /\ m_filestream' = [m_filestream EXCEPT !.state = "failed"]
          /\ lost' = lost \cup {event[t]} /\ failed' = TRUE
    /\ Goto(t, "idle")
    /\ UNCHANGED <<m_last_time, now, event, events, when, diskVars, unset>>

-----------------------------------------------------------------------------
(***************************************************************************)
(* The world: time(0), an administrator, a disk.                           *)
(***************************************************************************)
Tick ==
    /\ clock < MaxTime
    /\ clock' = clock + 1
    /\ lastFault' = IF disk # "works" THEN clock' ELSE lastFault
    /\ UNCHANGED <<m_filestream, m_last_time, threadVars, path, files, moved, disk, faults,
                   histVars>>

\* The file is renamed or deleted, as log rotation does.
Rotate ==
    /\ faults < MaxFaults /\ path # 0
    /\ path' = 0
    /\ moved' = [moved EXCEPT ![path] = clock]
    /\ faults' = faults + 1
    /\ UNCHANGED <<m_filestream, m_last_time, threadVars, clock, files, disk, lastFault,
                   histVars>>

Fail ==
    /\ faults < MaxFaults
    /\ disk' \in {"full", "gone"}
    /\ faults' = faults + 1
    /\ lastFault' = clock
    /\ UNCHANGED <<m_filestream, m_last_time, threadVars, clock, path, files, moved, histVars>>

Repair ==
    /\ disk # "works"
    /\ disk' = "works"
    /\ UNCHANGED <<m_filestream, m_last_time, threadVars, clock, path, files, moved, faults,
                   lastFault, histVars>>

Next ==
    \/ \E t \in Threads : log(t) \/ Check(t) \/ Reopen(t) \/ SetLast(t) \/ Write(t)
    \/ Tick \/ Rotate \/ Fail \/ Repair

Spec == Init /\ [][Next]_vars

-----------------------------------------------------------------------------
\* Log rotation: an event goes to no file that was moved away before the second
\* of the event began, although m_last_time is read and written without a lock
\* and stale threads write older times to it.  Nothing is said of an event that
\* was compared with m_last_time before that had a value (log.h:279).
FreshFile ==
    \A t \in Threads :
        pc[t] = "write" /\ Good(m_filestream) /\ event[t] \notin unset
        => moved[m_filestream.file] >= now[t]

\* While no write has failed, reopen() gets over a directory that was missing and
\* over a disk that was full when it closed the file: the events lost are of the
\* seconds up to the last fault, or else were compared with m_last_time before
\* that had a value (log.h:279), and so not preceded by reopen().
Recovers == failed \/ \A e \in lost \ unset : when[e] <= lastFault

\* log.h:272: reopen() opens the file again.  It does whenever the disk works.
ReopenOpens == [][\A t \in Threads : Reopen(t) /\ disk = "works" => Good(m_filestream')]_vars
=============================================================================
