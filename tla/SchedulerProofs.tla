-------------------------- MODULE SchedulerProofs --------------------------
(***************************************************************************)
(* TLAPS proofs about Scheduler, for any number of workers, fibers and     *)
(* jobs and any bounds: TypeOK and CountersExact whatever clients do;      *)
(* FiberExclusive and AssertionsHold, no fiber on two stacks and no failed *)
(* assertion, with clients that keep to the contract.                      *)
(***************************************************************************)
EXTENDS SchedulerInv, FiniteSetTheorems, SequenceTheorems, TLAPS

USE DEF Goto

-----------------------------------------------------------------------------
(***************************************************************************)
(* Facts about the queue.                                                  *)
(***************************************************************************)

\* m_fibers.erase(iter): what is left are messages that were there before.
LEMMA RemoveAtFacts ==
    ASSUME NEW S, NEW q \in Seq(S), NEW i \in DOMAIN q
    PROVE  /\ RemoveAt(q, i) \in Seq(S)
           /\ Len(RemoveAt(q, i)) = Len(q) - 1
           /\ \A k \in DOMAIN RemoveAt(q, i) :
                  RemoveAt(q, i)[k] = q[IF k < i THEN k ELSE k + 1]
           /\ DOMAIN RemoveAt(q, i) = 1 .. (Len(q) - 1)
<1> DEFINE a == SubSeq(q, 1, i - 1)
           b == SubSeq(q, i + 1, Len(q))
           c == a \o b
<1>1. i \in Int /\ 1 <= i /\ i <= Len(q) /\ Len(q) \in Nat
  BY LenProperties
<1>2. \A k \in 1 .. Len(q) : q[k] \in S
  BY ElementOfSeq
<1>3. /\ a \in Seq(S) /\ Len(a) = i - 1
      /\ \A k \in 1 .. i - 1 : a[k] = q[k]
  <2>1. \A k \in 1 .. i - 1 : q[k] \in S
    BY <1>1, <1>2
  <2>2. /\ SubSeq(q, 1, i - 1) \in Seq(S)
        /\ Len(SubSeq(q, 1, i - 1)) = IF 1 <= i - 1 THEN (i - 1) - 1 + 1 ELSE 0
        /\ \A k \in 1 .. (i - 1) - 1 + 1 : SubSeq(q, 1, i - 1)[k] = q[1 + k - 1]
    BY <1>1, <2>1, SubSeqProperties
  <2> QED BY <1>1, <2>2
<1>4. /\ b \in Seq(S) /\ Len(b) = Len(q) - i
      /\ \A k \in 1 .. Len(q) - i : b[k] = q[i + k]
  <2>1. \A k \in i + 1 .. Len(q) : q[k] \in S
    BY <1>1, <1>2
  <2>2. /\ SubSeq(q, i + 1, Len(q)) \in Seq(S)
        /\ Len(SubSeq(q, i + 1, Len(q))) =
              IF i + 1 <= Len(q) THEN Len(q) - (i + 1) + 1 ELSE 0
        /\ \A k \in 1 .. Len(q) - (i + 1) + 1 :
              SubSeq(q, i + 1, Len(q))[k] = q[(i + 1) + k - 1]
    BY <1>1, <2>1, SubSeqProperties
  <2>3. Len(b) = Len(q) - i /\ Len(q) - (i + 1) + 1 = Len(q) - i
    BY <1>1, <2>2
  <2>4. ASSUME NEW k \in 1 .. Len(q) - i PROVE b[k] = q[i + k]
    <3>1. k \in 1 .. Len(q) - (i + 1) + 1 /\ (i + 1) + k - 1 = i + k
      BY <1>1, <2>3
    <3>2. b[k] = q[(i + 1) + k - 1]
      BY <2>2, <3>1
    <3> QED BY <3>1, <3>2
  <2> QED BY <2>2, <2>3, <2>4
<1> HIDE DEF a, b
<1>5. /\ c \in Seq(S)
      /\ Len(c) = Len(a) + Len(b)
      /\ \A k \in 1 .. Len(a) + Len(b) :
            c[k] = IF k <= Len(a) THEN a[k] ELSE b[k - Len(a)]
  BY <1>3, <1>4, ConcatProperties
<1> HIDE DEF c
<1>6. DOMAIN c = 1 .. Len(q) - 1
  BY <1>1, <1>3, <1>4, <1>5, LenProperties
<1>7. ASSUME NEW k \in 1 .. Len(q) - 1
      PROVE  c[k] = q[IF k < i THEN k ELSE k + 1]
  <2>0. /\ k \in 1 .. Len(a) + Len(b) /\ Len(a) = i - 1
        /\ c[k] = IF k <= Len(a) THEN a[k] ELSE b[k - Len(a)]
    <3>1. Len(a) = i - 1 /\ Len(b) = Len(q) - i
      BY <1>3, <1>4
    <3>2. Len(a) + Len(b) = Len(q) - 1
      BY <1>1, <3>1
    <3>3. k \in 1 .. Len(a) + Len(b)
      BY <3>2, Zenon
    <3> QED BY <1>5, <3>1, <3>3
  <2>1. CASE k < i
    <3>1. k <= Len(a) /\ k \in 1 .. i - 1
      BY <1>1, <2>0, <2>1
    <3>2. a[k] = q[k]
      BY <1>3, <3>1
    <3> QED BY <2>0, <2>1, <3>1, <3>2
  <2>2. CASE ~(k < i)
    <3>1. c[k] = b[k - (i - 1)]
      BY <1>1, <2>0, <2>2
    <3>2. k - (i - 1) \in 1 .. Len(q) - i /\ i + (k - (i - 1)) = k + 1
      BY <1>1, <2>2
    <3>3. b[k - (i - 1)] = q[i + (k - (i - 1))]
      BY <1>4, <3>2
    <3> QED BY <2>2, <3>1, <3>2, <3>3
  <2> QED BY <2>1, <2>2
<1>8. RemoveAt(q, i) = c
  BY DEF RemoveAt, a, b, c
<1>9. Len(c) = Len(q) - 1
  BY <1>1, <1>3, <1>4, <1>5
<1>10. \A k \in DOMAIN c : c[k] = q[IF k < i THEN k ELSE k + 1]
  BY <1>6, <1>7
<1> QED BY <1>5, <1>6, <1>8, <1>9, <1>10

\* m_fibers.emplace_back(ft)
LEMMA AppendFacts ==
    ASSUME NEW S, NEW q \in Seq(S), NEW e \in S
    PROVE  /\ Append(q, e) \in Seq(S)
           /\ DOMAIN Append(q, e) = 1 .. (Len(q) + 1)
           /\ \A k \in 1 .. Len(q) : Append(q, e)[k] = q[k]
           /\ Append(q, e)[Len(q) + 1] = e
  OBVIOUS

\* scheduleNoLock() adds the message or nothing.
LEMMA ScheduleFacts ==
    ASSUME NEW q \in Seq(Tasks), NEW m \in Tasks
    PROVE  /\ scheduleNoLock(q, m) \in Seq(Tasks)
           /\ \A k \in DOMAIN scheduleNoLock(q, m) :
                \/ k \in DOMAIN q /\ scheduleNoLock(q, m)[k] = q[k]
                \/ scheduleNoLock(q, m)[k] = m /\ (m.fiber # NULL \/ m.cb # NULL)
  BY AppendFacts, LenProperties DEF scheduleNoLock

\* scheduleNoLock() keeps the queue free of empty messages.
LEMMA ScheduleQueue ==
    ASSUME NEW q \in Seq(Tasks), NEW m \in Tasks,
           \A i \in DOMAIN q : q[i].fiber # NULL \/ q[i].cb # NULL
    PROVE  /\ scheduleNoLock(q, m) \in Seq(Tasks)
           /\ \A i \in DOMAIN scheduleNoLock(q, m) :
                 scheduleNoLock(q, m)[i].fiber # NULL \/ scheduleNoLock(q, m)[i].cb # NULL
  BY ScheduleFacts

\* So does erasing a message.
LEMMA RemoveQueue ==
    ASSUME NEW q \in Seq(Tasks), NEW n \in DOMAIN q,
           \A i \in DOMAIN q : q[i].fiber # NULL \/ q[i].cb # NULL
    PROVE  /\ RemoveAt(q, n) \in Seq(Tasks)
           /\ \A i \in DOMAIN RemoveAt(q, n) :
                 RemoveAt(q, n)[i].fiber # NULL \/ RemoveAt(q, n)[i].cb # NULL
<1>1. DOMAIN q = 1 .. Len(q) /\ Len(q) \in Nat
  BY LenProperties
<1>2. RemoveAt(q, n) \in Seq(Tasks)
  BY RemoveAtFacts
<1>3. ASSUME NEW i \in DOMAIN RemoveAt(q, n)
      PROVE  RemoveAt(q, n)[i].fiber # NULL \/ RemoveAt(q, n)[i].cb # NULL
  <2>1. /\ i \in 1 .. Len(q) - 1
        /\ RemoveAt(q, n)[i] = q[IF i < n THEN i ELSE i + 1]
    BY RemoveAtFacts
  <2>2. (IF i < n THEN i ELSE i + 1) \in DOMAIN q
    BY <1>1, <2>1
  <2> QED BY <2>1, <2>2
<1> QED BY <1>2, <1>3

-----------------------------------------------------------------------------
(***************************************************************************)
(* Type correctness.  TypeOK is not inductive: a decrement of a counter    *)
(* stays in Nat only because the counters are exact (CountersExact), and a *)
(* callback that ends is a job only because a fiber is at hand (Shape).    *)
(***************************************************************************)

\* The next-state relation, one disjunct per action.
LEMMA NextActions ==
    ASSUME Next
    PROVE  \/ \E by \in Threads \cup {NULL}, j \in Jobs, t \in Threads \cup {ANY} :
                 SubmitCb(by, j, t)
           \/ \E by \in Threads \cup {NULL}, j \in Jobs, f \in Fibers,
                 t \in Threads \cup {ANY} : SubmitFiber(by, j, f, t)
           \/ \E by \in Threads \cup {NULL}, i \in Jobs, j \in Jobs : SubmitBatch(by, i, j)
           \/ \E by \in Threads \cup {NULL}, f \in Fibers, t \in Threads \cup {ANY} :
                 Wake(by, f, t)
           \/ \E w \in Threads : Run(w)
           \/ \E w \in Workers : StartThread(w)
           \/ StartLock \/ StartUnlock \/ StopBegin \/ StopAlone \/ StopSet \/ StopRoot
           \/ RootReturn \/ StopSwap \/ Join \/ StopReturn
           \/ UNCHANGED vars
  BY Zenon DEF Next, Client, Runners, Threads, Start, StartRest, Stop, Ended

\* Where run() has a fiber at hand, it is an object and not a null pointer.
LEMMA CurIsFiber ==
    ASSUME TypeOK, Shape, NEW w \in Threads, pc[w] \in HasFiber
    PROVE  Cur(w) \in Fibers
  BY FiberConstants DEF TypeOK, LocalTypeOK, Tasks, Shape, Cur

\* The fibers keep their types: only construction, reset(), the switches and
\* the ends of a turn write them.
LEMMA FiberTypeStep ==
    ASSUME TypeOK, Next
    PROVE  FiberTypeOK'
<1> USE DEF TypeOK, LocalTypeOK, Tasks, FiberTypeOK, State, fiberVars
<1>1. CASE UNCHANGED fiberVars
  BY <1>1
<1>2. ASSUME NEW by \in Threads \cup {NULL}, NEW j \in Jobs, NEW f \in Fibers, NEW t
             \in Threads \cup {ANY}, SubmitFiber(by, j, f, t)
      PROVE  FiberTypeOK'
  BY <1>2 DEF SubmitFiber, Schedule, Construct, Arm
<1>3. ASSUME NEW w \in Threads, Run(w)
      PROVE  FiberTypeOK'
  <2>1. CASE DispatchCb(w)
    BY <2>1 DEF DispatchCb, Construct, Reset, Arm
  <2>2. CASE SwapIn(w)
    BY <2>2 DEF SwapIn, SetState
  <2>3. CASE BodyReturn(w)
    BY <2>3 DEF BodyReturn, Return, SetState
  <2>4. CASE BodyThrow(w)
    BY <2>4 DEF BodyThrow, Throw, SetState
  <2>5. CASE YieldToReady(w)
    BY <2>5 DEF YieldToReady, BodyYield, Yield, SetState
  <2>6. CASE YieldToHold(w)
    BY <2>6 DEF YieldToHold, BodyYield, Yield, SetState
  <2>7. CASE Requeue(w)
    BY <2>7 DEF Requeue, Reset, Arm
  <2>8. CASE Park(w)
    BY <2>8 DEF Park, SetState, Release
  <2> QED BY <1>1, <1>3, <2>1, <2>2, <2>3, <2>4, <2>5, <2>6, <2>7, <2>8
      DEF Run, Lock, ScanSkip, ScanTake, ScanEnd, DispatchFiber, DispatchDead,
          DispatchIdle, Exit, IdleRound, SwapInAssert, SwapOut, Deactivate,
          Reschedule, Unlock, Schedule, Release
<1> QED BY NextActions, <1>1, <1>2, <1>3
    DEF vars, SubmitCb, SubmitBatch, Wake, StartLock, StartUnlock, StopBegin,
        StopAlone, StopSet, StopRoot, RootReturn, StopSwap, Join, StopReturn,
        StartThread, Schedule, EnterRun

\* The history variables keep their types: what ends a turn is a job.
LEMMA HistTypeStep ==
    ASSUME TypeOK, Shape, Next
    PROVE  HistTypeOK'
<1> USE DEF TypeOK, HistTypeOK, histVars
<1>1. CASE UNCHANGED histVars
  BY <1>1
<1>2. ASSUME NEW by \in Threads \cup {NULL}, NEW j \in Jobs, NEW t \in Threads \cup
             {ANY}, SubmitCb(by, j, t)
      PROVE  HistTypeOK'
  BY <1>2 DEF SubmitCb, Schedule
<1>3. ASSUME NEW by \in Threads \cup {NULL}, NEW j \in Jobs, NEW f \in Fibers, NEW t
             \in Threads \cup {ANY}, SubmitFiber(by, j, f, t)
      PROVE  HistTypeOK'
  BY <1>3 DEF SubmitFiber, Schedule, Construct, Arm
<1>4. ASSUME NEW by \in Threads \cup {NULL}, NEW i \in Jobs, NEW j \in Jobs, SubmitBatch(by, i, j)
      PROVE  HistTypeOK'
  BY <1>4 DEF SubmitBatch
<1>5. ASSUME NEW by \in Threads \cup {NULL}, NEW f \in Fibers, NEW t \in Threads
             \cup {ANY}, Wake(by, f, t)
      PROVE  HistTypeOK'
  BY <1>5 DEF Wake, Schedule
<1>6. ASSUME NEW w \in Threads, Run(w)
      PROVE  HistTypeOK'
  <2>1. CASE BodyReturn(w)
    BY <2>1, CurIsFiber DEF BodyReturn, Return, SetState, HasFiber, FiberTypeOK
  <2>2. CASE BodyThrow(w)
    BY <2>2, CurIsFiber DEF BodyThrow, Throw, SetState, HasFiber, FiberTypeOK
  <2>3. CASE YieldToReady(w)
    <3>1. m_cb[Cur(w)] \in Jobs
      BY <2>3, CurIsFiber DEF YieldToReady, BodyYield, FiberTypeOK, HasFiber
    <3> QED BY <2>3, <3>1 DEF YieldToReady, BodyYield
  <2>4. CASE YieldToHold(w)
    <3>1. m_cb[Cur(w)] \in Jobs
      BY <2>4, CurIsFiber DEF YieldToHold, BodyYield, FiberTypeOK, HasFiber
    <3> QED BY <2>4, <3>1 DEF YieldToHold, BodyYield
  <2>5. CASE SwapIn(w)
    <3>1. Cur(w) \in Fibers
      BY <2>5, CurIsFiber DEF SwapIn, HasFiber
    <3> QED BY <2>5, <3>1 DEF SwapIn
  <2> QED BY <1>1, <1>6, <2>1, <2>2, <2>3, <2>4, <2>5
      DEF Run, Lock, ScanSkip, ScanTake, ScanEnd, DispatchFiber, DispatchDead,
          DispatchCb, DispatchIdle, Exit, IdleRound, SwapInAssert, SwapOut,
          Deactivate, Requeue, Reschedule, Park, Unlock, Construct, Reset, Arm,
          SetState, Schedule, Release
<1> QED BY NextActions, <1>1, <1>2, <1>3, <1>4, <1>5, <1>6
    DEF vars, StartLock, StartUnlock, StopBegin, StopAlone, StopSet, StopRoot,
        RootReturn, StopSwap, Join, StopReturn, StartThread, EnterRun

\* The members that start() and stop() write keep their types.
LEMMA MainTypeStep ==
    ASSUME TypeOK, Next
    PROVE  MainTypeOK'
<1> USE DEF TypeOK, MainTypeOK, mainVars
<1>1. CASE UNCHANGED mainVars
  BY <1>1
<1>2. ASSUME NEW w \in Workers, StartThread(w)
      PROVE  MainTypeOK'
  BY <1>2 DEF StartThread, EnterRun
<1>3. CASE StartLock
  <2>1. /\ m_stopping' = FALSE /\ mpc' \in {"starting", "abort"}
        /\ UNCHANGED <<m_threads, m_auto_stop, root_state, thrs>>
    BY <1>3 DEF StartLock
  <2>2. starts' \in Nat
    BY <1>3 DEF StartLock
  <2> QED BY <2>1, <2>2
<1>4. CASE StartUnlock
  BY <1>4 DEF StartUnlock
<1>5. CASE StopBegin
  BY <1>5 DEF StopBegin
<1>6. CASE StopAlone
  BY <1>6 DEF StopAlone
<1>7. CASE StopSet
  BY <1>7 DEF StopSet
<1>8. CASE StopRoot
  <2>1. root_state' \in {"INIT", "EXEC", "TERM"}
    BY <1>8 DEF StopRoot
  <2> QED BY <1>8, <2>1 DEF StopRoot
<1>9. CASE RootReturn
  BY <1>9 DEF RootReturn
<1>10. CASE StopSwap
  BY <1>10 DEF StopSwap
<1>11. CASE Join
  BY <1>11, HeadTailProperties DEF Join
<1>12. CASE StopReturn
  BY <1>12 DEF StopReturn
<1> QED BY NextActions, <1>1, <1>2, <1>3, <1>4, <1>5, <1>6, <1>7, <1>8, <1>9, <1>10, <1>11, <1>12
    DEF vars, SubmitCb, SubmitFiber, SubmitBatch, Wake, Run, Lock, ScanSkip,
        ScanTake, ScanEnd, DispatchFiber, DispatchDead, DispatchCb, DispatchIdle,
        Exit, IdleRound, SwapInAssert, SwapIn, BodyReturn, BodyThrow, YieldToReady,
        YieldToHold, SwapOut, Deactivate, Requeue, Reschedule, Park, Schedule,
        Construct, Arm, Unlock, Reset, SetState, Return, Throw, BodyYield, Yield,
        Release

\* The locals of run() keep their types.
LEMMA LocalTypeStep ==
    ASSUME TypeOK, Next
    PROVE  LocalTypeOK'
<1> USE DEF TypeOK, LocalTypeOK, NoTask, Task, Tasks, Threads, localVars
<1>1. CASE UNCHANGED <<pc, localVars>>
  BY <1>1
<1>2. ASSUME NEW w \in Threads, Run(w)
      PROVE  LocalTypeOK'
  <2>1. CASE Lock(w)
    BY <2>1 DEF Lock
  <2>2. CASE ScanSkip(w)
    BY <2>2 DEF ScanSkip
  <2>3. CASE ScanTake(w)
    <3>1. m_fibers[iter[w]] \in Tasks
      <4>1. m_fibers \in Seq(Tasks) /\ iter[w] \in DOMAIN m_fibers
        BY <2>3 DEF ScanTake, SharedTypeOK
      <4> HIDE DEF Tasks
      <4> QED BY <4>1, ElementOfSeq, LenProperties
    <3> QED BY <2>3, <3>1 DEF ScanTake, Unlock
  <2>4. CASE ScanEnd(w)
    BY <2>4 DEF ScanEnd, Unlock
  <2>5. CASE DispatchFiber(w)
    BY <2>5 DEF DispatchFiber
  <2>6. CASE DispatchDead(w)
    BY <2>6 DEF DispatchDead
  <2>7. CASE DispatchCb(w)
    BY <2>7 DEF DispatchCb, Construct, Reset, Arm
  <2>8. CASE DispatchIdle(w)
    BY <2>8 DEF DispatchIdle
  <2>9. CASE Exit(w)
    BY <2>9 DEF Exit
  <2>10. CASE IdleRound(w)
    <3>1. Stopping \in BOOLEAN
      BY DEF Stopping, SharedTypeOK, MainTypeOK
    <3> QED BY <2>10, <3>1 DEF IdleRound
  <2>11. CASE SwapInAssert(w)
    BY <2>11 DEF SwapInAssert
  <2>12. CASE SwapIn(w)
    BY <2>12 DEF SwapIn, SetState
  <2>13. CASE BodyReturn(w)
    BY <2>13 DEF BodyReturn, Return, SetState
  <2>14. CASE BodyThrow(w)
    BY <2>14 DEF BodyThrow, Throw, SetState
  <2>15. CASE YieldToReady(w)
    BY <2>15 DEF YieldToReady, BodyYield, Yield, SetState
  <2>16. CASE YieldToHold(w)
    BY <2>16 DEF YieldToHold, BodyYield, Yield, SetState
  <2>17. CASE SwapOut(w)
    BY <2>17 DEF SwapOut
  <2>18. CASE Deactivate(w)
    BY <2>18 DEF Deactivate
  <2>19. CASE Requeue(w)
    BY <2>19 DEF Requeue, Reset, Arm
  <2>20. CASE Reschedule(w)
    BY <2>20 DEF Reschedule, Schedule, Release
  <2>21. CASE Park(w)
    BY <2>21 DEF Park, SetState, Release
  <2> QED BY <1>1, <1>2, <2>1, <2>2, <2>3, <2>4, <2>5, <2>6, <2>7, <2>8, <2>9, <2>10,
            <2>11, <2>12, <2>13, <2>14, <2>15, <2>16, <2>17, <2>18, <2>19, <2>20,
            <2>21
      DEF Run
<1>3. ASSUME NEW w \in Workers, StartThread(w)
      PROVE  LocalTypeOK'
  BY <1>3 DEF StartThread, EnterRun
<1>4. CASE StopRoot
  <2>1. CASE EnterRun(Caller)
    BY <1>4, <2>1 DEF StopRoot, EnterRun
  <2> QED BY <1>4, <1>1, <2>1 DEF StopRoot
<1>5. CASE RootReturn
  BY <1>5 DEF RootReturn
<1>6. CASE Join
  BY <1>6 DEF Join
<1> QED BY NextActions, <1>1, <1>2, <1>3, <1>4, <1>5, <1>6
    DEF vars, SubmitCb, SubmitFiber, SubmitBatch, Wake, StartLock, StartUnlock,
        StopBegin, StopAlone, StopSet, StopSwap, StopReturn, Schedule, Construct,
        Arm

\* Every step leaves a queue of non-empty messages behind.
LEMMA QueueStep ==
    ASSUME TypeOK, QueueOK, Next
    PROVE  QueueOK' /\ m_mutex' \in Threads \cup {NULL}
<1> USE DEF TypeOK, SharedTypeOK, QueueOK, sharedVars
<1>1. CASE UNCHANGED <<m_mutex, m_fibers>>
  BY <1>1
<1>2. ASSUME NEW by \in Threads \cup {NULL}, NEW j \in Jobs, NEW t \in Threads \cup
             {ANY}, SubmitCb(by, j, t)
      PROVE  QueueOK' /\ m_mutex' \in Threads \cup {NULL}
  <2>1. Task(NULL, j, t) \in Tasks
    BY DEF Task, Tasks
  <2>2. m_fibers' = scheduleNoLock(m_fibers, Task(NULL, j, t)) /\ UNCHANGED m_mutex
    BY <1>2 DEF SubmitCb, Schedule
  <2> QED BY <2>1, <2>2, ScheduleQueue
<1>3. ASSUME NEW by \in Threads \cup {NULL}, NEW j \in Jobs, NEW f \in Fibers, NEW t
             \in Threads \cup {ANY}, SubmitFiber(by, j, f, t)
      PROVE  QueueOK' /\ m_mutex' \in Threads \cup {NULL}
  <2>1. Task(f, NULL, t) \in Tasks
    BY DEF Task, Tasks
  <2>2. m_fibers' = scheduleNoLock(m_fibers, Task(f, NULL, t)) /\ UNCHANGED m_mutex
    BY <1>3 DEF SubmitFiber, Schedule
  <2> QED BY <2>1, <2>2, ScheduleQueue
<1>4. ASSUME NEW by \in Threads \cup {NULL}, NEW i \in Jobs, NEW j \in Jobs, SubmitBatch(by, i, j)
      PROVE  QueueOK' /\ m_mutex' \in Threads \cup {NULL}
  <2> DEFINE q == scheduleNoLock(m_fibers, Task(NULL, i, ANY))
  <2>1. Task(NULL, i, ANY) \in Tasks /\ Task(NULL, j, ANY) \in Tasks
    BY DEF Task, Tasks
  <2>2. q \in Seq(Tasks) /\ \A k \in DOMAIN q : q[k].fiber # NULL \/ q[k].cb # NULL
    BY <2>1, ScheduleQueue
  <2>3. m_fibers' = scheduleNoLock(q, Task(NULL, j, ANY)) /\ UNCHANGED m_mutex
    BY <1>4 DEF SubmitBatch
  <2> HIDE DEF q
  <2> QED BY <2>1, <2>2, <2>3, ScheduleQueue
<1>5. ASSUME NEW by \in Threads \cup {NULL}, NEW f \in Fibers, NEW t \in Threads
             \cup {ANY}, Wake(by, f, t)
      PROVE  QueueOK' /\ m_mutex' \in Threads \cup {NULL}
  <2>1. Task(f, NULL, t) \in Tasks
    BY DEF Task, Tasks
  <2>2. m_fibers' = scheduleNoLock(m_fibers, Task(f, NULL, t)) /\ UNCHANGED m_mutex
    BY <1>5 DEF Wake, Schedule
  <2> QED BY <2>1, <2>2, ScheduleQueue
<1>6. ASSUME NEW w \in Threads, Run(w)
      PROVE  QueueOK' /\ m_mutex' \in Threads \cup {NULL}
  <2>1. CASE Lock(w)
    BY <2>1 DEF Lock, Threads
  <2>2. CASE ScanTake(w)
    BY <2>2, RemoveQueue DEF ScanTake, Unlock
  <2>3. CASE ScanEnd(w)
    BY <2>3 DEF ScanEnd, Unlock
  <2>4. CASE Reschedule(w)
    <3>1. Task(Cur(w), NULL, ANY) \in Tasks
      BY DEF Task, Tasks, Cur, LocalTypeOK
    <3>2. m_fibers' = scheduleNoLock(m_fibers, Task(Cur(w), NULL, ANY)) /\ UNCHANGED m_mutex
      BY <2>4 DEF Reschedule, Schedule
    <3> QED BY <3>1, <3>2, ScheduleQueue
  <2> QED BY <1>1, <1>6, <2>1, <2>2, <2>3, <2>4
      DEF Run, ScanSkip, DispatchFiber, DispatchDead, DispatchCb, DispatchIdle,
          Exit, IdleRound, SwapInAssert, SwapIn, BodyReturn, BodyThrow,
          YieldToReady, YieldToHold, SwapOut, Deactivate, Requeue, Park, BodyYield,
          Yield, SetState, Construct, Reset, Arm, Return, Throw, Release
<1>7. CASE StartLock
  BY <1>7 DEF StartLock, Threads
<1>8. CASE StartUnlock
  BY <1>8 DEF StartUnlock
<1> QED BY NextActions, <1>1, <1>2, <1>3, <1>4, <1>5, <1>6, <1>7, <1>8
    DEF vars, StopBegin, StopAlone, StopSet, StopRoot, RootReturn, StopSwap, Join,
        StopReturn, StartThread, EnterRun

\* Every step leaves the locals of run() in the shape their place asks for.
LEMMA ShapeStep ==
    ASSUME TypeOK, QueueOK, Shape, Next
    PROVE  Shape'
<1> USE DEF TypeOK, LocalTypeOK, Tasks, Shape, HasFiber, Cur, NoTask, Task,
            mainVars, localVars
<1>1. CASE UNCHANGED <<pc, ft, cb_fiber, mpc>>
  BY <1>1
<1>2. ASSUME NEW w \in Threads, Run(w)
      PROVE  Shape'
  <2>1. CASE Lock(w)
    BY <2>1, SchedulerConstants DEF Lock
  <2>2. CASE ScanSkip(w)
    BY <2>2, SchedulerConstants DEF ScanSkip, Threads
  <2>3. CASE ScanTake(w)
    BY <2>3, SchedulerConstants DEF ScanTake, Unlock, Threads
  <2>4. CASE ScanEnd(w)
    BY <2>4, SchedulerConstants DEF ScanEnd, Unlock, Threads
  <2>5. CASE DispatchFiber(w)
    BY <2>5, SchedulerConstants DEF DispatchFiber, Threads
  <2>6. CASE DispatchDead(w)
    BY <2>6, SchedulerConstants DEF DispatchDead, Threads
  <2>7. CASE DispatchCb(w)
    <3>1. /\ ft' = [ft EXCEPT ![w] = NoTask]
          /\ UNCHANGED mpc /\ pc[w] = "dispatch"
          /\ \/ pc' = [pc EXCEPT ![w] = "assert"]
             \/ pc' = [pc EXCEPT ![w] = "abort"]
      BY <2>7 DEF DispatchCb
    <3>2. \A v \in Threads : cb_fiber'[v] # cb_fiber[v] => v = w
      BY <2>7 DEF DispatchCb
    <3>3. cb_fiber'[w] # NULL
      BY <2>7, FiberConstants DEF DispatchCb
    <3> QED BY <3>1, <3>2, <3>3, SchedulerConstants DEF Threads
  <2>8. CASE DispatchIdle(w)
    BY <2>8, SchedulerConstants DEF DispatchIdle, Threads
  <2>9. CASE Exit(w)
    BY <2>9, SchedulerConstants DEF Exit, Threads
  <2>10. CASE IdleRound(w)
    BY <2>10, SchedulerConstants DEF IdleRound, Threads
  <2>11. CASE SwapInAssert(w)
    BY <2>11, SchedulerConstants DEF SwapInAssert, Threads
  <2>12. CASE SwapIn(w)
    BY <2>12, SchedulerConstants DEF SwapIn, SetState, Threads
  <2>13. CASE BodyReturn(w)
    BY <2>13, SchedulerConstants DEF BodyReturn, Return, SetState, Threads
  <2>14. CASE BodyThrow(w)
    BY <2>14, SchedulerConstants DEF BodyThrow, Throw, SetState, Threads
  <2>15. CASE YieldToReady(w)
    BY <2>15, SchedulerConstants DEF YieldToReady, BodyYield, Yield, SetState, Threads
  <2>16. CASE YieldToHold(w)
    BY <2>16, SchedulerConstants DEF YieldToHold, BodyYield, Yield, SetState, Threads
  <2>17. CASE SwapOut(w)
    BY <2>17, SchedulerConstants DEF SwapOut, Threads
  <2>18. CASE Deactivate(w)
    BY <2>18, SchedulerConstants DEF Deactivate, Threads
  <2>19. CASE Requeue(w)
    BY <2>19, SchedulerConstants DEF Requeue, Reset, Arm, Threads
  <2>20. CASE Reschedule(w)
    BY <2>20, SchedulerConstants DEF Reschedule, Schedule, Release, Threads
  <2>21. CASE Park(w)
    BY <2>21, SchedulerConstants DEF Park, SetState, Release, Threads
  <2> QED BY <1>1, <1>2, <2>1, <2>2, <2>3, <2>4, <2>5, <2>6, <2>7, <2>8, <2>9, <2>10,
            <2>11, <2>12, <2>13, <2>14, <2>15, <2>16, <2>17, <2>18, <2>19, <2>20,
            <2>21
      DEF Run
<1>3. ASSUME NEW w \in Workers, StartThread(w)
      PROVE  Shape'
  BY <1>3, SchedulerConstants DEF StartThread, EnterRun, Threads
<1>4. CASE StartLock
  BY <1>4, SchedulerConstants DEF StartLock, Threads
<1>5. CASE StartUnlock
  BY <1>5, SchedulerConstants DEF StartUnlock, Threads
<1>6. CASE StopBegin
  BY <1>6, SchedulerConstants DEF StopBegin, Threads
<1>7. CASE StopAlone
  BY <1>7, SchedulerConstants DEF StopAlone, Threads
<1>8. CASE StopSet
  BY <1>8, SchedulerConstants DEF StopSet, Threads
<1>9. CASE StopRoot
  BY <1>9, SchedulerConstants DEF StopRoot, EnterRun, Threads
<1>10. CASE RootReturn
  BY <1>10, SchedulerConstants DEF RootReturn, Threads
<1>11. CASE StopSwap
  BY <1>11, SchedulerConstants DEF StopSwap, Threads
<1>12. CASE Join
  BY <1>12, SchedulerConstants DEF Join, Threads
<1>13. CASE StopReturn
  BY <1>13, SchedulerConstants DEF StopReturn, Threads
<1> QED BY NextActions, <1>1, <1>2, <1>3, <1>4, <1>5, <1>6, <1>7, <1>8, <1>9, <1>10, <1>11, <1>12,
        <1>13
    DEF vars, SubmitCb, SubmitFiber, SubmitBatch, Wake, Schedule, Construct, Arm

\* One thread more or less in a set of threads.
LEMMA Counting ==
    ASSUME NEW S \in SUBSET Threads, NEW w \in Threads
    PROVE  /\ Cardinality(S) \in Nat
           /\ w \notin S => Cardinality(S \cup {w}) = Cardinality(S) + 1
           /\ w \in S => Cardinality(S \ {w}) = Cardinality(S) - 1
<1>1. IsFiniteSet(Threads)
  BY SchedulerConstants, FS_AddElement DEF Threads
<1>2. IsFiniteSet(S)
  BY <1>1, FS_Subset
<1> QED BY <1>2, FS_CardinalityType, FS_AddElement, FS_RemoveElement

\* Every step that enters or leaves Active or IdleThreads moves the counter by
\* one in the same direction, and no other step moves it.
LEMMA CountersStep ==
    ASSUME BaseInv, Next
    PROVE  CountersExact'
<1> USE DEF BaseInv, TypeOK, LocalTypeOK, Shape, HasFiber, CountersExact,
            sharedVars, mainVars, localVars, NoTask, Task
<1>1. CASE UNCHANGED <<pc, ft, m_active_thread_count, m_idle_thread_count>>
  BY <1>1 DEF Active, IsActive, IdleThreads
<1>2. ASSUME NEW w \in Threads, Run(w)
      PROVE  CountersExact'
  <2>1. CASE Lock(w)
    <3>1. Active' = Active /\ IdleThreads' = IdleThreads
      BY <2>1 DEF Lock, Active, IsActive, IdleThreads
    <3> QED BY <2>1, <3>1 DEF Lock
  <2>2. CASE ScanSkip(w)
    <3>1. Active' = Active /\ IdleThreads' = IdleThreads
      BY <2>2 DEF ScanSkip, Active, IsActive, IdleThreads
    <3> QED BY <2>2, <3>1 DEF ScanSkip
  <2>3. CASE ScanTake(w)
    <3>0. m_fibers[iter[w]] # NoTask
      <4>1. m_fibers[iter[w]].fiber # NULL \/ m_fibers[iter[w]].cb # NULL
        BY <2>3 DEF ScanTake, QueueOK
      <4>2. NoTask.fiber = NULL /\ NoTask.cb = NULL
        OBVIOUS
      <4> HIDE DEF NoTask
      <4> QED BY <4>1, <4>2
    <3>1. Active' = Active \cup {w} /\ w \notin Active /\ IdleThreads' = IdleThreads
      BY <2>3, <3>0 DEF ScanTake, Unlock, Active, IsActive, IdleThreads
    <3>2. Cardinality(Active \cup {w}) = Cardinality(Active) + 1
      BY <3>1, Counting DEF Active, IdleThreads
    <3> QED BY <2>3, <3>1, <3>2 DEF ScanTake, Unlock
  <2>4. CASE ScanEnd(w)
    <3>1. Active' = Active /\ IdleThreads' = IdleThreads
      BY <2>4 DEF ScanEnd, Unlock, Active, IsActive, IdleThreads
    <3> QED BY <2>4, <3>1 DEF ScanEnd, Unlock
  <2>5. CASE DispatchFiber(w)
    <3>1. Active' = Active /\ IdleThreads' = IdleThreads
      BY <2>5 DEF DispatchFiber, Active, IsActive, IdleThreads
    <3> QED BY <2>5, <3>1 DEF DispatchFiber
  <2>6. CASE DispatchDead(w)
    <3>1. Active' = Active \ {w} /\ w \in Active /\ IdleThreads' = IdleThreads
      BY <2>6 DEF DispatchDead, Active, IsActive, IdleThreads
    <3>2. Cardinality(Active \ {w}) = Cardinality(Active) - 1
      BY <3>1, Counting DEF Active, IdleThreads
    <3> QED BY <2>6, <3>1, <3>2 DEF DispatchDead
  <2>7. CASE DispatchCb(w)
    <3>1. Active' = Active /\ IdleThreads' = IdleThreads
      BY <2>7 DEF DispatchCb, Construct, Reset, Arm, Active, IsActive, IdleThreads
    <3> QED BY <2>7, <3>1 DEF DispatchCb, Construct, Reset, Arm
  <2>8. CASE DispatchIdle(w)
    <3>1. Active' = Active /\ IdleThreads' = IdleThreads \cup {w} /\ w \notin IdleThreads
      BY <2>8 DEF DispatchIdle, Active, IsActive, IdleThreads
    <3>2. Cardinality(IdleThreads \cup {w}) = Cardinality(IdleThreads) + 1
      BY <3>1, Counting DEF Active, IdleThreads
    <3> QED BY <2>8, <3>1, <3>2 DEF DispatchIdle
  <2>9. CASE Exit(w)
    <3>1. Active' = Active /\ IdleThreads' = IdleThreads
      BY <2>9 DEF Exit, Active, IsActive, IdleThreads
    <3> QED BY <2>9, <3>1 DEF Exit
  <2>10. CASE IdleRound(w)
    <3>1. Active' = Active /\ IdleThreads' = IdleThreads \ {w} /\ w \in IdleThreads
      BY <2>10 DEF IdleRound, Active, IsActive, IdleThreads
    <3>2. Cardinality(IdleThreads \ {w}) = Cardinality(IdleThreads) - 1
      BY <3>1, Counting DEF Active, IdleThreads
    <3> QED BY <2>10, <3>1, <3>2 DEF IdleRound
  <2>11. CASE SwapInAssert(w)
    <3>1. Active' = Active /\ IdleThreads' = IdleThreads
      BY <2>11 DEF SwapInAssert, Active, IsActive, IdleThreads
    <3> QED BY <2>11, <3>1 DEF SwapInAssert
  <2>12. CASE SwapIn(w)
    <3>1. Active' = Active /\ IdleThreads' = IdleThreads
      BY <2>12 DEF SwapIn, SetState, Active, IsActive, IdleThreads
    <3> QED BY <2>12, <3>1 DEF SwapIn, SetState
  <2>13. CASE BodyReturn(w)
    <3>1. Active' = Active /\ IdleThreads' = IdleThreads
      BY <2>13 DEF BodyReturn, Return, SetState, Active, IsActive, IdleThreads
    <3> QED BY <2>13, <3>1 DEF BodyReturn, Return, SetState
  <2>14. CASE BodyThrow(w)
    <3>1. Active' = Active /\ IdleThreads' = IdleThreads
      BY <2>14 DEF BodyThrow, Throw, SetState, Active, IsActive, IdleThreads
    <3> QED BY <2>14, <3>1 DEF BodyThrow, Throw, SetState
  <2>15. CASE YieldToReady(w)
    <3>1. Active' = Active /\ IdleThreads' = IdleThreads
      BY <2>15 DEF YieldToReady, BodyYield, Yield, SetState, Active, IsActive, IdleThreads
    <3> QED BY <2>15, <3>1 DEF YieldToReady, BodyYield, Yield, SetState
  <2>16. CASE YieldToHold(w)
    <3>1. Active' = Active /\ IdleThreads' = IdleThreads
      BY <2>16 DEF YieldToHold, BodyYield, Yield, SetState, Active, IsActive, IdleThreads
    <3> QED BY <2>16, <3>1 DEF YieldToHold, BodyYield, Yield, SetState
  <2>17. CASE SwapOut(w)
    <3>1. Active' = Active /\ IdleThreads' = IdleThreads
      BY <2>17 DEF SwapOut, Active, IsActive, IdleThreads
    <3> QED BY <2>17, <3>1 DEF SwapOut
  <2>18. CASE Deactivate(w)
    <3>1. Active' = Active \ {w} /\ w \in Active /\ IdleThreads' = IdleThreads
      BY <2>18 DEF Deactivate, Active, IsActive, IdleThreads
    <3>2. Cardinality(Active \ {w}) = Cardinality(Active) - 1
      BY <3>1, Counting DEF Active, IdleThreads
    <3> QED BY <2>18, <3>1, <3>2 DEF Deactivate
  <2>19. CASE Requeue(w)
    <3>1. Active' = Active /\ IdleThreads' = IdleThreads
      BY <2>19 DEF Requeue, Reset, Arm, Active, IsActive, IdleThreads
    <3> QED BY <2>19, <3>1 DEF Requeue, Reset, Arm
  <2>20. CASE Reschedule(w)
    <3>1. Active' = Active /\ IdleThreads' = IdleThreads
      BY <2>20 DEF Reschedule, Schedule, Release, Active, IsActive, IdleThreads
    <3> QED BY <2>20, <3>1 DEF Reschedule, Schedule, Release
  <2>21. CASE Park(w)
    <3>1. Active' = Active /\ IdleThreads' = IdleThreads
      BY <2>21 DEF Park, SetState, Release, Active, IsActive, IdleThreads
    <3> QED BY <2>21, <3>1 DEF Park, SetState, Release
  <2> QED BY <1>1, <1>2, <2>1, <2>2, <2>3, <2>4, <2>5, <2>6, <2>7, <2>8, <2>9, <2>10,
            <2>11, <2>12, <2>13, <2>14, <2>15, <2>16, <2>17, <2>18, <2>19, <2>20,
            <2>21
      DEF Run
<1>3. ASSUME NEW w \in Workers, StartThread(w)
      PROVE  CountersExact'
  <2>1. Active' = Active /\ IdleThreads' = IdleThreads
    BY <1>3 DEF StartThread, EnterRun, Active, IsActive, IdleThreads
  <2> QED BY <1>3, <2>1 DEF StartThread, EnterRun
<1>4. CASE StopRoot
  <2>1. Active' = Active /\ IdleThreads' = IdleThreads
    BY <1>4 DEF StopRoot, EnterRun, Active, IsActive, IdleThreads
  <2> QED BY <1>4, <2>1 DEF StopRoot, EnterRun
<1>5. CASE RootReturn
  <2>1. Active' = Active /\ IdleThreads' = IdleThreads
    BY <1>5 DEF RootReturn, Active, IsActive, IdleThreads
  <2> QED BY <1>5, <2>1 DEF RootReturn
<1>6. CASE Join
  <2>1. Active' = Active /\ IdleThreads' = IdleThreads
    BY <1>6 DEF Join, Active, IsActive, IdleThreads
  <2> QED BY <1>6, <2>1 DEF Join
<1> QED BY NextActions, <1>1, <1>2, <1>3, <1>4, <1>5, <1>6
    DEF vars, SubmitCb, SubmitFiber, SubmitBatch, Wake, StartLock, StartUnlock,
        StopBegin, StopAlone, StopSet, StopSwap, StopReturn, Schedule, Construct,
        Arm

-----------------------------------------------------------------------------
\* The base case of the induction for BaseInv ...
LEMMA BaseInit == Init => BaseInv
<1> SUFFICES ASSUME Init PROVE BaseInv
  OBVIOUS
<1> USE SchedulerConstants, FiberConstants DEF Init, FiberInit
<1>1. FiberTypeOK /\ HistTypeOK
  BY DEF FiberTypeOK, State, HistTypeOK
<1>2. SharedTypeOK /\ QueueOK
  BY DEF SharedTypeOK, QueueOK
<1>3. LocalTypeOK
  BY DEF LocalTypeOK, NoTask, Task, Tasks
<1>4. MainTypeOK
  <2>1. m_stopping \in BOOLEAN /\ m_auto_stop \in BOOLEAN
    BY Zenon
  <2>2. m_threads \in Seq(Workers) /\ thrs \in Seq(Workers) /\ starts \in Nat
    OBVIOUS
  <2> QED BY <2>1, <2>2 DEF MainTypeOK
<1>5. Shape
  BY DEF Shape, HasFiber, NoTask, Threads
<1>6. CountersExact
  <2>1. Active = {} /\ IdleThreads = {}
    BY DEF Active, IsActive, IdleThreads
  <2> QED BY <2>1, FS_EmptySet DEF CountersExact
<1> QED BY <1>1, <1>2, <1>3, <1>4, <1>5, <1>6 DEF BaseInv, TypeOK

\* ... and its step.
LEMMA BaseStep == BaseInv /\ [Next]_vars => BaseInv'
<1> SUFFICES ASSUME BaseInv, [Next]_vars PROVE BaseInv'
  OBVIOUS
<1>1. CASE Next
  <2> USE <1>1
  <2>1. FiberTypeOK' /\ HistTypeOK' /\ MainTypeOK' /\ LocalTypeOK'
    BY FiberTypeStep, HistTypeStep, MainTypeStep, LocalTypeStep DEF BaseInv
  <2>2. QueueOK' /\ m_mutex' \in Threads \cup {NULL} /\ Shape'
    BY QueueStep, ShapeStep DEF BaseInv
  <2>3. CountersExact'
    BY CountersStep
  <2>4. m_active_thread_count' \in Nat /\ m_idle_thread_count' \in Nat
    <3>1. Active' \in SUBSET Threads /\ IdleThreads' \in SUBSET Threads
      BY DEF Active, IdleThreads
    <3>2. Caller \in Threads
      BY DEF Threads
    <3> QED BY <2>3, <3>1, <3>2, Counting DEF CountersExact
  <2> QED BY <2>1, <2>2, <2>3, <2>4 DEF BaseInv, TypeOK, SharedTypeOK, QueueOK
<1>2. CASE UNCHANGED vars
  BY <1>2 DEF vars, fiberVars, sharedVars, mainVars, localVars, histVars, BaseInv, TypeOK,
     FiberTypeOK, SharedTypeOK, LocalTypeOK, MainTypeOK, HistTypeOK, QueueOK, Shape,
     CountersExact, Active, IsActive, IdleThreads, Cur
<1> QED BY <1>1, <1>2

\* BaseInv is an invariant whatever the clients do.
THEOREM BaseInvariant == Spec => []BaseInv
  BY BaseInit, BaseStep, PTL DEF Spec

\* Every member and local of the scheduler keeps a value of its type: the
\* size_t counters never wrap below zero, every job that ends was submitted,
\* for any pool, any clients and any number of restarts.
THEOREM TypeCorrect == Spec => []TypeOK
<1>1. BaseInv => TypeOK
  BY DEF BaseInv
<1> QED BY <1>1, BaseInvariant, PTL

\* m_active_thread_count and m_idle_thread_count, which run() changes at five
\* places on different threads, always count the threads between increment and
\* decrement, so that stopping() reads a 0 only when no thread is busy.
THEOREM CountersCorrect == Spec => []CountersExact
<1>1. BaseInv => CountersExact
  BY DEF BaseInv
<1> QED BY <1>1, BaseInvariant, PTL

-----------------------------------------------------------------------------
(***************************************************************************)
(* How the queue changes, as far as the ownership of fibers is concerned.  *)
(***************************************************************************)

\* schedule() of a message whose fiber is not in the queue.
LEMMA Enqueue ==
    ASSUME QueueOK, QueueDistinct, NEW m \in Tasks, m.fiber # NULL => ~Queued(m.fiber),
           m_fibers' = scheduleNoLock(m_fibers, m)
    PROVE  /\ QueueDistinct'
           /\ \A k \in DOMAIN m_fibers' :
                 m_fibers'[k] = m \/ \E i \in DOMAIN m_fibers : m_fibers'[k] = m_fibers[i]
<1>1. CASE m.fiber # NULL \/ m.cb # NULL
  <2>1. m_fibers' = Append(m_fibers, m) /\ m_fibers \in Seq(Tasks)
    BY <1>1 DEF scheduleNoLock, QueueOK
  <2>2. /\ DOMAIN m_fibers = 1 .. Len(m_fibers) /\ Len(m_fibers) \in Nat
        /\ DOMAIN m_fibers' = 1 .. (Len(m_fibers) + 1)
        /\ \A k \in 1 .. Len(m_fibers) : m_fibers'[k] = m_fibers[k]
        /\ m_fibers'[Len(m_fibers) + 1] = m
    BY <2>1, AppendFacts, LenProperties
  <2>3. \A k \in DOMAIN m_fibers' :
            \/ k \in DOMAIN m_fibers /\ m_fibers'[k] = m_fibers[k]
            \/ k = Len(m_fibers) + 1 /\ m_fibers'[k] = m
    BY <2>2
  <2> QED BY <2>3 DEF QueueDistinct, Queued
<1>2. CASE m.fiber = NULL /\ m.cb = NULL
  BY <1>2 DEF scheduleNoLock, QueueDistinct
<1> QED BY <1>1, <1>2

\* m_fibers.erase(iter) of the message a worker takes.
LEMMA Dequeue ==
    ASSUME QueueOK, QueueDistinct, NEW n \in DOMAIN m_fibers,
           m_fibers' = RemoveAt(m_fibers, n)
    PROVE  /\ QueueDistinct'
           /\ \A k \in DOMAIN m_fibers' :
                 \E i \in DOMAIN m_fibers \ {n} : m_fibers'[k] = m_fibers[i]
<1> DEFINE pos(k) == IF k < n THEN k ELSE k + 1
<1>1. DOMAIN m_fibers = 1 .. Len(m_fibers) /\ Len(m_fibers) \in Nat
  BY LenProperties DEF QueueOK
<1>2. /\ DOMAIN m_fibers' = 1 .. (Len(m_fibers) - 1)
      /\ \A k \in DOMAIN m_fibers' : m_fibers'[k] = m_fibers[pos(k)]
  BY RemoveAtFacts DEF QueueOK
<1>3. \A k \in DOMAIN m_fibers' : pos(k) \in DOMAIN m_fibers \ {n}
  BY <1>1, <1>2
<1>4. \A i, k \in DOMAIN m_fibers' : pos(i) = pos(k) => i = k
  BY <1>1, <1>2
<1> HIDE DEF pos
<1> QED BY <1>2, <1>3, <1>4 DEF QueueDistinct

\* schedule(begin, end) of two callbacks.
LEMMA EnqueueTwo ==
    ASSUME QueueOK, QueueDistinct, NEW a \in Tasks, NEW b \in Tasks,
           a.fiber = NULL, b.fiber = NULL,
           m_fibers' = scheduleNoLock(scheduleNoLock(m_fibers, a), b)
    PROVE  /\ QueueDistinct'
           /\ \A k \in DOMAIN m_fibers' :
                 \/ m_fibers'[k].fiber = NULL
                 \/ \E i \in DOMAIN m_fibers : m_fibers'[k] = m_fibers[i]
<1> DEFINE q == scheduleNoLock(m_fibers, a)
<1>1. /\ q \in Seq(Tasks)
      /\ \A k \in DOMAIN q : (k \in DOMAIN m_fibers /\ q[k] = m_fibers[k]) \/ q[k] = a
  BY ScheduleFacts DEF QueueOK
<1>2. \A k \in DOMAIN m_fibers' :
          (k \in DOMAIN q /\ m_fibers'[k] = q[k]) \/ m_fibers'[k] = b
  BY <1>1, ScheduleFacts
<1> HIDE DEF q
<1>3. \A k \in DOMAIN m_fibers' :
          \/ m_fibers'[k].fiber = NULL
          \/ k \in DOMAIN m_fibers /\ m_fibers'[k] = m_fibers[k]
  BY <1>1, <1>2
<1> QED BY <1>3 DEF QueueDistinct

\* Where run() has a fiber at hand, the worker refers to it.
LEMMA CurFacts ==
    ASSUME BaseInv, NEW w \in Threads, pc[w] \in HasFiber
    PROVE  Cur(w) \in Fibers /\ Cur(w) # NULL /\ Refers(w, Cur(w))
  BY CurIsFiber, FiberConstants DEF BaseInv, Cur, Refers

\* No step queues a fiber that is queued: new fibers are unknown, run() queues
\* READY ones that cannot have scheduled themselves, clients keep to Wake.
LEMMA QueueDistinctStep ==
    ASSUME Contract, BaseInv, OwnerInv, Next
    PROVE  QueueDistinct'
<1> USE DEF QueueDistinct, sharedVars
<1>1. CASE UNCHANGED m_fibers
  BY <1>1 DEF OwnerInv
<1>2. ASSUME NEW by \in Threads \cup {NULL}, NEW j \in Jobs, NEW t \in Threads \cup
             {ANY}, SubmitCb(by, j, t)
      PROVE  QueueDistinct'
  <2>1. Task(NULL, j, t) \in Tasks
    BY DEF Task, Tasks, Cur, BaseInv, TypeOK, LocalTypeOK
  <2>2. m_fibers' = scheduleNoLock(m_fibers, Task(NULL, j, t))
    BY <1>2 DEF SubmitCb, Schedule
  <2>3. Task(NULL, j, t).fiber # NULL => ~Queued(Task(NULL, j, t).fiber)
    BY <1>2 DEF Task
  <2> QED BY <2>1, <2>2, <2>3, Enqueue DEF OwnerInv, BaseInv
<1>3. ASSUME NEW by \in Threads \cup {NULL}, NEW j \in Jobs, NEW f \in Fibers, NEW t
             \in Threads \cup {ANY}, SubmitFiber(by, j, f, t)
      PROVE  QueueDistinct'
  <2>1. Task(f, NULL, t) \in Tasks
    BY DEF Task, Tasks, Cur, BaseInv, TypeOK, LocalTypeOK
  <2>2. m_fibers' = scheduleNoLock(m_fibers, Task(f, NULL, t))
    BY <1>3 DEF SubmitFiber, Schedule
  <2>3. Task(f, NULL, t).fiber # NULL => ~Queued(Task(f, NULL, t).fiber)
    BY <1>3 DEF SubmitFiber, Construct, OwnerInv, FiberStates, Task
  <2> QED BY <2>1, <2>2, <2>3, Enqueue DEF OwnerInv, BaseInv
<1>4. ASSUME NEW by \in Threads \cup {NULL}, NEW i \in Jobs, NEW j \in Jobs, SubmitBatch(by, i, j)
      PROVE  QueueDistinct'
  <2> DEFINE a == Task(NULL, i, ANY)
             b == Task(NULL, j, ANY)
  <2>1. a \in Tasks /\ b \in Tasks /\ a.fiber = NULL /\ b.fiber = NULL
    BY DEF Task, Tasks
  <2>2. /\ m_fibers' = scheduleNoLock(scheduleNoLock(m_fibers, a), b)
        /\ QueueOK /\ QueueDistinct
    BY <1>4 DEF SubmitBatch, BaseInv, OwnerInv
  <2> HIDE DEF a, b
  <2> QED BY <2>1, <2>2, EnqueueTwo
<1>5. ASSUME NEW by \in Threads \cup {NULL}, NEW f \in Fibers, NEW t \in Threads
             \cup {ANY}, Wake(by, f, t)
      PROVE  QueueDistinct'
  <2>1. Task(f, NULL, t) \in Tasks
    BY DEF Task, Tasks, Cur, BaseInv, TypeOK, LocalTypeOK
  <2>2. m_fibers' = scheduleNoLock(m_fibers, Task(f, NULL, t))
    BY <1>5 DEF Wake, Schedule
  <2>3. Task(f, NULL, t).fiber # NULL => ~Queued(Task(f, NULL, t).fiber)
    BY <1>5 DEF Wake, Parked, Task
  <2> QED BY <2>1, <2>2, <2>3, Enqueue DEF OwnerInv, BaseInv
<1>6. ASSUME NEW w \in Threads, Run(w)
      PROVE  QueueDistinct'
  <2>1. CASE ScanTake(w)
    BY <2>1, Dequeue DEF ScanTake, OwnerInv, BaseInv
  <2>2. CASE Reschedule(w)
    <3>1. Task(Cur(w), NULL, ANY) \in Tasks
      BY DEF Task, Tasks, Cur, BaseInv, TypeOK, LocalTypeOK
    <3>2. m_fibers' = scheduleNoLock(m_fibers, Task(Cur(w), NULL, ANY))
      BY <2>2 DEF Reschedule, Schedule
    <3>3. Task(Cur(w), NULL, ANY).fiber # NULL => ~Queued(Task(Cur(w), NULL, ANY).fiber)
      BY <2>2, CurFacts DEF Reschedule, HasFiber, BaseInv, OwnerInv, SelfScheduled, Queued, Task
    <3> QED BY <3>1, <3>2, <3>3, Enqueue DEF OwnerInv, BaseInv
  <2> QED BY <1>1, <1>6, <2>1, <2>2
      DEF Run, Lock, ScanSkip, ScanEnd, DispatchFiber, DispatchDead, DispatchCb,
          DispatchIdle, Exit, IdleRound, SwapInAssert, SwapIn, BodyReturn,
          BodyThrow, YieldToReady, YieldToHold, SwapOut, Deactivate, Requeue, Park,
          BodyYield, Yield, SetState, Unlock, Construct, Reset, Arm, Return, Throw,
          Release
<1> QED BY NextActions, <1>1, <1>2, <1>3, <1>4, <1>5, <1>6
    DEF vars, StartLock, StartUnlock, StopBegin, StopAlone, StopSet, StopRoot,
        RootReturn, StopSwap, Join, StopReturn, StartThread, EnterRun

\* A worker comes by a fiber by taking its only message, or by creating it.
LEMMA RefsDisjointStep ==
    ASSUME Contract, BaseInv, OwnerInv, Next
    PROVE  RefsDisjoint'
<1> USE DEF BaseInv, TypeOK, LocalTypeOK, OwnerInv, Tasks, RefsDisjoint, Refers,
            NoTask, Task, localVars
<1>1. CASE UNCHANGED <<ft, cb_fiber>>
  BY <1>1 DEF OwnerInv
<1>2. ASSUME NEW w \in Threads, Run(w)
      PROVE  RefsDisjoint'
  <2>1. CASE Lock(w)
    BY <2>1, FiberConstants DEF Lock
  <2>2. CASE ScanTake(w)
    <3> DEFINE m == m_fibers[iter[w]]
    <3>1. iter[w] \in DOMAIN m_fibers /\ m.thread \in {ANY, w} /\ pc[w] = "scan"
      BY <2>2 DEF ScanTake, Runnable
    <3>2. ASSUME m.fiber # NULL, NEW v \in Threads PROVE ~Refers(v, m.fiber)
      BY <3>1, <3>2, SchedulerConstants DEF SelfScheduled
    <3>3. ft' = [ft EXCEPT ![w] = m] /\ UNCHANGED cb_fiber
      BY <2>2 DEF ScanTake
    <3> HIDE DEF m
    <3> QED BY <3>2, <3>3, FiberConstants
  <2>3. CASE DispatchDead(w)
    BY <2>3, FiberConstants DEF DispatchDead
  <2>4. CASE DispatchCb(w)
    <3>1. CASE cb_fiber[w] = NULL
      <4>1. PICK f \in Fibers : /\ m_state[f] = "NONE"
                                /\ cb_fiber' = [cb_fiber EXCEPT ![w] = f]
        BY <2>4, <3>1 DEF DispatchCb, Construct
      <4>2. \A v \in Threads : ~Refers(v, f)
        BY <4>1 DEF FiberStates
      <4> QED BY <2>4, <4>1, <4>2, FiberConstants DEF DispatchCb
    <3>2. CASE UNCHANGED cb_fiber
      BY <2>4, <3>2, FiberConstants DEF DispatchCb
    <3> QED BY <2>4, <3>1, <3>2 DEF DispatchCb
  <2>5. CASE Exit(w)
    BY <2>5, FiberConstants DEF Exit
  <2>6. CASE Requeue(w)
    BY <2>6, FiberConstants DEF Requeue, Reset, Arm
  <2>7. CASE Reschedule(w)
    BY <2>7, FiberConstants DEF Reschedule, Schedule, Release
  <2>8. CASE Park(w)
    BY <2>8, FiberConstants DEF Park, SetState, Release
  <2> QED BY <1>1, <1>2, <2>1, <2>2, <2>3, <2>4, <2>5, <2>6, <2>7, <2>8
      DEF Run, ScanSkip, ScanEnd, DispatchFiber, DispatchIdle, IdleRound,
          SwapInAssert, SwapIn, BodyReturn, BodyThrow, YieldToReady, YieldToHold,
          SwapOut, Deactivate, BodyYield, Yield, SetState, Unlock, Return, Throw
<1>3. ASSUME NEW w \in Workers, StartThread(w)
      PROVE  RefsDisjoint'
  BY <1>3, FiberConstants DEF StartThread, EnterRun
<1>4. CASE StopRoot
  <2>1. CASE EnterRun(Caller)
    BY <2>1, FiberConstants DEF EnterRun
  <2> QED BY <1>4, <1>1, <2>1 DEF StopRoot
<1> QED BY NextActions, <1>1, <1>2, <1>3, <1>4
    DEF vars, SubmitCb, SubmitFiber, SubmitBatch, Wake, StartLock, StartUnlock,
        StopBegin, StopAlone, StopSet, RootReturn, StopSwap, Join, StopReturn,
        Schedule, Construct, Arm

\* With use_caller there is one start(), and stop() calls the root fiber once.
LEMMA RootOnceStep ==
    ASSUME Contract, BaseInv, OwnerInv, Next
    PROVE  RootOnce'
<1> USE DEF BaseInv, TypeOK, LocalTypeOK, OwnerInv, MainTypeOK, RootOnce, mainVars
<1>1. CASE UNCHANGED mainVars
  BY <1>1 DEF OwnerInv
<1>2. ASSUME NEW w \in Workers, StartThread(w)
      PROVE  RootOnce'
  BY <1>2 DEF StartThread, EnterRun
<1>3. CASE StartLock
  BY <1>3 DEF StartLock
<1>4. CASE StartUnlock
  BY <1>4 DEF StartUnlock
<1>5. CASE StopBegin
  BY <1>5 DEF StopBegin
<1>6. CASE StopAlone
  BY <1>6 DEF StopAlone
<1>7. CASE StopSet
  BY <1>7 DEF StopSet
<1>8. CASE StopRoot
  BY <1>8 DEF StopRoot, EnterRun
<1>9. CASE RootReturn
  BY <1>9 DEF RootReturn
<1>10. CASE StopSwap
  BY <1>10 DEF StopSwap
<1>11. CASE Join
  BY <1>11 DEF Join
<1>12. CASE StopReturn
  BY <1>12 DEF StopReturn
<1> QED BY NextActions, <1>1, <1>2, <1>3, <1>4, <1>5, <1>6, <1>7, <1>8, <1>9, <1>10, <1>11, <1>12
    DEF vars, SubmitCb, SubmitFiber, SubmitBatch, Wake, Run, Lock, ScanSkip,
        ScanTake, ScanEnd, DispatchFiber, DispatchDead, DispatchCb, DispatchIdle,
        Exit, IdleRound, SwapInAssert, SwapIn, BodyReturn, BodyThrow, YieldToReady,
        YieldToHold, SwapOut, Deactivate, Requeue, Reschedule, Park, Schedule,
        Construct, Arm, Unlock, Reset, SetState, Return, Throw, BodyYield, Yield,
        Release

-----------------------------------------------------------------------------
(***************************************************************************)
(* A step of one worker leaves the others alone: neither their locals nor  *)
(* the fibers they refer to change.                                        *)
(***************************************************************************)
LEMMA LocalFrame ==
    ASSUME BaseInv, NEW w \in Threads, Run(w), NEW v \in Threads \ {w}
    PROVE  /\ pc'[v] = pc[v] /\ ft'[v] = ft[v] /\ cb_fiber'[v] = cb_fiber[v]
           /\ Cur(v)' = Cur(v)
<1> USE DEF BaseInv, TypeOK, LocalTypeOK, localVars
<1>1. pc'[v] = pc[v]
  BY DEF Run, Lock, ScanSkip, ScanTake, ScanEnd, DispatchFiber, DispatchDead, DispatchCb,
     DispatchIdle, Exit, IdleRound, SwapInAssert, SwapIn, BodyReturn, BodyThrow,
     YieldToReady, YieldToHold, SwapOut, Deactivate, Requeue, Reschedule, Park,
     BodyYield, Unlock, Release
<1>2. ft'[v] = ft[v]
  BY DEF Run, Lock, ScanSkip, ScanTake, ScanEnd, DispatchFiber, DispatchDead, DispatchCb,
     DispatchIdle, Exit, IdleRound, SwapInAssert, SwapIn, BodyReturn, BodyThrow,
     YieldToReady, YieldToHold, SwapOut, Deactivate, Requeue, Reschedule, Park,
     BodyYield, Unlock, Release
<1>3. cb_fiber'[v] = cb_fiber[v]
  BY DEF Run, Lock, ScanSkip, ScanTake, ScanEnd, DispatchFiber, DispatchDead, DispatchCb,
     DispatchIdle, Exit, IdleRound, SwapInAssert, SwapIn, BodyReturn, BodyThrow,
     YieldToReady, YieldToHold, SwapOut, Deactivate, Requeue, Reschedule, Park,
     BodyYield, Unlock, Release
<1> QED BY <1>1, <1>2, <1>3 DEF Cur

\* A worker does not write the state of a fiber another worker holds.
LEMMA StateFrame ==
    ASSUME BaseInv, OwnerInv, NEW w \in Threads, Run(w), NEW v \in Threads \ {w},
           NEW f \in Fibers, Refers(v, f)
    PROVE  m_state'[f] = m_state[f]
<1> USE DEF BaseInv, TypeOK, FiberTypeOK, fiberVars
<1>0. m_state[f] # "NONE" /\ ~Refers(w, f)
  BY DEF OwnerInv, FiberStates, RefsDisjoint
<1>1. CASE UNCHANGED m_state
  BY <1>1
<1>2. CASE DispatchCb(w)
  BY <1>0, <1>2 DEF DispatchCb, Construct, Reset, Arm, Refers
<1>3. CASE SwapIn(w)
  BY <1>0, <1>3, CurFacts DEF SwapIn, SetState, HasFiber
<1>4. CASE BodyReturn(w)
  BY <1>0, <1>4, CurFacts DEF BodyReturn, Return, SetState, HasFiber
<1>5. CASE BodyThrow(w)
  BY <1>0, <1>5, CurFacts DEF BodyThrow, Throw, SetState, HasFiber
<1>6. CASE YieldToReady(w)
  BY <1>0, <1>6, CurFacts DEF YieldToReady, BodyYield, Yield, SetState, HasFiber
<1>7. CASE YieldToHold(w)
  BY <1>0, <1>7, CurFacts DEF YieldToHold, BodyYield, Yield, SetState, HasFiber
<1>8. CASE Requeue(w)
  BY <1>0, <1>8, CurFacts DEF Requeue, Reset, Arm, HasFiber
<1>9. CASE Park(w)
  BY <1>0, <1>9, CurFacts DEF Park, SetState, Release, HasFiber
<1> QED BY <1>1, <1>2, <1>3, <1>4, <1>5, <1>6, <1>7, <1>8, <1>9
    DEF Run, Lock, ScanSkip, ScanTake, ScanEnd, DispatchFiber, DispatchDead,
          DispatchIdle, Exit, IdleRound, SwapInAssert, SwapOut, Deactivate,
          Reschedule

\* What holds of a worker's place depends on nothing else.
LEMMA PlaceFrame ==
    ASSUME BaseInv, NEW v \in Threads, StateAt(v), RestingRefs(v),
           pc'[v] = pc[v], ft'[v] = ft[v], cb_fiber'[v] = cb_fiber[v],
           \A f \in Fibers : Refers(v, f) => m_state'[f] = m_state[f]
    PROVE  StateAt(v)' /\ RestingRefs(v)'
<1>1. Cur(v)' = Cur(v)
  BY DEF Cur
<1>2. pc[v] \in HasFiber => m_state'[Cur(v)] = m_state[Cur(v)]
  BY CurFacts
<1>3. cb_fiber[v] # NULL => m_state'[cb_fiber[v]] = m_state[cb_fiber[v]]
  BY DEF BaseInv, TypeOK, LocalTypeOK, Refers
<1> QED BY <1>1, <1>2, <1>3 DEF StateAt, RestingRefs, HasFiber

\* swapcontext() of swapIn() enters a stack that no other thread is on, and a
\* context that has not ended.
LEMMA EntersBody ==
    ASSUME BaseInv, OwnerInv, NEW w \in Threads, SwapIn(w)
    PROVE  pc' = [pc EXCEPT ![w] = "body"]
<1>1. /\ pc[w] = "enter" /\ Cur(w) \in Fibers /\ Refers(w, Cur(w))
      /\ m_state[Cur(w)] \in {"INIT", "HOLD", "READY"}
  BY CurFacts DEF SwapIn, HasFiber, OwnerInv, Places, StateAt
<1>2. ~Occupied(Cur(w), w)
  <2>1. ASSUME NEW v \in Threads \ {w}, OnStack(v), Cur(v) = Cur(w) PROVE FALSE
    <3>1. Refers(v, Cur(w))
      BY <2>1, CurFacts DEF OnStack, HasFiber
    <3> QED BY <1>1, <3>1 DEF OwnerInv, RefsDisjoint
  <2> QED BY <2>1 DEF Occupied
<1>3. ctx[Cur(w)] # "end"
  BY <1>1 DEF OwnerInv, FiberStates, Finished
<1> QED BY <1>2, <1>3 DEF SwapIn

\* The worker's own step.
LEMMA OwnPlace ==
    ASSUME Contract, BaseInv, OwnerInv, NEW w \in Threads, Run(w)
    PROVE  StateAt(w)' /\ RestingRefs(w)'
<1> USE FiberConstants DEF BaseInv, TypeOK, FiberTypeOK, LocalTypeOK, Tasks, StateAt,
        RestingRefs, HasFiber, Cur, NoTask, Task, fiberVars, localVars
<1>0. StateAt(w) /\ RestingRefs(w) /\ (pc[w] \in HasFiber => Cur(w) # NULL)
  BY CurFacts DEF OwnerInv, Places
<1>1. CASE Lock(w)
  BY <1>0, <1>1 DEF Lock
<1>2. CASE ScanSkip(w)
  BY <1>0, <1>2 DEF ScanSkip
<1>3. CASE ScanTake(w)
  BY <1>0, <1>3 DEF ScanTake, Unlock
<1>4. CASE ScanEnd(w)
  BY <1>0, <1>4 DEF ScanEnd, Unlock
<1>5. CASE DispatchFiber(w)
  <2>1. ft[w].fiber \in Fibers /\ Refers(w, ft[w].fiber) /\ Cur(w) = ft[w].fiber
    BY <1>5 DEF DispatchFiber, Refers
  <2>2. m_state[ft[w].fiber] # "EXEC"
    <3>1. ASSUME NEW v \in Threads, pc[v] = "body", Cur(v) = ft[w].fiber PROVE FALSE
      <4> HIDE DEF Cur
      <4>1. Refers(v, ft[w].fiber)
        BY <3>1, CurFacts
      <4> QED BY <1>5, <2>1, <3>1, <4>1 DEF DispatchFiber, OwnerInv, RefsDisjoint
    <3> QED BY <2>1, <3>1 DEF OwnerInv, FiberStates
  <2>3. m_state[ft[w].fiber] # "NONE"
    BY <2>1 DEF OwnerInv, FiberStates
  <2> QED BY <1>0, <1>5, <2>1, <2>2, <2>3 DEF DispatchFiber, State, Finished
<1>6. CASE DispatchDead(w)
  BY <1>0, <1>6 DEF DispatchDead
<1>7. CASE DispatchCb(w)
  BY <1>0, <1>7 DEF DispatchCb, Construct, Reset, Arm
<1>8. CASE DispatchIdle(w)
  BY <1>0, <1>8 DEF DispatchIdle
<1>9. CASE Exit(w)
  BY <1>0, <1>9 DEF Exit
<1>10. CASE IdleRound(w)
  BY <1>0, <1>10 DEF IdleRound
<1>11. CASE SwapInAssert(w)
  BY <1>0, <1>11 DEF SwapInAssert
<1>12. CASE SwapIn(w)
  <2>1. pc[w] = "enter" /\ pc'[w] = "body"
    <3>1. pc' = [pc EXCEPT ![w] = "body"]
      BY <1>12, EntersBody
    <3>2. pc[w] = "enter"
      BY <1>12 DEF SwapIn
    <3>3. w \in DOMAIN pc
      BY DEF BaseInv, TypeOK
    <3> QED BY <3>1, <3>2, <3>3
  <2>2. m_state' = [m_state EXCEPT ![Cur(w)] = "EXEC"] /\ UNCHANGED <<ft, cb_fiber>>
    BY <1>12 DEF SwapIn, SetState
  <2>3. Cur(w) \in Fibers /\ Cur(w)' = Cur(w)
    BY <1>12, <2>2, CurFacts DEF SwapIn
  <2> HIDE DEF Cur
  <2> QED BY <1>0, <2>1, <2>2, <2>3
<1>13. CASE BodyReturn(w)
  BY <1>0, <1>13 DEF BodyReturn, Return, SetState
<1>14. CASE BodyThrow(w)
  BY <1>0, <1>14 DEF BodyThrow, Throw, SetState
<1>15. CASE YieldToReady(w)
  BY <1>0, <1>15 DEF YieldToReady, BodyYield, Yield, SetState
<1>16. CASE YieldToHold(w)
  BY <1>0, <1>16 DEF YieldToHold, BodyYield, Yield, SetState
<1>17. CASE SwapOut(w)
  BY <1>0, <1>17 DEF SwapOut
<1>18. CASE Deactivate(w)
  BY <1>0, <1>18 DEF Deactivate
<1>19. CASE Requeue(w)
  <2>1. CASE pc' = [pc EXCEPT ![w] = "resched"]
    BY <1>0, <1>19, <2>1 DEF Requeue
  <2>2. CASE pc' = [pc EXCEPT ![w] = "park"]
    BY <1>0, <1>19, <2>2 DEF Requeue, Finished
  <2>3. CASE pc' = [pc EXCEPT ![w] = "loop"] /\ ft[w].fiber = NULL
    BY <1>0, <1>19, <2>3 DEF Requeue, Reset, Arm
  <2>4. CASE pc' = [pc EXCEPT ![w] = "loop"] /\ ft[w].fiber # NULL
    BY <1>0, <1>19, <2>4 DEF Requeue, OwnerInv, RefsDisjoint
  <2> QED BY <1>19, <2>1, <2>2, <2>3, <2>4 DEF Requeue
<1>20. CASE Reschedule(w)
  BY <1>0, <1>20 DEF Reschedule, Schedule, Release, OwnerInv, RefsDisjoint
<1>21. CASE Park(w)
  BY <1>0, <1>21 DEF Park, SetState, Release, OwnerInv, RefsDisjoint
<1> QED BY <1>1, <1>2, <1>3, <1>4, <1>5, <1>6, <1>7, <1>8, <1>9, <1>10, <1>11, <1>12,
          <1>13, <1>14, <1>15, <1>16, <1>17, <1>18, <1>19, <1>20, <1>21 DEF Run

\* Places is preserved: by the worker's own steps, and by everyone else's.
LEMMA PlacesStep ==
    ASSUME Contract, BaseInv, OwnerInv, Next
    PROVE  Places'
<1> SUFFICES ASSUME NEW v \in Threads PROVE StateAt(v)' /\ RestingRefs(v)'
  BY DEF Places
<1>0. StateAt(v) /\ RestingRefs(v)
  BY DEF OwnerInv, Places
<1>1. CASE UNCHANGED <<m_state, pc, ft, cb_fiber>>
  BY <1>0, <1>1, PlaceFrame
<1>2. ASSUME NEW by \in Threads \cup {NULL}, NEW j \in Jobs, NEW f \in Fibers,
             NEW t \in Threads \cup {ANY}, SubmitFiber(by, j, f, t)
      PROVE  StateAt(v)' /\ RestingRefs(v)'
  <2>1. \A g \in Fibers : Refers(v, g) => g # f
    BY <1>2 DEF SubmitFiber, Construct, OwnerInv, FiberStates
  <2>2. \A g \in Fibers : g # f => m_state'[g] = m_state[g]
    BY <1>2 DEF SubmitFiber, Construct, Arm, BaseInv, TypeOK, FiberTypeOK
  <2> QED BY <1>0, <1>2, <2>1, <2>2, PlaceFrame DEF SubmitFiber, localVars
<1>3. ASSUME NEW w \in Threads, Run(w)
      PROVE  StateAt(v)' /\ RestingRefs(v)'
  <2>1. CASE v = w
    BY <1>3, <2>1, OwnPlace
  <2>2. CASE v # w
    BY <1>0, <1>3, <2>2, LocalFrame, StateFrame, PlaceFrame
  <2> QED BY <2>1, <2>2
<1>4. ASSUME NEW w \in Threads,
             pc[w] \in {"off", "exited"}, pc'[w] \in {"off", "loop"},
             \/ ft'[w].fiber = NULL /\ cb_fiber'[w] = NULL
             \/ UNCHANGED <<ft, cb_fiber>>,
             \A u \in Threads \ {w} : /\ pc'[u] = pc[u] /\ ft'[u] = ft[u]
                                      /\ cb_fiber'[u] = cb_fiber[u],
             UNCHANGED m_state
      PROVE  StateAt(v)' /\ RestingRefs(v)'
  <2>1. CASE v = w
    BY <1>0, <1>4, <2>1 DEF StateAt, RestingRefs, HasFiber
  <2>2. CASE v # w
    BY <1>0, <1>4, <2>2, PlaceFrame
  <2> QED BY <2>1, <2>2
<1> USE DEF BaseInv, TypeOK, LocalTypeOK, fiberVars, localVars
<1>5. ASSUME NEW w \in Workers, StartThread(w)
      PROVE  StateAt(v)' /\ RestingRefs(v)'
  BY <1>4, <1>5 DEF StartThread, EnterRun, NoTask, Task, Threads
<1>6. CASE StopRoot
  <2>1. CASE EnterRun(Caller)
    <3>1. pc[Caller] = "off"
      BY <1>6 DEF StopRoot, Shape
    <3> QED BY <1>4, <1>6, <2>1, <3>1 DEF StopRoot, EnterRun, NoTask, Task, Threads
  <2> QED BY <1>1, <1>6, <2>1 DEF StopRoot
<1>7. CASE RootReturn
  BY <1>4, <1>7 DEF RootReturn, Threads
<1>8. CASE Join
  <2>1. Head(thrs) \in Workers
    BY <1>8, HeadTailProperties DEF Join, MainTypeOK
  <2> QED BY <1>4, <1>8, <2>1 DEF Join, Threads
<1> QED BY NextActions, <1>1, <1>2, <1>3, <1>5, <1>6, <1>7, <1>8
    DEF vars, SubmitCb, SubmitBatch, Wake, StartLock, StartUnlock, StopBegin, StopAlone,
        StopSet, StopSwap, StopReturn

-----------------------------------------------------------------------------
(***************************************************************************)
(* The states of the fibers, the three parts of FiberStates.               *)
(***************************************************************************)
ExecOwned ==
    \A f \in Fibers :
        m_state[f] = "EXEC" => \E w \in Threads : pc[w] = "body" /\ Cur(w) = f

EndFinished == \A f \in Fibers : ctx[f] = "end" => m_state[f] \in Finished

NoneUnknown ==
    \A f \in Fibers :
        m_state[f] = "NONE" => ~Queued(f) /\ \A w \in Threads : ~Refers(w, f)

\* A callback that is running stays so until its own worker ends its turn.
LEMMA BodyStays ==
    ASSUME BaseInv, OwnerInv, Next, NEW u \in Threads, pc[u] = "body",
           m_state'[Cur(u)] = "EXEC"
    PROVE  pc'[u] = "body" /\ Cur(u)' = Cur(u)
<1> USE DEF BaseInv, TypeOK, LocalTypeOK
<1>1. ASSUME NEW w \in Threads, Run(w)
      PROVE  pc'[u] = "body" /\ Cur(u)' = Cur(u)
  <2>1. CASE w = u
    <3>1. Cur(u) \in Fibers
      BY CurFacts DEF HasFiber
    <3>2. BodyReturn(u) \/ BodyThrow(u) \/ YieldToReady(u) \/ YieldToHold(u)
      BY <1>1, <2>1 DEF Run, Lock, ScanSkip, ScanTake, ScanEnd, DispatchFiber, DispatchDead, DispatchCb,
         DispatchIdle, Exit, IdleRound, SwapInAssert, SwapIn, SwapOut, Deactivate,
         Requeue, Reschedule, Park
    <3>3. m_state'[Cur(u)] # "EXEC"
      BY <3>1, <3>2 DEF BodyReturn, BodyThrow, YieldToReady, YieldToHold, BodyYield,
         Return, Throw, Yield, SetState, FiberTypeOK
    <3> QED BY <3>3
  <2>2. CASE w # u
    BY <1>1, <2>2, LocalFrame
  <2> QED BY <2>1, <2>2
<1>2. CASE UNCHANGED <<pc, ft, cb_fiber>>
  BY <1>2 DEF Cur
<1>3. ASSUME NEW w \in Workers, StartThread(w)
      PROVE  pc'[u] = "body" /\ Cur(u)' = Cur(u)
  BY <1>3 DEF StartThread, EnterRun, Cur
<1>4. CASE StopRoot
  <2>1. pc[Caller] = "off"
    BY <1>4 DEF StopRoot, Shape
  <2>2. CASE EnterRun(Caller)
    BY <2>1, <2>2 DEF EnterRun, Cur
  <2> QED BY <1>2, <1>4, <2>2 DEF StopRoot
<1>5. CASE RootReturn
  BY <1>5 DEF RootReturn, localVars, Cur
<1>6. CASE Join
  BY <1>6 DEF Join, localVars, Cur
<1> QED BY NextActions, <1>1, <1>2, <1>3, <1>4, <1>5, <1>6
    DEF vars, localVars, SubmitCb, SubmitFiber, SubmitBatch, Wake, StartLock, StartUnlock,
        StopBegin, StopAlone, StopSet, StopSwap, StopReturn

\* EXEC is set by the worker that enters the callback, and is replaced when it
\* leaves.
LEMMA ExecOwnedStep ==
    ASSUME Contract, BaseInv, OwnerInv, Next
    PROVE  ExecOwned'
<1> SUFFICES ASSUME NEW f \in Fibers, m_state'[f] = "EXEC"
             PROVE  \E w \in Threads : pc'[w] = "body" /\ Cur(w)' = f
  BY DEF ExecOwned
<1>1. CASE m_state[f] = "EXEC"
  <2>1. PICK u \in Threads : pc[u] = "body" /\ Cur(u) = f
    BY <1>1 DEF OwnerInv, FiberStates
  <2> QED BY <2>1, BodyStays
<1>2. CASE m_state[f] # "EXEC"
  <2> USE DEF BaseInv, TypeOK, FiberTypeOK, LocalTypeOK, fiberVars
  <2>1. ASSUME NEW w \in Threads, SwapIn(w)
        PROVE  \E u \in Threads : pc'[u] = "body" /\ Cur(u)' = f
    <3>1. Cur(w) = f
      BY <1>2, <2>1 DEF SwapIn, SetState
    <3>2. Cur(w)' = Cur(w)
      BY <2>1 DEF SwapIn, localVars, Cur
    <3> QED BY <2>1, <3>1, <3>2, EntersBody
  <2>2. \E w \in Threads : SwapIn(w)
    <3>1. CASE UNCHANGED m_state
      BY <1>2, <3>1
    <3>2. ASSUME NEW w \in Threads, Run(w) PROVE \E u \in Threads : SwapIn(u)
      <4> USE <1>2
      <4>1. CASE DispatchCb(w)
        BY <4>1 DEF DispatchCb, Construct, Reset, Arm
      <4>2. CASE BodyReturn(w) \/ BodyThrow(w) \/ YieldToReady(w) \/ YieldToHold(w)
        BY <4>2 DEF BodyReturn, BodyThrow, YieldToReady, YieldToHold, BodyYield,
           Return, Throw, Yield, SetState
      <4>3. CASE Requeue(w)
        BY <4>3 DEF Requeue, Reset, Arm
      <4>4. CASE Park(w)
        BY <4>4 DEF Park, SetState
      <4> QED BY <3>1, <3>2, <4>1, <4>2, <4>3, <4>4 DEF Run, Lock, ScanSkip, ScanTake,
             ScanEnd, DispatchFiber, DispatchDead, DispatchIdle, Exit, IdleRound,
             SwapInAssert, SwapOut, Deactivate, Reschedule
    <3>3. ASSUME NEW by \in Threads \cup {NULL}, NEW j \in Jobs, NEW g \in Fibers,
                 NEW t \in Threads \cup {ANY}, SubmitFiber(by, j, g, t)
          PROVE  \E u \in Threads : SwapIn(u)
      BY <1>2, <3>3 DEF SubmitFiber, Construct, Arm
    <3> QED BY NextActions, <3>1, <3>2, <3>3
        DEF vars, SubmitCb, SubmitBatch, Wake, StartThread, StartLock, StartUnlock,
            StopBegin, StopAlone, StopSet, StopRoot, RootReturn, StopSwap, Join, StopReturn
  <2> QED BY <2>1, <2>2
<1> QED BY <1>1, <1>2

\* What the steps of run() do to the object at hand, as far as EndFinished and
\* NoneUnknown are concerned.
LEMMA EndFinishedStep ==
    ASSUME Contract, BaseInv, OwnerInv, Next
    PROVE  EndFinished'
<1> USE DEF BaseInv, TypeOK, FiberTypeOK, fiberVars, EndFinished, Finished
<1>0. EndFinished
  BY DEF OwnerInv, FiberStates
<1>1. CASE UNCHANGED <<m_state, ctx>>
  BY <1>0, <1>1
<1>2. ASSUME NEW g \in Fibers, NEW cb, Arm(g, cb)
      PROVE  EndFinished'
  BY <1>0, <1>2 DEF Arm
<1>3. ASSUME NEW w \in Threads, Run(w)
      PROVE  EndFinished'
  <2>0. pc[w] \in HasFiber => Cur(w) \in Fibers /\ StateAt(w)
    BY CurFacts DEF OwnerInv, Places
  <2>1. CASE DispatchCb(w)
    BY <1>1, <1>2, <2>1 DEF DispatchCb, Construct, Reset, LocalTypeOK
  <2>2. CASE SwapIn(w)
    BY <1>0, <2>0, <2>2 DEF SwapIn, SetState, StateAt, HasFiber
  <2>3. CASE BodyReturn(w)
    BY <1>0, <2>3 DEF BodyReturn, Return, SetState
  <2>4. CASE BodyThrow(w)
    BY <1>0, <2>4 DEF BodyThrow, Throw, SetState
  <2>5. CASE YieldToReady(w)
    BY <1>0, <2>5 DEF YieldToReady, BodyYield, Yield, SetState
  <2>6. CASE YieldToHold(w)
    BY <1>0, <2>6 DEF YieldToHold, BodyYield, Yield, SetState
  <2>7. CASE Requeue(w)
    BY <1>1, <1>2, <2>0, <2>7 DEF Requeue, Reset, HasFiber
  <2>8. CASE Park(w)
    BY <1>0, <2>0, <2>8 DEF Park, SetState, StateAt, HasFiber
  <2> QED BY <1>1, <1>3, <2>1, <2>2, <2>3, <2>4, <2>5, <2>6, <2>7, <2>8
      DEF Run, Lock, ScanSkip, ScanTake, ScanEnd, DispatchFiber, DispatchDead,
          DispatchIdle, Exit, IdleRound, SwapInAssert, SwapOut, Deactivate, Reschedule
<1>4. ASSUME NEW by \in Threads \cup {NULL}, NEW j \in Jobs, NEW g \in Fibers,
             NEW t \in Threads \cup {ANY}, SubmitFiber(by, j, g, t)
      PROVE  EndFinished'
  BY <1>2, <1>4 DEF SubmitFiber, Construct
<1> QED BY NextActions, <1>1, <1>3, <1>4
    DEF vars, SubmitCb, SubmitBatch, Wake, StartThread, StartLock, StartUnlock,
        StopBegin, StopAlone, StopSet, StopRoot, RootReturn, StopSwap, Join, StopReturn

\* A fiber object, once constructed, stays.
LEMMA StaysConstructed ==
    ASSUME BaseInv, Next, NEW f \in Fibers, m_state'[f] = "NONE"
    PROVE  m_state[f] = "NONE"
<1> USE DEF BaseInv, TypeOK, FiberTypeOK, fiberVars
<1>1. CASE UNCHANGED m_state
  BY <1>1
<1>3. ASSUME NEW w \in Threads, Run(w)
      PROVE  m_state[f] = "NONE"
  <2>1. CASE DispatchCb(w)
    BY <2>1 DEF DispatchCb, Construct, Reset, Arm
  <2>2. CASE SwapIn(w)
    BY <2>2 DEF SwapIn, SetState
  <2>3. CASE BodyReturn(w) \/ BodyThrow(w) \/ YieldToReady(w) \/ YieldToHold(w)
    BY <2>3 DEF BodyReturn, Return, BodyThrow, Throw, YieldToReady, YieldToHold,
       BodyYield, Yield, SetState
  <2>7. CASE Requeue(w)
    BY <2>7 DEF Requeue, Reset, Arm
  <2>8. CASE Park(w)
    BY <2>8 DEF Park, SetState
  <2> QED BY <1>1, <1>3, <2>1, <2>2, <2>3, <2>7, <2>8
      DEF Run, Lock, ScanSkip, ScanTake, ScanEnd, DispatchFiber, DispatchDead,
          DispatchIdle, Exit, IdleRound, SwapInAssert, SwapOut, Deactivate, Reschedule
<1>4. ASSUME NEW by \in Threads \cup {NULL}, NEW j \in Jobs, NEW g \in Fibers,
             NEW t \in Threads \cup {ANY}, SubmitFiber(by, j, g, t)
      PROVE  m_state[f] = "NONE"
  BY <1>4 DEF SubmitFiber, Construct, Arm
<1> QED BY NextActions, <1>1, <1>3, <1>4
    DEF vars, SubmitCb, SubmitBatch, Wake, StartThread, StartLock, StartUnlock,
        StopBegin, StopAlone, StopSet, StopRoot, RootReturn, StopSwap, Join, StopReturn

\* Where the messages for fibers in the queue come from.
LEMMA QueueOrigin ==
    ASSUME Contract, BaseInv, OwnerInv, Next,
           NEW k \in DOMAIN m_fibers', m_fibers'[k].fiber # NULL
    PROVE  \/ \E i \in DOMAIN m_fibers : m_fibers'[k] = m_fibers[i]
           \/ \E by \in Threads \cup {NULL}, j \in Jobs, f \in Fibers,
                 t \in Threads \cup {ANY} :
                 SubmitFiber(by, j, f, t) /\ m_fibers'[k] = Task(f, NULL, t)
           \/ \E by \in Threads \cup {NULL}, f \in Fibers, t \in Threads \cup {ANY} :
                 Wake(by, f, t) /\ m_fibers'[k] = Task(f, NULL, t)
           \/ \E w \in Threads : Reschedule(w) /\ m_fibers'[k] = Task(Cur(w), NULL, ANY)
<1> DEFINE Old == \E i \in DOMAIN m_fibers : m_fibers'[k] = m_fibers[i]
<1>0. QueueOK /\ QueueDistinct
  BY DEF BaseInv, OwnerInv
<1>1. ASSUME NEW m \in Tasks, m_fibers' = scheduleNoLock(m_fibers, m)
      PROVE  m_fibers'[k] = m \/ Old
  BY <1>0, <1>1, ScheduleFacts DEF QueueOK
<1>2. CASE UNCHANGED m_fibers
  BY <1>2
<1>3. ASSUME NEW by \in Threads \cup {NULL}, NEW j \in Jobs, NEW t \in Threads \cup {ANY},
             SubmitCb(by, j, t)
      PROVE  Old
  <2>1. Task(NULL, j, t) \in Tasks /\ Task(NULL, j, t).fiber = NULL
    BY DEF Task, Tasks
  <2> QED BY <1>1, <1>3, <2>1 DEF SubmitCb, Schedule
<1>4. ASSUME NEW by \in Threads \cup {NULL}, NEW i \in Jobs, NEW j \in Jobs,
             SubmitBatch(by, i, j)
      PROVE  Old
  <2> DEFINE a == Task(NULL, i, ANY)
             b == Task(NULL, j, ANY)
  <2>1. a \in Tasks /\ b \in Tasks /\ a.fiber = NULL /\ b.fiber = NULL
    BY DEF Task, Tasks
  <2>2. m_fibers' = scheduleNoLock(scheduleNoLock(m_fibers, a), b)
    BY <1>4 DEF SubmitBatch
  <2> HIDE DEF a, b
  <2> QED BY <1>0, <2>1, <2>2, EnqueueTwo
<1>5. ASSUME NEW by \in Threads \cup {NULL}, NEW f \in Fibers, NEW t \in Threads \cup {ANY},
             Schedule(Task(f, NULL, t))
      PROVE  m_fibers'[k] = Task(f, NULL, t) \/ Old
  <2>1. Task(f, NULL, t) \in Tasks
    BY DEF Task, Tasks
  <2> QED BY <1>1, <1>5, <2>1 DEF Schedule
<1>6. ASSUME NEW w \in Threads, Run(w)
      PROVE  Old \/ (Reschedule(w) /\ m_fibers'[k] = Task(Cur(w), NULL, ANY))
  <2>1. CASE ScanTake(w)
    BY <1>0, <2>1, Dequeue DEF ScanTake
  <2>2. CASE Reschedule(w)
    <3>1. Cur(w) \in Fibers
      BY <2>2, CurFacts DEF Reschedule, HasFiber
    <3>2. Schedule(Task(Cur(w), NULL, ANY))
      BY <2>2 DEF Reschedule
    <3>3. m_fibers'[k] = Task(Cur(w), NULL, ANY) \/ Old
      BY <1>5, <3>1, <3>2
    <3> QED BY <2>2, <3>3
  <2> QED BY <1>2, <1>6, <2>1, <2>2
      DEF sharedVars, Run, Lock, ScanSkip, ScanEnd, DispatchFiber, DispatchDead,
          DispatchCb, DispatchIdle, Exit, IdleRound, SwapInAssert, SwapIn, BodyReturn,
          BodyThrow, YieldToReady, YieldToHold, SwapOut, Deactivate, Requeue, Park,
          BodyYield
<1>7. ASSUME NEW by \in Threads \cup {NULL}, NEW j \in Jobs, NEW f \in Fibers,
             NEW t \in Threads \cup {ANY}, SubmitFiber(by, j, f, t)
      PROVE  Old \/ m_fibers'[k] = Task(f, NULL, t)
  BY <1>5, <1>7 DEF SubmitFiber
<1>8. ASSUME NEW by \in Threads \cup {NULL}, NEW f \in Fibers, NEW t \in Threads \cup {ANY},
             Wake(by, f, t)
      PROVE  Old \/ m_fibers'[k] = Task(f, NULL, t)
  BY <1>5, <1>8 DEF Wake
<1>9. CASE \/ StartLock \/ StartUnlock \/ StopBegin \/ StopAlone \/ StopSet \/ StopRoot
           \/ RootReturn \/ StopSwap \/ Join \/ StopReturn \/ UNCHANGED vars
           \/ \E w \in Workers : StartThread(w)
  BY <1>2, <1>9 DEF sharedVars, vars, StartLock, StartUnlock, StopBegin, StopAlone,
     StopSet, StopRoot, RootReturn, StopSwap, Join, StopReturn, StartThread
<1> QED BY NextActions, <1>3, <1>4, <1>6, <1>7, <1>8, <1>9

\* How a worker comes to hold a fiber.
LEMMA RefOrigin ==
    ASSUME BaseInv, OwnerInv, Next, NEW w \in Threads, NEW f \in Fibers, Refers(w, f)'
    PROVE  \/ Refers(w, f)
           \/ ScanTake(w) /\ m_fibers[iter[w]].fiber = f
           \/ DispatchCb(w) /\ m_state[f] = "NONE" /\ m_state'[f] = "INIT"
<1> USE FiberConstants DEF BaseInv, TypeOK, FiberTypeOK, LocalTypeOK, localVars, Refers,
        Tasks, NoTask, Task
<1>1. CASE UNCHANGED <<ft, cb_fiber>>
  BY <1>1
<1>2. ASSUME NEW v \in Threads, v # w, Run(v)
      PROVE  Refers(w, f)
  BY <1>2, LocalFrame
<1>3. CASE Run(w)
  <2>1. CASE Lock(w)
    BY <2>1 DEF Lock
  <2>2. CASE ScanTake(w)
    BY <2>2 DEF ScanTake
  <2>3. CASE DispatchDead(w)
    BY <2>3 DEF DispatchDead
  <2>4. CASE DispatchCb(w)
    BY <2>4 DEF DispatchCb, Construct, Arm
  <2>5. CASE Exit(w)
    BY <2>5 DEF Exit
  <2>6. CASE Requeue(w)
    BY <2>6 DEF Requeue
  <2>7. CASE Reschedule(w)
    BY <2>7 DEF Reschedule, Release
  <2>8. CASE Park(w)
    BY <2>8 DEF Park, Release
  <2> QED BY <1>1, <1>3, <2>1, <2>2, <2>3, <2>4, <2>5, <2>6, <2>7, <2>8
      DEF Run, ScanSkip, ScanEnd, DispatchFiber, DispatchIdle, IdleRound,
          SwapInAssert, SwapIn, BodyReturn, BodyThrow, YieldToReady, YieldToHold,
          SwapOut, Deactivate, BodyYield
<1>4. ASSUME NEW v \in Threads, EnterRun(v)
      PROVE  Refers(w, f)
  BY <1>4 DEF EnterRun
<1>5. CASE StopRoot
  BY <1>1, <1>4, <1>5 DEF StopRoot, Threads
<1>6. ASSUME NEW v \in Workers, StartThread(v)
      PROVE  Refers(w, f)
  BY <1>4, <1>6 DEF StartThread, Threads
<1> QED BY NextActions, <1>1, <1>2, <1>3, <1>5, <1>6
    DEF vars, SubmitCb, SubmitFiber, SubmitBatch, Wake, StartLock, StartUnlock,
        StopBegin, StopAlone, StopSet, RootReturn, StopSwap, Join, StopReturn

\* Nothing comes to refer to a fiber that is not constructed.
LEMMA NoneUnknownStep ==
    ASSUME Contract, BaseInv, OwnerInv, Next
    PROVE  NoneUnknown'
<1> SUFFICES ASSUME NEW f \in Fibers, m_state'[f] = "NONE"
             PROVE  ~Queued(f)' /\ \A w \in Threads : ~Refers(w, f)'
  BY DEF NoneUnknown
<1>1. m_state[f] = "NONE" /\ ~Queued(f) /\ \A w \in Threads : ~Refers(w, f)
  BY StaysConstructed DEF OwnerInv, FiberStates
<1>2. ASSUME NEW w \in Threads, Refers(w, f)' PROVE FALSE
  BY <1>1, <1>2, RefOrigin DEF Queued, ScanTake
<1>3. ASSUME NEW k \in DOMAIN m_fibers', m_fibers'[k].fiber = f PROVE FALSE
  <2>1. f # NULL
    BY FiberConstants
  <2>2. ASSUME NEW by \in Threads \cup {NULL}, NEW j \in Jobs, NEW g \in Fibers,
               NEW t \in Threads \cup {ANY}, SubmitFiber(by, j, g, t),
               m_fibers'[k] = Task(g, NULL, t)
        PROVE  FALSE
    BY <1>3, <2>2 DEF SubmitFiber, Construct, Arm, Task, BaseInv, TypeOK, FiberTypeOK
  <2>3. ASSUME NEW by \in Threads \cup {NULL}, NEW g \in Fibers,
               NEW t \in Threads \cup {ANY}, Wake(by, g, t),
               m_fibers'[k] = Task(g, NULL, t)
        PROVE  FALSE
    <3>1. g = f
      BY <1>3, <2>3 DEF Task
    <3>2. CASE Parked(g)
      BY <1>1, <3>1, <3>2 DEF Parked, Finished
    <3>3. CASE by # NULL /\ Cur(by) = g
      BY <1>1, <2>1, <3>1, <3>3 DEF Cur, Refers
    <3> QED BY <2>3, <3>2, <3>3 DEF Wake
  <2>4. ASSUME NEW w \in Threads, Reschedule(w), m_fibers'[k] = Task(Cur(w), NULL, ANY)
        PROVE  FALSE
    <3>1. Refers(w, Cur(w)) /\ f = Cur(w)
      BY <1>3, <2>4, CurFacts DEF Reschedule, HasFiber, Task
    <3> QED BY <1>1, <3>1
  <2>5. ~ \E i \in DOMAIN m_fibers : m_fibers'[k] = m_fibers[i]
    BY <1>1, <1>3 DEF Queued
  <2> QED BY <1>3, <2>1, <2>2, <2>3, <2>4, <2>5, QueueOrigin
<1> QED BY <1>2, <1>3 DEF Queued

-----------------------------------------------------------------------------
(***************************************************************************)
(* A fiber that scheduled itself.                                          *)
(***************************************************************************)

\* ft.reset() or cb_fiber.reset(): the worker has let go of the fiber.
LEMMA LetGo ==
    ASSUME BaseInv, OwnerInv, NEW w \in Threads, pc[w] \in HasFiber, Release(w),
           NEW f \in Fibers, f = Cur(w)
    PROVE  ~Refers(w, f)'
<1>1. ft'[w].fiber = NULL
  BY DEF Release, NoTask, Task, BaseInv, TypeOK, LocalTypeOK
<1>2. cb_fiber'[w] = IF ft[w].fiber = NULL THEN NULL ELSE cb_fiber[w]
  BY DEF Release, BaseInv, TypeOK, LocalTypeOK
<1> QED BY <1>1, <1>2, FiberConstants DEF Refers, Cur, OwnerInv, RefsDisjoint

\* The places of a fiber that is queued for its own worker.
Leaving == {"body", "swapout", "after", "requeue", "park"}

\* The worker of a queued fiber takes it to HOLD and then lets it go.
LEMMA LeavingOwn ==
    ASSUME Contract, BaseInv, OwnerInv, NEW w \in Threads, Run(w),
           pc[w] \in Leaving, pc[w] # "body" => m_state[Cur(w)] = "HOLD",
           NEW f \in Fibers, f = Cur(w), Queued(f)
    PROVE  \/ ~Refers(w, f)'
           \/ /\ f = Cur(w)' /\ pc'[w] \in Leaving
              /\ pc'[w] # "body" => m_state'[f] = "HOLD"
<1> USE DEF BaseInv, TypeOK, FiberTypeOK, LocalTypeOK, fiberVars, localVars
<1>1. CASE pc[w] = "body"
  <2>1. YieldToHold(w)
    BY <1>1 DEF NotSelfScheduled, Run, Lock, ScanSkip, ScanTake, ScanEnd, DispatchFiber,
       DispatchDead, DispatchCb, DispatchIdle, Exit, IdleRound, SwapInAssert, SwapIn,
       BodyReturn, BodyThrow, YieldToReady, BodyYield, SwapOut, Deactivate, Requeue,
       Reschedule, Park
  <2>2. pc'[w] = "swapout" /\ m_state'[f] = "HOLD" /\ UNCHANGED <<ft, cb_fiber>>
    BY <2>1 DEF YieldToHold, BodyYield, Yield, SetState
  <2> QED BY <2>2 DEF Cur, Leaving
<1>2. CASE pc[w] = "park"
  <2>1. Park(w)
    BY <1>2 DEF Run, Lock, ScanSkip, ScanTake, ScanEnd, DispatchFiber,
       DispatchDead, DispatchCb, DispatchIdle, Exit, IdleRound, SwapInAssert, SwapIn,
       BodyReturn, BodyThrow, YieldToReady, YieldToHold, BodyYield, SwapOut, Deactivate,
       Requeue, Reschedule
  <2> QED BY <1>2, <2>1, LetGo DEF Park, HasFiber
<1>3. CASE pc[w] \in {"swapout", "after", "requeue"}
  <2>1. SwapOut(w) \/ Deactivate(w) \/ Requeue(w)
    BY <1>3 DEF Run, Lock, ScanSkip, ScanTake, ScanEnd, DispatchFiber,
       DispatchDead, DispatchCb, DispatchIdle, Exit, IdleRound, SwapInAssert, SwapIn,
       BodyReturn, BodyThrow, YieldToReady, YieldToHold, BodyYield, Reschedule, Park
  <2>2. m_state[Cur(w)] = "HOLD"
    BY <1>3
  <2>3. /\ pc'[w] \in {"after", "requeue", "park"}
        /\ UNCHANGED <<m_state, ft, cb_fiber>>
    BY <2>1, <2>2 DEF SwapOut, Deactivate, Requeue, Finished
  <2> QED BY <2>2, <2>3 DEF Cur, Leaving
<1> QED BY <1>1, <1>2, <1>3 DEF Leaving

\* Nobody else disturbs it.
LEMMA LeavingFrame ==
    ASSUME BaseInv, OwnerInv, Next, NEW w \in Threads, ~Run(w),
           pc[w] \in Leaving
    PROVE  pc'[w] = pc[w] /\ Cur(w)' = Cur(w) /\ m_state'[Cur(w)] = m_state[Cur(w)]
<1>0. Cur(w) \in Fibers /\ Refers(w, Cur(w))
  BY CurFacts DEF Leaving, HasFiber
<1> USE DEF BaseInv, TypeOK, FiberTypeOK, LocalTypeOK, fiberVars, localVars, Leaving
<1>1. ASSUME NEW v \in Threads, Run(v)
      PROVE  pc'[w] = pc[w] /\ Cur(w)' = Cur(w) /\ m_state'[Cur(w)] = m_state[Cur(w)]
  <2>1. v # w
    BY <1>1
  <2> QED BY <1>0, <1>1, <2>1, LocalFrame, StateFrame
<1>2. CASE UNCHANGED <<m_state, pc, ft, cb_fiber>>
  BY <1>2 DEF Cur
<1>3. ASSUME NEW by \in Threads \cup {NULL}, NEW j \in Jobs, NEW g \in Fibers,
             NEW t \in Threads \cup {ANY}, SubmitFiber(by, j, g, t)
      PROVE  pc'[w] = pc[w] /\ Cur(w)' = Cur(w) /\ m_state'[Cur(w)] = m_state[Cur(w)]
  <2>1. g # Cur(w)
    BY <1>0, <1>3 DEF SubmitFiber, Construct, OwnerInv, FiberStates
  <2>2. m_state'[Cur(w)] = m_state[Cur(w)]
    BY <1>0, <1>3, <2>1 DEF SubmitFiber, Construct, Arm
  <2> QED BY <1>3, <2>2 DEF SubmitFiber, Cur
<1>4. ASSUME NEW v \in Threads, EnterRun(v), pc[v] = "off", UNCHANGED m_state
      PROVE  pc'[w] = pc[w] /\ Cur(w)' = Cur(w) /\ m_state'[Cur(w)] = m_state[Cur(w)]
  BY <1>4 DEF EnterRun, Cur
<1>5. ASSUME NEW v \in Workers, StartThread(v)
      PROVE  pc'[w] = pc[w] /\ Cur(w)' = Cur(w) /\ m_state'[Cur(w)] = m_state[Cur(w)]
  BY <1>4, <1>5 DEF StartThread, Threads
<1>6. CASE StopRoot
  <2>1. pc[Caller] = "off"
    BY <1>6 DEF StopRoot, Shape
  <2> QED BY <1>2, <1>4, <1>6, <2>1 DEF StopRoot, Threads
<1>7. CASE RootReturn
  BY <1>7 DEF RootReturn, Cur
<1>8. CASE Join
  BY <1>8 DEF Join, Cur
<1> QED BY NextActions, <1>1, <1>2, <1>3, <1>5, <1>6, <1>7, <1>8
    DEF vars, SubmitCb, SubmitBatch, Wake, StartLock, StartUnlock, StopBegin, StopAlone,
        StopSet, StopSwap, StopReturn

\* A fiber that is queued while a worker holds it has scheduled itself, and
\* stays on its way out until the worker lets go of it.
LEMMA SelfScheduledStep ==
    ASSUME Contract, BaseInv, OwnerInv, Next
    PROVE  SelfScheduled'
<1>q. \A k \in DOMAIN m_fibers' : m_fibers'[k].fiber \in Fibers \cup {NULL}
  <2>1. QueueOK'
    BY BaseStep DEF BaseInv
  <2>2. \A k \in DOMAIN m_fibers' : m_fibers'[k] \in Tasks
    BY <2>1 DEF QueueOK
  <2> QED BY <2>2 DEF Tasks
<1> SUFFICES ASSUME NEW f \in Fibers, NEW k \in DOMAIN m_fibers', NEW w \in Threads,
                    m_fibers'[k].fiber = f, Refers(w, f)'
             PROVE  /\ m_fibers'[k].thread = w /\ f = Cur(w)' /\ pc'[w] \in Leaving
                    /\ pc'[w] # "body" => m_state'[f] = "HOLD"
  BY <1>q DEF SelfScheduled, Leaving
<1>0. m_fibers'[k].fiber # NULL
  BY FiberConstants
<1>a. QueueOK /\ QueueDistinct
  BY DEF BaseInv, OwnerInv
<1>1. CASE ScanTake(w) /\ m_fibers[iter[w]].fiber = f
  <2>1. PICK i \in DOMAIN m_fibers \ {iter[w]} : m_fibers'[k] = m_fibers[i]
    BY <1>a, <1>1, Dequeue DEF ScanTake
  <2> QED BY <1>0, <1>a, <1>1, <2>1 DEF QueueDistinct, ScanTake
<1>2. CASE DispatchCb(w) /\ m_state[f] = "NONE"
  <2>1. ~Queued(f) /\ UNCHANGED m_fibers
    BY <1>0, <1>2 DEF OwnerInv, FiberStates, DispatchCb, sharedVars
  <2> QED BY <2>1 DEF Queued
<1>3. CASE Refers(w, f)
  <2>1. ASSUME NEW i \in DOMAIN m_fibers, m_fibers'[k] = m_fibers[i]
        PROVE  /\ m_fibers'[k].thread = w /\ f = Cur(w)' /\ pc'[w] \in Leaving
               /\ pc'[w] # "body" => m_state'[f] = "HOLD"
    <3>1. /\ m_fibers'[k].thread = w /\ f = Cur(w) /\ Queued(f)
          /\ pc[w] \in Leaving /\ (pc[w] # "body" => m_state[Cur(w)] = "HOLD")
      BY <1>0, <1>3, <2>1 DEF OwnerInv, SelfScheduled, Leaving, Queued
    <3>2. CASE Run(w)
      BY <1>0, <3>1, <3>2, LeavingOwn
    <3>3. CASE ~Run(w)
      BY <3>1, <3>3, LeavingFrame
    <3> QED BY <3>2, <3>3
  <2>2. ASSUME NEW by \in Threads \cup {NULL}, NEW j \in Jobs, NEW g \in Fibers,
               NEW t \in Threads \cup {ANY}, SubmitFiber(by, j, g, t),
               m_fibers'[k] = Task(g, NULL, t)
        PROVE  FALSE
    BY <1>0, <1>3, <2>2 DEF SubmitFiber, Construct, Task, OwnerInv, FiberStates
  <2>3. ASSUME NEW by \in Threads \cup {NULL}, NEW g \in Fibers,
               NEW t \in Threads \cup {ANY}, Wake(by, g, t),
               m_fibers'[k] = Task(g, NULL, t)
        PROVE  /\ m_fibers'[k].thread = w /\ f = Cur(w)' /\ pc'[w] = "body"
    <3>1. g = f /\ m_fibers'[k].thread = t
      BY <2>3 DEF Task
    <3>2. ~Parked(g)
      BY <1>3, <3>1 DEF Parked
    <3>3. by \in Threads /\ Cur(by) = f /\ t = by /\ pc[by] = "body"
      BY <2>3, <3>1, <3>2 DEF Wake, MayCall
    <3>4. by = w
      BY <1>0, <1>3, <3>3, CurFacts DEF HasFiber, OwnerInv, RefsDisjoint
    <3> QED BY <2>3, <3>1, <3>3, <3>4 DEF Wake, localVars, Cur
  <2>4. ASSUME NEW v \in Threads, Reschedule(v), m_fibers'[k] = Task(Cur(v), NULL, ANY)
        PROVE  FALSE
    <3>1. pc[v] \in HasFiber /\ Release(v) /\ f = Cur(v) /\ Refers(v, f)
      BY <2>4, CurFacts DEF Reschedule, HasFiber, Task
    <3>2. v = w
      BY <1>0, <1>3, <3>1 DEF OwnerInv, RefsDisjoint
    <3> QED BY <1>0, <3>1, <3>2, LetGo
  <2> QED BY <1>0, <2>1, <2>2, <2>3, <2>4, QueueOrigin DEF Leaving
<1> QED BY <1>0, <1>1, <1>2, <1>3, RefOrigin

-----------------------------------------------------------------------------
(***************************************************************************)
(* The two properties and the theorem.                                     *)
(***************************************************************************)

\* No step of run() fails an assertion or enters an occupied stack.
LEMMA RunIsSafe ==
    ASSUME BaseInv, OwnerInv, NEW w \in Threads, Run(w)
    PROVE  pc'[w] \notin {"abort", "corrupt"}
<1> USE DEF BaseInv, TypeOK, LocalTypeOK
<1>0. pc[w] \notin {"abort", "corrupt"} /\ StateAt(w) /\ RestingRefs(w)
  BY DEF OwnerInv, FiberExclusive, AssertionsHold, Places
<1>1. CASE SwapInAssert(w)
  BY <1>0, <1>1 DEF SwapInAssert, StateAt
<1>2. CASE SwapIn(w)
  BY <1>2, EntersBody
<1>3. CASE DispatchCb(w)
  <2>1. cb_fiber[w] # NULL => m_state[cb_fiber[w]] \in Idle
    BY <1>0, <1>3 DEF DispatchCb, RestingRefs, HasFiber, Idle
  <2> QED BY <1>3, <2>1 DEF DispatchCb
<1> QED BY <1>0, <1>1, <1>2, <1>3 DEF Run, Lock, ScanSkip, ScanTake, ScanEnd, Unlock,
       DispatchFiber, DispatchDead, DispatchIdle, Exit, IdleRound, BodyReturn, BodyThrow,
       YieldToReady, YieldToHold, BodyYield, SwapOut, Deactivate, Requeue, Reschedule,
       Park, Release

\* No step fails an assertion or enters an occupied stack.
LEMMA AssertionsStep ==
    ASSUME Contract, BaseInv, OwnerInv, Next
    PROVE  AssertionsHold' /\ \A w \in Threads : pc'[w] # "corrupt"
<1>0. AssertionsHold /\ \A w \in Threads : pc[w] # "corrupt"
  BY DEF OwnerInv, FiberExclusive
<1> USE DEF BaseInv, TypeOK, LocalTypeOK, AssertionsHold, mainVars
<1>1. CASE UNCHANGED <<mpc, pc>>
  BY <1>0, <1>1
<1>2. ASSUME NEW w \in Threads, Run(w)
      PROVE  UNCHANGED mpc /\ \A v \in Threads : pc'[v] \notin {"abort", "corrupt"}
  <2>1. UNCHANGED mpc
    BY <1>2 DEF Run, Lock, ScanSkip, ScanTake, ScanEnd, DispatchFiber, DispatchDead,
       DispatchCb, DispatchIdle, Exit, IdleRound, SwapInAssert, SwapIn, BodyReturn,
       BodyThrow, YieldToReady, YieldToHold, BodyYield, SwapOut, Deactivate, Requeue,
       Reschedule, Park
  <2> QED BY <1>0, <1>2, <2>1, RunIsSafe, LocalFrame
<1>3. CASE StopRoot
  BY <1>0, <1>3 DEF StopRoot, EnterRun, OwnerInv, RootOnce
<1>4. ASSUME NEW w \in Workers, StartThread(w)
      PROVE  UNCHANGED mpc /\ \A v \in Threads : pc'[v] \notin {"abort", "corrupt"}
  BY <1>0, <1>4 DEF StartThread, EnterRun
<1>5. CASE Join \/ RootReturn
  BY <1>0, <1>5 DEF Join, RootReturn
<1>6. CASE \/ StartUnlock \/ StopBegin \/ StopAlone \/ StopSet \/ StopSwap
           \/ StopReturn
  BY <1>0, <1>6 DEF StartUnlock, StopBegin, StopAlone, StopSet, StopSwap, StopReturn
<1>7. CASE StartLock
  BY <1>0, <1>7 DEF StartLock, OwnerInv, RootOnce
<1> QED BY NextActions, <1>0, <1>1, <1>2, <1>3, <1>4, <1>5, <1>6, <1>7
    DEF vars, SubmitCb, SubmitFiber, SubmitBatch, Wake

\* Two workers on a stack hold different fibers, since references are disjoint.
LEMMA ExclusiveStep ==
    ASSUME Contract, BaseInv, OwnerInv, Next
    PROVE  FiberExclusive'
<1>1. \A w \in Threads : OnStack(w)' => Cur(w)' # NULL
  <2>1. Shape'
    BY BaseStep DEF BaseInv
  <2> QED BY <2>1 DEF Shape, OnStack, HasFiber
<1>2. \A w \in Threads : ft'[w].fiber \in Fibers \cup {NULL} /\ cb_fiber'[w] \in Fibers \cup {NULL}
  <2>1. LocalTypeOK'
    BY BaseStep DEF BaseInv, TypeOK
  <2> QED BY <2>1 DEF LocalTypeOK, Tasks
<1>3. ASSUME NEW v \in Threads, NEW w \in Threads, OnStack(v)', OnStack(w)', v # w,
             Cur(v)' = Cur(w)'
      PROVE  FALSE
  <2>1. PICK f \in Fibers : f = Cur(v)' /\ f = Cur(w)'
    BY <1>1, <1>2, <1>3 DEF Cur
  <2>2. Refers(v, f)' /\ Refers(w, f)'
    BY <2>1 DEF Cur, Refers
  <2> QED BY <1>3, <2>2, RefsDisjointStep DEF RefsDisjoint
<1> QED BY <1>3, AssertionsStep DEF FiberExclusive

\* The base case of the induction for OwnerInv ...
LEMMA OwnerInit == Init => OwnerInv
<1> SUFFICES ASSUME Init PROVE OwnerInv
  OBVIOUS
<1> USE DEF Init, FiberInit
<1>1. m_fibers = <<>> /\ DOMAIN m_fibers = {}
  OBVIOUS
<1>2. \A w \in Threads : /\ pc[w] = "off" /\ ft[w].fiber = NULL /\ cb_fiber[w] = NULL
  BY DEF NoTask, Task
<1>3. \A f \in Fibers : ~Queued(f) /\ \A w \in Threads : ~Refers(w, f)
  BY <1>1, <1>2, FiberConstants DEF Refers, Queued
<1>4. QueueDistinct /\ SelfScheduled
  BY <1>1 DEF QueueDistinct, SelfScheduled
<1>5. RefsDisjoint
  BY <1>2, <1>3 DEF RefsDisjoint
<1>6. Places
  BY <1>2 DEF Places, StateAt, RestingRefs, HasFiber
<1>7. FiberStates
  BY <1>3 DEF FiberStates
<1>8. RootOnce
  BY DEF RootOnce
<1>9. FiberExclusive /\ AssertionsHold
  BY <1>2 DEF FiberExclusive, AssertionsHold, OnStack
<1> QED BY <1>4, <1>5, <1>6, <1>7, <1>8, <1>9 DEF OwnerInv

\* ... and its step, under the contract and BaseInv.
LEMMA OwnerStep ==
    ASSUME Contract, BaseInv, OwnerInv, [Next]_vars
    PROVE  OwnerInv'
<1>1. CASE Next
  <2>1. FiberStates'
    BY <1>1, ExecOwnedStep, EndFinishedStep, NoneUnknownStep
    DEF FiberStates, ExecOwned, EndFinished, NoneUnknown
  <2> QED BY <1>1, <2>1, QueueDistinctStep, RefsDisjointStep, SelfScheduledStep, PlacesStep,
         RootOnceStep, ExclusiveStep, AssertionsStep DEF OwnerInv
<1>2. CASE UNCHANGED vars
  BY <1>2 DEF vars, fiberVars, sharedVars, mainVars, localVars, histVars, OwnerInv,
     QueueDistinct, RefsDisjoint, Refers, SelfScheduled, Cur, Places, StateAt, RestingRefs,
     FiberStates, Queued, RootOnce, FiberExclusive, OnStack, AssertionsHold
<1> QED BY <1>1, <1>2

\* With clients that keep to the contract, who owns a fiber is always clear.
THEOREM Ownership ==
    ASSUME Contract
    PROVE  Spec => []OwnerInv
<1>1. BaseInv /\ OwnerInv /\ [Next]_vars => OwnerInv'
  BY OwnerStep
<1> QED BY <1>1, OwnerInit, BaseInvariant, PTL DEF Spec

\* No fiber is entered by a second thread before the first has left its stack,
\* although swapIn() runs without m_mutex: for any number of workers, fibers and
\* jobs.
THEOREM ExclusiveCorrect ==
    ASSUME Contract
    PROVE  Spec => []FiberExclusive
<1>1. OwnerInv => FiberExclusive
  BY DEF OwnerInv
<1> QED BY <1>1, Ownership, PTL

\* The assertions of swapIn(), reset(), MainFunc and CallerMainFunc never fail.
THEOREM AssertionsCorrect ==
    ASSUME Contract
    PROVE  Spec => []AssertionsHold
<1>1. OwnerInv => AssertionsHold
  BY DEF OwnerInv
<1> QED BY <1>1, Ownership, PTL
=============================================================================
