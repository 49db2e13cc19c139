----------------------- MODULE SchedulerJobPoolProofs -----------------------
(***************************************************************************)
(* TLAPS proofs about what clients see of the Scheduler, when they keep to *)
(* the contract: NoOrphan, StartsWherePinned and the refinement of         *)
(* JobPool, for any number of workers, fibers and jobs.                    *)
(***************************************************************************)
EXTENDS SchedulerProofs, SchedulerJobPool

USE DEF Goto

-----------------------------------------------------------------------------
(***************************************************************************)
(* Frames: what the steps of the clients and of run() leave alone.         *)
(***************************************************************************)

\* The next-state relation by who takes the step.
LEMMA NextKinds ==
    ASSUME Next
    PROVE  \/ \E by \in Threads \cup {NULL} : Client(by)
           \/ \E w \in Threads : Run(w)
           \/ \E w \in Workers : StartThread(w)
           \/ StartLock \/ StartUnlock \/ StopBegin \/ StopAlone \/ StopSet \/ StopRoot
           \/ RootReturn \/ StopSwap \/ Join \/ StopReturn
           \/ UNCHANGED vars
  BY Zenon DEF Next, Runners, Threads, Start, StartRest, Stop, Ended

\* schedule() changes the queue, under m_mutex, and nothing that start(), stop()
\* or run() keep for themselves.
LEMMA ClientFrame ==
    ASSUME NEW by \in Threads \cup {NULL}, Client(by)
    PROVE  /\ MayCall(by) /\ m_mutex = NULL
           /\ UNCHANGED <<m_mutex, mainVars, pc, iter, ft, cb_fiber, idle_term, finished>>
<1> USE DEF localVars
<1>1. ASSUME NEW j \in Jobs, NEW t \in Threads \cup {ANY}, SubmitCb(by, j, t)
      PROVE  /\ MayCall(by) /\ m_mutex = NULL
             /\ UNCHANGED <<m_mutex, mainVars, pc, iter, ft, cb_fiber, idle_term, finished>>
  BY <1>1 DEF SubmitCb, Schedule
<1>2. ASSUME NEW j \in Jobs, NEW f \in Fibers, NEW t \in Threads \cup {ANY},
             SubmitFiber(by, j, f, t)
      PROVE  /\ MayCall(by) /\ m_mutex = NULL
             /\ UNCHANGED <<m_mutex, mainVars, pc, iter, ft, cb_fiber, idle_term, finished>>
  BY <1>2 DEF SubmitFiber, Schedule
<1>3. ASSUME NEW i \in Jobs, NEW j \in Jobs, SubmitBatch(by, i, j)
      PROVE  /\ MayCall(by) /\ m_mutex = NULL
             /\ UNCHANGED <<m_mutex, mainVars, pc, iter, ft, cb_fiber, idle_term, finished>>
  BY <1>3 DEF SubmitBatch
<1>4. ASSUME NEW f \in Fibers, NEW t \in Threads \cup {ANY}, Wake(by, f, t)
      PROVE  /\ MayCall(by) /\ m_mutex = NULL
             /\ UNCHANGED <<m_mutex, mainVars, pc, iter, ft, cb_fiber, idle_term, finished>>
  BY <1>4 DEF Wake, Schedule
<1> QED BY <1>1, <1>2, <1>3, <1>4 DEF Client

\* A worker keeps running: it is not off before or after its step, and it leaves
\* the members of start() and stop() alone.
LEMMA RunFrame ==
    ASSUME BaseInv, NEW w \in Threads, Run(w)
    PROVE  /\ UNCHANGED mainVars /\ UNCHANGED pin
           /\ pc[w] \notin {"off", "exited"} /\ pc'[w] # "off"
           /\ pc[w] = "loop" => m_mutex = NULL
           /\ \A v \in Threads \ {w} : iter'[v] = iter[v] /\ idle_term'[v] = idle_term[v]
<1> USE DEF BaseInv, TypeOK, LocalTypeOK, localVars
<1>1. UNCHANGED mainVars /\ UNCHANGED pin
  BY DEF histVars, Run, Lock, ScanSkip, ScanTake, ScanEnd, DispatchFiber, DispatchDead, DispatchCb,
     DispatchIdle, Exit, IdleRound, SwapInAssert, SwapIn, BodyReturn, BodyThrow,
     YieldToReady, YieldToHold, SwapOut, Deactivate, Requeue, Reschedule, Park,
     BodyYield
<1>2. pc[w] \notin {"off", "exited"} /\ (pc[w] = "loop" => m_mutex = NULL)
  BY DEF Run, Lock, ScanSkip, ScanTake, ScanEnd, DispatchFiber, DispatchDead, DispatchCb,
     DispatchIdle, Exit, IdleRound, SwapInAssert, SwapIn, BodyReturn, BodyThrow,
     YieldToReady, YieldToHold, SwapOut, Deactivate, Requeue, Reschedule, Park,
     BodyYield
<1>5. pc'[w] # "off"
  <2>1. CASE Lock(w) \/ ScanSkip(w) \/ ScanTake(w) \/ ScanEnd(w)
    BY <1>2, <2>1 DEF Lock, ScanSkip, ScanTake, ScanEnd, Unlock
  <2>2. CASE DispatchFiber(w) \/ DispatchDead(w) \/ DispatchIdle(w) \/ Exit(w) \/ IdleRound(w)
    BY <2>2 DEF DispatchFiber, DispatchDead, DispatchIdle, Exit, IdleRound
  <2>3. CASE DispatchCb(w)
    BY <2>3 DEF DispatchCb
  <2>4. CASE SwapInAssert(w) \/ SwapIn(w)
    BY <2>4 DEF SwapInAssert, SwapIn
  <2>5. CASE BodyReturn(w) \/ BodyThrow(w) \/ YieldToReady(w) \/ YieldToHold(w) \/ SwapOut(w)
    BY <2>5 DEF BodyReturn, BodyThrow, YieldToReady, YieldToHold, BodyYield, SwapOut
  <2>6. CASE Deactivate(w) \/ Requeue(w) \/ Reschedule(w) \/ Park(w)
    BY <2>6 DEF Deactivate, Requeue, Reschedule, Park, Release
  <2> QED BY <2>1, <2>2, <2>3, <2>4, <2>5, <2>6 DEF Run
<1>3. \A v \in Threads \ {w} : iter'[v] = iter[v]
  BY DEF Run, Lock, ScanSkip, ScanTake, ScanEnd, DispatchFiber, DispatchDead, DispatchCb,
     DispatchIdle, Exit, IdleRound, SwapInAssert, SwapIn, BodyReturn, BodyThrow,
     YieldToReady, YieldToHold, SwapOut, Deactivate, Requeue, Reschedule, Park,
     BodyYield, Unlock
<1>4. \A v \in Threads \ {w} : idle_term'[v] = idle_term[v]
  BY DEF Run, Lock, ScanSkip, ScanTake, ScanEnd, DispatchFiber, DispatchDead, DispatchCb,
     DispatchIdle, Exit, IdleRound, SwapInAssert, SwapIn, BodyReturn, BodyThrow,
     YieldToReady, YieldToHold, SwapOut, Deactivate, Requeue, Reschedule, Park,
     BodyYield
<1> QED BY <1>1, <1>2, <1>3, <1>4, <1>5

-----------------------------------------------------------------------------
(***************************************************************************)
(* The phases of start() and stop().                                       *)
(***************************************************************************)

\* Between stop() and start() no thread is in run().
LEMMA AllOff ==
    ASSUME BaseInv, Phases, mpc \in {"idle", "stopped"}
    PROVE  \A w \in Threads : pc[w] = "off"
<1>1. m_threads = <<>> /\ thrs = <<>> /\ ToSet(<<>>) = {}
  BY DEF Phases, ToSet
<1>2. \A w \in Workers : pc[w] = "off"
  BY <1>1 DEF Phases
<1>3. pc[Caller] = "off"
  BY DEF BaseInv, Shape
<1> QED BY <1>2, <1>3 DEF Threads

LEMMA PhasesStep ==
    ASSUME BaseInv, Phases, Next
    PROVE  Phases'
<1> USE DEF mainVars
<1>0. pc' \in [Threads -> {"off", "loop", "scan", "dispatch", "assert", "enter",
                           "body", "swapout", "after", "requeue", "resched",
                           "park", "idle", "exited", "abort", "corrupt"}]
  BY BaseStep DEF BaseInv, TypeOK, LocalTypeOK
<1>a. Workers \subseteq Threads /\ Caller \in Threads /\ Caller \notin Workers /\ Caller # NULL
  BY SchedulerConstants DEF Threads
<1>1. ASSUME NEW by \in Threads \cup {NULL}, Client(by)
      PROVE  Phases'
  <2>1. UNCHANGED <<m_mutex, mainVars, pc>>
    BY <1>1, ClientFrame
  <2> QED BY <2>1 DEF Phases
<1>2. ASSUME NEW w \in Threads, Run(w)
      PROVE  Phases'
  <2>1. /\ UNCHANGED mainVars
        /\ pc[w] # "off" /\ pc'[w] # "off" /\ (pc[w] = "loop" => m_mutex = NULL)
        /\ \A v \in Threads \ {w} : pc'[v] = pc[v]
    BY <1>2, RunFrame, LocalFrame
  <2>2. mpc # "starting"
    <3>1. ASSUME mpc = "starting" PROVE FALSE
      <4>1. pc[Caller] = "off" /\ m_mutex # NULL
        BY <1>a, <3>1 DEF Phases, BaseInv, Shape
      <4>2. w \in Workers
        BY <2>1, <4>1 DEF Threads
      <4> QED BY <2>1, <3>1, <4>1, <4>2 DEF Phases
    <3> QED BY <3>1
  <2>3. \A v \in Threads : pc'[v] # "off" <=> pc[v] # "off"
    BY <2>1
  <2> QED BY <1>a, <2>1, <2>2, <2>3 DEF Phases
<1>3. ASSUME NEW w \in Workers, StartThread(w)
      PROVE  Phases'
  <2>1. /\ mpc = "starting" /\ mpc' = "starting" /\ m_threads' = Append(m_threads, w)
        /\ UNCHANGED <<m_mutex, m_stopping, thrs>>
        /\ pc'[w] = "loop" /\ \A v \in Threads \ {w} : pc'[v] = pc[v]
    BY <1>3, <1>a DEF StartThread, EnterRun, sharedVars, BaseInv, TypeOK, LocalTypeOK
  <2>2. ToSet(m_threads) \cup {w} \subseteq ToSet(m_threads')
    <3>1. m_threads \in Seq(Workers)
      BY DEF BaseInv, TypeOK, MainTypeOK
    <3>2. /\ DOMAIN m_threads = 1 .. Len(m_threads) /\ Len(m_threads) \in Nat
          /\ DOMAIN m_threads' = 1 .. (Len(m_threads) + 1)
          /\ \A k \in 1 .. Len(m_threads) : m_threads'[k] = m_threads[k]
          /\ m_threads'[Len(m_threads) + 1] = w
      BY <2>1, <3>1, AppendFacts, LenProperties
    <3> QED BY <3>2 DEF ToSet
  <2> QED BY <1>a, <2>1, <2>2 DEF Phases
<1>4. CASE StartLock
  <2>1. \A w \in Threads : pc[w] = "off"
    BY <1>4, AllOff DEF StartLock
  <2> QED BY <1>4, <1>a, <2>1 DEF StartLock, Phases
<1>5. CASE StartUnlock
  BY <1>5 DEF StartUnlock, Phases
<1>6. CASE StopBegin
  BY <1>6 DEF StopBegin, Phases
<1>7. CASE StopAlone
  <2>1. /\ mpc = "stop_alone" /\ mpc' \in {"stopped", "stop_set"} /\ m_stopping' = TRUE
        /\ UNCHANGED <<m_threads, thrs, pc, m_mutex>>
    BY <1>7 DEF StopAlone, sharedVars
  <2>2. UseCaller
    BY <2>1, SchedulerConstants DEF Phases, Runners
  <2>3. m_threads = <<>>
    <3>1. m_threads \in Seq(Workers) /\ Workers = {}
      BY <2>1 DEF BaseInv, TypeOK, MainTypeOK, Phases
    <3>2. \A i \in 1 .. Len(m_threads) : m_threads[i] \in {}
      BY <3>1, ElementOfSeq
    <3> QED BY <3>1, <3>2, EmptySeq, LenProperties
  <2> QED BY <2>1, <2>2, <2>3 DEF Phases
<1>8. CASE StopSet
  BY <1>8 DEF StopSet, Phases
<1>9. CASE StopRoot
  BY <1>9, <1>0, <1>a DEF StopRoot, EnterRun, Phases
<1>10. CASE RootReturn
  BY <1>10, <1>0, <1>a DEF RootReturn, Phases
<1>11. CASE StopSwap
  BY <1>11 DEF StopSwap, Phases
<1>12. CASE Join
  <2>1. /\ mpc = "join" /\ mpc' = "join" /\ thrs # <<>> /\ thrs' = Tail(thrs)
        /\ pc' = [pc EXCEPT ![Head(thrs)] = "off"]
        /\ UNCHANGED <<m_threads, m_mutex, m_stopping>>
    BY <1>12 DEF Join, sharedVars
  <2>2. ToSet(thrs) \subseteq ToSet(thrs') \cup {Head(thrs)}
    <3>1. thrs \in Seq(Workers)
      BY DEF BaseInv, TypeOK, MainTypeOK
    <3>2. /\ DOMAIN thrs = 1 .. Len(thrs) /\ Len(thrs) \in Nat /\ Head(thrs) = thrs[1]
          /\ Len(thrs') = Len(thrs) - 1 /\ DOMAIN thrs' = 1 .. Len(thrs')
          /\ \A i \in 1 .. Len(thrs') : thrs'[i] = thrs[i + 1]
      BY <2>1, <3>1, HeadTailProperties, LenProperties
    <3>3. ASSUME NEW i \in DOMAIN thrs, i # 1
          PROVE  i - 1 \in DOMAIN thrs' /\ thrs[i] = thrs'[i - 1]
      BY <3>2, <3>3
    <3> QED BY <3>2, <3>3 DEF ToSet
  <2>3. \A w \in Workers : pc'[w] # "off" => pc[w] # "off" /\ w # Head(thrs)
    BY <1>0, <1>a, <2>1
  <2> QED BY <2>1, <2>2, <2>3 DEF Phases
<1>13. CASE StopReturn
  BY <1>13 DEF StopReturn, Phases
<1>14. CASE UNCHANGED vars
  BY <1>14 DEF vars, sharedVars, Phases
<1> QED BY NextKinds, <1>1, <1>2, <1>3, <1>4, <1>5, <1>6, <1>7, <1>8, <1>9, <1>10, <1>11,
        <1>12, <1>13, <1>14

-----------------------------------------------------------------------------
(***************************************************************************)
(* Where the messages in the queue come from, and for which thread.        *)
(***************************************************************************)

\* A message is old, for any thread, scheduled by a callback for its own thread,
\* or scheduled from outside while stop() is not running.
LEMMA MessageOrigin ==
    ASSUME Contract, BaseInv, OwnerInv, Next, NEW k \in DOMAIN m_fibers'
    PROVE  \/ \E i \in DOMAIN m_fibers : m_fibers'[k] = m_fibers[i]
           \/ m_fibers'[k].thread = ANY
           \/ /\ m_fibers'[k].thread \in Runners /\ UNCHANGED <<mpc, pc>>
              /\ \/ pc[m_fibers'[k].thread] = "body"
                 \/ mpc \in {"idle", "started", "stopped"}
<1> DEFINE Old == \E i \in DOMAIN m_fibers : m_fibers'[k] = m_fibers[i]
           Ours == /\ m_fibers'[k].thread \in Runners /\ UNCHANGED <<mpc, pc>>
                   /\ \/ pc[m_fibers'[k].thread] = "body"
                      \/ mpc \in {"idle", "started", "stopped"}
<1>0. QueueOK /\ QueueDistinct /\ m_fibers \in Seq(Tasks)
  BY DEF BaseInv, OwnerInv, QueueOK
<1>1. ASSUME NEW m \in Tasks, m_fibers' = scheduleNoLock(m_fibers, m)
      PROVE  m_fibers'[k] = m \/ Old
  BY <1>0, <1>1, ScheduleFacts
<1>2. ASSUME NEW by \in Threads \cup {NULL}, NEW t \in Threads \cup {ANY}, Client(by),
             MayPin(by, t), NEW m \in Tasks, m.thread = t,
             m_fibers' = scheduleNoLock(m_fibers, m)
      PROVE  Old \/ m_fibers'[k].thread = ANY \/ Ours
  <2>1. CASE m_fibers'[k] = m /\ t # ANY
    <3>1. t \in Runners /\ (by # NULL => t = by)
      BY <1>2, <2>1 DEF MayPin
    <3>2. MayCall(by) /\ UNCHANGED <<mpc, pc>>
      BY <1>2, ClientFrame DEF mainVars
    <3> QED BY <1>2, <2>1, <3>1, <3>2 DEF MayCall
  <2> QED BY <1>1, <1>2, <2>1
<1>3. ASSUME NEW by \in Threads \cup {NULL}, NEW j \in Jobs, NEW t \in Threads \cup {ANY},
             SubmitCb(by, j, t)
      PROVE  Old \/ m_fibers'[k].thread = ANY \/ Ours
  <2>1. Task(NULL, j, t) \in Tasks /\ Task(NULL, j, t).thread = t
    BY DEF Task, Tasks
  <2>2. Client(by) /\ MayPin(by, t) /\ m_fibers' = scheduleNoLock(m_fibers, Task(NULL, j, t))
    BY <1>3 DEF Client, SubmitCb, Schedule
  <2> QED BY <1>2, <2>1, <2>2
<1>4. ASSUME NEW by \in Threads \cup {NULL}, NEW j \in Jobs, NEW f \in Fibers,
             NEW t \in Threads \cup {ANY}, SubmitFiber(by, j, f, t)
      PROVE  Old \/ m_fibers'[k].thread = ANY \/ Ours
  <2>1. Task(f, NULL, t) \in Tasks /\ Task(f, NULL, t).thread = t
    BY DEF Task, Tasks
  <2>2. Client(by) /\ MayPin(by, t) /\ m_fibers' = scheduleNoLock(m_fibers, Task(f, NULL, t))
    BY <1>4 DEF Client, SubmitFiber, Schedule
  <2> QED BY <1>2, <2>1, <2>2
<1>5. ASSUME NEW by \in Threads \cup {NULL}, NEW f \in Fibers, NEW t \in Threads \cup {ANY},
             Wake(by, f, t)
      PROVE  Old \/ m_fibers'[k].thread = ANY \/ Ours
  <2>1. Task(f, NULL, t) \in Tasks /\ Task(f, NULL, t).thread = t
    BY DEF Task, Tasks
  <2>2. Client(by) /\ MayPin(by, t) /\ m_fibers' = scheduleNoLock(m_fibers, Task(f, NULL, t))
    BY <1>5 DEF Client, Wake, Schedule
  <2> QED BY <1>2, <2>1, <2>2
<1>6. ASSUME NEW by \in Threads \cup {NULL}, NEW i \in Jobs, NEW j \in Jobs,
             SubmitBatch(by, i, j)
      PROVE  Old \/ m_fibers'[k].thread = ANY
  <2> DEFINE a == Task(NULL, i, ANY)
             b == Task(NULL, j, ANY)
             q == scheduleNoLock(m_fibers, a)
  <2>1. a \in Tasks /\ b \in Tasks /\ a.thread = ANY /\ b.thread = ANY
    BY DEF Task, Tasks
  <2>2. m_fibers' = scheduleNoLock(q, b)
    BY <1>6 DEF SubmitBatch
  <2>3. /\ q \in Seq(Tasks)
        /\ \A n \in DOMAIN q : (n \in DOMAIN m_fibers /\ q[n] = m_fibers[n]) \/ q[n] = a
    BY <1>0, <2>1, ScheduleFacts
  <2> HIDE DEF a, b, q
  <2>4. (k \in DOMAIN q /\ m_fibers'[k] = q[k]) \/ m_fibers'[k] = b
    BY <2>1, <2>2, <2>3, ScheduleFacts
  <2> QED BY <2>1, <2>3, <2>4
<1>7. ASSUME NEW w \in Threads, Run(w)
      PROVE  Old \/ m_fibers'[k].thread = ANY
  <2>1. CASE ScanTake(w)
    BY <1>0, <2>1, Dequeue DEF ScanTake
  <2>2. CASE Reschedule(w)
    <3>1. Cur(w) \in Fibers
      BY <2>2, CurFacts DEF Reschedule, HasFiber
    <3>2. Task(Cur(w), NULL, ANY) \in Tasks /\ Task(Cur(w), NULL, ANY).thread = ANY
      BY <3>1 DEF Task, Tasks
    <3>3. m_fibers' = scheduleNoLock(m_fibers, Task(Cur(w), NULL, ANY))
      BY <2>2 DEF Reschedule, Schedule
    <3> QED BY <1>1, <3>2, <3>3
  <2>3. CASE UNCHANGED m_fibers
    BY <2>3
  <2> QED BY <1>7, <2>1, <2>2, <2>3
      DEF sharedVars, Run, Lock, ScanSkip, ScanEnd, DispatchFiber, DispatchDead,
          DispatchCb, DispatchIdle, Exit, IdleRound, SwapInAssert, SwapIn, BodyReturn,
          BodyThrow, YieldToReady, YieldToHold, SwapOut, Deactivate, Requeue, Park,
          BodyYield
<1>8. ASSUME \/ StartLock \/ StartUnlock \/ StopBegin \/ StopAlone \/ StopSet \/ StopRoot
             \/ RootReturn \/ StopSwap \/ Join \/ StopReturn \/ UNCHANGED vars
             \/ \E w \in Workers : StartThread(w)
      PROVE  Old
  <2>1. UNCHANGED m_fibers
    BY <1>8 DEF sharedVars, vars, StartLock, StartUnlock, StopBegin, StopAlone,
       StopSet, StopRoot, RootReturn, StopSwap, Join, StopReturn, StartThread
  <2> QED BY <2>1
<1> HIDE DEF Old, Ours
<1>9. Old \/ m_fibers'[k].thread = ANY \/ Ours
  BY NextActions, <1>3, <1>4, <1>5, <1>6, <1>7, <1>8
<1> QED BY <1>9 DEF Old, Ours

-----------------------------------------------------------------------------
(***************************************************************************)
(* The scan of m_fibers.                                                   *)
(***************************************************************************)

\* A message that a scan passes over is for another thread: a fiber that is in
\* EXEC is queued for its own worker only, and that one is not scanning.
LEMMA SkipsOthers ==
    ASSUME BaseInv, OwnerInv, NEW w \in Threads, ScanSkip(w)
    PROVE  m_fibers[iter[w]].thread \notin {ANY, w}
<1> DEFINE m == m_fibers[iter[w]]
<1>1. /\ pc[w] = "scan" /\ iter[w] \in DOMAIN m_fibers
      /\ m.thread \notin {ANY, w} \/ (m.fiber # NULL /\ m_state[m.fiber] = "EXEC")
  BY DEF ScanSkip, Runnable
<1>2. m \in Tasks
  BY <1>1 DEF BaseInv, QueueOK
<1>3. ASSUME m.fiber # NULL, m_state[m.fiber] = "EXEC" PROVE m.thread \notin {ANY, w}
  <2>1. m.fiber \in Fibers
    BY <1>2, <1>3 DEF Tasks
  <2>2. PICK v \in Threads : pc[v] = "body" /\ Cur(v) = m.fiber
    BY <1>3, <2>1 DEF OwnerInv, FiberStates
  <2>3. m.thread = v
    BY <1>1, <1>3, <2>2, CurFacts DEF HasFiber, OwnerInv, SelfScheduled
  <2> QED BY <1>1, <2>2, <2>3, SchedulerConstants
<1> QED BY <1>1, <1>3

\* The scan of thread v is not disturbed while m_mutex and the queue stay.
LEMMA ScanFrame ==
    ASSUME NEW v \in Threads, Scanning, pc'[v] = pc[v], iter'[v] = iter[v],
           pc[v] = "scan" => UNCHANGED <<m_mutex, m_fibers>>
    PROVE  /\ pc'[v] # "scan" => iter'[v] = 1
           /\ pc'[v] = "scan" =>
                 /\ m_mutex' = v /\ iter'[v] > 0
                 /\ \A i \in DOMAIN m_fibers' :
                       i < iter'[v] => m_fibers'[i].thread \notin {ANY, v}
  BY DEF Scanning

\* m_mutex protects the queue: a step of another thread leaves both alone while
\* a thread scans.
LEMMA ScanAlone ==
    ASSUME BaseInv, Phases, Scanning, Next, NEW v \in Threads, pc[v] = "scan", ~Run(v)
    PROVE  UNCHANGED <<m_mutex, m_fibers>>
<1>0. m_mutex = v /\ v # NULL
  BY SchedulerConstants DEF Scanning
<1> USE DEF sharedVars
<1>1. ASSUME NEW by \in Threads \cup {NULL}, Client(by) PROVE FALSE
  BY <1>0, <1>1, ClientFrame
<1>2. ASSUME NEW w \in Threads, Run(w) PROVE UNCHANGED <<m_mutex, m_fibers>>
  <2>1. pc[w] # "scan"
    BY <1>0, <1>2 DEF Scanning
  <2> QED BY <1>0, <1>2, <2>1 DEF Run, Lock, ScanSkip, ScanTake, ScanEnd, DispatchFiber,
         DispatchDead, DispatchCb, DispatchIdle, Exit, IdleRound, SwapInAssert, SwapIn,
         BodyReturn, BodyThrow, YieldToReady, YieldToHold, SwapOut, Deactivate, Requeue,
         Reschedule, Park, BodyYield, Schedule
<1>3. CASE StartUnlock
  <2>1. m_mutex = Caller /\ pc[Caller] = "off"
    BY <1>3 DEF StartUnlock, Phases, BaseInv, Shape
  <2> QED BY <1>0, <2>1
<1> QED BY NextKinds, <1>0, <1>1, <1>2, <1>3
    DEF StartThread, StartLock, StopBegin, StopAlone, StopSet, StopRoot, RootReturn,
        StopSwap, Join, StopReturn, vars

LEMMA ScanningStep ==
    ASSUME BaseInv, OwnerInv, Phases, Scanning, Next
    PROVE  Scanning'
<1> SUFFICES ASSUME NEW v \in Threads
             PROVE  /\ pc'[v] # "scan" => iter'[v] = 1
                    /\ pc'[v] = "scan" =>
                          /\ m_mutex' = v /\ iter'[v] > 0
                          /\ \A i \in DOMAIN m_fibers' :
                                i < iter'[v] => m_fibers'[i].thread \notin {ANY, v}
  BY DEF Scanning
<1> USE DEF BaseInv, TypeOK, LocalTypeOK, localVars
<1>1. CASE ~Run(v) /\ pc'[v] = pc[v] /\ iter'[v] = iter[v]
  BY <1>1, ScanFrame, ScanAlone
<1>2. CASE ~Run(v) /\ pc'[v] # "scan" /\ pc[v] # "scan" /\ iter'[v] = iter[v]
  BY <1>2 DEF Scanning
<1>3. CASE Run(v)
  <2>1. CASE Lock(v)
    BY <2>1 DEF Lock, Scanning, QueueOK
  <2>2. CASE ScanSkip(v)
    <3>1. /\ pc'[v] = "scan" /\ m_mutex' = m_mutex /\ m_fibers' = m_fibers
          /\ iter'[v] = iter[v] + 1 /\ pc[v] = "scan" /\ iter[v] \in Nat
      BY <2>2 DEF ScanSkip, sharedVars
    <3>2. \A i \in DOMAIN m_fibers : i \in Nat
      BY LenProperties DEF QueueOK
    <3>3. m_fibers[iter[v]].thread \notin {ANY, v}
      BY <2>2, SkipsOthers
    <3>4. ASSUME NEW i \in DOMAIN m_fibers, i < iter[v] + 1
          PROVE  m_fibers[i].thread \notin {ANY, v}
      BY <3>1, <3>2, <3>3, <3>4 DEF Scanning
    <3> QED BY <3>1, <3>4 DEF Scanning
  <2>3. CASE ScanTake(v) \/ ScanEnd(v)
    <3>1. pc' = [pc EXCEPT ![v] = "dispatch"] /\ iter' = [iter EXCEPT ![v] = 1]
      BY <2>3 DEF ScanTake, ScanEnd, Unlock
    <3> QED BY <3>1
  <2>4. CASE pc[v] # "scan" /\ pc'[v] # "scan" /\ iter'[v] = iter[v]
    BY <2>4 DEF Scanning
  <2>5. CASE \/ DispatchFiber(v) \/ DispatchDead(v) \/ DispatchCb(v) \/ DispatchIdle(v) \/ Exit(v)
             \/ IdleRound(v) \/ SwapInAssert(v) \/ SwapIn(v)
    BY <2>4, <2>5 DEF DispatchFiber, DispatchDead, DispatchCb, DispatchIdle, Exit, IdleRound,
       SwapInAssert, SwapIn
  <2>6. CASE \/ BodyReturn(v) \/ BodyThrow(v) \/ YieldToReady(v) \/ YieldToHold(v) \/ SwapOut(v)
             \/ Deactivate(v) \/ Requeue(v) \/ Reschedule(v) \/ Park(v)
    BY <2>4, <2>6 DEF BodyReturn, BodyThrow, YieldToReady, YieldToHold, SwapOut, Deactivate,
       Requeue, Reschedule, Park, BodyYield, Release
  <2> QED BY <1>3, <2>1, <2>2, <2>3, <2>5, <2>6 DEF Run
<1>4. ASSUME NEW by \in Threads \cup {NULL}, Client(by)
      PROVE  pc'[v] = pc[v] /\ iter'[v] = iter[v]
  BY <1>4, ClientFrame
<1>5. ASSUME NEW w \in Threads \ {v}, Run(w)
      PROVE  pc'[v] = pc[v] /\ iter'[v] = iter[v]
  BY <1>5, LocalFrame, RunFrame
<1>6. ASSUME NEW w \in Workers, StartThread(w)
      PROVE  \/ pc'[v] = pc[v] /\ iter'[v] = iter[v]
             \/ pc'[v] # "scan" /\ pc[v] # "scan" /\ iter'[v] = iter[v]
  BY <1>6 DEF StartThread, EnterRun
<1>7. CASE StopRoot
  <2>1. pc[Caller] = "off"
    BY <1>7 DEF StopRoot, Shape
  <2>2. \/ pc'[v] = pc[v] /\ iter'[v] = iter[v]
        \/ pc'[v] # "scan" /\ pc[v] # "scan" /\ iter'[v] = iter[v]
    BY <1>7, <2>1 DEF StopRoot, EnterRun
  <2> QED BY <1>1, <1>2, <1>3, <2>2
<1>8. CASE RootReturn \/ Join
  <2>1. \/ pc'[v] = pc[v] /\ iter'[v] = iter[v]
        \/ pc'[v] # "scan" /\ pc[v] # "scan" /\ iter'[v] = iter[v]
    BY <1>8 DEF RootReturn, Join
  <2> QED BY <1>1, <1>2, <1>3, <2>1
<1>9. CASE \/ StartLock \/ StartUnlock \/ StopBegin \/ StopAlone \/ StopSet \/ StopSwap
           \/ StopReturn \/ UNCHANGED vars
  <2>1. pc'[v] = pc[v] /\ iter'[v] = iter[v]
    BY <1>9 DEF StartLock, StartUnlock, StopBegin, StopAlone, StopSet, StopSwap, StopReturn,
       vars
  <2> QED BY <1>1, <1>3, <2>1
<1> QED BY NextKinds, <1>1, <1>2, <1>3, <1>4, <1>5, <1>6, <1>7, <1>8, <1>9

-----------------------------------------------------------------------------
(***************************************************************************)
(* Leaving run().                                                          *)
(***************************************************************************)

\* The locals of thread v do not change.
LocalsKept(v) ==
    /\ pc'[v] = pc[v] /\ ft'[v] = ft[v] /\ cb_fiber'[v] = cb_fiber[v]
    /\ idle_term'[v] = idle_term[v]

\* A thread that does not move keeps its locals, is joined, or is started.
LEMMA OthersFrame ==
    ASSUME BaseInv, Next, NEW v \in Threads, ~Run(v)
    PROVE  \/ LocalsKept(v)
           \/ pc[v] = "exited" /\ pc'[v] = "off"
           \/ pc[v] = "off" /\ pc'[v] = "loop" /\ ~idle_term'[v]
<1> USE DEF BaseInv, TypeOK, LocalTypeOK, localVars, LocalsKept
<1>1. ASSUME NEW by \in Threads \cup {NULL}, Client(by)
      PROVE  LocalsKept(v)
  BY <1>1, ClientFrame
<1>2. ASSUME NEW w \in Threads, Run(w)
      PROVE  LocalsKept(v)
  <2>1. v # w
    BY <1>2
  <2> QED BY <1>2, <2>1, LocalFrame, RunFrame
<1>3. ASSUME NEW w \in Threads, EnterRun(w), pc[w] = "off"
      PROVE  \/ LocalsKept(v)
             \/ pc[v] = "off" /\ pc'[v] = "loop" /\ ~idle_term'[v]
  BY <1>3 DEF EnterRun
<1>4. ASSUME NEW w \in Workers, StartThread(w)
      PROVE  \/ LocalsKept(v)
             \/ pc[v] = "off" /\ pc'[v] = "loop" /\ ~idle_term'[v]
  BY <1>3, <1>4 DEF StartThread, Threads
<1>5. CASE StopRoot
  <2>1. pc[Caller] = "off" /\ Caller \in Threads
    BY <1>5 DEF StopRoot, Shape, Threads
  <2> QED BY <1>3, <1>5, <2>1 DEF StopRoot
<1>6. CASE RootReturn \/ Join
  BY <1>6 DEF RootReturn, Join
<1> QED BY NextKinds, <1>1, <1>2, <1>4, <1>5, <1>6
    DEF vars, StartLock, StartUnlock, StopBegin, StopAlone, StopSet, StopSwap, StopReturn

\* The queue at the end of a scan holds nothing that the thread may take.
LEMMA ScanComplete ==
    ASSUME BaseInv, Scanning, NEW w \in Threads, ScanEnd(w)
    PROVE  UNCHANGED m_fibers /\ \A i \in DOMAIN m_fibers : m_fibers[i].thread \notin {ANY, w}
<1>1. /\ pc[w] = "scan" /\ iter[w] \notin DOMAIN m_fibers /\ UNCHANGED m_fibers
      /\ iter[w] \in Nat
  BY DEF ScanEnd, BaseInv, TypeOK, LocalTypeOK
<1>2. DOMAIN m_fibers = 1 .. Len(m_fibers) /\ Len(m_fibers) \in Nat
  BY LenProperties DEF BaseInv, QueueOK
<1>3. \A i \in DOMAIN m_fibers : i < iter[w]
  BY <1>1, <1>2 DEF Scanning
<1> QED BY <1>1, <1>3 DEF Scanning

\* A worker looks at the queue for the last time in a scan that finds nothing,
\* after its idle fiber saw stopping().
LEMMA OwnLeft ==
    ASSUME BaseInv, OwnerInv, Leavers, NEW w \in Threads, Run(w)
    PROVE  /\ Left(w)' => Left(w) \/ ScanEnd(w)
           /\ idle_term'[w] => idle_term[w] \/ (m_auto_stop /\ m_stopping)
           /\ pc'[w] = "exited" => idle_term'[w]
<1> USE DEF BaseInv, TypeOK, LocalTypeOK, localVars, Left
<1>1. CASE ScanTake(w)
  <2>1. /\ pc'[w] = "dispatch" /\ idle_term'[w] = idle_term[w]
        /\ ft'[w] = m_fibers[iter[w]] /\ iter[w] \in DOMAIN m_fibers
    BY <1>1 DEF ScanTake, Unlock
  <2>2. ft'[w] # NoTask
    <3>1. ft'[w].fiber # NULL \/ ft'[w].cb # NULL
      BY <2>1 DEF QueueOK
    <3>2. NoTask.fiber = NULL /\ NoTask.cb = NULL
      BY DEF NoTask, Task
    <3> QED BY <3>1, <3>2
  <2> QED BY <2>1, <2>2
<1>2. CASE ScanEnd(w)
  BY <1>2 DEF ScanEnd, Unlock
<1>3. CASE Exit(w)
  BY <1>3 DEF Exit
<1>4. CASE IdleRound(w)
  BY <1>4 DEF IdleRound, Stopping
<1>5. ASSUME pc'[w] \notin {"exited", "dispatch"}, idle_term'[w] = idle_term[w]
      PROVE  /\ Left(w)' => Left(w) \/ ScanEnd(w)
             /\ idle_term'[w] => idle_term[w] \/ (m_auto_stop /\ m_stopping)
             /\ pc'[w] = "exited" => idle_term'[w]
  BY <1>5
<1>6. CASE Lock(w) \/ ScanSkip(w)
  BY <1>5, <1>6 DEF Lock, ScanSkip
<1>7. CASE \/ DispatchFiber(w) \/ DispatchDead(w) \/ DispatchCb(w) \/ DispatchIdle(w)
           \/ SwapInAssert(w) \/ SwapIn(w)
  BY <1>5, <1>7 DEF DispatchFiber, DispatchDead, DispatchCb, DispatchIdle, SwapInAssert, SwapIn
<1>8. CASE \/ BodyReturn(w) \/ BodyThrow(w) \/ YieldToReady(w) \/ YieldToHold(w) \/ SwapOut(w)
           \/ Deactivate(w) \/ Requeue(w) \/ Reschedule(w) \/ Park(w)
  BY <1>5, <1>8 DEF BodyReturn, BodyThrow, YieldToReady, YieldToHold, BodyYield, SwapOut,
     Deactivate, Requeue, Reschedule, Park, Release
<1> QED BY <1>1, <1>2, <1>3, <1>4, <1>6, <1>7, <1>8 DEF Run

\* What stop() announced holds until the next start(), when no thread is left.
LEMMA FlagsStay ==
    ASSUME BaseInv, Phases, Next, m_auto_stop, m_stopping, NEW v \in Threads, pc[v] # "off"
    PROVE  m_auto_stop' /\ m_stopping'
<1> USE DEF mainVars
<1>1. ASSUME NEW by \in Threads \cup {NULL}, Client(by) PROVE m_auto_stop' /\ m_stopping'
  BY <1>1, ClientFrame
<1>2. ASSUME NEW w \in Threads, Run(w) PROVE m_auto_stop' /\ m_stopping'
  BY <1>2, RunFrame
<1>3. ~StartLock
  BY AllOff DEF StartLock
<1> QED BY NextKinds, <1>1, <1>2, <1>3
    DEF vars, StartThread, StartUnlock, StopBegin, StopAlone, StopSet, StopRoot, RootReturn,
        StopSwap, Join, StopReturn

LEMMA LeaversStep ==
    ASSUME Contract, BaseInv, OwnerInv, Phases, Scanning, Leavers, Next
    PROVE  Leavers'
<1> SUFFICES ASSUME NEW v \in Threads
             PROVE  /\ pc'[v] # "off" /\ idle_term'[v] => m_auto_stop' /\ m_stopping'
                    /\ pc'[v] = "exited" => idle_term'[v]
                    /\ Left(v)' => \A k \in DOMAIN m_fibers' : m_fibers'[k].thread # v
  BY DEF Leavers
<1>1. pc'[v] # "off" /\ idle_term'[v] => m_auto_stop' /\ m_stopping'
  <2>1. CASE Run(v)
    BY <2>1, OwnLeft, RunFrame, FlagsStay DEF Leavers
  <2>2. CASE ~Run(v)
    BY <2>2, OthersFrame, FlagsStay DEF LocalsKept, Leavers
  <2> QED BY <2>1, <2>2
<1>2. pc'[v] = "exited" => idle_term'[v]
  <2>1. CASE Run(v)
    BY <2>1, OwnLeft
  <2>2. CASE ~Run(v)
    BY <2>2, OthersFrame DEF LocalsKept, Leavers
  <2> QED BY <2>1, <2>2
<1>3. ASSUME Left(v)', NEW k \in DOMAIN m_fibers', m_fibers'[k].thread = v
      PROVE  FALSE
  <2>1. Left(v) \/ ScanEnd(v)
    <3>1. CASE Run(v)
      BY <1>3, <3>1, OwnLeft
    <3>2. CASE ~Run(v)
      BY <1>3, <3>2, OthersFrame DEF LocalsKept, Left
    <3> QED BY <3>1, <3>2
  <2>2. ~ \E i \in DOMAIN m_fibers : m_fibers'[k] = m_fibers[i]
    BY <1>3, <2>1, ScanComplete DEF Leavers
  <2>3. v # ANY
    BY SchedulerConstants
  <2>4. m_stopping' /\ pc'[v] # "off" /\ pc'[v] # "body"
    BY <1>1, <1>2, <1>3 DEF Left
  <2>5. Phases'
    BY PhasesStep
  <2>6. UNCHANGED <<mpc, pc>> /\ mpc \in {"idle", "started", "stopped"}
    BY <1>3, <2>2, <2>3, <2>4, MessageOrigin
  <2>7. mpc = "started"
    BY <2>4, <2>6, AllOff
  <2> QED BY <2>4, <2>5, <2>6, <2>7 DEF Phases
<1> QED BY <1>1, <1>2, <1>3

-----------------------------------------------------------------------------
(***************************************************************************)
(* The end of stop().                                                      *)
(***************************************************************************)

\* stop() lets the threads leave only once all of them are there.
LEMMA EndGameEntry ==
    ASSUME BaseInv, Phases, Next, mpc \notin EndGame, mpc' \in EndGame
    PROVE  /\ UNCHANGED m_fibers /\ \A w \in Workers : pc'[w] # "off"
           /\ \/ StopSet /\ ~UseCaller /\ ~m_stopping /\ UNCHANGED <<pc, ft, idle_term>>
              \/ m_fibers = <<>>
              \/ pc'[Caller] = "loop"
<1> USE DEF EndGame, mainVars
<1>1. StopSet \/ StopRoot
  <2>1. ASSUME NEW by \in Threads \cup {NULL}, Client(by) PROVE UNCHANGED mpc
    BY <2>1, ClientFrame
  <2>2. ASSUME NEW w \in Threads, Run(w) PROVE UNCHANGED mpc
    BY <2>2, RunFrame
  <2> QED BY NextKinds, <2>1, <2>2
      DEF vars, StartThread, StartLock, StartUnlock, StopBegin, StopAlone, RootReturn,
          StopSwap, Join, StopReturn
<1>2. CASE StopSet
  BY <1>2 DEF StopSet, Phases, sharedVars, localVars
<1>3. CASE StopRoot
  <2>1. UNCHANGED m_fibers /\ \A w \in Workers : pc[w] # "off"
    BY <1>3 DEF StopRoot, Phases, sharedVars
  <2>2. CASE Stopping /\ UNCHANGED pc
    BY <2>1, <2>2 DEF Stopping
  <2>3. CASE EnterRun(Caller)
    BY <2>1, <2>3 DEF EnterRun, BaseInv, TypeOK, LocalTypeOK, Threads
  <2> QED BY <1>3, <2>2, <2>3 DEF StopRoot
<1> QED BY <1>1, <1>2, <1>3

\* Whoever puts a message into an empty queue is still there afterwards.
LEMMA SenderStays ==
    ASSUME BaseInv, OwnerInv, Contract, Next, mpc \in EndGame, m_fibers = <<>>, m_fibers' # <<>>
    PROVE  \E w \in Threads : pc'[w] \in {"body", "loop"}
<1>1. ASSUME NEW by \in Threads \cup {NULL}, Client(by)
      PROVE  \E w \in Threads : pc'[w] \in {"body", "loop"}
  BY <1>1, ClientFrame DEF MayCall, EndGame
<1>2. ASSUME NEW w \in Threads, Run(w)
      PROVE  \E v \in Threads : pc'[v] \in {"body", "loop"}
  <2>1. CASE Reschedule(w)
    BY <2>1 DEF Reschedule, Release, BaseInv, TypeOK, LocalTypeOK
  <2>2. ~ScanTake(w)
    BY DEF ScanTake
  <2> QED BY <1>2, <2>1, <2>2
      DEF sharedVars, Run, Lock, ScanSkip, ScanEnd, DispatchFiber, DispatchDead, DispatchCb,
          DispatchIdle, Exit, IdleRound, SwapInAssert, SwapIn, BodyReturn, BodyThrow,
          YieldToReady, YieldToHold, BodyYield, SwapOut, Deactivate, Requeue, Park
<1> QED BY NextKinds, <1>1, <1>2
    DEF vars, sharedVars, StartThread, StartLock, StartUnlock, StopBegin, StopAlone, StopSet,
        StopRoot, RootReturn, StopSwap, Join, StopReturn

\* No message is left without a thread that can take it.
LEMMA TakersStep ==
    ASSUME Contract, BaseInv, OwnerInv, StopInv, Next
    PROVE  Takers'
<1>0. Phases /\ Scanning /\ Leavers /\ Takers
  BY DEF StopInv
<1>a. Caller \in Threads /\ Workers \subseteq Threads /\ Runners \subseteq Threads
      /\ ANY \notin Threads /\ (~UseCaller => Runners = Workers /\ Workers # {})
  BY SchedulerConstants DEF Threads, Runners
<1>1. \A k \in DOMAIN m_fibers' : m_fibers'[k].thread \in Runners \cup {ANY}
  BY <1>0, MessageOrigin DEF Takers
<1>2. ASSUME mpc' \in EndGame, NEW k \in DOMAIN m_fibers', m_fibers'[k].thread # ANY
      PROVE  pc'[m_fibers'[k].thread] # "off"
  <2>1. m_fibers'[k].thread \in Runners
    BY <1>1, <1>2
  <2>2. CASE UNCHANGED <<mpc, pc>> /\ \/ pc[m_fibers'[k].thread] = "body"
                                      \/ mpc \in {"idle", "started", "stopped"}
    BY <1>2, <2>2 DEF EndGame
  <2>3. ASSUME NEW i \in DOMAIN m_fibers, m_fibers'[k] = m_fibers[i]
        PROVE  pc'[m_fibers'[k].thread] # "off"
    <3> DEFINE t == m_fibers[i].thread
    <3>1. t \in Runners /\ t \in Threads /\ t # ANY
      BY <1>2, <1>a, <2>1, <2>3
    <3>2. CASE mpc \in EndGame
      <4>1. pc[t] # "off"
        BY <1>0, <3>1, <3>2 DEF Takers
      <4>2. pc[t] # "exited"
        BY <1>0, <3>1 DEF Leavers, Left
      <4>3. CASE Run(t)
        BY <2>3, <3>1, <4>3, RunFrame
      <4>4. CASE ~Run(t)
        BY <2>3, <3>1, <4>1, <4>2, <4>4, OthersFrame DEF LocalsKept
      <4> QED BY <4>3, <4>4
    <3>3. CASE mpc \notin EndGame
      <4>1. /\ \A w \in Workers : pc'[w] # "off"
            /\ \/ ~UseCaller \/ m_fibers = <<>> \/ pc'[Caller] = "loop"
        BY <1>0, <1>2, <3>3, EndGameEntry
      <4> QED BY <1>a, <2>3, <3>1, <4>1 DEF Threads
    <3> QED BY <3>2, <3>3
  <2> QED BY <1>2, <2>2, <2>3, MessageOrigin
<1>3. ASSUME mpc' \in EndGame, m_fibers' # <<>>
      PROVE  \E w \in Threads : pc'[w] # "off" /\ ~Left(w)'
  <2>1. CASE mpc \notin EndGame
    <3>1. CASE StopSet /\ ~UseCaller /\ ~m_stopping /\ UNCHANGED <<pc, ft, idle_term>>
      <4>1. PICK w \in Workers : pc'[w] # "off"
        BY <1>0, <1>3, <1>a, <2>1, <3>1, EndGameEntry
      <4>2. ~Left(w)
        BY <1>0, <1>a, <3>1, <4>1 DEF Leavers, Left
      <4> QED BY <1>a, <3>1, <4>1, <4>2 DEF Left
    <3>2. CASE pc'[Caller] = "loop"
      BY <1>a, <3>2 DEF Left
    <3> QED BY <1>0, <1>3, <2>1, <3>1, <3>2, EndGameEntry
  <2>2. CASE mpc \in EndGame /\ m_fibers = <<>>
    BY <1>3, <2>2, SenderStays DEF Left
  <2>3. CASE mpc \in EndGame /\ m_fibers # <<>>
    <3>1. PICK w \in Threads : pc[w] # "off" /\ ~Left(w)
      BY <1>0, <2>3 DEF Takers
    <3>2. CASE ScanEnd(w)
      <4>1. UNCHANGED m_fibers /\ \A i \in DOMAIN m_fibers : m_fibers[i].thread \notin {ANY, w}
        BY <1>0, <3>2, ScanComplete
      <4>2. 1 \in DOMAIN m_fibers
        BY <2>3, LenProperties, EmptySeq DEF BaseInv, QueueOK
      <4> DEFINE t == m_fibers[1].thread
      <4>3. t \in Threads /\ t # w /\ t # ANY
        BY <1>0, <1>a, <4>1, <4>2 DEF Takers
      <4>4. pc[t] # "off" /\ ~Left(t)
        BY <1>0, <2>3, <4>2, <4>3 DEF Takers, Leavers
      <4>5. Run(w)
        BY <3>2 DEF Run
      <4>6. pc'[t] = pc[t] /\ ft'[t] = ft[t] /\ idle_term'[t] = idle_term[t]
        BY <4>3, <4>5, LocalFrame, RunFrame
      <4> HIDE DEF t
      <4> QED BY <4>3, <4>4, <4>6 DEF Left
    <3>3. CASE Run(w) /\ ~ScanEnd(w)
      BY <1>0, <3>1, <3>3, OwnLeft, RunFrame
    <3>4. CASE ~Run(w)
      BY <3>1, <3>4, OthersFrame DEF LocalsKept, Left
    <3>5. ScanEnd(w) => Run(w)
      BY DEF Run
    <3> QED BY <3>2, <3>3, <3>4
  <2> QED BY <2>1, <2>2, <2>3
<1> QED BY <1>1, <1>2, <1>3 DEF Takers

-----------------------------------------------------------------------------
(***************************************************************************)
(* The theorem on leaving run().                                           *)
(***************************************************************************)
LEMMA StopInit == Init => StopInv
<1> SUFFICES ASSUME Init PROVE StopInv
  OBVIOUS
<1>1. m_fibers = <<>> /\ DOMAIN m_fibers = {} /\ mpc = "idle"
  BY DEF Init
<1>2. \A w \in Threads : pc[w] = "off" /\ iter[w] = 1
  BY DEF Init
<1>3. Phases
  BY <1>1, <1>2 DEF Init, Phases, Threads
<1>4. Scanning /\ Leavers /\ Takers
  BY <1>1, <1>2 DEF Scanning, Leavers, Left, Takers, EndGame
<1> QED BY <1>3, <1>4 DEF StopInv

LEMMA StopStep ==
    ASSUME Contract, BaseInv, OwnerInv, StopInv, [Next]_vars
    PROVE  StopInv'
<1>1. CASE Next
  BY <1>1, PhasesStep, ScanningStep, LeaversStep, TakersStep DEF StopInv
<1>2. CASE UNCHANGED vars
  BY <1>2 DEF vars, sharedVars, mainVars, localVars, StopInv, Phases, Scanning, Leavers, Left,
     Takers
<1> QED BY <1>1, <1>2

\* With clients that keep to the contract, start() and stop() and the threads of
\* the pool agree on who is there.
THEOREM StopAgreed ==
    ASSUME Contract
    PROVE  Spec => []StopInv
<1>1. BaseInv /\ OwnerInv /\ StopInv /\ [Next]_vars => StopInv'
  BY StopStep
<1> QED BY <1>1, StopInit, BaseInvariant, Ownership, PTL DEF Spec

\* A thread leaves run() only after stop(), and never while a message that only
\* this thread may take is in the queue: for any number of workers and jobs.
THEOREM NoOrphanCorrect ==
    ASSUME Contract
    PROVE  Spec => []NoOrphan
<1>1. StopInv => NoOrphan
  BY DEF StopInv, Leavers, Left, NoOrphan
<1> QED BY <1>1, StopAgreed, PTL

-----------------------------------------------------------------------------
(***************************************************************************)
(* Who writes a fiber object.                                              *)
(***************************************************************************)

\* The members of fiber f do not change.
FiberKept(f) == m_state'[f] = m_state[f] /\ m_cb'[f] = m_cb[f] /\ ctx'[f] = ctx[f]

\* run() writes only the fibers its thread refers to, or creates.
LEMMA Untouched ==
    ASSUME BaseInv, NEW w \in Threads, Run(w), NEW f \in Fibers, ~Refers(w, f),
           m_state[f] # "NONE"
    PROVE  FiberKept(f)
<1> USE DEF BaseInv, TypeOK, FiberTypeOK, fiberVars, FiberKept
<1>1. CASE UNCHANGED fiberVars
  BY <1>1
<1>2. CASE DispatchCb(w)
  BY <1>2 DEF DispatchCb, Construct, Reset, Arm, Refers
<1>3. CASE SwapIn(w)
  BY <1>3, CurFacts DEF SwapIn, SetState, HasFiber
<1>4. CASE BodyReturn(w)
  BY <1>4, CurFacts DEF BodyReturn, Return, SetState, HasFiber
<1>5. CASE BodyThrow(w)
  BY <1>5, CurFacts DEF BodyThrow, Throw, SetState, HasFiber
<1>6. CASE YieldToReady(w)
  BY <1>6, CurFacts DEF YieldToReady, BodyYield, Yield, SetState, HasFiber
<1>7. CASE YieldToHold(w)
  BY <1>7, CurFacts DEF YieldToHold, BodyYield, Yield, SetState, HasFiber
<1>8. CASE Requeue(w)
  BY <1>8, CurFacts DEF Requeue, Reset, Arm, HasFiber
<1>9. CASE Park(w)
  BY <1>9, CurFacts DEF Park, SetState, Release, HasFiber
<1> QED BY <1>1, <1>2, <1>3, <1>4, <1>5, <1>6, <1>7, <1>8, <1>9
    DEF Run, Lock, ScanSkip, ScanTake, ScanEnd, DispatchFiber, DispatchDead,
        DispatchIdle, Exit, IdleRound, SwapInAssert, SwapOut, Deactivate, Reschedule

\* Apart from run(), only the construction of another fiber writes any.
LEMMA FiberFrame ==
    ASSUME BaseInv, OwnerInv, Next, NEW f \in Fibers, m_state[f] # "NONE",
           \A w \in Threads : Run(w) => ~Refers(w, f)
    PROVE  FiberKept(f)
<1>1. ASSUME NEW w \in Threads, Run(w) PROVE FiberKept(f)
  BY <1>1, Untouched
<1>2. ASSUME NEW by \in Threads \cup {NULL}, NEW j \in Jobs, NEW g \in Fibers,
             NEW t \in Threads \cup {ANY}, SubmitFiber(by, j, g, t)
      PROVE  FiberKept(f)
  BY <1>2 DEF SubmitFiber, Construct, Arm, FiberKept, BaseInv, TypeOK, FiberTypeOK
<1>3. CASE UNCHANGED fiberVars
  BY <1>3 DEF fiberVars, FiberKept
<1> QED BY NextActions, <1>1, <1>2, <1>3
    DEF vars, SubmitCb, SubmitBatch, Wake, StartThread, StartLock, StartUnlock, StopBegin,
        StopAlone, StopSet, StopRoot, RootReturn, StopSwap, Join, StopReturn

\* A fiber that thread v holds is written by v alone.
LEMMA HeldFrame ==
    ASSUME BaseInv, OwnerInv, Next, NEW v \in Threads, ~Run(v), NEW f \in Fibers, Refers(v, f)
    PROVE  FiberKept(f)
<1>1. m_state[f] # "NONE" /\ \A w \in Threads : Refers(w, f) => w = v
  BY DEF OwnerInv, FiberStates, RefsDisjoint
<1> QED BY <1>1, FiberFrame

\* A fiber in the queue is not armed again.
LEMMA QueuedFrame ==
    ASSUME BaseInv, OwnerInv, Next, NEW f \in Fibers, Queued(f)
    PROVE  FiberKept(f) \/ m_state'[f] # "INIT"
<1>1. m_state[f] # "NONE"
  BY DEF OwnerInv, FiberStates
<1>2. ASSUME NEW w \in Threads, Run(w), Refers(w, f)
      PROVE  FiberKept(f) \/ m_state'[f] # "INIT"
  <2>1. f = Cur(w) /\ pc[w] \in Leaving /\ (pc[w] # "body" => m_state[f] = "HOLD")
    BY <1>2, FiberConstants DEF OwnerInv, SelfScheduled, Queued, Leaving
  <2> USE DEF BaseInv, TypeOK, FiberTypeOK, fiberVars, FiberKept, Leaving
  <2>2. CASE BodyReturn(w) \/ BodyThrow(w) \/ YieldToReady(w) \/ YieldToHold(w)
    BY <2>1, <2>2 DEF BodyReturn, BodyThrow, YieldToReady, YieldToHold, BodyYield, Return,
       Throw, Yield, SetState
  <2>3. CASE Park(w)
    BY <2>1, <2>3 DEF Park, SetState
  <2>4. CASE Requeue(w)
    BY <2>1, <2>4 DEF Requeue, Finished
  <2>5. CASE SwapOut(w) \/ Deactivate(w)
    BY <2>5 DEF SwapOut, Deactivate
  <2> QED BY <1>2, <2>1, <2>2, <2>3, <2>4, <2>5
      DEF Run, Lock, ScanSkip, ScanTake, ScanEnd, DispatchFiber, DispatchDead, DispatchCb,
          DispatchIdle, Exit, IdleRound, SwapInAssert, SwapIn, Reschedule
<1> QED BY <1>1, <1>2, FiberFrame

-----------------------------------------------------------------------------
(***************************************************************************)
(* The thread a job was submitted for.                                     *)
(***************************************************************************)

\* A job is submitted once.
LEMMA PinStays ==
    ASSUME BaseInv, Next, NEW j \in Jobs, pin[j] # NULL
    PROVE  pin'[j] = pin[j]
<1> USE DEF BaseInv, TypeOK, HistTypeOK, histVars
<1>1. ASSUME NEW w \in Threads, Run(w) PROVE pin'[j] = pin[j]
  BY <1>1, RunFrame
<1> QED BY NextActions, <1>1
    DEF vars, SubmitCb, SubmitFiber, SubmitBatch, Wake, StartThread, StartLock, StartUnlock,
        StopBegin, StopAlone, StopSet, StopRoot, RootReturn, StopSwap, Join, StopReturn

LEMMA EntryStatesStep ==
    ASSUME BaseInv, OwnerInv, EntryStates, Next
    PROVE  EntryStates'
<1> USE DEF BaseInv, TypeOK, FiberTypeOK, fiberVars, EntryStates
<1>1. CASE UNCHANGED <<m_state, ctx>>
  BY <1>1
<1>2. ASSUME NEW g \in Fibers, NEW cb, Arm(g, cb)
      PROVE  EntryStates'
  BY <1>2 DEF Arm
<1>3. ASSUME NEW w \in Threads, Run(w)
      PROVE  EntryStates'
  <2>0. pc[w] \in HasFiber => Cur(w) \in Fibers /\ StateAt(w)
    BY CurFacts DEF OwnerInv, Places
  <2>1. CASE DispatchCb(w)
    BY <1>1, <1>2, <2>1 DEF DispatchCb, Construct, Reset, LocalTypeOK
  <2>2. CASE SwapIn(w)
    BY <2>2 DEF SwapIn, SetState
  <2>3. CASE BodyReturn(w)
    BY <2>3 DEF BodyReturn, Return, SetState
  <2>4. CASE BodyThrow(w)
    BY <2>4 DEF BodyThrow, Throw, SetState
  <2>5. CASE YieldToReady(w)
    BY <2>5 DEF YieldToReady, BodyYield, Yield, SetState
  <2>6. CASE YieldToHold(w)
    BY <2>6 DEF YieldToHold, BodyYield, Yield, SetState
  <2>7. CASE Requeue(w)
    BY <1>1, <1>2, <2>0, <2>7 DEF Requeue, Reset, HasFiber
  <2>8. CASE Park(w)
    BY <2>0, <2>8 DEF Park, SetState, StateAt, HasFiber
  <2> QED BY <1>1, <1>3, <2>1, <2>2, <2>3, <2>4, <2>5, <2>6, <2>7, <2>8
      DEF Run, Lock, ScanSkip, ScanTake, ScanEnd, DispatchFiber, DispatchDead,
          DispatchIdle, Exit, IdleRound, SwapInAssert, SwapOut, Deactivate, Reschedule
<1>4. ASSUME NEW by \in Threads \cup {NULL}, NEW j \in Jobs, NEW g \in Fibers,
             NEW t \in Threads \cup {ANY}, SubmitFiber(by, j, g, t)
      PROVE  EntryStates'
  BY <1>2, <1>4 DEF SubmitFiber, Construct
<1> QED BY NextActions, <1>1, <1>3, <1>4
    DEF vars, SubmitCb, SubmitBatch, Wake, StartThread, StartLock, StartUnlock,
        StopBegin, StopAlone, StopSet, StopRoot, RootReturn, StopSwap, Join, StopReturn

\* What PinnedQueue says of one message.
PinnedMessage(m) ==
    /\ m.cb # NULL => pin[m.cb] = m.thread
    /\ Starting(m.fiber) => pin[m_cb[m.fiber]] = m.thread

\* A message in the queue stays right, and so does one that is taken off.
LEMMA PinnedOld ==
    ASSUME BaseInv, OwnerInv, PinnedQueue, Next, NEW i \in DOMAIN m_fibers,
           NEW m, m = m_fibers[i]
    PROVE  PinnedMessage(m)'
<1>0. m \in Tasks
  BY DEF BaseInv, QueueOK
<1>1. m.fiber \in Fibers \cup {NULL} /\ m.cb \in Jobs \cup {NULL} /\ m.thread # NULL
  BY <1>0, SchedulerConstants DEF Tasks
<1>2. PinnedMessage(m)
  BY DEF PinnedQueue, PinnedMessage
<1>3. m.fiber # NULL => Queued(m.fiber)
  BY DEF Queued
<1>4. m.cb # NULL => pin'[m.cb] = m.thread
  BY <1>1, <1>2, PinStays DEF PinnedMessage
<1>5. ASSUME m.fiber # NULL, m_state'[m.fiber] = "INIT", m_cb'[m.fiber] # NULL
      PROVE  pin'[m_cb'[m.fiber]] = m.thread
  <2>1. m.fiber \in Fibers /\ FiberKept(m.fiber)
    BY <1>1, <1>3, <1>5, QueuedFrame
  <2>2. m_cb[m.fiber] \in Jobs /\ pin[m_cb[m.fiber]] = m.thread
    BY <1>2, <1>5, <2>1 DEF PinnedMessage, Starting, FiberKept, BaseInv, TypeOK, FiberTypeOK
  <2> QED BY <1>1, <2>1, <2>2, PinStays DEF FiberKept
<1> QED BY <1>4, <1>5 DEF PinnedMessage, Starting

LEMMA PinnedQueueStep ==
    ASSUME Contract, BaseInv, OwnerInv, PinnedQueue, Next
    PROVE  PinnedQueue'
<1> SUFFICES ASSUME NEW k \in DOMAIN m_fibers', NEW n, n = m_fibers'[k]
             PROVE  PinnedMessage(n)'
  BY DEF PinnedQueue, PinnedMessage, Starting
<1>0. QueueOK /\ QueueDistinct /\ m_fibers \in Seq(Tasks)
  BY DEF BaseInv, OwnerInv, QueueOK
<1>a. ~Starting(NULL)'
  BY DEF Starting
<1>1. ASSUME NEW i \in DOMAIN m_fibers, n = m_fibers[i]
      PROVE  PinnedMessage(n)'
  BY <1>1, PinnedOld
<1>2. ASSUME NEW m \in Tasks, m_fibers' = scheduleNoLock(m_fibers, m), PinnedMessage(m)'
      PROVE  PinnedMessage(n)'
  BY <1>0, <1>1, <1>2, ScheduleFacts
<1>3. ASSUME NEW by \in Threads \cup {NULL}, NEW j \in Jobs, NEW t \in Threads \cup {ANY},
             SubmitCb(by, j, t)
      PROVE  PinnedMessage(n)'
  <2>1. PICK m \in Tasks : m.fiber = NULL /\ m.cb = j /\ m.thread = t /\ m = Task(NULL, j, t)
    BY DEF Task, Tasks
  <2>2. m_fibers' = scheduleNoLock(m_fibers, m) /\ pin'[j] = t
    BY <1>3, <2>1 DEF SubmitCb, Schedule, BaseInv, TypeOK, HistTypeOK
  <2>3. PinnedMessage(m)'
    BY <1>a, <2>1, <2>2 DEF PinnedMessage
  <2> QED BY <1>2, <2>2, <2>3
<1>4. ASSUME NEW by \in Threads \cup {NULL}, NEW j \in Jobs, NEW f \in Fibers,
             NEW t \in Threads \cup {ANY}, SubmitFiber(by, j, f, t)
      PROVE  PinnedMessage(n)'
  <2>1. PICK m \in Tasks : m.fiber = f /\ m.cb = NULL /\ m.thread = t /\ m = Task(f, NULL, t)
    BY DEF Task, Tasks
  <2>2. m_fibers' = scheduleNoLock(m_fibers, m) /\ pin'[j] = t /\ m_cb'[f] = j
    BY <1>4, <2>1 DEF SubmitFiber, Schedule, Construct, Arm, BaseInv, TypeOK, HistTypeOK,
       FiberTypeOK
  <2>3. PinnedMessage(m)'
    BY <2>1, <2>2 DEF PinnedMessage
  <2> QED BY <1>2, <2>2, <2>3
<1>5. ASSUME NEW f \in Fibers, NEW t \in Threads \cup {ANY}, m_state'[f] # "INIT",
             Schedule(Task(f, NULL, t))
      PROVE  PinnedMessage(n)'
  <2>1. PICK m \in Tasks : m.fiber = f /\ m.cb = NULL /\ m.thread = t /\ m = Task(f, NULL, t)
    BY DEF Task, Tasks
  <2>2. m_fibers' = scheduleNoLock(m_fibers, m)
    BY <1>5, <2>1 DEF Schedule
  <2>3. PinnedMessage(m)'
    BY <1>5, <2>1, <2>2 DEF PinnedMessage, Starting
  <2> QED BY <1>2, <2>2, <2>3
<1>6. ASSUME NEW by \in Threads \cup {NULL}, NEW f \in Fibers, NEW t \in Threads \cup {ANY},
             Wake(by, f, t)
      PROVE  PinnedMessage(n)'
  <2>1. CASE Parked(f)
    BY <1>5, <1>6, <2>1 DEF Wake, Parked, Finished, fiberVars
  <2>2. CASE by \in Threads /\ Cur(by) = f
    <3>1. pc[by] = "body" /\ StateAt(by)
      BY <1>6, <2>2, SchedulerConstants DEF Wake, MayCall, OwnerInv, Places
    <3>2. m_state[f] = "EXEC"
      BY <2>2, <3>1 DEF StateAt
    <3> QED BY <1>5, <1>6, <3>2 DEF Wake, fiberVars
  <2> QED BY <1>6, <2>1, <2>2 DEF Wake
<1>7. ASSUME NEW by \in Threads \cup {NULL}, NEW i \in Jobs, NEW j \in Jobs,
             SubmitBatch(by, i, j)
      PROVE  PinnedMessage(n)'
  <2>0. ASSUME NEW x \in Jobs
        PROVE  /\ Task(NULL, x, ANY) \in Tasks /\ Task(NULL, x, ANY).fiber = NULL
               /\ Task(NULL, x, ANY).cb = x /\ Task(NULL, x, ANY).thread = ANY
    BY DEF Task, Tasks
  <2>a. PICK a \in Tasks :
            a = Task(NULL, i, ANY) /\ a.fiber = NULL /\ a.cb = i /\ a.thread = ANY
    BY <2>0, Zenon
  <2>b. PICK b \in Tasks :
            b = Task(NULL, j, ANY) /\ b.fiber = NULL /\ b.cb = j /\ b.thread = ANY
    BY <2>0, Zenon
  <2>1. /\ a = Task(NULL, i, ANY) /\ a.fiber = NULL /\ a.cb = i /\ a.thread = ANY
        /\ b = Task(NULL, j, ANY) /\ b.fiber = NULL /\ b.cb = j /\ b.thread = ANY
    BY <2>a, <2>b
  <2> DEFINE q == scheduleNoLock(m_fibers, a)
  <2>2. m_fibers' = scheduleNoLock(q, b) /\ pin'[i] = ANY /\ pin'[j] = ANY
    BY <1>7, <2>1 DEF SubmitBatch, BaseInv, TypeOK, HistTypeOK
  <2>3. PinnedMessage(a)' /\ PinnedMessage(b)'
    BY <1>a, <2>1, <2>2 DEF PinnedMessage
  <2>4. /\ q \in Seq(Tasks)
        /\ \A x \in DOMAIN q : (x \in DOMAIN m_fibers /\ q[x] = m_fibers[x]) \/ q[x] = a
    BY <1>0, <2>1, ScheduleFacts
  <2> HIDE DEF q
  <2>5. (k \in DOMAIN q /\ n = q[k]) \/ n = b
    BY <2>1, <2>2, <2>4, ScheduleFacts
  <2> QED BY <1>1, <2>3, <2>4, <2>5
<1>8. CASE UNCHANGED m_fibers
  BY <1>1, <1>8
<1>9. ASSUME NEW w \in Threads, Run(w)
      PROVE  PinnedMessage(n)'
  <2>1. CASE ScanTake(w)
    BY <1>0, <1>1, <2>1, Dequeue DEF ScanTake
  <2>2. CASE Reschedule(w)
    <3>1. Cur(w) \in Fibers /\ m_state[Cur(w)] = "READY"
      BY <2>2, CurFacts DEF Reschedule, HasFiber, OwnerInv, Places, StateAt
    <3>2. m_state'[Cur(w)] # "INIT" /\ Schedule(Task(Cur(w), NULL, ANY))
      BY <2>2, <3>1 DEF Reschedule, fiberVars
    <3> QED BY <1>5, <3>1, <3>2
  <2> QED BY <1>8, <1>9, <2>1, <2>2
      DEF sharedVars, Run, Lock, ScanSkip, ScanEnd, DispatchFiber, DispatchDead,
          DispatchCb, DispatchIdle, Exit, IdleRound, SwapInAssert, SwapIn, BodyReturn,
          BodyThrow, YieldToReady, YieldToHold, SwapOut, Deactivate, Requeue, Park,
          BodyYield
<1> QED BY NextActions, <1>3, <1>4, <1>6, <1>7, <1>8, <1>9
    DEF vars, sharedVars, StartThread, StartLock, StartUnlock, StopBegin, StopAlone, StopSet,
        StopRoot, RootReturn, StopSwap, Join, StopReturn

\* What PinnedWorkers says of one thread.
PinnedAt(w) ==
    /\ pc[w] = "dispatch" /\ ft[w].cb # NULL => pin[ft[w].cb] \in {ANY, w}
    /\ pc[w] = "dispatch" /\ Starting(ft[w].fiber) => pin[m_cb[ft[w].fiber]] \in {ANY, w}
    /\ pc[w] \in {"assert", "enter"} /\ Starting(Cur(w)) => pin[m_cb[Cur(w)]] \in {ANY, w}

\* The job that thread v carries, or has just entered, stays its own.
LEMMA PinnedOthers ==
    ASSUME BaseInv, OwnerInv, Next, NEW v \in Threads, ~Run(v), PinnedAt(v),
           pc[v] = "body" /\ ctx[Cur(v)] = "entry" /\ m_cb[Cur(v)] # NULL =>
               pin[m_cb[Cur(v)]] \in {ANY, v}
    PROVE  /\ PinnedAt(v)'
           /\ pc'[v] = "body" /\ ctx'[Cur(v)'] = "entry" /\ m_cb'[Cur(v)'] # NULL =>
                 pin'[m_cb'[Cur(v)']] \in {ANY, v}
<1>0. NULL \notin {ANY, v} /\ Cur(v) \in Fibers \cup {NULL}
      /\ ft[v].fiber \in Fibers \cup {NULL} /\ ft[v].cb \in Jobs \cup {NULL}
  BY SchedulerConstants DEF BaseInv, TypeOK, LocalTypeOK, Tasks, Cur
<1>1. CASE pc'[v] \in {"off", "loop"}
  BY <1>1 DEF PinnedAt
<1>2. CASE LocalsKept(v)
  <2>1. pc'[v] = pc[v] /\ ft'[v] = ft[v] /\ Cur(v)' = Cur(v)
    BY <1>2 DEF LocalsKept, Cur
  <2>2. ASSUME NEW f \in Fibers, Refers(v, f)
        PROVE  /\ FiberKept(f)
               /\ m_cb[f] # NULL /\ pin[m_cb[f]] \in {ANY, v} => pin'[m_cb[f]] \in {ANY, v}
    <3>1. m_cb[f] \in Jobs \cup {NULL}
      BY DEF BaseInv, TypeOK, FiberTypeOK
    <3> QED BY <1>0, <2>2, <3>1, HeldFrame, PinStays
  <2>3. (ft[v].fiber # NULL => Refers(v, ft[v].fiber)) /\ (Cur(v) # NULL => Refers(v, Cur(v)))
    BY DEF Refers, Cur
  <2>4. pc[v] \in HasFiber => Cur(v) # NULL
    BY CurFacts
  <2>5. ft[v].cb # NULL /\ pin[ft[v].cb] \in {ANY, v} => pin'[ft[v].cb] \in {ANY, v}
    BY <1>0, PinStays
  <2>6. PinnedAt(v)'
    BY <1>0, <2>1, <2>2, <2>3, <2>5 DEF PinnedAt, Starting, FiberKept
  <2> QED BY <1>0, <2>1, <2>2, <2>3, <2>4, <2>6 DEF FiberKept, HasFiber
<1> QED BY <1>1, <1>2, OthersFrame

\* Its own steps: a message it took was for it, a callback it wraps came with the
\* message, and swapIn() enters what it carried.
LEMMA PinnedOwn ==
    ASSUME Contract, BaseInv, OwnerInv, PinInv, NEW v \in Threads, Run(v)
    PROVE  /\ PinnedAt(v)'
           /\ pc'[v] = "body" /\ ctx'[Cur(v)'] = "entry" /\ m_cb'[Cur(v)'] # NULL =>
                 pin'[m_cb'[Cur(v)']] \in {ANY, v}
<1> USE DEF BaseInv, TypeOK, FiberTypeOK, LocalTypeOK, fiberVars, localVars, histVars
<1>0. PinnedAt(v) /\ EntryStates /\ StateAt(v)
  BY DEF PinInv, PinnedWorkers, PinnedAt, OwnerInv, Places
<1>1. CASE pc'[v] \notin {"dispatch", "assert", "enter", "body"}
  BY <1>1 DEF PinnedAt
<1>2. CASE ScanTake(v)
  <2>1. PICK m \in Tasks : /\ m.thread \in {ANY, v} /\ PinnedMessage(m)
                           /\ ft'[v] = m /\ pc'[v] = "dispatch" /\ UNCHANGED <<m_state, m_cb, pin>>
    <3>1. /\ iter[v] \in DOMAIN m_fibers /\ m_fibers[iter[v]].thread \in {ANY, v}
          /\ ft'[v] = m_fibers[iter[v]] /\ pc'[v] = "dispatch" /\ UNCHANGED <<m_state, m_cb, pin>>
      BY <1>2 DEF ScanTake, Unlock, Runnable
    <3>2. m_fibers[iter[v]] \in Tasks /\ PinnedMessage(m_fibers[iter[v]])
      BY <3>1 DEF QueueOK, PinInv, PinnedQueue, PinnedMessage
    <3> QED BY <3>1, <3>2, Zenon
  <2> QED BY <2>1 DEF PinnedAt, PinnedMessage, Starting
<1>3. CASE ScanEnd(v)
  <2>1. pc'[v] = "dispatch" /\ ft'[v] = NoTask
    BY <1>3 DEF ScanEnd, Unlock, Shape
  <2>2. NoTask.fiber = NULL /\ NoTask.cb = NULL
    BY DEF NoTask, Task
  <2> QED BY <2>1, <2>2 DEF PinnedAt, Starting
<1>4. CASE DispatchFiber(v)
  <2>1. /\ pc[v] = "dispatch" /\ pc'[v] = "assert" /\ ft[v].fiber # NULL
        /\ UNCHANGED <<m_state, m_cb, pin, ft, cb_fiber>>
    BY <1>4 DEF DispatchFiber
  <2> QED BY <1>0, <2>1 DEF PinnedAt, Starting, Cur
<1>5. CASE DispatchCb(v)
  <2>1. /\ pc[v] = "dispatch" /\ ft[v].cb # NULL /\ pc'[v] \in {"assert", "abort"}
        /\ ft'[v] = NoTask /\ UNCHANGED pin
    BY <1>5 DEF DispatchCb
  <2>2. pc'[v] = "assert" => m_cb'[cb_fiber'[v]] = ft[v].cb
    BY <1>5 DEF DispatchCb, Construct, Reset, Arm
  <2>3. Cur(v)' = cb_fiber'[v]
    BY <2>1 DEF Cur, NoTask, Task
  <2> QED BY <1>0, <2>1, <2>2, <2>3 DEF PinnedAt
<1>6. CASE SwapInAssert(v)
  <2>1. /\ pc[v] = "assert" /\ pc'[v] \in {"enter", "abort"}
        /\ UNCHANGED <<m_state, m_cb, pin, ft, cb_fiber>>
    BY <1>6 DEF SwapInAssert
  <2> QED BY <1>0, <2>1 DEF PinnedAt, Starting, Cur
<1>7. CASE SwapIn(v)
  <2>1. /\ pc[v] = "enter" /\ pc'[v] \in {"body", "abort", "corrupt"}
        /\ UNCHANGED <<m_cb, ctx, pin, ft, cb_fiber>>
    BY <1>7 DEF SwapIn
  <2>2. Cur(v) \in Fibers /\ Cur(v) # NULL /\ Cur(v)' = Cur(v)
    BY <2>1, CurFacts DEF HasFiber, Cur
  <2>3. ctx[Cur(v)] = "entry" => m_state[Cur(v)] = "INIT"
    BY <1>0, <2>1, <2>2 DEF EntryStates, StateAt
  <2> QED BY <1>0, <2>1, <2>2, <2>3 DEF PinnedAt, Starting
<1>8. CASE ScanSkip(v) \/ Lock(v)
  BY <1>1, <1>8 DEF ScanSkip, Lock
<1>9. CASE DispatchDead(v) \/ DispatchIdle(v) \/ Exit(v) \/ IdleRound(v)
  BY <1>1, <1>9 DEF DispatchDead, DispatchIdle, Exit, IdleRound
<1>10. CASE \/ BodyReturn(v) \/ BodyThrow(v) \/ YieldToReady(v) \/ YieldToHold(v) \/ SwapOut(v)
            \/ Deactivate(v) \/ Requeue(v) \/ Reschedule(v) \/ Park(v)
  BY <1>1, <1>10 DEF BodyReturn, BodyThrow, YieldToReady, YieldToHold, BodyYield, SwapOut,
     Deactivate, Requeue, Reschedule, Park, Release
<1> QED BY <1>2, <1>3, <1>4, <1>5, <1>6, <1>7, <1>8, <1>9, <1>10 DEF Run

LEMMA PinInit == Init => PinInv
<1> SUFFICES ASSUME Init PROVE PinInv
  OBVIOUS
<1>1. m_fibers = <<>> /\ DOMAIN m_fibers = {} /\ \A w \in Threads : pc[w] = "off"
  BY DEF Init
<1>2. EntryStates
  BY DEF Init, FiberInit, EntryStates
<1> QED BY <1>1, <1>2 DEF PinInv, PinnedQueue, PinnedWorkers, StartsWherePinned

LEMMA PinStep ==
    ASSUME Contract, BaseInv, OwnerInv, PinInv, [Next]_vars
    PROVE  PinInv'
<1>1. CASE Next
  <2>1. EntryStates' /\ PinnedQueue'
    BY <1>1, EntryStatesStep, PinnedQueueStep DEF PinInv
  <2>2. ASSUME NEW v \in Threads
        PROVE  /\ PinnedAt(v)'
               /\ pc'[v] = "body" /\ ctx'[Cur(v)'] = "entry" /\ m_cb'[Cur(v)'] # NULL =>
                     pin'[m_cb'[Cur(v)']] \in {ANY, v}
    <3>1. PinnedAt(v) /\ (pc[v] = "body" /\ ctx[Cur(v)] = "entry" /\ m_cb[Cur(v)] # NULL =>
                             pin[m_cb[Cur(v)]] \in {ANY, v})
      BY DEF PinInv, PinnedWorkers, PinnedAt, StartsWherePinned
    <3>2. CASE Run(v)
      BY <3>2, PinnedOwn
    <3>3. CASE ~Run(v)
      BY <1>1, <3>1, <3>3, PinnedOthers
    <3> QED BY <3>2, <3>3
  <2>3. PinnedWorkers'
    BY <2>2 DEF PinnedWorkers, PinnedAt
  <2>4. StartsWherePinned'
    BY <2>2 DEF StartsWherePinned
  <2> QED BY <2>1, <2>3, <2>4 DEF PinInv
<1>2. CASE UNCHANGED vars
  BY <1>2 DEF vars, fiberVars, sharedVars, localVars, histVars, PinInv, EntryStates, PinnedQueue,
     PinnedWorkers, Starting, StartsWherePinned, Cur
<1> QED BY <1>1, <1>2

\* Until it starts, a job is with messages and threads that name its thread.
THEOREM PinKept ==
    ASSUME Contract
    PROVE  Spec => []PinInv
<1>1. BaseInv /\ OwnerInv /\ PinInv /\ [Next]_vars => PinInv'
  BY PinStep
<1> QED BY <1>1, PinInit, BaseInvariant, Ownership, PTL DEF Spec

\* schedule(fc, thread): a callback or fiber given to one thread starts there.
THEOREM StartsWherePinnedCorrect ==
    ASSUME Contract
    PROVE  Spec => []StartsWherePinned
<1>1. PinInv => StartsWherePinned
  BY DEF PinInv
<1> QED BY <1>1, PinKept, PTL

-----------------------------------------------------------------------------
(***************************************************************************)
(* Where a job is.                                                         *)
(***************************************************************************)

\* The step queues no callback, hands none to a worker, and arms no fiber.
QuietQueue ==
    \A k \in DOMAIN m_fibers' : m_fibers'[k].cb # NULL =>
        k \in DOMAIN m_fibers /\ m_fibers'[k] = m_fibers[k]
QuietWorkers == \A w \in Threads : ft'[w].cb # NULL => ft'[w].cb = ft[w].cb
QuietFibers ==
    \A f \in Fibers : m_cb'[f] # NULL =>
        m_cb'[f] = m_cb[f] /\ (m_state'[f] \in Finished <=> m_state[f] \in Finished)

\* schedule() of a fiber queues no callback.
LEMMA QuietSchedule ==
    ASSUME BaseInv, NEW m \in Tasks, m.cb = NULL, m_fibers' = scheduleNoLock(m_fibers, m)
    PROVE  QuietQueue
<1>1. m_fibers \in Seq(Tasks)
  BY DEF BaseInv, QueueOK
<1> QED BY <1>1, ScheduleFacts DEF QuietQueue

\* Nothing else does, apart from the actions named.
LEMMA QuietQueueStep ==
    ASSUME BaseInv, Next,
           ~ \E by \in Threads \cup {NULL}, j \in Jobs, t \in Threads \cup {ANY} : SubmitCb(by, j, t),
           ~ \E by \in Threads \cup {NULL}, i \in Jobs, j \in Jobs : SubmitBatch(by, i, j),
           ~ \E w \in Threads : ScanTake(w)
    PROVE  QuietQueue
<1>1. CASE UNCHANGED m_fibers
  BY <1>1 DEF QuietQueue
<1>2. ASSUME NEW f \in Fibers, NEW t \in Threads \cup {ANY}, Schedule(Task(f, NULL, t))
      PROVE  QuietQueue
  <2>1. Task(f, NULL, t) \in Tasks /\ Task(f, NULL, t).cb = NULL
    BY DEF Task, Tasks
  <2> QED BY <1>2, <2>1, QuietSchedule DEF Schedule
<1>3. ASSUME NEW by \in Threads \cup {NULL}, NEW j \in Jobs, NEW f \in Fibers,
             NEW t \in Threads \cup {ANY}, SubmitFiber(by, j, f, t)
      PROVE  QuietQueue
  BY <1>2, <1>3 DEF SubmitFiber
<1>4. ASSUME NEW by \in Threads \cup {NULL}, NEW f \in Fibers, NEW t \in Threads \cup {ANY},
             Wake(by, f, t)
      PROVE  QuietQueue
  BY <1>2, <1>4 DEF Wake
<1>5. ASSUME NEW w \in Threads, Run(w)
      PROVE  QuietQueue
  <2>1. CASE Reschedule(w)
    <3>1. Cur(w) \in Fibers /\ Schedule(Task(Cur(w), NULL, ANY))
      BY <2>1, CurFacts DEF Reschedule, HasFiber
    <3> QED BY <1>2, <3>1
  <2> QED BY <1>1, <1>5, <2>1
      DEF sharedVars, Run, Lock, ScanSkip, ScanEnd, DispatchFiber, DispatchDead,
          DispatchCb, DispatchIdle, Exit, IdleRound, SwapInAssert, SwapIn, BodyReturn,
          BodyThrow, YieldToReady, YieldToHold, SwapOut, Deactivate, Requeue, Park,
          BodyYield
<1> QED BY NextActions, <1>1, <1>3, <1>4, <1>5
    DEF vars, sharedVars, StartThread, StartLock, StartUnlock, StopBegin, StopAlone, StopSet,
        StopRoot, RootReturn, StopSwap, Join, StopReturn

\* A callback in ft comes from a scan, and leaves it for a fiber.
LEMMA QuietWorkersStep ==
    ASSUME BaseInv, Messages, Next, NEW w \in Threads, ft'[w].cb # NULL, ~ScanTake(w)
    PROVE  pc'[w] = "dispatch" /\ ft'[w] = ft[w]
<1>0. NoTask.cb = NULL /\ NoTask.fiber = NULL
  BY DEF NoTask, Task
<1> USE DEF BaseInv, TypeOK, LocalTypeOK, localVars
<1>1. CASE Run(w)
  <2>1. ASSUME pc[w] # "dispatch", ft'[w] = ft[w] \/ ft'[w] = NoTask PROVE FALSE
    BY <1>0, <2>1 DEF Messages
  <2>2. CASE DispatchFiber(w) \/ DispatchDead(w) \/ DispatchCb(w) \/ DispatchIdle(w) \/ Exit(w)
    BY <1>0, <2>2 DEF DispatchFiber, DispatchDead, DispatchCb, DispatchIdle, Exit, Messages
  <2>3. CASE Lock(w) \/ ScanSkip(w) \/ ScanEnd(w) \/ IdleRound(w) \/ SwapInAssert(w) \/ SwapIn(w)
    BY <2>1, <2>3 DEF Lock, ScanSkip, ScanEnd, IdleRound, SwapInAssert, SwapIn
  <2>4. CASE BodyReturn(w) \/ BodyThrow(w) \/ YieldToReady(w) \/ YieldToHold(w) \/ SwapOut(w)
    BY <2>1, <2>4 DEF BodyReturn, BodyThrow, YieldToReady, YieldToHold, BodyYield, SwapOut
  <2>5. CASE Deactivate(w) \/ Requeue(w) \/ Reschedule(w) \/ Park(w)
    BY <2>1, <2>5 DEF Deactivate, Requeue, Reschedule, Park, Release
  <2> QED BY <1>1, <2>2, <2>3, <2>4, <2>5 DEF Run
<1>2. CASE ~Run(w)
  <2>1. CASE LocalsKept(w)
    BY <2>1 DEF LocalsKept, Messages
  <2>2. ASSUME NEW v \in Threads, EnterRun(v), UNCHANGED iter
        PROVE  ft'[w] = ft[w] \/ ft'[w] = NoTask
    BY <2>2 DEF EnterRun
  <2>3. ASSUME NEW v \in Workers, StartThread(v) PROVE LocalsKept(w) \/ ft'[w] = NoTask
    BY <2>3 DEF StartThread, EnterRun, LocalsKept
  <2>4. CASE StopRoot
    <3>1. LocalsKept(w) \/ ft'[w] = NoTask
      BY <2>4 DEF StopRoot, EnterRun, LocalsKept
    <3> QED BY <1>0, <2>1, <3>1
  <2>5. CASE RootReturn \/ Join
    <3>1. (pc'[w] = pc[w] \/ pc[w] = "exited") /\ ft'[w] = ft[w]
      BY <2>5 DEF RootReturn, Join
    <3> QED BY <3>1 DEF Messages
  <2>6. ASSUME NEW by \in Threads \cup {NULL}, Client(by) PROVE LocalsKept(w)
    BY <2>6, ClientFrame DEF LocalsKept
  <2>7. ASSUME NEW v \in Threads, Run(v) PROVE LocalsKept(w)
    <3>1. v # w
      BY <1>2, <2>7
    <3> QED BY <2>7, <3>1, LocalFrame, RunFrame DEF LocalsKept
  <2>8. CASE \/ StartLock \/ StartUnlock \/ StopBegin \/ StopAlone \/ StopSet \/ StopSwap
             \/ StopReturn \/ UNCHANGED vars
    <3>1. LocalsKept(w)
      BY <2>8 DEF LocalsKept, StartLock, StartUnlock, StopBegin, StopAlone, StopSet, StopSwap,
         StopReturn, vars
    <3> QED BY <2>1, <3>1
  <2> QED BY NextKinds, <1>0, <2>1, <2>3, <2>4, <2>5, <2>6, <2>7, <2>8
<1> QED BY <1>1, <1>2

LEMMA MessagesStep ==
    ASSUME BaseInv, OwnerInv, Messages, Next
    PROVE  Messages'
<1>0. QueueOK /\ QueueDistinct /\ m_fibers \in Seq(Tasks)
  BY DEF BaseInv, OwnerInv, QueueOK
<1>1. ASSUME NEW k \in DOMAIN m_fibers', m_fibers'[k].cb # NULL PROVE m_fibers'[k].fiber = NULL
  <2>1. CASE \E i \in DOMAIN m_fibers : m_fibers'[k] = m_fibers[i]
    BY <1>1, <2>1 DEF Messages
  <2>2. ASSUME NEW by \in Threads \cup {NULL}, NEW j \in Jobs, NEW t \in Threads \cup {ANY},
               SubmitCb(by, j, t)
        PROVE  m_fibers'[k].fiber = NULL
    <3>1. Task(NULL, j, t) \in Tasks /\ Task(NULL, j, t).fiber = NULL
      BY DEF Task, Tasks
    <3>2. m_fibers' = scheduleNoLock(m_fibers, Task(NULL, j, t))
      BY <2>2 DEF SubmitCb, Schedule
    <3> QED BY <1>0, <2>1, <3>1, <3>2, ScheduleFacts
  <2>3. ASSUME NEW by \in Threads \cup {NULL}, NEW i \in Jobs, NEW j \in Jobs,
               SubmitBatch(by, i, j)
        PROVE  m_fibers'[k].fiber = NULL
    <3> DEFINE a == Task(NULL, i, ANY)
               b == Task(NULL, j, ANY)
    <3>1. a \in Tasks /\ b \in Tasks /\ a.fiber = NULL /\ b.fiber = NULL
      BY DEF Task, Tasks
    <3>2. m_fibers' = scheduleNoLock(scheduleNoLock(m_fibers, a), b)
      BY <2>3 DEF SubmitBatch
    <3> HIDE DEF a, b
    <3> QED BY <1>0, <2>1, <3>1, <3>2, EnqueueTwo
  <2>4. ASSUME NEW w \in Threads, ScanTake(w)
        PROVE  m_fibers'[k].fiber = NULL
    BY <1>0, <2>1, <2>4, Dequeue DEF ScanTake
  <2>5. CASE QuietQueue
    BY <1>1, <2>1, <2>5 DEF QuietQueue
  <2> QED BY <2>2, <2>3, <2>4, <2>5, QuietQueueStep
<1>2. ASSUME NEW w \in Threads, ft'[w].cb # NULL
      PROVE  pc'[w] = "dispatch" /\ ft'[w].fiber = NULL
  <2>1. CASE ScanTake(w)
    <3>1. pc'[w] = "dispatch" /\ iter[w] \in DOMAIN m_fibers /\ ft'[w] = m_fibers[iter[w]]
      BY <2>1 DEF ScanTake, Unlock, BaseInv, TypeOK, LocalTypeOK
    <3> QED BY <1>2, <3>1 DEF Messages
  <2>2. CASE ~ScanTake(w)
    BY <1>2, <2>2, QuietWorkersStep DEF Messages
  <2> QED BY <2>1, <2>2
<1> QED BY <1>1, <1>2 DEF Messages

\* m_fibers.erase(iter): the other messages stay, each once.
LEMMA EraseIndex ==
    ASSUME QueueOK, NEW n \in DOMAIN m_fibers, m_fibers' = RemoveAt(m_fibers, n)
    PROVE  \E pos \in [DOMAIN m_fibers' -> DOMAIN m_fibers \ {n}] :
              /\ \A k \in DOMAIN m_fibers' : m_fibers'[k] = m_fibers[pos[k]]
              /\ \A i, k \in DOMAIN m_fibers' : pos[i] = pos[k] => i = k
              /\ \A i \in DOMAIN m_fibers \ {n} : \E k \in DOMAIN m_fibers' : pos[k] = i
<1> DEFINE pos == [k \in DOMAIN m_fibers' |-> IF k < n THEN k ELSE k + 1]
<1>1. DOMAIN m_fibers = 1 .. Len(m_fibers) /\ Len(m_fibers) \in Nat
  BY LenProperties DEF QueueOK
<1>2. /\ DOMAIN m_fibers' = 1 .. (Len(m_fibers) - 1)
      /\ \A k \in DOMAIN m_fibers' : m_fibers'[k] = m_fibers[IF k < n THEN k ELSE k + 1]
  BY RemoveAtFacts DEF QueueOK
<1>3. pos \in [DOMAIN m_fibers' -> DOMAIN m_fibers \ {n}]
  BY <1>1, <1>2
<1>4. \A k \in DOMAIN m_fibers' : m_fibers'[k] = m_fibers[pos[k]]
  BY <1>2
<1>5. \A i, k \in DOMAIN m_fibers' : pos[i] = pos[k] => i = k
  BY <1>1, <1>2
<1>6. ASSUME NEW i \in DOMAIN m_fibers \ {n}
      PROVE  \E k \in DOMAIN m_fibers' : pos[k] = i
  <2>1. CASE i < n
    <3>1. i \in DOMAIN m_fibers' /\ pos[i] = i
      BY <1>1, <1>2, <2>1
    <3> QED BY <3>1
  <2>2. CASE ~(i < n)
    <3>1. i - 1 \in DOMAIN m_fibers' /\ pos[i - 1] = i
      BY <1>1, <1>2, <2>2
    <3> QED BY <3>1
  <2> QED BY <2>1, <2>2
<1> HIDE DEF pos
<1> QED BY <1>3, <1>4, <1>5, <1>6

\* A job that was not submitted is nowhere.
LEMMA Nowhere ==
    ASSUME Lives, NEW j \in Jobs, pin[j] = NULL
    PROVE  /\ \A f \in Fibers : m_cb[f] # j
           /\ \A i \in DOMAIN m_fibers : m_fibers[i].cb # j
           /\ \A w \in Threads : ft[w].cb # j
           /\ j \notin finished
<1>1. j # NULL
  BY FiberConstants
<1> QED BY <1>1 DEF Lives

\* schedule() of a callback appends it to the queue.
LEMMA QueueCallback ==
    ASSUME NEW q \in Seq(Tasks), NEW m \in Tasks, m.cb # NULL
    PROVE  /\ scheduleNoLock(q, m) \in Seq(Tasks)
           /\ Len(scheduleNoLock(q, m)) = Len(q) + 1 /\ Len(q) \in Nat
           /\ DOMAIN q = 1 .. Len(q) /\ DOMAIN scheduleNoLock(q, m) = 1 .. (Len(q) + 1)
           /\ \A k \in 1 .. Len(q) : scheduleNoLock(q, m)[k] = q[k]
           /\ scheduleNoLock(q, m)[Len(q) + 1] = m
<1>1. scheduleNoLock(q, m) = Append(q, m)
  BY DEF scheduleNoLock
<1>2. /\ Append(q, m) \in Seq(Tasks) /\ DOMAIN Append(q, m) = 1 .. (Len(q) + 1)
      /\ \A k \in 1 .. Len(q) : Append(q, m)[k] = q[k]
      /\ Append(q, m)[Len(q) + 1] = m
      /\ Len(Append(q, m)) = Len(q) + 1
      /\ DOMAIN q = 1 .. Len(q) /\ Len(q) \in Nat
  BY AppendFacts, AppendProperties, LenProperties
<1> QED BY <1>1, <1>2

\* The message of schedule(cb, thread).
LEMMA CallbackTask ==
    ASSUME NEW j \in Jobs, NEW t \in Threads \cup {ANY}
    PROVE  \E m \in Tasks : /\ m = Task(NULL, j, t) /\ m.cb = j /\ m.cb # NULL
                            /\ m.fiber = NULL /\ m.thread = t
<1>1. /\ Task(NULL, j, t) \in Tasks /\ Task(NULL, j, t).cb = j /\ j # NULL
      /\ Task(NULL, j, t).fiber = NULL /\ Task(NULL, j, t).thread = t
  BY FiberConstants DEF Task, Tasks
<1> QED BY <1>1, Zenon

\* A callback moves from the worker to a fiber that has none.
LEMMA DispatchCbFacts ==
    ASSUME BaseInv, OwnerInv, Messages, Vacant, NEW w \in Threads, DispatchCb(w)
    PROVE  \E f \in Fibers :
              /\ pc[w] = "dispatch" /\ ft[w].fiber = NULL /\ ft[w].cb \in Jobs
              /\ m_cb[f] = NULL /\ ~Queued(f) /\ (\A v \in Threads \ {w} : ~Refers(v, f))
              /\ pc'[w] = "assert" /\ ft'[w] = NoTask /\ cb_fiber'[w] = f
              /\ \A v \in Threads \ {w} : ft'[v] = ft[v]
              /\ m_state'[f] = "INIT" /\ m_cb'[f] = ft[w].cb
              /\ \A g \in Fibers \ {f} : m_cb'[g] = m_cb[g] /\ m_state'[g] = m_state[g]
              /\ UNCHANGED <<m_fibers, pin, finished>>
<1> USE DEF BaseInv, TypeOK, LocalTypeOK, FiberTypeOK, fiberVars, sharedVars, histVars
<1>1. /\ pc[w] = "dispatch" /\ ft[w].fiber = NULL /\ ft[w].cb \in Jobs
      /\ ft'[w] = NoTask /\ (\A v \in Threads \ {w} : ft'[v] = ft[v])
      /\ UNCHANGED <<m_fibers, pin, finished>>
  BY DEF DispatchCb, Tasks
<1>2. pc'[w] # "abort"
  <2>1. Run(w)
    BY DEF Run
  <2> QED BY <2>1, RunIsSafe
<1>3. PICK f \in Fibers : Arm(f, ft[w].cb) /\ pc'[w] = "assert" /\ cb_fiber'[w] = f
                          /\ (m_state[f] = "NONE" \/ f = cb_fiber[w])
  BY <1>2 DEF DispatchCb, Construct, Reset
<1>4. m_cb[f] = NULL /\ ~Queued(f) /\ \A v \in Threads \ {w} : ~Refers(v, f)
  <2>1. CASE m_state[f] = "NONE"
    BY <2>1 DEF Vacant, OwnerInv, FiberStates
  <2>2. CASE f = cb_fiber[w]
    <3>1. Refers(w, f) /\ f # NULL
      BY <2>2, FiberConstants DEF Refers
    <3>2. m_cb[f] = NULL
      BY <1>1, <2>2, <3>1 DEF Vacant, HasFiber
    <3>3. ~Queued(f)
      BY <1>1, <3>1 DEF OwnerInv, SelfScheduled, Queued
    <3>4. \A v \in Threads \ {w} : ~Refers(v, f)
      BY <3>1 DEF OwnerInv, RefsDisjoint
    <3> QED BY <3>2, <3>3, <3>4
  <2> QED BY <1>3, <2>1, <2>2
<1>5. /\ m_state'[f] = "INIT" /\ m_cb'[f] = ft[w].cb
      /\ \A g \in Fibers \ {f} : m_cb'[g] = m_cb[g] /\ m_state'[g] = m_state[g]
  BY <1>3 DEF Arm
<1> QED BY <1>1, <1>3, <1>4, <1>5

\* A fiber gets a callback from its constructor or from reset(), and ends with its
\* callback.
LEMMA QuietFibersStep ==
    ASSUME BaseInv, OwnerInv, Next,
           ~ \E by \in Threads \cup {NULL}, j \in Jobs, f \in Fibers, t \in Threads \cup {ANY} :
                SubmitFiber(by, j, f, t),
           ~ \E w \in Threads : DispatchCb(w) \/ BodyReturn(w) \/ BodyThrow(w)
    PROVE  QuietFibers /\ UNCHANGED finished
<1> USE DEF BaseInv, TypeOK, FiberTypeOK, fiberVars, histVars, QuietFibers, Finished
<1>1. ASSUME UNCHANGED fiberVars PROVE QuietFibers
  BY <1>1
<1>2. ASSUME NEW w \in Threads, Run(w)
      PROVE  QuietFibers /\ UNCHANGED finished
  <2>0. UNCHANGED finished
    BY <1>2 DEF Run, Lock, ScanSkip, ScanTake, ScanEnd, DispatchFiber, DispatchDead,
        DispatchIdle, Exit, IdleRound, SwapInAssert, SwapIn, YieldToReady,
        YieldToHold, SwapOut, Deactivate, Requeue, Reschedule, Park, BodyYield
  <2>1. ASSUME NEW f \in Fibers, UNCHANGED m_cb, NEW st, m_state' = [m_state EXCEPT ![f] = st],
               st \notin Finished, m_state[f] \notin Finished
        PROVE  QuietFibers
    BY <2>1
  <2>a. pc[w] \in HasFiber => Cur(w) \in Fibers /\ StateAt(w)
    BY CurFacts DEF OwnerInv, Places
  <2>2. CASE SwapIn(w)
    BY <2>1, <2>2, <2>a DEF SwapIn, SetState, StateAt, HasFiber
  <2>3. CASE YieldToReady(w) \/ YieldToHold(w)
    BY <2>1, <2>3, <2>a DEF YieldToReady, YieldToHold, BodyYield, Yield, SetState, StateAt, HasFiber
  <2>4. CASE Park(w)
    BY <2>1, <2>4, <2>a DEF Park, SetState, StateAt, HasFiber
  <2>5. CASE Requeue(w)
    BY <1>1, <2>5, <2>a DEF Requeue, Reset, Arm, HasFiber
  <2> QED BY <1>1, <1>2, <2>0, <2>2, <2>3, <2>4, <2>5
      DEF Run, Lock, ScanSkip, ScanTake, ScanEnd, DispatchFiber, DispatchDead,
          DispatchIdle, Exit, IdleRound, SwapInAssert, SwapOut, Deactivate, Reschedule
<1> QED BY NextActions, <1>1, <1>2
    DEF vars, SubmitCb, SubmitBatch, Wake, StartThread, StartLock, StartUnlock, StopBegin,
        StopAlone, StopSet, StopRoot, RootReturn, StopSwap, Join, StopReturn

\* The end of a turn: the job of the fiber is over, the others are as they were.
LEMMA TurnOver ==
    ASSUME BaseInv, OwnerInv, NEW w \in Threads, BodyReturn(w) \/ BodyThrow(w)
    PROVE  /\ pc[w] = "body" /\ pc'[w] = "swapout" /\ Cur(w) \in Fibers
           /\ finished' = finished \cup ({m_cb[Cur(w)]} \ {NULL})
           /\ m_state'[Cur(w)] \in Finished
           /\ m_cb'[Cur(w)] \in {NULL, m_cb[Cur(w)]}
           /\ \A g \in Fibers \ {Cur(w)} : m_cb'[g] = m_cb[g] /\ m_state'[g] = m_state[g]
           /\ UNCHANGED <<m_fibers, ft, cb_fiber, pin>>
<1> USE DEF BaseInv, TypeOK, LocalTypeOK, FiberTypeOK, localVars, sharedVars
<1>1. pc[w] = "body"
  BY DEF BodyReturn, BodyThrow
<1>2. Cur(w) \in Fibers
  BY <1>1, CurFacts DEF HasFiber
<1>3. CASE BodyReturn(w)
  BY <1>1, <1>2, <1>3 DEF BodyReturn, Return, SetState, Finished
<1>4. CASE BodyThrow(w)
  BY <1>1, <1>2, <1>4 DEF BodyThrow, Throw, SetState, Finished
<1> QED BY <1>3, <1>4

\* schedule(fiber, thread): one message at the end of the queue.
LEMMA ScheduleFiberFacts ==
    ASSUME BaseInv, NEW f \in Fibers, NEW t \in Threads \cup {ANY}, Schedule(Task(f, NULL, t))
    PROVE  /\ \A k \in DOMAIN m_fibers' :
                 \/ k \in DOMAIN m_fibers /\ m_fibers'[k] = m_fibers[k]
                 \/ m_fibers'[k].cb = NULL /\ m_fibers'[k].fiber = f
           /\ \A k \in DOMAIN m_fibers : k \in DOMAIN m_fibers' /\ m_fibers'[k] = m_fibers[k]
           /\ \E k \in DOMAIN m_fibers' : m_fibers'[k].fiber = f
<1>1. Task(f, NULL, t) \in Tasks /\ Task(f, NULL, t).cb = NULL /\ Task(f, NULL, t).fiber = f
  BY DEF Task, Tasks
<1>2. PICK m \in Tasks : m = Task(f, NULL, t) /\ m.cb = NULL /\ m.fiber = f
  BY <1>1, Zenon
<1>3. m_fibers \in Seq(Tasks) /\ m_fibers' = Append(m_fibers, m)
  BY <1>2, FiberConstants DEF Schedule, scheduleNoLock, BaseInv, QueueOK
<1>4. /\ DOMAIN m_fibers = 1 .. Len(m_fibers) /\ Len(m_fibers) \in Nat
      /\ DOMAIN m_fibers' = 1 .. (Len(m_fibers) + 1)
      /\ \A k \in 1 .. Len(m_fibers) : m_fibers'[k] = m_fibers[k]
      /\ m_fibers'[Len(m_fibers) + 1] = m
  BY <1>3, AppendFacts, LenProperties
<1> QED BY <1>2, <1>4

\* schedule(cb, thread), batch and fiber: the new messages, and what stays.
LEMMA SubmitCbFacts ==
    ASSUME BaseInv, NEW by \in Threads \cup {NULL}, NEW j \in Jobs,
           NEW t \in Threads \cup {ANY}, SubmitCb(by, j, t)
    PROVE  /\ pin[j] = NULL /\ pin'[j] # NULL /\ \A i \in Jobs \ {j} : pin'[i] = pin[i]
           /\ UNCHANGED <<m_state, m_cb, ctx, pc, ft, cb_fiber, finished, mpc>>
           /\ \A k \in DOMAIN m_fibers' :
                 \/ k \in DOMAIN m_fibers /\ m_fibers'[k] = m_fibers[k]
                 \/ /\ k = Len(m_fibers) + 1
                    /\ m_fibers'[k].cb = j /\ m_fibers'[k].fiber = NULL
           /\ \A k \in DOMAIN m_fibers : k \in DOMAIN m_fibers' /\ m_fibers'[k] = m_fibers[k]
           /\ \E k \in DOMAIN m_fibers' : m_fibers'[k].cb = j
<1>1. /\ pin[j] = NULL /\ pin'[j] # NULL /\ \A i \in Jobs \ {j} : pin'[i] = pin[i]
      /\ UNCHANGED <<m_state, m_cb, ctx, pc, ft, cb_fiber, finished, mpc>>
  BY SchedulerConstants DEF SubmitCb, fiberVars, localVars, mainVars, BaseInv, TypeOK, HistTypeOK
<1>2. PICK m \in Tasks : m = Task(NULL, j, t) /\ m.cb = j /\ m.cb # NULL /\ m.fiber = NULL
  BY CallbackTask
<1>3. m_fibers \in Seq(Tasks) /\ m_fibers' = scheduleNoLock(m_fibers, m)
  BY <1>2 DEF SubmitCb, Schedule, BaseInv, QueueOK
<1>4. /\ DOMAIN m_fibers = 1 .. Len(m_fibers) /\ Len(m_fibers) \in Nat
      /\ DOMAIN m_fibers' = 1 .. (Len(m_fibers) + 1)
      /\ \A k \in 1 .. Len(m_fibers) : m_fibers'[k] = m_fibers[k]
      /\ m_fibers'[Len(m_fibers) + 1] = m
  BY <1>2, <1>3, QueueCallback
<1> QED BY <1>1, <1>2, <1>4

LEMMA SubmitBatchFacts ==
    ASSUME BaseInv, NEW by \in Threads \cup {NULL}, NEW i \in Jobs, NEW j \in Jobs,
           SubmitBatch(by, i, j)
    PROVE  /\ pin[i] = NULL /\ pin[j] = NULL /\ pin'[i] # NULL /\ pin'[j] # NULL /\ i # j
           /\ \A x \in Jobs \ {i, j} : pin'[x] = pin[x]
           /\ UNCHANGED <<m_state, m_cb, ctx, pc, ft, cb_fiber, finished, mpc>>
           /\ \A k \in DOMAIN m_fibers' :
                 \/ k \in DOMAIN m_fibers /\ m_fibers'[k] = m_fibers[k]
                 \/ /\ k = Len(m_fibers) + 1
                    /\ m_fibers'[k].cb = i /\ m_fibers'[k].fiber = NULL
                 \/ /\ k = Len(m_fibers) + 2
                    /\ m_fibers'[k].cb = j /\ m_fibers'[k].fiber = NULL
           /\ \A k \in DOMAIN m_fibers : k \in DOMAIN m_fibers' /\ m_fibers'[k] = m_fibers[k]
           /\ \E k \in DOMAIN m_fibers' : m_fibers'[k].cb = i
           /\ \E k \in DOMAIN m_fibers' : m_fibers'[k].cb = j
<1>1. /\ pin[i] = NULL /\ pin[j] = NULL /\ pin'[i] # NULL /\ pin'[j] # NULL /\ i # j
      /\ \A x \in Jobs \ {i, j} : pin'[x] = pin[x]
      /\ UNCHANGED <<m_state, m_cb, ctx, pc, ft, cb_fiber, finished, mpc>>
  BY SchedulerConstants
     DEF SubmitBatch, fiberVars, localVars, mainVars, BaseInv, TypeOK, HistTypeOK
<1>2. PICK a \in Tasks : a = Task(NULL, i, ANY) /\ a.cb = i /\ a.cb # NULL /\ a.fiber = NULL
  BY CallbackTask
<1>3. PICK b \in Tasks : b = Task(NULL, j, ANY) /\ b.cb = j /\ b.cb # NULL /\ b.fiber = NULL
  BY CallbackTask
<1> DEFINE q == scheduleNoLock(m_fibers, a)
           n == Len(m_fibers)
<1>4. m_fibers \in Seq(Tasks) /\ m_fibers' = scheduleNoLock(q, b)
  BY <1>2, <1>3 DEF SubmitBatch, BaseInv, QueueOK
<1>5. /\ DOMAIN m_fibers = 1 .. n /\ n \in Nat
      /\ q \in Seq(Tasks) /\ DOMAIN q = 1 .. (n + 1) /\ Len(q) = n + 1
      /\ (\A k \in 1 .. n : q[k] = m_fibers[k]) /\ q[n + 1] = a
  BY <1>2, <1>4, QueueCallback
<1> HIDE DEF q, n
<1>6. /\ DOMAIN m_fibers' = 1 .. (Len(q) + 1)
      /\ (\A k \in 1 .. Len(q) : m_fibers'[k] = q[k]) /\ m_fibers'[Len(q) + 1] = b
  BY <1>3, <1>4, <1>5, QueueCallback
<1>7. /\ DOMAIN m_fibers' = 1 .. (n + 2)
      /\ \A k \in 1 .. n : m_fibers'[k] = m_fibers[k]
      /\ m_fibers'[n + 1] = a /\ m_fibers'[n + 2] = b
  BY <1>5, <1>6
<1>8. /\ \A k \in DOMAIN m_fibers' :
            (k \in DOMAIN m_fibers /\ m_fibers'[k] = m_fibers[k]) \/ k = n + 1 \/ k = n + 2
      /\ \A k \in DOMAIN m_fibers : k \in DOMAIN m_fibers' /\ m_fibers'[k] = m_fibers[k]
      /\ n + 1 \in DOMAIN m_fibers' /\ n + 2 \in DOMAIN m_fibers'
  BY <1>5, <1>7
<1> QED BY <1>1, <1>2, <1>3, <1>7, <1>8 DEF n

LEMMA SubmitFiberFacts ==
    ASSUME BaseInv, NEW by \in Threads \cup {NULL}, NEW j \in Jobs, NEW f \in Fibers,
           NEW t \in Threads \cup {ANY}, SubmitFiber(by, j, f, t)
    PROVE  /\ pin[j] = NULL /\ pin'[j] # NULL /\ \A i \in Jobs \ {j} : pin'[i] = pin[i]
           /\ UNCHANGED <<pc, ft, cb_fiber, finished, mpc>>
           /\ m_state[f] = "NONE" /\ m_state'[f] = "INIT" /\ m_cb'[f] = j
           /\ \A g \in Fibers \ {f} : m_state'[g] = m_state[g] /\ m_cb'[g] = m_cb[g]
           /\ \A k \in DOMAIN m_fibers' :
                 \/ k \in DOMAIN m_fibers /\ m_fibers'[k] = m_fibers[k]
                 \/ m_fibers'[k].cb = NULL /\ m_fibers'[k].fiber = f
           /\ \A k \in DOMAIN m_fibers : k \in DOMAIN m_fibers' /\ m_fibers'[k] = m_fibers[k]
           /\ \E k \in DOMAIN m_fibers' : m_fibers'[k].fiber = f
<1>1. /\ pin[j] = NULL /\ pin'[j] # NULL /\ \A i \in Jobs \ {j} : pin'[i] = pin[i]
      /\ UNCHANGED <<pc, ft, cb_fiber, finished, mpc>>
  BY SchedulerConstants DEF SubmitFiber, localVars, mainVars, BaseInv, TypeOK, HistTypeOK
<1>2. /\ m_state[f] = "NONE" /\ m_state'[f] = "INIT" /\ m_cb'[f] = j
      /\ \A g \in Fibers \ {f} : m_state'[g] = m_state[g] /\ m_cb'[g] = m_cb[g]
  BY DEF SubmitFiber, Construct, Arm, BaseInv, TypeOK, FiberTypeOK
<1>3. Schedule(Task(f, NULL, t))
  BY DEF SubmitFiber
<1> QED BY <1>1, <1>2, <1>3, ScheduleFiberFacts

LEMMA OnePlaceQuiet ==
    ASSUME OnePlace, QuietQueue, QuietWorkers, \A f \in Fibers : m_cb'[f] # NULL => m_cb'[f] = m_cb[f]
    PROVE  OnePlace'
<1> SUFFICES ASSUME NEW j \in Jobs
             PROVE  /\ \A f, g \in Fibers : m_cb'[f] = j /\ m_cb'[g] = j => f = g
                    /\ \A i, k \in DOMAIN m_fibers' :
                          m_fibers'[i].cb = j /\ m_fibers'[k].cb = j => i = k
                    /\ \A v, w \in Threads : ft'[v].cb = j /\ ft'[w].cb = j => v = w
                    /\ \A i \in DOMAIN m_fibers', f \in Fibers : m_fibers'[i].cb = j => m_cb'[f] # j
                    /\ \A w \in Threads, f \in Fibers : ft'[w].cb = j => m_cb'[f] # j
                    /\ \A i \in DOMAIN m_fibers', w \in Threads : m_fibers'[i].cb = j => ft'[w].cb # j
  BY DEF OnePlace
<1>1. j # NULL
  BY FiberConstants
<1>2. \A f \in Fibers : m_cb'[f] = j => m_cb[f] = j
  BY <1>1
<1>3. \A k \in DOMAIN m_fibers' : m_fibers'[k].cb = j => k \in DOMAIN m_fibers /\ m_fibers[k].cb = j
  BY <1>1 DEF QuietQueue
<1>4. \A w \in Threads : ft'[w].cb = j => ft[w].cb = j
  BY <1>1 DEF QuietWorkers
<1> QED BY <1>2, <1>3, <1>4 DEF OnePlace

\* A job moves from place to place and is never copied.
LEMMA OnePlaceStep ==
    ASSUME BaseInv, OwnerInv, JobInv, Next
    PROVE  OnePlace'
<1>0. Messages /\ OnePlace /\ Lives /\ Vacant /\ m_fibers \in Seq(Tasks)
  BY DEF JobInv, BaseInv, QueueOK
<1> DEFINE Goal(j) ==
             /\ \A f, g \in Fibers : m_cb'[f] = j /\ m_cb'[g] = j => f = g
             /\ \A i, k \in DOMAIN m_fibers' : m_fibers'[i].cb = j /\ m_fibers'[k].cb = j => i = k
             /\ \A v, w \in Threads : ft'[v].cb = j /\ ft'[w].cb = j => v = w
             /\ \A i \in DOMAIN m_fibers', f \in Fibers : m_fibers'[i].cb = j => m_cb'[f] # j
             /\ \A w \in Threads, f \in Fibers : ft'[w].cb = j => m_cb'[f] # j
             /\ \A i \in DOMAIN m_fibers', w \in Threads : m_fibers'[i].cb = j => ft'[w].cb # j
<1>1. ASSUME NEW w \in Threads, ScanTake(w) PROVE OnePlace'
  <2> SUFFICES ASSUME NEW j \in Jobs PROVE Goal(j)
    BY DEF OnePlace
  <2>1. /\ iter[w] \in DOMAIN m_fibers /\ m_fibers' = RemoveAt(m_fibers, iter[w])
        /\ ft'[w] = m_fibers[iter[w]] /\ (\A v \in Threads \ {w} : ft'[v] = ft[v])
        /\ UNCHANGED m_cb /\ ft[w].cb = NULL
    BY <1>1 DEF ScanTake, fiberVars, BaseInv, TypeOK, LocalTypeOK, Shape, NoTask, Task
  <2>2. PICK pos \in [DOMAIN m_fibers' -> DOMAIN m_fibers \ {iter[w]}] :
              /\ \A k \in DOMAIN m_fibers' : m_fibers'[k] = m_fibers[pos[k]]
              /\ \A i, k \in DOMAIN m_fibers' : pos[i] = pos[k] => i = k
    BY <2>1, EraseIndex DEF BaseInv
  <2>3. ASSUME NEW k \in DOMAIN m_fibers'
        PROVE  /\ pos[k] \in DOMAIN m_fibers /\ pos[k] # iter[w]
               /\ m_fibers'[k].cb = m_fibers[pos[k]].cb
    <3>1. pos[k] \in DOMAIN m_fibers \ {iter[w]}
      BY <2>2, <2>3
    <3> QED BY <2>2, <2>3, <3>1
  <2>4. \A i, k \in DOMAIN m_fibers' : m_fibers'[i].cb = j /\ m_fibers'[k].cb = j => i = k
    BY <1>0, <2>2, <2>3 DEF OnePlace
  <2>5. \A v, u \in Threads : ft'[v].cb = j /\ ft'[u].cb = j => v = u
    BY <1>0, <2>1 DEF OnePlace
  <2>6. \A i \in DOMAIN m_fibers', v \in Threads : m_fibers'[i].cb = j => ft'[v].cb # j
    <3>1. ASSUME NEW i \in DOMAIN m_fibers', m_fibers'[i].cb = j, ft'[w].cb = j PROVE FALSE
      BY <1>0, <2>1, <2>3, <3>1 DEF OnePlace
    <3>2. ASSUME NEW i \in DOMAIN m_fibers', m_fibers'[i].cb = j,
                 NEW v \in Threads \ {w}, ft'[v].cb = j
          PROVE  FALSE
      BY <1>0, <2>1, <2>3, <3>2 DEF OnePlace
    <3> QED BY <3>1, <3>2
  <2>7. \A i \in DOMAIN m_fibers', f \in Fibers : m_fibers'[i].cb = j => m_cb'[f] # j
    BY <1>0, <2>1, <2>3 DEF OnePlace
  <2>8. \A v \in Threads, f \in Fibers : ft'[v].cb = j => m_cb'[f] # j
    BY <1>0, <2>1 DEF OnePlace
  <2>9. \A f, g \in Fibers : m_cb'[f] = j /\ m_cb'[g] = j => f = g
    BY <1>0, <2>1 DEF OnePlace
  <2> QED BY <2>4, <2>5, <2>6, <2>7, <2>8, <2>9
<1>2. ASSUME NEW w \in Threads, DispatchCb(w) PROVE OnePlace'
  <2> SUFFICES ASSUME NEW j \in Jobs PROVE Goal(j)
    BY DEF OnePlace
  <2>1. PICK f \in Fibers :
              /\ ft[w].cb \in Jobs /\ m_cb[f] = NULL
              /\ ft'[w] = NoTask /\ \A v \in Threads \ {w} : ft'[v] = ft[v]
              /\ m_cb'[f] = ft[w].cb /\ \A g \in Fibers \ {f} : m_cb'[g] = m_cb[g]
              /\ UNCHANGED m_fibers
    BY <1>0, <1>2, DispatchCbFacts
  <2>2. ft'[w].cb # j
    BY <2>1, FiberConstants DEF NoTask, Task
  <2> QED BY <1>0, <2>1, <2>2 DEF OnePlace
<1>3. ASSUME NEW by \in Threads \cup {NULL}, NEW j0 \in Jobs, NEW t \in Threads \cup {ANY},
             SubmitCb(by, j0, t)
      PROVE  OnePlace'
  <2> SUFFICES ASSUME NEW j \in Jobs PROVE Goal(j)
    BY DEF OnePlace
  <2>1. /\ pin[j0] = NULL /\ UNCHANGED <<m_cb, ft>>
        /\ \A k \in DOMAIN m_fibers' : \/ k \in DOMAIN m_fibers /\ m_fibers'[k] = m_fibers[k]
                                       \/ k = Len(m_fibers) + 1 /\ m_fibers'[k].cb = j0
    BY <1>3, SubmitCbFacts
  <2>2. /\ \A f \in Fibers : m_cb[f] # j0
        /\ \A i \in DOMAIN m_fibers : m_fibers[i].cb # j0
        /\ \A w \in Threads : ft[w].cb # j0
    BY <1>0, <2>1, Nowhere
  <2> QED BY <1>0, <2>1, <2>2 DEF OnePlace
<1>4. ASSUME NEW by \in Threads \cup {NULL}, NEW j0 \in Jobs, NEW f0 \in Fibers,
             NEW t \in Threads \cup {ANY}, SubmitFiber(by, j0, f0, t)
      PROVE  OnePlace'
  <2> SUFFICES ASSUME NEW j \in Jobs PROVE Goal(j)
    BY DEF OnePlace
  <2>1. /\ UNCHANGED ft /\ pin[j0] = NULL /\ m_cb'[f0] = j0
        /\ \A g \in Fibers \ {f0} : m_cb'[g] = m_cb[g]
        /\ \A k \in DOMAIN m_fibers' : \/ k \in DOMAIN m_fibers /\ m_fibers'[k] = m_fibers[k]
                                       \/ m_fibers'[k].cb = NULL
    BY <1>4, SubmitFiberFacts
  <2>2. /\ \A f \in Fibers : m_cb[f] # j0
        /\ \A i \in DOMAIN m_fibers : m_fibers[i].cb # j0
        /\ \A w \in Threads : ft[w].cb # j0
    BY <1>0, <2>1, Nowhere
  <2>3. \A k \in DOMAIN m_fibers' : m_fibers'[k].cb = j => k \in DOMAIN m_fibers /\ m_fibers[k].cb = j
    BY <2>1, FiberConstants
  <2> QED BY <1>0, <2>1, <2>2, <2>3 DEF OnePlace
<1>5. ASSUME NEW by \in Threads \cup {NULL}, NEW i0 \in Jobs, NEW j0 \in Jobs,
             SubmitBatch(by, i0, j0)
      PROVE  OnePlace'
  <2> SUFFICES ASSUME NEW j \in Jobs PROVE Goal(j)
    BY DEF OnePlace
  <2>1. /\ pin[i0] = NULL /\ pin[j0] = NULL /\ i0 # j0 /\ UNCHANGED <<m_cb, ft>>
        /\ \A k \in DOMAIN m_fibers' : \/ k \in DOMAIN m_fibers /\ m_fibers'[k] = m_fibers[k]
                                       \/ k = Len(m_fibers) + 1 /\ m_fibers'[k].cb = i0
                                       \/ k = Len(m_fibers) + 2 /\ m_fibers'[k].cb = j0
    BY <1>5, SubmitBatchFacts
  <2>2. \A x \in {i0, j0} : /\ \A f \in Fibers : m_cb[f] # x
                            /\ \A i \in DOMAIN m_fibers : m_fibers[i].cb # x
                            /\ \A w \in Threads : ft[w].cb # x
    BY <1>0, <2>1, Nowhere
  <2> QED BY <1>0, <2>1, <2>2 DEF OnePlace
<1>6. ASSUME ~ \E by \in Threads \cup {NULL}, j \in Jobs, t \in Threads \cup {ANY} : SubmitCb(by, j, t),
             ~ \E by \in Threads \cup {NULL}, i \in Jobs, j \in Jobs : SubmitBatch(by, i, j),
             ~ \E w \in Threads : ScanTake(w),
             ~ \E by \in Threads \cup {NULL}, j \in Jobs, f \in Fibers, t \in Threads \cup {ANY} :
                  SubmitFiber(by, j, f, t),
             ~ \E w \in Threads : DispatchCb(w)
      PROVE  OnePlace'
  <2>1. QuietQueue /\ QuietWorkers
    BY <1>0, <1>6, QuietQueueStep, QuietWorkersStep DEF QuietWorkers
  <2>2. \A f \in Fibers : m_cb'[f] # NULL => m_cb'[f] = m_cb[f]
    <3>1. ASSUME NEW w \in Threads, BodyReturn(w) \/ BodyThrow(w)
          PROVE  \A f \in Fibers : m_cb'[f] # NULL => m_cb'[f] = m_cb[f]
      BY <3>1, TurnOver
    <3>2. CASE ~ \E w \in Threads : BodyReturn(w) \/ BodyThrow(w)
      BY <1>6, <3>2, QuietFibersStep DEF QuietFibers
    <3> QED BY <3>1, <3>2
  <2> QED BY <1>0, <2>1, <2>2, OnePlaceQuiet
<1> HIDE DEF Goal
<1> QED BY <1>1, <1>2, <1>3, <1>4, <1>5, <1>6

LEMMA LivesQuiet ==
    ASSUME BaseInv, Next, Lives, QuietQueue, QuietWorkers, QuietFibers, UNCHANGED finished
    PROVE  Lives'
<1> USE DEF BaseInv, TypeOK, FiberTypeOK, LocalTypeOK, HistTypeOK
<1>1. \A f \in Fibers : m_cb'[f] # NULL =>
         pin'[m_cb'[f]] # NULL /\ (m_cb'[f] \in finished' <=> m_state'[f] \in Finished)
  <2>1. ASSUME NEW f \in Fibers, m_cb'[f] # NULL
        PROVE  pin'[m_cb'[f]] # NULL /\ (m_cb'[f] \in finished' <=> m_state'[f] \in Finished)
    <3>1. m_cb'[f] = m_cb[f] /\ m_cb[f] \in Jobs /\ (m_state'[f] \in Finished <=> m_state[f] \in Finished)
      BY <2>1 DEF QuietFibers
    <3>2. pin[m_cb[f]] # NULL /\ (m_cb[f] \in finished <=> m_state[f] \in Finished)
      BY <2>1, <3>1 DEF Lives
    <3> QED BY <3>1, <3>2, PinStays
  <2> QED BY <2>1
<1>2. \A i \in DOMAIN m_fibers' : m_fibers'[i].cb # NULL =>
         pin'[m_fibers'[i].cb] # NULL /\ m_fibers'[i].cb \notin finished'
  <2>1. ASSUME NEW i \in DOMAIN m_fibers', m_fibers'[i].cb # NULL
        PROVE  pin'[m_fibers'[i].cb] # NULL /\ m_fibers'[i].cb \notin finished'
    <3>1. i \in DOMAIN m_fibers /\ m_fibers'[i] = m_fibers[i] /\ m_fibers[i] \in Tasks
      BY <2>1 DEF QuietQueue, QueueOK
    <3>2. m_fibers[i].cb \in Jobs /\ pin[m_fibers[i].cb] # NULL /\ m_fibers[i].cb \notin finished
      BY <2>1, <3>1 DEF Lives, Tasks
    <3> QED BY <3>1, <3>2, PinStays
  <2> QED BY <2>1
<1>3. \A w \in Threads : ft'[w].cb # NULL => pin'[ft'[w].cb] # NULL /\ ft'[w].cb \notin finished'
  <2>1. ASSUME NEW w \in Threads, ft'[w].cb # NULL
        PROVE  pin'[ft'[w].cb] # NULL /\ ft'[w].cb \notin finished'
    <3>1. ft'[w].cb = ft[w].cb /\ ft[w].cb \in Jobs
      BY <2>1 DEF QuietWorkers, Tasks
    <3>2. pin[ft[w].cb] # NULL /\ ft[w].cb \notin finished
      BY <2>1, <3>1 DEF Lives
    <3> QED BY <3>1, <3>2, PinStays
  <2> QED BY <2>1
<1>4. \A j \in finished' : pin'[j] # NULL
  BY PinStays DEF Lives
<1> QED BY <1>1, <1>2, <1>3, <1>4 DEF Lives

\* A job is over when its callback returned or threw, and not before.
LEMMA LivesStep ==
    ASSUME BaseInv, OwnerInv, JobInv, Next
    PROVE  Lives'
<1>0. Messages /\ OnePlace /\ Lives /\ Vacant
  BY DEF JobInv
<1>a. /\ \A f \in Fibers : m_cb[f] # NULL => m_cb[f] \in Jobs
      /\ \A i \in DOMAIN m_fibers : m_fibers[i].cb # NULL => m_fibers[i].cb \in Jobs
      /\ \A w \in Threads : ft[w].cb # NULL => ft[w].cb \in Jobs
      /\ finished \subseteq Jobs /\ NULL \notin Jobs
  <2>1. \A i \in DOMAIN m_fibers : m_fibers[i] \in Tasks
    BY DEF BaseInv, QueueOK
  <2> QED BY <2>1, FiberConstants
      DEF Tasks, BaseInv, TypeOK, FiberTypeOK, LocalTypeOK, HistTypeOK
<1>b. \A j \in Jobs : pin[j] # NULL => pin'[j] # NULL
  BY PinStays
<1>1. ASSUME NEW by \in Threads \cup {NULL}, NEW j0 \in Jobs, NEW t \in Threads \cup {ANY},
             SubmitCb(by, j0, t)
      PROVE  Lives'
  <2>1. /\ pin[j0] = NULL /\ pin'[j0] # NULL /\ UNCHANGED <<m_state, m_cb, ft, finished>>
        /\ \A k \in DOMAIN m_fibers' : \/ k \in DOMAIN m_fibers /\ m_fibers'[k] = m_fibers[k]
                                       \/ m_fibers'[k].cb = j0
    BY <1>1, SubmitCbFacts
  <2>2. j0 \notin finished
    BY <1>0, <2>1, Nowhere
  <2> QED BY <1>0, <1>a, <1>b, <2>1, <2>2 DEF Lives
<1>2. ASSUME NEW by \in Threads \cup {NULL}, NEW i0 \in Jobs, NEW j0 \in Jobs,
             SubmitBatch(by, i0, j0)
      PROVE  Lives'
  <2>1. /\ pin[j0] = NULL /\ pin'[j0] # NULL /\ pin[i0] = NULL /\ pin'[i0] # NULL
        /\ UNCHANGED <<m_state, m_cb, ft, finished>>
        /\ \A k \in DOMAIN m_fibers' : \/ k \in DOMAIN m_fibers /\ m_fibers'[k] = m_fibers[k]
                                       \/ m_fibers'[k].cb = j0
                                       \/ m_fibers'[k].cb = i0
    BY <1>2, SubmitBatchFacts
  <2>2. i0 \notin finished /\ j0 \notin finished
    BY <1>0, <2>1, Nowhere
  <2> QED BY <1>0, <1>a, <1>b, <2>1, <2>2 DEF Lives
<1>3. ASSUME NEW by \in Threads \cup {NULL}, NEW j0 \in Jobs, NEW f0 \in Fibers,
             NEW t \in Threads \cup {ANY}, SubmitFiber(by, j0, f0, t)
      PROVE  Lives'
  <2>1. /\ pin[j0] = NULL /\ pin'[j0] # NULL /\ UNCHANGED <<ft, finished>>
        /\ m_state'[f0] \notin Finished /\ m_cb'[f0] = j0
        /\ \A g \in Fibers \ {f0} : m_state'[g] = m_state[g] /\ m_cb'[g] = m_cb[g]
        /\ \A k \in DOMAIN m_fibers' : \/ k \in DOMAIN m_fibers /\ m_fibers'[k] = m_fibers[k]
                                       \/ m_fibers'[k].cb = NULL
    BY <1>3, SubmitFiberFacts DEF Finished
  <2>2. j0 \notin finished
    BY <1>0, <2>1, Nowhere
  <2> QED BY <1>0, <1>a, <1>b, <2>1, <2>2 DEF Lives
<1>4. ASSUME NEW w \in Threads, ScanTake(w) PROVE Lives'
  <2>1. /\ iter[w] \in DOMAIN m_fibers /\ m_fibers' = RemoveAt(m_fibers, iter[w])
        /\ ft'[w] = m_fibers[iter[w]] /\ (\A v \in Threads \ {w} : ft'[v] = ft[v])
        /\ UNCHANGED <<m_cb, m_state, pin, finished>>
    BY <1>4 DEF ScanTake, fiberVars, histVars, BaseInv, TypeOK, LocalTypeOK
  <2>2. \A k \in DOMAIN m_fibers' : \E i \in DOMAIN m_fibers : m_fibers'[k] = m_fibers[i]
    BY <2>1, Dequeue DEF OwnerInv, BaseInv
  <2> QED BY <1>0, <2>1, <2>2 DEF Lives
<1>5. ASSUME NEW w \in Threads, DispatchCb(w) PROVE Lives'
  <2>1. PICK f \in Fibers :
              /\ ft[w].cb \in Jobs /\ ft'[w].cb = NULL
              /\ \A v \in Threads \ {w} : ft'[v] = ft[v]
              /\ m_cb'[f] = ft[w].cb /\ m_state'[f] = "INIT"
              /\ \A g \in Fibers \ {f} : m_cb'[g] = m_cb[g] /\ m_state'[g] = m_state[g]
              /\ UNCHANGED <<m_fibers, pin, finished>>
    <3>1. NoTask.cb = NULL
      BY DEF NoTask, Task
    <3> QED BY <1>0, <1>5, <3>1, DispatchCbFacts
  <2> QED BY <1>0, <1>a, <2>1 DEF Lives, Finished
<1>6. ASSUME NEW w \in Threads, BodyReturn(w) \/ BodyThrow(w) PROVE Lives'
  <2> DEFINE c == Cur(w)
  <2>1. /\ c \in Fibers /\ finished' = finished \cup ({m_cb[c]} \ {NULL})
        /\ m_state'[c] \in Finished /\ m_cb'[c] \in {NULL, m_cb[c]}
        /\ \A g \in Fibers \ {c} : m_cb'[g] = m_cb[g] /\ m_state'[g] = m_state[g]
        /\ UNCHANGED <<m_fibers, ft, cb_fiber, pin>>
    BY <1>6, TurnOver
  <2> HIDE DEF c
  <2>2. /\ \A g \in Fibers \ {c} : m_cb[g] # NULL => m_cb[g] # m_cb[c]
        /\ \A i \in DOMAIN m_fibers : m_fibers[i].cb # NULL => m_fibers[i].cb # m_cb[c]
        /\ \A v \in Threads : ft[v].cb # NULL => ft[v].cb # m_cb[c]
    BY <1>0, <1>a, <2>1 DEF OnePlace
  <2>3. m_cb[c] # NULL => pin[m_cb[c]] # NULL
    BY <1>0, <2>1 DEF Lives
  <2>4. \A f \in Fibers : m_cb'[f] # NULL =>
           pin'[m_cb'[f]] # NULL /\ (m_cb'[f] \in finished' <=> m_state'[f] \in Finished)
    BY <1>0, <2>1, <2>2, <2>3 DEF Lives
  <2>5. \A j \in finished' : pin'[j] # NULL
    BY <1>0, <2>1, <2>3 DEF Lives
  <2> QED BY <1>0, <2>1, <2>2, <2>4, <2>5 DEF Lives
<1>7. ASSUME ~ \E by \in Threads \cup {NULL}, j \in Jobs, t \in Threads \cup {ANY} : SubmitCb(by, j, t),
             ~ \E by \in Threads \cup {NULL}, i \in Jobs, j \in Jobs : SubmitBatch(by, i, j),
             ~ \E w \in Threads : ScanTake(w),
             ~ \E by \in Threads \cup {NULL}, j \in Jobs, f \in Fibers, t \in Threads \cup {ANY} :
                  SubmitFiber(by, j, f, t),
             ~ \E w \in Threads : DispatchCb(w) \/ BodyReturn(w) \/ BodyThrow(w)
      PROVE  Lives'
  <2>1. QuietQueue /\ QuietWorkers
    BY <1>0, <1>7, QuietQueueStep, QuietWorkersStep DEF QuietWorkers
  <2>2. QuietFibers /\ UNCHANGED finished
    BY <1>7, QuietFibersStep
  <2> QED BY <1>0, <2>1, <2>2, LivesQuiet
<1> QED BY <1>1, <1>2, <1>3, <1>4, <1>5, <1>6, <1>7

\* A fiber that waits for the next callback of thread w has no job.
VacantAt(w) ==
    cb_fiber[w] # NULL /\ ~(pc[w] \in HasFiber /\ Cur(w) = cb_fiber[w]) =>
        m_cb[cb_fiber[w]] = NULL

LEMMA VacantOwn ==
    ASSUME BaseInv, OwnerInv, Messages, Vacant, NEW w \in Threads, Run(w)
    PROVE  VacantAt(w)'
<1> USE DEF BaseInv, TypeOK, LocalTypeOK, fiberVars, localVars, VacantAt
<1>0. VacantAt(w) /\ (cb_fiber[w] # NULL => cb_fiber[w] \in Fibers)
  BY DEF Vacant
<1>1. ASSUME UNCHANGED m_cb, pc[w] \notin HasFiber, cb_fiber'[w] \in {NULL, cb_fiber[w]}
      PROVE  VacantAt(w)'
  BY <1>0, <1>1
<1>2. ASSUME \A f \in Fibers : m_cb'[f] # NULL => m_cb'[f] = m_cb[f],
             pc[w] \in HasFiber /\ pc'[w] \in HasFiber, UNCHANGED <<ft, cb_fiber>>
      PROVE  VacantAt(w)'
  BY <1>0, <1>2 DEF Cur
<1>3. CASE Lock(w) \/ ScanSkip(w) \/ ScanTake(w) \/ ScanEnd(w)
  BY <1>1, <1>3 DEF Lock, ScanSkip, ScanTake, ScanEnd, HasFiber
<1>4. CASE DispatchFiber(w) \/ DispatchDead(w) \/ DispatchIdle(w) \/ Exit(w) \/ IdleRound(w)
  BY <1>1, <1>4 DEF DispatchFiber, DispatchDead, DispatchIdle, Exit, IdleRound, HasFiber
<1>5. CASE DispatchCb(w)
  <2>1. pc'[w] = "assert" /\ ft'[w] = NoTask
    BY <1>5, DispatchCbFacts
  <2>2. Cur(w)' = cb_fiber'[w]
    BY <2>1 DEF Cur, NoTask, Task
  <2> QED BY <2>1, <2>2 DEF HasFiber
<1>6. CASE SwapInAssert(w) \/ SwapIn(w)
  <2>1. pc'[w] \notin {"abort", "corrupt"}
    BY RunIsSafe
  <2> QED BY <1>2, <1>6, <2>1 DEF SwapInAssert, SwapIn, HasFiber
<1>7. CASE YieldToReady(w) \/ YieldToHold(w) \/ SwapOut(w) \/ Deactivate(w)
  BY <1>2, <1>7 DEF YieldToReady, YieldToHold, BodyYield, Yield, SwapOut, Deactivate, HasFiber
<1>8. CASE BodyReturn(w) \/ BodyThrow(w)
  BY <1>2, <1>8, TurnOver DEF HasFiber
<1>9. CASE Requeue(w)
  <2>1. CASE pc'[w] \in HasFiber
    BY <1>2, <1>9, <2>1 DEF Requeue, HasFiber
  <2>2. CASE pc'[w] \notin HasFiber
    <3>1. /\ pc[w] = "requeue" /\ UNCHANGED cb_fiber
          /\ IF ft[w].fiber = NULL THEN Reset(Cur(w), NULL) ELSE UNCHANGED fiberVars
      BY <1>9, <2>2 DEF Requeue, HasFiber
    <3>2. CASE ft[w].fiber = NULL
      <4>1. Cur(w) = cb_fiber[w] /\ Cur(w) \in Fibers /\ Reset(Cur(w), NULL)
        BY <3>1, <3>2, CurFacts DEF Cur, HasFiber
      <4> QED BY <3>1, <4>1 DEF Reset, Arm, FiberTypeOK
    <3>3. CASE ft[w].fiber # NULL
      <4>1. Cur(w) # cb_fiber[w]
        BY <3>3 DEF Cur, OwnerInv, RefsDisjoint
      <4> QED BY <1>0, <3>1, <3>3, <4>1
    <3> QED BY <3>2, <3>3
  <2> QED BY <2>1, <2>2
<1>10. CASE Reschedule(w) \/ Park(w)
  <2>1. Release(w) /\ UNCHANGED m_cb
    BY <1>10 DEF Reschedule, Park
  <2>2. CASE ft[w].fiber = NULL
    BY <2>1, <2>2 DEF Release
  <2>3. CASE ft[w].fiber # NULL
    <3>1. Cur(w) # cb_fiber[w]
      BY <2>3 DEF Cur, OwnerInv, RefsDisjoint
    <3> QED BY <1>0, <2>1, <2>3, <3>1 DEF Release
  <2> QED BY <2>2, <2>3
<1> QED BY <1>3, <1>4, <1>5, <1>6, <1>7, <1>8, <1>9, <1>10 DEF Run

LEMMA VacantOthers ==
    ASSUME BaseInv, OwnerInv, Vacant, Next, NEW w \in Threads, ~Run(w)
    PROVE  VacantAt(w)'
<1>0. VacantAt(w) /\ (cb_fiber[w] # NULL => cb_fiber[w] \in Fibers)
  BY DEF Vacant, VacantAt, BaseInv, TypeOK, LocalTypeOK
<1>1. cb_fiber[w] # NULL => m_cb'[cb_fiber[w]] = m_cb[cb_fiber[w]]
  BY <1>0, HeldFrame DEF Refers, FiberKept
<1>2. CASE LocalsKept(w)
  BY <1>0, <1>1, <1>2 DEF LocalsKept, VacantAt, Cur
<1>3. CASE pc[w] = "exited" /\ pc'[w] = "off"
  <2>1. UNCHANGED cb_fiber
    <3>1. ASSUME NEW by \in Threads \cup {NULL}, Client(by) PROVE FALSE
      BY <1>3, <3>1, ClientFrame
    <3>2. ASSUME NEW v \in Threads, Run(v) PROVE FALSE
      BY <1>3, <3>2, LocalFrame
    <3> QED BY NextKinds, <1>3, <3>1, <3>2
        DEF localVars, vars, StartThread, EnterRun, StartLock, StartUnlock, StopBegin, StopAlone,
            StopSet, StopRoot, RootReturn, StopSwap, Join, StopReturn,
            BaseInv, TypeOK, LocalTypeOK
  <2> QED BY <1>0, <1>1, <1>3, <2>1 DEF VacantAt, HasFiber
<1>4. CASE pc[w] = "off" /\ pc'[w] = "loop"
  <2>1. cb_fiber'[w] = NULL
    <3>1. ASSUME NEW by \in Threads \cup {NULL}, Client(by) PROVE FALSE
      BY <1>4, <3>1, ClientFrame
    <3>2. ASSUME NEW v \in Threads, Run(v) PROVE FALSE
      BY <1>4, <3>2, LocalFrame
    <3> QED BY NextKinds, <1>4, <3>1, <3>2
        DEF localVars, vars, StartThread, EnterRun, StartLock, StartUnlock, StopBegin, StopAlone,
            StopSet, StopRoot, RootReturn, StopSwap, Join, StopReturn,
            BaseInv, TypeOK, LocalTypeOK
  <2> QED BY <2>1 DEF VacantAt
<1> QED BY <1>2, <1>3, <1>4, OthersFrame

LEMMA VacantStep ==
    ASSUME BaseInv, OwnerInv, Messages, Vacant, Next
    PROVE  Vacant'
<1>1. ASSUME NEW f \in Fibers, m_state'[f] = "NONE" PROVE m_cb'[f] = NULL
  <2>1. m_state[f] = "NONE" /\ m_cb[f] = NULL
    BY <1>1, StaysConstructed DEF Vacant
  <2>2. CASE m_cb'[f] # NULL => m_cb'[f] = m_cb[f]
    BY <2>1, <2>2
  <2>3. ASSUME NEW by \in Threads \cup {NULL}, NEW j \in Jobs, NEW g \in Fibers,
               NEW t \in Threads \cup {ANY}, SubmitFiber(by, j, g, t)
        PROVE  m_cb'[f] # NULL => m_cb'[f] = m_cb[f]
    BY <1>1, <2>3, SubmitFiberFacts
  <2>4. ASSUME NEW w \in Threads, DispatchCb(w)
        PROVE  m_cb'[f] # NULL => m_cb'[f] = m_cb[f]
    BY <1>1, <2>4, DispatchCbFacts
  <2>5. ASSUME NEW w \in Threads, BodyReturn(w) \/ BodyThrow(w)
        PROVE  m_cb'[f] # NULL => m_cb'[f] = m_cb[f]
    BY <1>1, <2>5, TurnOver
  <2>6. CASE QuietFibers
    BY <2>2, <2>6 DEF QuietFibers
  <2> QED BY <2>2, <2>3, <2>4, <2>5, <2>6, QuietFibersStep
<1>2. \A w \in Threads : VacantAt(w)'
  BY VacantOwn, VacantOthers
<1> QED BY <1>1, <1>2 DEF Vacant, VacantAt

LEMMA JobInit == Init => JobInv
<1> SUFFICES ASSUME Init PROVE JobInv
  OBVIOUS
<1>1. /\ DOMAIN m_fibers = {} /\ (\A f \in Fibers : m_cb[f] = NULL) /\ finished = {}
      /\ \A w \in Threads : ft[w].cb = NULL /\ cb_fiber[w] = NULL
  BY DEF Init, FiberInit, NoTask, Task
<1>2. NULL \notin Jobs
  BY FiberConstants
<1> QED BY <1>1, <1>2 DEF JobInv, Messages, OnePlace, Lives, Vacant

LEMMA JobStep ==
    ASSUME BaseInv, OwnerInv, JobInv, [Next]_vars
    PROVE  JobInv'
<1>1. CASE Next
  BY <1>1, MessagesStep, OnePlaceStep, LivesStep, VacantStep DEF JobInv
<1>2. CASE UNCHANGED vars
  BY <1>2 DEF vars, fiberVars, sharedVars, localVars, histVars, JobInv, Messages, OnePlace, Lives,
     Vacant, Cur
<1> QED BY <1>1, <1>2

\* From schedule() to its end a job is in one place.
THEOREM JobsInOnePlace ==
    ASSUME Contract
    PROVE  Spec => []JobInv
<1>1. BaseInv /\ OwnerInv /\ JobInv /\ [Next]_vars => JobInv'
  BY JobStep
<1> QED BY <1>1, JobInit, BaseInvariant, Ownership, PTL DEF Spec

-----------------------------------------------------------------------------
(***************************************************************************)
(* What clients see of a job.                                              *)
(***************************************************************************)

\* The step changes nothing that a client can see of job j.
Seen(j) ==
    StatusOf(j)' = StatusOf(j) /\ RunnerOf(j)' = RunnerOf(j) /\ (Woken(j)' <=> Woken(j))

\* The actions of JobPool, from what becomes of each job.
LEMMA SeesNothing ==
    ASSUME \A j \in Jobs : Seen(j), Serving' <=> Serving
    PROVE  UNCHANGED JP!jobPoolVars
  BY DEF JP!jobPoolVars, Seen

LEMMA SeesUp ==
    ASSUME \A j \in Jobs : Seen(j), ~Serving, Serving'
    PROVE  JP!Next
<1>1. JP!Up
  BY DEF JP!Up, Seen
<1> QED BY <1>1 DEF JP!Next

LEMMA SeesDown ==
    ASSUME \A j \in Jobs : Seen(j), Serving, ~Serving',
           \A j \in Jobs : StatusOf(j) \notin {"pending", "running"}
    PROVE  JP!Next
<1>1. JP!Down
  BY DEF JP!Down, Seen
<1> QED BY <1>1 DEF JP!Next

LEMMA SeesSubmit ==
    ASSUME NEW S \in SUBSET Jobs, S # {}, \A j \in Jobs \ S : Seen(j), Serving' <=> Serving,
           \A j \in S : /\ StatusOf(j) = "new" /\ StatusOf(j)' = "pending"
                        /\ RunnerOf(j)' = RunnerOf(j) /\ (Woken(j)' <=> Woken(j))
    PROVE  JP!Next
<1>1. JP!Submit(S)
  BY DEF JP!Submit, Seen
<1> QED BY <1>1 DEF JP!Next

LEMMA SeesBegin ==
    ASSUME NEW i \in Jobs, NEW t \in Runners, \A j \in Jobs \ {i} : Seen(j),
           Serving, Serving', StatusOf(i) = "pending", StatusOf(i)' = "running",
           \A j \in Jobs : RunnerOf(j) # t, RunnerOf(i)' = t, Woken(i)' <=> Woken(i)
    PROVE  JP!Next
<1>1. JP!Begin(i, t)
  BY DEF JP!Begin, Seen
<1> QED BY <1>1 DEF JP!Next

LEMMA SeesEndTurn ==
    ASSUME NEW i \in Jobs, NEW s \in {"done", "pending", "parked"},
           \A j \in Jobs \ {i} : Seen(j), Serving' <=> Serving,
           StatusOf(i) = "running", StatusOf(i)' = s, RunnerOf(i)' = NULL,
           ~Woken(i)', s = "parked" => ~Woken(i)
    PROVE  JP!Next
<1>1. JP!EndTurn(i, s)
  BY DEF JP!EndTurn, Seen
<1> QED BY <1>1 DEF JP!Next

LEMMA SeesWake ==
    ASSUME NEW i \in Jobs, \A j \in Jobs \ {i} : Seen(j), Serving' <=> Serving,
           RunnerOf(i)' = RunnerOf(i),
           \/ StatusOf(i) = "parked" /\ StatusOf(i)' = "pending" /\ (Woken(i)' <=> Woken(i))
           \/ StatusOf(i) = "running" /\ StatusOf(i)' = "running" /\ Woken(i)'
    PROVE  JP!Next
<1>1. JP!Wake(i)
  BY DEF JP!Wake, Seen
<1> QED BY <1>1 DEF JP!Next

\* What a client sees of a job follows from where the job is.
LEMMA SeenFrom ==
    ASSUME NEW j \in Jobs, pin[j] = NULL <=> pin'[j] = NULL, j \in finished <=> j \in finished',
           \A w \in Threads : Runs(w, j)' <=> Runs(w, j),
           j \in finished => \A w \in Threads : ~Runs(w, j),
           j \notin finished => (Pending(j)' <=> Pending(j))
    PROVE  Seen(j)
<1>1. RunnersOf(j)' = RunnersOf(j)
  BY DEF RunnersOf
<1>2. RunnerOf(j)' = RunnerOf(j)
  BY <1>1 DEF RunnerOf
<1>3. j \in finished => RunnersOf(j) = {}
  BY DEF RunnersOf
<1> QED BY <1>1, <1>2, <1>3 DEF Seen, StatusOf, Woken

\* The thread that runs a job, and no other one.
LEMMA TheRunner ==
    ASSUME BaseInv, OwnerInv, OnePlace, NEW j \in Jobs, NEW w \in Threads, Runs(w, j)
    PROVE  RunnerOf(j) = w /\ RunnersOf(j) = {w}
<1>1. ASSUME NEW v \in Threads, Runs(v, j) PROVE v = w
  <2>1. /\ Cur(v) \in Fibers /\ Cur(w) \in Fibers /\ Refers(v, Cur(v)) /\ Refers(w, Cur(w))
    BY <1>1, CurFacts DEF Runs, HasFiber
  <2>2. Cur(v) = Cur(w)
    BY <1>1, <2>1 DEF OnePlace, Runs
  <2> QED BY <2>1, <2>2 DEF OwnerInv, RefsDisjoint
<1>2. RunnersOf(j) = {w}
  BY <1>1 DEF RunnersOf
<1> QED BY <1>2 DEF RunnerOf

LEMMA NoRunner ==
    ASSUME NEW j \in Jobs, \A w \in Threads : ~Runs(w, j)
    PROVE  RunnerOf(j) = NULL /\ RunnersOf(j) = {} /\ ~Woken(j)
<1>1. RunnersOf(j) = {}
  BY DEF RunnersOf
<1> QED BY <1>1 DEF RunnerOf, Woken

\* A job that runs, or that is carried, is not over.
LEMMA RunsLive ==
    ASSUME BaseInv, OwnerInv, Lives, NEW j \in Jobs, NEW w \in Threads, Runs(w, j)
    PROVE  j \notin finished /\ pin[j] # NULL
<1>1. Cur(w) \in Fibers /\ m_cb[Cur(w)] = j /\ j # NULL
  BY CurFacts, FiberConstants DEF Runs, HasFiber
<1>2. m_state[Cur(w)] \notin Finished
  BY DEF Runs, OwnerInv, Places, StateAt, Finished
<1> QED BY <1>1, <1>2 DEF Lives

\* A step of run() moves its thread.
LEMMA RunMoves ==
    ASSUME BaseInv, NEW w \in Threads, Run(w)
    PROVE  pc'[w] # pc[w] \/ iter'[w] # iter[w]
<1> USE DEF BaseInv, TypeOK, LocalTypeOK
<1>1. CASE Lock(w) \/ ScanSkip(w) \/ ScanTake(w) \/ ScanEnd(w)
  BY <1>1 DEF Lock, ScanSkip, ScanTake, ScanEnd, Unlock
<1>2. CASE DispatchFiber(w) \/ DispatchDead(w) \/ DispatchIdle(w) \/ Exit(w) \/ IdleRound(w)
  BY <1>2 DEF DispatchFiber, DispatchDead, DispatchIdle, Exit, IdleRound
<1>3. CASE DispatchCb(w)
  BY <1>3 DEF DispatchCb
<1>4. CASE SwapInAssert(w) \/ SwapIn(w)
  BY <1>4 DEF SwapInAssert, SwapIn
<1>5. CASE BodyReturn(w) \/ BodyThrow(w) \/ YieldToReady(w) \/ YieldToHold(w) \/ SwapOut(w)
  BY <1>5 DEF BodyReturn, BodyThrow, YieldToReady, YieldToHold, BodyYield, SwapOut
<1>6. CASE Deactivate(w) \/ Requeue(w) \/ Reschedule(w) \/ Park(w)
  BY <1>6 DEF Deactivate, Requeue, Reschedule, Park, Release
<1> QED BY <1>1, <1>2, <1>3, <1>4, <1>5, <1>6 DEF Run

LEMMA OneRuns ==
    ASSUME BaseInv, NEW w \in Threads, Run(w), NEW v \in Threads \ {w}
    PROVE  ~Run(v)
  BY LocalFrame, RunFrame, RunMoves

\* The job that a thread carries or runs is not affected by the steps of others.
LEMMA CarriesFrame ==
    ASSUME BaseInv, OwnerInv, Next, NEW v \in Threads, ~Run(v), NEW j \in Jobs
    PROVE  (Runs(v, j)' <=> Runs(v, j)) /\ (Carries(v, j)' <=> Carries(v, j))
<1>1. CASE pc[v] \in {"off", "exited", "loop"} /\ pc'[v] \in {"off", "exited", "loop"}
  BY <1>1 DEF Runs, Carries
<1>2. CASE LocalsKept(v)
  <2>1. pc'[v] = pc[v] /\ ft'[v] = ft[v] /\ Cur(v)' = Cur(v)
    BY <1>2 DEF LocalsKept, Cur
  <2>2. ft[v].fiber # NULL => ft[v].fiber \in Fibers /\ m_cb'[ft[v].fiber] = m_cb[ft[v].fiber]
    BY HeldFrame DEF BaseInv, TypeOK, LocalTypeOK, Tasks, Refers, FiberKept
  <2>3. pc[v] \in HasFiber => m_cb'[Cur(v)] = m_cb[Cur(v)] /\ m_state'[Cur(v)] = m_state[Cur(v)]
    BY CurFacts, HeldFrame DEF FiberKept
  <2>4. Runs(v, j)' <=> Runs(v, j)
    BY <2>1, <2>3 DEF Runs, HasFiber
  <2>5. Carries(v, j)' <=> Carries(v, j)
    BY <2>1, <2>2, <2>3 DEF Carries, For, HasFiber
  <2> QED BY <2>4, <2>5
<1> QED BY <1>1, <1>2, OthersFrame

\* A queued fiber keeps its callback: one that scheduled itself only yields to HOLD.
LEMMA QueuedJob ==
    ASSUME Contract, BaseInv, OwnerInv, Next, NEW f \in Fibers, Queued(f)
    PROVE  m_cb'[f] = m_cb[f]
<1>1. m_state[f] # "NONE"
  BY DEF OwnerInv, FiberStates
<1>2. ASSUME NEW w \in Threads, Run(w), Refers(w, f) PROVE m_cb'[f] = m_cb[f]
  <2>1. /\ f = Cur(w) /\ pc[w] \in {"body", "swapout", "after", "requeue", "park"}
        /\ pc[w] # "body" => m_state[Cur(w)] = "HOLD"
    BY <1>2, FiberConstants DEF Queued, OwnerInv, SelfScheduled
  <2>2. ~BodyReturn(w)
    BY <2>1 DEF BodyReturn, NotSelfScheduled
  <2>3. CASE UNCHANGED m_cb
    BY <2>3
  <2>4. CASE Requeue(w)
    BY <2>1, <2>3, <2>4 DEF Requeue, Finished, fiberVars
  <2> QED BY <1>2, <2>1, <2>2, <2>3, <2>4
      DEF Run, Lock, ScanSkip, ScanTake, ScanEnd, DispatchFiber, DispatchDead, DispatchCb,
          DispatchIdle, Exit, IdleRound, SwapInAssert, SwapIn, BodyThrow, Throw, YieldToReady,
          YieldToHold, BodyYield, Yield, SwapOut, Deactivate, Reschedule, Park, fiberVars
<1>3. CASE \A w \in Threads : Run(w) => ~Refers(w, f)
  BY <1>1, <1>3, FiberFrame DEF FiberKept
<1> QED BY <1>2, <1>3

\* A message stays a message for its job.
LEMMA ForStays ==
    ASSUME Contract, BaseInv, OwnerInv, Next, NEW j \in Jobs, NEW i \in DOMAIN m_fibers,
           NEW m, m = m_fibers[i]
    PROVE  For(j, m)' <=> For(j, m)
<1>1. m \in Tasks
  BY DEF BaseInv, QueueOK
<1>2. m.fiber # NULL => m.fiber \in Fibers /\ Queued(m.fiber)
  BY <1>1 DEF Tasks, Queued
<1>3. m.fiber # NULL => m_cb'[m.fiber] = m_cb[m.fiber]
  BY <1>2, QueuedJob
<1> QED BY <1>3 DEF For

LEMMA QueueStays ==
    ASSUME Contract, BaseInv, OwnerInv, Next, NEW j \in Jobs, UNCHANGED m_fibers
    PROVE  InQueue(j)' <=> InQueue(j)
<1>1. ASSUME NEW i \in DOMAIN m_fibers, NEW m, m = m_fibers[i]
      PROVE  For(j, m)' <=> For(j, m)
  BY <1>1, ForStays
<1>2. \A i \in DOMAIN m_fibers : For(j, m_fibers[i])' <=> For(j, m_fibers[i])
  BY <1>1 DEF For
<1> QED BY <1>2 DEF InQueue

-----------------------------------------------------------------------------
(***************************************************************************)
(* The steps of run(), as clients see them.                                *)
(***************************************************************************)

\* From where the thread's own job and the queue are to what is seen of job j.
LEMMA RunSeen ==
    ASSUME Contract, BaseInv, OwnerInv, JobInv, Next, NEW w \in Threads, Run(w), NEW j \in Jobs,
           j \in finished <=> j \in finished', Runs(w, j)' <=> Runs(w, j),
           j \notin finished =>
               ((InQueue(j) \/ Carries(w, j))' <=> (InQueue(j) \/ Carries(w, j)))
    PROVE  Seen(j)
<1>1. \A v \in Threads \ {w} : (Runs(v, j)' <=> Runs(v, j)) /\ (Carries(v, j)' <=> Carries(v, j))
  BY OneRuns, CarriesFrame
<1>2. \A v \in Threads : Runs(v, j)' <=> Runs(v, j)
  BY <1>1
<1>3. j \notin finished => (Pending(j)' <=> Pending(j))
  BY <1>1 DEF Pending
<1>4. UNCHANGED pin
  BY RunFrame
<1>5. j \in finished => \A v \in Threads : ~Runs(v, j)
  BY RunsLive DEF JobInv
<1> QED BY <1>2, <1>3, <1>4, <1>5, SeenFrom

\* The same for a step that leaves the queue alone.
LEMMA RunSeenOwn ==
    ASSUME Contract, BaseInv, OwnerInv, JobInv, Next, NEW w \in Threads, Run(w), NEW j \in Jobs,
           UNCHANGED <<finished, m_fibers>>, ~Runs(w, j), ~Runs(w, j)',
           j \notin finished => (Carries(w, j)' <=> Carries(w, j))
    PROVE  Seen(j)
  BY QueueStays, RunSeen

\* Dequeuing a message and queueing a fiber again move a job between the queue and
\* the worker.
LEMMA TakenSeen ==
    ASSUME Contract, BaseInv, OwnerInv, JobInv, Next, NEW w \in Threads, ScanTake(w), NEW j \in Jobs
    PROVE  Seen(j)
<1>0. Run(w)
  BY DEF Run
<1>1. /\ iter[w] \in DOMAIN m_fibers /\ m_fibers' = RemoveAt(m_fibers, iter[w])
      /\ ft'[w] = m_fibers[iter[w]] /\ pc[w] = "scan" /\ pc'[w] = "dispatch"
      /\ UNCHANGED <<m_cb, finished>>
  BY DEF ScanTake, Unlock, fiberVars, histVars, BaseInv, TypeOK, LocalTypeOK
<1>2. PICK pos \in [DOMAIN m_fibers' -> DOMAIN m_fibers \ {iter[w]}] :
            /\ \A k \in DOMAIN m_fibers' : m_fibers'[k] = m_fibers[pos[k]]
            /\ \A i \in DOMAIN m_fibers \ {iter[w]} : \E k \in DOMAIN m_fibers' : pos[k] = i
  BY <1>1, EraseIndex DEF BaseInv
<1>3. ASSUME NEW k \in DOMAIN m_fibers'
      PROVE  \E i \in DOMAIN m_fibers : m_fibers'[k] = m_fibers[i]
  BY <1>2, <1>3
<1>4. ASSUME NEW i \in DOMAIN m_fibers, i # iter[w]
      PROVE  \E k \in DOMAIN m_fibers' : m_fibers'[k] = m_fibers[i]
  BY <1>2, <1>4
<1> DEFINE F(m) == m.cb = j \/ (m.fiber # NULL /\ m_cb[m.fiber] = j)
<1>5. /\ InQueue(j)' <=> \E k \in DOMAIN m_fibers' : F(m_fibers'[k])
      /\ InQueue(j) <=> \E i \in DOMAIN m_fibers : F(m_fibers[i])
      /\ Carries(w, j)' <=> F(m_fibers[iter[w]])
      /\ ~Carries(w, j) /\ ~Runs(w, j) /\ ~Runs(w, j)'
  BY <1>1 DEF InQueue, For, Carries, Runs
<1> HIDE DEF F
<1>6. (InQueue(j) \/ Carries(w, j))' <=> (InQueue(j) \/ Carries(w, j))
  BY <1>1, <1>3, <1>4, <1>5
<1> QED BY <1>0, <1>1, <1>5, <1>6, RunSeen

LEMMA RequeuedSeen ==
    ASSUME Contract, BaseInv, OwnerInv, JobInv, Next, NEW w \in Threads, Reschedule(w),
           NEW j \in Jobs
    PROVE  Seen(j)
<1>0. Run(w)
  BY DEF Run
<1>1. /\ pc[w] = "resched" /\ pc'[w] = "loop" /\ Schedule(Task(Cur(w), NULL, ANY))
      /\ UNCHANGED <<m_cb, m_state, finished>>
  BY DEF Reschedule, Release, fiberVars, histVars, BaseInv, TypeOK, LocalTypeOK
<1>2. Cur(w) \in Fibers /\ Cur(w) # NULL /\ m_state[Cur(w)] = "READY"
  BY <1>1, CurFacts DEF HasFiber, OwnerInv, Places, StateAt
<1>3. PICK f \in Fibers : f = Cur(w)
  BY <1>2
<1>4. /\ \A k \in DOMAIN m_fibers' : \/ k \in DOMAIN m_fibers /\ m_fibers'[k] = m_fibers[k]
                                     \/ m_fibers'[k].cb = NULL /\ m_fibers'[k].fiber = f
      /\ \A k \in DOMAIN m_fibers : k \in DOMAIN m_fibers' /\ m_fibers'[k] = m_fibers[k]
      /\ \E k \in DOMAIN m_fibers' : m_fibers'[k].fiber = f
  BY <1>1, <1>3, ScheduleFiberFacts
<1>5. f # NULL /\ j # NULL
  BY FiberConstants
<1>6. InQueue(j)' <=> InQueue(j) \/ m_cb[f] = j
  BY <1>1, <1>4, <1>5 DEF InQueue, For
<1>7. /\ Carries(w, j) <=> m_cb[f] = j
      /\ ~Carries(w, j)' /\ ~Runs(w, j) /\ ~Runs(w, j)'
  BY <1>1, <1>2, <1>3 DEF Carries, Runs
<1> QED BY <1>0, <1>1, <1>6, <1>7, RunSeen

\* The other steps before swapIn() and after the turn.
LEMMA QuietRunSeen ==
    ASSUME Contract, BaseInv, OwnerInv, JobInv, Next, NEW w \in Threads, Run(w), NEW j \in Jobs,
           ~SwapIn(w), ~BodyReturn(w), ~BodyThrow(w), ~YieldToReady(w), ~YieldToHold(w)
    PROVE  Seen(j)
<1> USE DEF fiberVars, sharedVars, localVars, histVars
<1>0. Messages /\ Lives /\ j # NULL /\ NoTask.fiber = NULL /\ NoTask.cb = NULL
  BY FiberConstants DEF JobInv, NoTask, Task
<1>t. pc \in [Threads -> {"off", "loop", "scan", "dispatch", "assert", "enter",
                          "body", "swapout", "after", "requeue", "resched",
                          "park", "idle", "exited", "abort", "corrupt"}] /\ ft \in [Threads -> Tasks]
      /\ m_state \in [Fibers -> State \cup {"NONE"}]
  BY DEF BaseInv, TypeOK, LocalTypeOK, FiberTypeOK
<1>1. CASE Lock(w) \/ ScanSkip(w) \/ IdleRound(w)
  <2>1. /\ pc[w] \in {"loop", "scan", "idle"} /\ pc'[w] \in {"loop", "scan"}
        /\ UNCHANGED <<finished, m_fibers>>
    BY <1>1, <1>t DEF Lock, ScanSkip, IdleRound
  <2> QED BY <2>1, RunSeenOwn DEF Runs, Carries
<1>2. CASE ScanEnd(w)
  <2>1. /\ pc[w] = "scan" /\ pc'[w] = "dispatch" /\ ft'[w] = NoTask
        /\ UNCHANGED <<finished, m_fibers>>
    BY <1>2, <1>t DEF ScanEnd, Unlock, BaseInv, Shape
  <2> QED BY <1>0, <2>1, RunSeenOwn DEF Runs, Carries, For
<1>3. CASE DispatchIdle(w) \/ Exit(w)
  <2>1. /\ pc[w] = "dispatch" /\ pc'[w] \in {"idle", "exited"} /\ ft[w] = NoTask
        /\ UNCHANGED <<finished, m_fibers>>
    BY <1>3, <1>t DEF DispatchIdle, Exit
  <2> QED BY <1>0, <2>1, RunSeenOwn DEF Runs, Carries, For
<1>4. CASE DispatchFiber(w)
  <2>1. /\ pc[w] = "dispatch" /\ pc'[w] = "assert" /\ ft[w].fiber # NULL
        /\ UNCHANGED <<finished, m_fibers, m_cb, ft, cb_fiber>>
    BY <1>4, <1>t DEF DispatchFiber
  <2>2. ft[w].cb = NULL /\ Cur(w)' = ft[w].fiber
    BY <1>0, <2>1 DEF Messages, Cur
  <2> QED BY <1>0, <2>1, <2>2, RunSeenOwn DEF Runs, Carries, For
<1>5. CASE DispatchDead(w)
  <2>1. /\ pc[w] = "dispatch" /\ pc'[w] = "loop" /\ ft[w].fiber # NULL
        /\ m_state[ft[w].fiber] \in Finished /\ UNCHANGED <<finished, m_fibers>>
    BY <1>5, <1>t DEF DispatchDead
  <2>2. ft[w].cb = NULL /\ ft[w].fiber \in Fibers
    BY <1>0, <1>t, <2>1 DEF Messages, Tasks
  <2>3. m_cb[ft[w].fiber] = j => j \in finished
    BY <1>0, <2>1, <2>2 DEF Lives
  <2> QED BY <1>0, <2>1, <2>2, <2>3, RunSeenOwn DEF Runs, Carries, For
<1>6. CASE DispatchCb(w)
  <2>1. PICK f \in Fibers :
             /\ pc[w] = "dispatch" /\ ft[w].fiber = NULL
             /\ pc'[w] = "assert" /\ ft'[w] = NoTask /\ cb_fiber'[w] = f
             /\ m_cb'[f] = ft[w].cb /\ UNCHANGED <<m_fibers, finished>>
    BY <1>6, DispatchCbFacts DEF JobInv
  <2>2. Cur(w)' = f
    BY <1>0, <2>1 DEF Cur
  <2> QED BY <1>0, <2>1, <2>2, RunSeenOwn DEF Runs, Carries, For
<1>7. CASE SwapInAssert(w)
  <2>1. /\ pc[w] = "assert" /\ pc'[w] \in {"enter", "abort"}
        /\ UNCHANGED <<finished, m_fibers, m_cb, ft, cb_fiber>>
    BY <1>7, <1>t DEF SwapInAssert
  <2>2. pc'[w] = "enter" /\ Cur(w)' = Cur(w)
    BY <2>1, RunIsSafe DEF Cur
  <2> QED BY <2>1, <2>2, RunSeenOwn DEF Runs, Carries
<1>8. CASE SwapOut(w) \/ Deactivate(w)
  <2>1. /\ pc[w] \in {"swapout", "after"} /\ pc'[w] \in {"after", "requeue"}
        /\ UNCHANGED <<finished, m_fibers, m_cb, m_state, ft, cb_fiber>>
    BY <1>8, <1>t DEF SwapOut, Deactivate
  <2>2. Cur(w)' = Cur(w)
    BY <2>1 DEF Cur
  <2> QED BY <2>1, <2>2, RunSeenOwn DEF Runs, Carries
<1>9. CASE Requeue(w)
  <2>1. CASE m_state[Cur(w)] = "READY"
    <3>1. /\ pc[w] = "requeue" /\ pc'[w] = "resched"
          /\ UNCHANGED <<finished, m_fibers, m_cb, m_state, ft, cb_fiber>>
      BY <1>9, <1>t, <2>1 DEF Requeue, Finished
    <3>2. Cur(w)' = Cur(w)
      BY <3>1 DEF Cur
    <3> QED BY <3>1, <3>2, RunSeenOwn DEF Runs, Carries
  <2>2. CASE m_state[Cur(w)] # "READY"
    <3>1. pc[w] = "requeue" /\ pc'[w] \in {"park", "loop"} /\ UNCHANGED <<finished, m_fibers>>
      BY <1>9, <1>t, <2>2 DEF Requeue
    <3> QED BY <2>2, <3>1, RunSeenOwn DEF Runs, Carries
  <2> QED BY <2>1, <2>2
<1>10. CASE Park(w)
  <2>1. pc[w] = "park" /\ pc'[w] = "loop" /\ UNCHANGED <<finished, m_fibers>>
    BY <1>10, <1>t DEF Park, Release
  <2> QED BY <2>1, RunSeenOwn DEF Runs, Carries
<1> QED BY <1>1, <1>2, <1>3, <1>4, <1>5, <1>6, <1>7, <1>8, <1>9, <1>10, TakenSeen, RequeuedSeen
    DEF Run

-----------------------------------------------------------------------------
(***************************************************************************)
(* The turns of a job.                                                     *)
(***************************************************************************)

\* The job of the fiber that a thread has at hand is with no other thread, and in
\* the queue only with this fiber.
LEMMA HeldAlone ==
    ASSUME BaseInv, OwnerInv, JobInv, NEW w \in Threads, pc[w] \in HasFiber, NEW j \in Jobs,
           m_cb[Cur(w)] = j
    PROVE  /\ \A v \in Threads \ {w} : ~Carries(v, j) /\ ~Runs(v, j)
           /\ InQueue(j) => Queued(Cur(w))
<1>0. OnePlace /\ j # NULL
  BY FiberConstants DEF JobInv
<1>1. Cur(w) \in Fibers /\ Refers(w, Cur(w))
  BY CurFacts
<1>2. ASSUME NEW v \in Threads \ {w} PROVE ~Carries(v, j) /\ ~Runs(v, j)
  <2>1. ft[v].cb # j
    BY <1>0, <1>1 DEF OnePlace
  <2>2. ASSUME NEW f \in Fibers, Refers(v, f), m_cb[f] = j PROVE FALSE
    <3>1. f = Cur(w)
      BY <1>0, <1>1, <2>2 DEF OnePlace
    <3> QED BY <1>1, <2>2, <3>1 DEF OwnerInv, RefsDisjoint
  <2>3. ft[v].fiber # NULL => ft[v].fiber \in Fibers /\ Refers(v, ft[v].fiber)
    BY DEF BaseInv, TypeOK, LocalTypeOK, Tasks, Refers
  <2>4. pc[v] \in HasFiber => Cur(v) \in Fibers /\ Refers(v, Cur(v))
    BY CurFacts
  <2>5. ~Carries(v, j)
    BY <2>1, <2>2, <2>3, <2>4 DEF Carries, For, HasFiber
  <2>6. ~Runs(v, j)
    BY <2>2, <2>4 DEF Runs, HasFiber
  <2> QED BY <2>5, <2>6
<1>3. ASSUME NEW i \in DOMAIN m_fibers, For(j, m_fibers[i]) PROVE Queued(Cur(w))
  <2>1. m_fibers[i] \in Tasks
    BY DEF BaseInv, QueueOK
  <2>2. m_fibers[i].cb # j
    BY <1>0, <1>1 DEF OnePlace
  <2>3. m_fibers[i].fiber \in Fibers /\ m_cb[m_fibers[i].fiber] = j
    BY <1>3, <2>1, <2>2 DEF For, Tasks
  <2>4. m_fibers[i].fiber = Cur(w)
    BY <1>0, <1>1, <2>3 DEF OnePlace
  <2> QED BY <2>4 DEF Queued
<1> QED BY <1>2, <1>3 DEF InQueue

LEMMA RunnerAfter ==
    ASSUME NEW j \in Jobs, NEW w \in Threads, \A v \in Threads : Runs(v, j)' <=> v = w
    PROVE  RunnersOf(j)' = {w} /\ RunnerOf(j)' = w
<1>1. RunnersOf(j)' = {w}
  BY DEF RunnersOf
<1> QED BY <1>1 DEF RunnerOf

LEMMA NoRunnerAfter ==
    ASSUME NEW j \in Jobs, \A v \in Threads : ~Runs(v, j)'
    PROVE  RunnerOf(j)' = NULL /\ RunnersOf(j)' = {} /\ ~Woken(j)'
<1>1. RunnersOf(j)' = {}
  BY DEF RunnersOf
<1> QED BY <1>1 DEF RunnerOf, Woken

\* A job runs only between start() and the end of stop().
LEMMA ServesTurns ==
    ASSUME BaseInv, Phases, NEW w \in Threads, pc[w] \in HasFiber
    PROVE  Serving
<1>1. mpc \notin {"idle", "stopped"}
  BY AllOff DEF HasFiber
<1>2. mpc # "starting"
  <2>1. CASE w \in Workers
    BY <2>1 DEF Phases, HasFiber
  <2>2. CASE w = Caller
    BY <2>2 DEF BaseInv, Shape, HasFiber
  <2> QED BY <2>1, <2>2 DEF Threads
<1> QED BY <1>1, <1>2 DEF Serving

\* swapIn(): a turn begins.
LEMMA TurnBegins ==
    ASSUME Contract, BaseInv, OwnerInv, StopInv, JobInv, Next, NEW w \in Threads, w \in Runners,
           SwapIn(w)
    PROVE  [JP!Next]_(JP!jobPoolVars)
<1>0. Run(w) /\ OnePlace /\ Lives /\ Phases
  BY DEF Run, JobInv, StopInv
<1>1. /\ pc[w] = "enter" /\ pc'[w] = "body" /\ Cur(w)' = Cur(w)
      /\ UNCHANGED <<m_fibers, finished, m_cb, pin, mpc>>
  <2>1. pc' = [pc EXCEPT ![w] = "body"]
    BY EntersBody
  <2> QED BY <2>1 DEF SwapIn, Cur, sharedVars, localVars, histVars, mainVars, BaseInv, TypeOK,
         LocalTypeOK
<1>2. Cur(w) \in Fibers /\ m_state[Cur(w)] \notin Finished /\ ~Queued(Cur(w)) /\ pc[w] \in HasFiber
  <2>1. Cur(w) \in Fibers /\ Cur(w) # NULL /\ Refers(w, Cur(w)) /\ pc[w] \in HasFiber
    BY <1>1, CurFacts DEF HasFiber
  <2>2. m_state[Cur(w)] \notin Finished
    BY <1>1 DEF OwnerInv, Places, StateAt, Finished
  <2>3. ~Queued(Cur(w))
    BY <1>1, <2>1 DEF OwnerInv, SelfScheduled, Queued
  <2> QED BY <2>1, <2>2, <2>3
<1>3. ASSUME NEW j \in Jobs, m_cb[Cur(w)] # j PROVE Seen(j)
  <2>1. ~Runs(w, j) /\ ~Runs(w, j)' /\ ~Carries(w, j) /\ ~Carries(w, j)'
    BY <1>1, <1>3 DEF Runs, Carries
  <2> QED BY <1>0, <1>1, <2>1, RunSeenOwn
<1>4. Serving' <=> Serving
  BY <1>1 DEF Serving
<1>5. CASE m_cb[Cur(w)] = NULL
  <2>1. \A j \in Jobs : Seen(j)
    BY <1>3, <1>5, FiberConstants
  <2> QED BY <1>4, <2>1, SeesNothing
<1>6. CASE m_cb[Cur(w)] # NULL
  <2>1. PICK i \in Jobs : i = m_cb[Cur(w)]
    BY <1>2, <1>6 DEF BaseInv, TypeOK, FiberTypeOK
  <2>2. pin[i] # NULL /\ i \notin finished
    BY <1>0, <1>2, <1>6, <2>1 DEF Lives
  <2>3. /\ \A v \in Threads \ {w} : ~Carries(v, i) /\ ~Runs(v, i)
        /\ ~InQueue(i)
    BY <1>2, <2>1, HeldAlone
  <2>4. Carries(w, i) /\ ~Runs(w, i) /\ Runs(w, i)' /\ ~Carries(w, i)'
    BY <1>1, <2>1 DEF Carries, Runs
  <2>5. \A v \in Threads \ {w} : ~Carries(v, i)' /\ ~Runs(v, i)'
    BY <1>0, <2>3, OneRuns, CarriesFrame
  <2>6. RunnersOf(i) = {} /\ ~Woken(i)
    BY <2>3, <2>4, NoRunner
  <2>7. RunnersOf(i)' = {w} /\ RunnerOf(i)' = w
    BY <2>4, <2>5, RunnerAfter
  <2>8. StatusOf(i) = "pending"
    BY <2>2, <2>4, <2>6 DEF StatusOf, Pending
  <2>9. StatusOf(i)' = "running"
    BY <1>1, <2>2, <2>7 DEF StatusOf
  <2>10. ~Woken(i)'
    <3>1. ~InQueue(i)'
      BY <1>1, <2>3, QueueStays
    <3> QED BY <2>4, <2>5, <3>1 DEF Woken, Pending
  <2>11. ASSUME NEW j \in Jobs PROVE RunnerOf(j) # w
    <3>1. w \notin RunnersOf(j)
      BY <1>1 DEF RunnersOf, Runs
    <3>2. w # NULL
      BY SchedulerConstants
    <3> QED BY <3>1, <3>2 DEF RunnerOf
  <2>12. Serving
    BY <1>0, <1>2, ServesTurns
  <2>13. \A j \in Jobs \ {i} : Seen(j)
    BY <1>3, <2>1
  <2> QED BY <1>4, <2>6, <2>7, <2>8, <2>9, <2>10, <2>11, <2>12, <2>13, SeesBegin
<1> QED BY <1>5, <1>6

\* The callback returned or threw: the job is done.
LEMMA TurnEnds ==
    ASSUME Contract, BaseInv, OwnerInv, JobInv, Next, NEW w \in Threads,
           BodyReturn(w) \/ BodyThrow(w)
    PROVE  [JP!Next]_(JP!jobPoolVars)
<1>0. Run(w) /\ OnePlace /\ Lives
  BY DEF Run, JobInv
<1>1. /\ pc[w] = "body" /\ pc'[w] = "swapout" /\ Cur(w) \in Fibers /\ pc[w] \in HasFiber
      /\ finished' = finished \cup ({m_cb[Cur(w)]} \ {NULL})
      /\ m_state'[Cur(w)] \in Finished /\ Cur(w)' = Cur(w)
      /\ UNCHANGED <<m_fibers, pin>>
  BY TurnOver DEF Cur, HasFiber
<1>2. UNCHANGED mpc
  BY <1>0, RunFrame DEF mainVars
<1>3. ASSUME NEW j \in Jobs PROVE ~Runs(w, j)' /\ ~Carries(w, j)' /\ ~Carries(w, j)
  BY <1>1 DEF Runs, Carries, Finished
<1>4. ASSUME NEW j \in Jobs, m_cb[Cur(w)] # j PROVE Seen(j)
  <2>1. ~Runs(w, j)
    BY <1>4 DEF Runs
  <2>2. j \in finished <=> j \in finished'
    BY <1>1, <1>4
  <2>3. InQueue(j)' <=> InQueue(j)
    BY <1>1, QueueStays
  <2> QED BY <1>0, <1>3, <2>1, <2>2, <2>3, RunSeen
<1>5. Serving' <=> Serving
  BY <1>2 DEF Serving
<1>6. CASE m_cb[Cur(w)] = NULL
  <2>1. \A j \in Jobs : Seen(j)
    BY <1>4, <1>6, FiberConstants
  <2> QED BY <1>5, <2>1, SeesNothing
<1>7. CASE m_cb[Cur(w)] # NULL
  <2>1. PICK i \in Jobs : i = m_cb[Cur(w)] /\ i # NULL
    BY <1>1, <1>7 DEF BaseInv, TypeOK, FiberTypeOK
  <2>2. Runs(w, i) /\ pin[i] # NULL /\ i \in finished'
    BY <1>0, <1>1, <2>1, RunsLive DEF Runs
  <2>3. \A v \in Threads \ {w} : ~Runs(v, i)'
    BY <1>0, <1>1, <2>1, HeldAlone, OneRuns, CarriesFrame
  <2>4. RunnersOf(i) = {w}
    BY <1>0, <2>2, TheRunner
  <2>5. RunnersOf(i)' = {} /\ RunnerOf(i)' = NULL /\ ~Woken(i)'
    BY <1>3, <2>3, NoRunnerAfter
  <2>6. StatusOf(i) = "running"
    BY <2>2, <2>4 DEF StatusOf
  <2>7. StatusOf(i)' = "done"
    BY <1>1, <2>2, <2>5 DEF StatusOf
  <2>8. \A j \in Jobs \ {i} : Seen(j)
    BY <1>4, <2>1
  <2> QED BY <1>5, <2>5, <2>6, <2>7, <2>8, SeesEndTurn
<1> QED BY <1>6, <1>7

\* YieldToReady() and YieldToHold(): the job is pending again, or parked unless it
\* was scheduled meanwhile.
LEMMA TurnYields ==
    ASSUME Contract, BaseInv, OwnerInv, JobInv, Next, NEW w \in Threads,
           YieldToReady(w) \/ YieldToHold(w)
    PROVE  [JP!Next]_(JP!jobPoolVars)
<1>0. Run(w) /\ OnePlace /\ Lives
  BY DEF Run, JobInv
<1>1. /\ pc[w] = "body" /\ pc'[w] = "swapout" /\ m_cb[Cur(w)] # NULL
      /\ UNCHANGED <<m_fibers, pin, finished, mpc, m_cb>> /\ Cur(w)' = Cur(w)
  BY DEF YieldToReady, YieldToHold, BodyYield, Yield, Cur, sharedVars, localVars, mainVars,
         BaseInv, TypeOK, LocalTypeOK
<1>2. pc[w] \in HasFiber /\ Cur(w) \in Fibers
  BY <1>1, CurFacts DEF HasFiber
<1>4. ASSUME NEW j \in Jobs, m_cb[Cur(w)] # j PROVE Seen(j)
  <2>1. ~Runs(w, j) /\ ~Runs(w, j)' /\ ~Carries(w, j) /\ ~Carries(w, j)'
    BY <1>1, <1>4 DEF Runs, Carries
  <2> QED BY <1>0, <1>1, <2>1, RunSeenOwn
<1>5. Serving' <=> Serving
  BY <1>1 DEF Serving
<1>6. PICK i \in Jobs : i = m_cb[Cur(w)]
  BY <1>1, <1>2 DEF BaseInv, TypeOK, FiberTypeOK
<1>7. Runs(w, i) /\ pin[i] # NULL /\ i \notin finished
  BY <1>0, <1>1, <1>6, RunsLive DEF Runs
<1>8. \A v \in Threads \ {w} : ~Carries(v, i) /\ ~Runs(v, i)' /\ ~Carries(v, i)'
  BY <1>0, <1>2, <1>6, HeldAlone, OneRuns, CarriesFrame
<1>9. RunnersOf(i) = {w} /\ StatusOf(i) = "running"
  <2>1. RunnersOf(i) = {w}
    BY <1>0, <1>7, TheRunner
  <2> QED BY <1>7, <2>1 DEF StatusOf
<1>10. RunnersOf(i)' = {} /\ RunnerOf(i)' = NULL /\ ~Woken(i)'
  <2>1. ~Runs(w, i)'
    BY <1>1 DEF Runs
  <2> QED BY <1>8, <2>1, NoRunnerAfter
<1>11. \A j \in Jobs \ {i} : Seen(j)
  BY <1>4, <1>6
<1>12. StatusOf(i)' = IF Pending(i)' THEN "pending" ELSE "parked"
  BY <1>1, <1>7, <1>10 DEF StatusOf
<1>13. CASE Pending(i)'
  <2>1. StatusOf(i)' = "pending"
    BY <1>12, <1>13
  <2> QED BY <1>5, <1>9, <1>10, <1>11, <2>1, SeesEndTurn
<1>14. CASE ~Pending(i)'
  <2>1. StatusOf(i)' = "parked"
    BY <1>12, <1>14
  <2>2. ~InQueue(i)
    BY <1>1, <1>14, QueueStays DEF Pending
  <2>3. ~Carries(w, i)
    BY <1>1 DEF Carries
  <2>4. ~Woken(i)
    BY <1>8, <2>2, <2>3 DEF Woken, Pending
  <2> QED BY <1>5, <1>9, <1>10, <1>11, <2>1, <2>4, SeesEndTurn
<1> QED BY <1>13, <1>14

-----------------------------------------------------------------------------
(***************************************************************************)
(* schedule(), as clients see it.                                          *)
(***************************************************************************)

\* While a client is in schedule(), the threads carry and run what they did.
LEMMA ClientSeen ==
    ASSUME BaseInv, OwnerInv, Next, NEW by \in Threads \cup {NULL}, Client(by)
    PROVE  /\ \A v \in Threads, j \in Jobs :
                 (Runs(v, j)' <=> Runs(v, j)) /\ (Carries(v, j)' <=> Carries(v, j))
           /\ UNCHANGED <<mpc, finished>> /\ (Serving' <=> Serving)
<1>1. UNCHANGED <<mpc, pc, iter, finished>>
  BY ClientFrame DEF mainVars
<1>2. \A v \in Threads : ~Run(v)
  BY <1>1, RunMoves
<1> QED BY <1>1, <1>2, CarriesFrame DEF Serving

LEMMA OtherJobsSeen ==
    ASSUME BaseInv, OwnerInv, JobInv, Next, NEW by \in Threads \cup {NULL}, Client(by),
           NEW j \in Jobs, pin[j] = NULL <=> pin'[j] = NULL,
           j \notin finished => (InQueue(j)' <=> InQueue(j))
    PROVE  Seen(j)
<1>1. /\ \A v \in Threads : (Runs(v, j)' <=> Runs(v, j)) /\ (Carries(v, j)' <=> Carries(v, j))
      /\ UNCHANGED finished
  BY ClientSeen
<1>2. j \in finished => \A v \in Threads : ~Runs(v, j)
  BY RunsLive DEF JobInv
<1>3. j \notin finished => (Pending(j)' <=> Pending(j))
  BY <1>1 DEF Pending
<1> QED BY <1>1, <1>2, <1>3, SeenFrom

\* A job that is submitted was new and is pending.
LEMMA NewJobSeen ==
    ASSUME BaseInv, OwnerInv, JobInv, Next, NEW by \in Threads \cup {NULL}, Client(by),
           NEW j \in Jobs, pin[j] = NULL, pin'[j] # NULL, InQueue(j)'
    PROVE  /\ StatusOf(j) = "new" /\ StatusOf(j)' = "pending"
           /\ RunnerOf(j)' = RunnerOf(j) /\ (Woken(j)' <=> Woken(j))
<1>1. ASSUME NEW v \in Threads PROVE ~Runs(v, j)
  BY RunsLive DEF JobInv
<1>2. \A v \in Threads : ~Runs(v, j)'
  BY <1>1, ClientSeen
<1>3. RunnerOf(j) = NULL /\ ~Woken(j)
  BY <1>1, NoRunner
<1>4. RunnerOf(j)' = NULL /\ ~Woken(j)' /\ RunnersOf(j)' = {}
  BY <1>2, NoRunnerAfter
<1>5. j \notin finished'
  BY ClientSeen, Nowhere DEF JobInv
<1> QED BY <1>3, <1>4, <1>5 DEF StatusOf, Pending

LEMMA SubmitCbSeen ==
    ASSUME BaseInv, OwnerInv, JobInv, Next, NEW by \in Threads \cup {NULL}, NEW i \in Jobs,
           NEW t \in Threads \cup {ANY}, SubmitCb(by, i, t)
    PROVE  [JP!Next]_(JP!jobPoolVars)
<1>0. Client(by)
  BY DEF Client
<1>1. /\ pin[i] = NULL /\ pin'[i] # NULL /\ (\A j \in Jobs \ {i} : pin'[j] = pin[j])
      /\ UNCHANGED m_cb
      /\ \A k \in DOMAIN m_fibers' :
            \/ k \in DOMAIN m_fibers /\ m_fibers'[k] = m_fibers[k]
            \/ m_fibers'[k].cb = i /\ m_fibers'[k].fiber = NULL
      /\ \A k \in DOMAIN m_fibers : k \in DOMAIN m_fibers' /\ m_fibers'[k] = m_fibers[k]
      /\ \E k \in DOMAIN m_fibers' : m_fibers'[k].cb = i
  BY SubmitCbFacts
<1>2. \A j \in Jobs \ {i} : InQueue(j)' <=> InQueue(j)
  BY <1>1 DEF InQueue, For
<1>3. InQueue(i)'
  BY <1>1 DEF InQueue, For
<1>4. \A j \in Jobs \ {i} : Seen(j)
  BY <1>0, <1>1, <1>2, OtherJobsSeen
<1>5. /\ StatusOf(i) = "new" /\ StatusOf(i)' = "pending"
      /\ RunnerOf(i)' = RunnerOf(i) /\ (Woken(i)' <=> Woken(i))
  BY <1>0, <1>1, <1>3, NewJobSeen
<1>6. Serving' <=> Serving
  BY <1>0, ClientSeen
<1>7. PICK S \in SUBSET Jobs : S = {i}
  OBVIOUS
<1> QED BY <1>4, <1>5, <1>6, <1>7, SeesSubmit

LEMMA SubmitBatchSeen ==
    ASSUME BaseInv, OwnerInv, JobInv, Next, NEW by \in Threads \cup {NULL}, NEW h \in Jobs,
           NEW i \in Jobs, SubmitBatch(by, h, i)
    PROVE  [JP!Next]_(JP!jobPoolVars)
<1>0. Client(by)
  BY DEF Client
<1>1. PICK S \in SUBSET Jobs : S = {h, i}
  OBVIOUS
<1>2. /\ \A j \in S : pin[j] = NULL /\ pin'[j] # NULL
      /\ (\A j \in Jobs \ S : pin'[j] = pin[j])
      /\ UNCHANGED m_cb
      /\ \A k \in DOMAIN m_fibers' :
            \/ k \in DOMAIN m_fibers /\ m_fibers'[k] = m_fibers[k]
            \/ m_fibers'[k].cb \in S /\ m_fibers'[k].fiber = NULL
      /\ \A k \in DOMAIN m_fibers : k \in DOMAIN m_fibers' /\ m_fibers'[k] = m_fibers[k]
      /\ \A j \in S : \E k \in DOMAIN m_fibers' : m_fibers'[k].cb = j
  <2>1. /\ pin[h] = NULL /\ pin[i] = NULL /\ pin'[h] # NULL /\ pin'[i] # NULL
        /\ (\A j \in Jobs \ {h, i} : pin'[j] = pin[j]) /\ UNCHANGED m_cb
    BY SubmitBatchFacts
  <2>2. \A k \in DOMAIN m_fibers' :
           \/ k \in DOMAIN m_fibers /\ m_fibers'[k] = m_fibers[k]
           \/ m_fibers'[k].cb = h /\ m_fibers'[k].fiber = NULL
           \/ m_fibers'[k].cb = i /\ m_fibers'[k].fiber = NULL
    BY SubmitBatchFacts
  <2>3. /\ \A k \in DOMAIN m_fibers : k \in DOMAIN m_fibers' /\ m_fibers'[k] = m_fibers[k]
        /\ \E k \in DOMAIN m_fibers' : m_fibers'[k].cb = h
        /\ \E k \in DOMAIN m_fibers' : m_fibers'[k].cb = i
    BY SubmitBatchFacts
  <2> QED BY <1>1, <2>1, <2>2, <2>3
<1>3. \A j \in Jobs \ S : InQueue(j)' <=> InQueue(j)
  BY <1>2 DEF InQueue, For
<1>4. \A j \in S : InQueue(j)'
  BY <1>2 DEF InQueue, For
<1>5. \A j \in Jobs \ S : Seen(j)
  BY <1>0, <1>2, <1>3, OtherJobsSeen
<1>6. \A j \in S : /\ StatusOf(j) = "new" /\ StatusOf(j)' = "pending"
                   /\ RunnerOf(j)' = RunnerOf(j) /\ (Woken(j)' <=> Woken(j))
  BY <1>0, <1>2, <1>4, NewJobSeen
<1>7. Serving' <=> Serving
  BY <1>0, ClientSeen
<1> QED BY <1>1, <1>5, <1>6, <1>7, SeesSubmit

LEMMA SubmitFiberSeen ==
    ASSUME BaseInv, OwnerInv, JobInv, Next, NEW by \in Threads \cup {NULL}, NEW i \in Jobs,
           NEW f \in Fibers, NEW t \in Threads \cup {ANY}, SubmitFiber(by, i, f, t)
    PROVE  [JP!Next]_(JP!jobPoolVars)
<1>0. Client(by) /\ f # NULL /\ NULL \notin Jobs
  BY FiberConstants DEF Client
<1>1. /\ pin[i] = NULL /\ pin'[i] # NULL /\ (\A j \in Jobs \ {i} : pin'[j] = pin[j])
      /\ m_state[f] = "NONE" /\ m_cb'[f] = i /\ (\A g \in Fibers \ {f} : m_cb'[g] = m_cb[g])
      /\ \A k \in DOMAIN m_fibers' :
            \/ k \in DOMAIN m_fibers /\ m_fibers'[k] = m_fibers[k]
            \/ m_fibers'[k].cb = NULL /\ m_fibers'[k].fiber = f
      /\ \A k \in DOMAIN m_fibers : k \in DOMAIN m_fibers' /\ m_fibers'[k] = m_fibers[k]
      /\ \E k \in DOMAIN m_fibers' : m_fibers'[k].fiber = f
  BY SubmitFiberFacts
<1>2. \A k \in DOMAIN m_fibers : m_fibers[k].fiber # NULL => m_fibers[k].fiber \in Fibers \ {f}
  <2>1. ~Queued(f)
    BY <1>1 DEF OwnerInv, FiberStates
  <2>2. \A k \in DOMAIN m_fibers : m_fibers[k] \in Tasks
    BY DEF BaseInv, QueueOK
  <2> QED BY <2>1, <2>2 DEF Queued, Tasks
<1>3. ASSUME NEW j \in Jobs \ {i} PROVE InQueue(j)' <=> InQueue(j)
  BY <1>0, <1>1, <1>2 DEF InQueue, For
<1>4. InQueue(i)'
  BY <1>0, <1>1 DEF InQueue, For
<1>5. \A j \in Jobs \ {i} : Seen(j)
  BY <1>0, <1>1, <1>3, OtherJobsSeen
<1>6. /\ StatusOf(i) = "new" /\ StatusOf(i)' = "pending"
      /\ RunnerOf(i)' = RunnerOf(i) /\ (Woken(i)' <=> Woken(i))
  BY <1>0, <1>1, <1>4, NewJobSeen
<1>7. Serving' <=> Serving
  BY <1>0, ClientSeen
<1>8. PICK S \in SUBSET Jobs : S = {i}
  OBVIOUS
<1> QED BY <1>5, <1>6, <1>7, <1>8, SeesSubmit

\* schedule() of a fiber that exists: its job was parked, or it is running and
\* scheduled itself.  Nothing is seen of a fiber without a job or whose job is over.
LEMMA WakeSeen ==
    ASSUME Contract, BaseInv, OwnerInv, JobInv, Next, NEW by \in Threads \cup {NULL},
           NEW f \in Fibers, NEW t \in Threads \cup {ANY}, Wake(by, f, t)
    PROVE  [JP!Next]_(JP!jobPoolVars)
<1>0. Client(by) /\ f # NULL /\ NULL \notin Jobs /\ OnePlace /\ Lives
  BY FiberConstants DEF Client, JobInv
<1>1. /\ MayCall(by) /\ UNCHANGED <<m_cb, pin, pc, ft, cb_fiber, finished>>
      /\ \/ Parked(f)
         \/ by # NULL /\ Cur(by) = f
      /\ Schedule(Task(f, NULL, t))
  BY DEF Wake, fiberVars, localVars
<1>2. /\ \A k \in DOMAIN m_fibers' :
            \/ k \in DOMAIN m_fibers /\ m_fibers'[k] = m_fibers[k]
            \/ m_fibers'[k].cb = NULL /\ m_fibers'[k].fiber = f
      /\ \A k \in DOMAIN m_fibers : k \in DOMAIN m_fibers' /\ m_fibers'[k] = m_fibers[k]
      /\ \E k \in DOMAIN m_fibers' : m_fibers'[k].fiber = f
  BY <1>1, ScheduleFiberFacts
<1>3. ASSUME NEW j \in Jobs PROVE InQueue(j)' <=> InQueue(j) \/ m_cb[f] = j
  BY <1>0, <1>1, <1>2 DEF InQueue, For
<1>4. ASSUME NEW j \in Jobs, m_cb[f] # j \/ j \in finished PROVE Seen(j)
  BY <1>0, <1>1, <1>3, <1>4, OtherJobsSeen
<1>5. Serving' <=> Serving
  BY <1>0, ClientSeen
<1>6. CASE m_cb[f] \in finished \cup {NULL}
  <2>1. \A j \in Jobs : Seen(j)
    BY <1>0, <1>4, <1>6
  <2> QED BY <1>5, <2>1, SeesNothing
<1>7. CASE m_cb[f] \notin finished \cup {NULL}
  <2>1. PICK i \in Jobs : i = m_cb[f] /\ i \notin finished /\ pin[i] # NULL
    BY <1>0, <1>7 DEF BaseInv, TypeOK, FiberTypeOK, Lives
  <2>2. \A j \in Jobs \ {i} : Seen(j)
    BY <1>4, <2>1
  <2>3. /\ \A v \in Threads : (Runs(v, i)' <=> Runs(v, i)) /\ (Carries(v, i)' <=> Carries(v, i))
        /\ InQueue(i)' /\ i \notin finished' /\ pin'[i] # NULL
    BY <1>0, <1>1, <1>3, <2>1, ClientSeen
  <2>4. RunnersOf(i)' = RunnersOf(i)
    BY <2>3 DEF RunnersOf
  <2>5. RunnerOf(i)' = RunnerOf(i)
    BY <2>4 DEF RunnerOf
  <2>6. CASE by # NULL /\ Cur(by) = f
    <3>1. by \in Threads /\ Runs(by, i)
      BY <1>1, <2>1, <2>6 DEF MayCall, Runs
    <3>2. RunnersOf(i) # {}
      BY <3>1 DEF RunnersOf
    <3>3. StatusOf(i) = "running" /\ StatusOf(i)' = "running" /\ Woken(i)'
      BY <2>1, <2>3, <2>4, <3>2 DEF StatusOf, Woken, Pending
    <3> QED BY <1>5, <2>2, <2>5, <3>3, SeesWake
  <2>7. CASE Parked(f)
    <3>1. ASSUME NEW g \in Fibers, m_cb[g] = i PROVE ~Queued(g) /\ \A v \in Threads : ~Refers(v, g)
      <4>1. g = f
        BY <1>0, <2>1, <3>1 DEF OnePlace
      <4> QED BY <2>7, <4>1 DEF Parked
    <3>2. ~InQueue(i)
      <4>1. \A k \in DOMAIN m_fibers : m_fibers[k] \in Tasks /\ m_fibers[k].cb # i
        BY <1>0, <2>1 DEF BaseInv, QueueOK, OnePlace
      <4> QED BY <3>1, <4>1 DEF InQueue, For, Queued, Tasks
    <3>3. ASSUME NEW v \in Threads PROVE ~Runs(v, i) /\ ~Carries(v, i)
      <4>1. ft[v].cb # i
        BY <1>0, <2>1 DEF OnePlace
      <4>2. ft[v].fiber # NULL => ft[v].fiber \in Fibers /\ Refers(v, ft[v].fiber)
        BY DEF BaseInv, TypeOK, LocalTypeOK, Tasks, Refers
      <4>3. pc[v] \in HasFiber => Cur(v) \in Fibers /\ Refers(v, Cur(v))
        BY CurFacts
      <4> QED BY <3>1, <4>1, <4>2, <4>3 DEF Runs, Carries, For, HasFiber
    <3>4. RunnersOf(i) = {} /\ ~Woken(i)
      BY <3>3, NoRunner
    <3>5. StatusOf(i) = "parked" /\ StatusOf(i)' = "pending" /\ ~Woken(i)'
      BY <2>1, <2>3, <2>4, <3>2, <3>3, <3>4 DEF StatusOf, Woken, Pending
    <3> QED BY <1>5, <2>2, <2>5, <3>4, <3>5, SeesWake
  <2> QED BY <1>1, <2>6, <2>7
<1> QED BY <1>6, <1>7

-----------------------------------------------------------------------------
(***************************************************************************)
(* start() and stop(), as clients see them.                                *)
(***************************************************************************)

\* The steps of the thread that starts and stops the scheduler.
MainStep ==
    \/ \E w \in Workers : StartThread(w)
    \/ StartLock \/ StartUnlock \/ StopBegin \/ StopAlone \/ StopSet \/ StopRoot
    \/ RootReturn \/ StopSwap \/ Join \/ StopReturn
    \/ UNCHANGED vars

LEMMA MainSeen ==
    ASSUME Contract, BaseInv, OwnerInv, JobInv, Next, MainStep
    PROVE  \A j \in Jobs : Seen(j)
<1>1. UNCHANGED <<m_fibers, pin, finished, iter>>
  BY DEF MainStep, StartThread, StartLock, StartUnlock, StopBegin, StopAlone, StopSet, StopRoot,
     RootReturn, StopSwap, Join, StopReturn, vars, sharedVars, localVars, histVars
<1>2. ASSUME NEW v \in Threads PROVE ~Run(v)
  <2>1. SUFFICES ASSUME Run(v) PROVE FALSE
    OBVIOUS
  <2>2. pc'[v] # pc[v] /\ pc[v] \notin {"off", "exited"}
    BY <1>1, <2>1, RunMoves, RunFrame
  <2>3. pc[Caller] # "off" => mpc = "root"
    BY DEF BaseInv, Shape
  <2> QED BY <2>2, <2>3
      DEF MainStep, StartThread, StartLock, StartUnlock, StopBegin, StopAlone, StopSet, StopRoot,
          RootReturn, StopSwap, Join, StopReturn, EnterRun, vars, BaseInv, TypeOK, LocalTypeOK
<1>3. ASSUME NEW j \in Jobs PROVE Seen(j)
  <2>1. \A v \in Threads : (Runs(v, j)' <=> Runs(v, j)) /\ (Carries(v, j)' <=> Carries(v, j))
    BY <1>2, CarriesFrame
  <2>2. InQueue(j)' <=> InQueue(j)
    BY <1>1, QueueStays
  <2>3. Pending(j)' <=> Pending(j)
    BY <2>1, <2>2 DEF Pending
  <2>4. j \in finished => \A v \in Threads : ~Runs(v, j)
    BY RunsLive DEF JobInv
  <2> QED BY <1>1, <2>1, <2>3, <2>4, SeenFrom
<1> QED BY <1>3

\* stop() returns when no thread is left and nothing is queued.
LEMMA NothingLeft ==
    ASSUME \A w \in Threads : pc[w] = "off", m_fibers = <<>>, NEW j \in Jobs
    PROVE  StatusOf(j) \notin {"pending", "running"}
<1>1. \A w \in Threads : ~Runs(w, j) /\ ~Carries(w, j)
  BY DEF Runs, Carries
<1>2. ~InQueue(j)
  BY DEF InQueue
<1>3. RunnersOf(j) = {}
  BY <1>1 DEF RunnersOf
<1> QED BY <1>1, <1>2, <1>3 DEF StatusOf, Pending

LEMMA StopReturnSeen ==
    ASSUME Contract, BaseInv, OwnerInv, StopInv, JobInv, Next, StopReturn
    PROVE  JP!Next
<1>1. mpc = "join" /\ mpc' = "stopped" /\ thrs = <<>> /\ m_threads = <<>>
  BY DEF StopReturn, StopInv, Phases
<1>2. \A w \in Threads : pc[w] = "off"
  <2>1. ToSet(<<>>) = {}
    BY DEF ToSet
  <2>2. \A w \in Workers : pc[w] = "off"
    BY <1>1, <2>1 DEF StopInv, Phases
  <2>3. pc[Caller] = "off"
    BY <1>1 DEF BaseInv, Shape
  <2> QED BY <2>2, <2>3 DEF Threads
<1>3. m_fibers = <<>>
  BY <1>1, <1>2 DEF StopInv, Takers, EndGame
<1>4. \A j \in Jobs : StatusOf(j) \notin {"pending", "running"}
  BY <1>2, <1>3, NothingLeft
<1>5. \A j \in Jobs : Seen(j)
  BY MainSeen DEF MainStep
<1>6. Serving /\ ~Serving'
  BY <1>1 DEF Serving
<1> QED BY <1>4, <1>5, <1>6, SeesDown

LEMMA StopAloneSeen ==
    ASSUME Contract, BaseInv, OwnerInv, StopInv, JobInv, Next, StopAlone, mpc' = "stopped"
    PROVE  JP!Next
<1>1. mpc = "stop_alone" /\ m_fibers = <<>>
  BY DEF StopAlone, Stopping, sharedVars
<1>2. \A w \in Threads : pc[w] = "off"
  <2>1. Workers = {}
    BY <1>1 DEF StopInv, Phases
  <2>2. pc[Caller] = "off"
    BY <1>1 DEF BaseInv, Shape
  <2> QED BY <2>1, <2>2 DEF Threads
<1>3. \A j \in Jobs : StatusOf(j) \notin {"pending", "running"}
  BY <1>1, <1>2, NothingLeft
<1>4. \A j \in Jobs : Seen(j)
  BY MainSeen DEF MainStep
<1>5. Serving /\ ~Serving'
  BY <1>1 DEF Serving
<1> QED BY <1>3, <1>4, <1>5, SeesDown

LEMMA MainJobPool ==
    ASSUME Contract, BaseInv, OwnerInv, StopInv, JobInv, Next, MainStep
    PROVE  [JP!Next]_(JP!jobPoolVars)
<1>1. \A j \in Jobs : Seen(j)
  BY MainSeen
<1>2. CASE Serving' <=> Serving
  BY <1>1, <1>2, SeesNothing
<1>3. CASE StartUnlock
  <2>1. ~Serving /\ Serving'
    BY <1>3 DEF StartUnlock, Serving
  <2> QED BY <1>1, <2>1, SeesUp
<1>4. CASE StopReturn
  BY <1>4, StopReturnSeen
<1>5. CASE StopAlone
  <2>1. CASE mpc' = "stopped"
    BY <1>5, <2>1, StopAloneSeen
  <2>2. CASE mpc' # "stopped"
    <3>1. Serving' <=> Serving
      BY <1>5, <2>2 DEF StopAlone, Serving
    <3> QED BY <1>2, <3>1
  <2> QED BY <2>1, <2>2
<1>6. CASE \/ \E w \in Workers : StartThread(w)
           \/ StopBegin \/ StopSet \/ StopRoot \/ RootReturn \/ StopSwap \/ Join
           \/ UNCHANGED vars
  <2>1. Serving' <=> Serving
    BY <1>6 DEF Serving, StartThread, StopBegin, StopSet, StopRoot, RootReturn, StopSwap, Join,
       vars, mainVars
  <2> QED BY <1>2, <2>1
<1>7. CASE StartLock
  <2>1. mpc \in {"idle", "stopped"} /\ mpc' = "starting"
    BY <1>7 DEF StartLock, StopInv, Phases
  <2> QED BY <1>2, <2>1 DEF Serving
<1> QED BY <1>3, <1>4, <1>5, <1>6, <1>7 DEF MainStep

-----------------------------------------------------------------------------
LEMMA JobPoolInit == Init => JP!Init
<1> SUFFICES ASSUME Init PROVE JP!Init
  OBVIOUS
<1>1. ASSUME NEW j \in Jobs PROVE StatusOf(j) = "new" /\ RunnerOf(j) = NULL /\ ~Woken(j)
  <2>1. pin[j] = NULL /\ \A w \in Threads : ~Runs(w, j)
    BY DEF Init, Runs
  <2> QED BY <2>1, NoRunner DEF StatusOf
<1>2. ~Serving
  BY DEF Init, Serving
<1> QED BY <1>1, <1>2 DEF JP!Init

LEMMA JobPoolStep ==
    ASSUME Contract, BaseInv, OwnerInv, StopInv, JobInv, [Next]_vars
    PROVE  [JP!Next]_(JP!jobPoolVars)
<1>1. CASE Next
  <2>1. \/ \E by \in Threads \cup {NULL} : Client(by)
        \/ \E w \in Runners : Run(w)
        \/ MainStep
    BY <1>1, Zenon DEF Next, Start, StartRest, Stop, Ended, MainStep
  <2>2. ASSUME NEW w \in Runners, Run(w) PROVE [JP!Next]_(JP!jobPoolVars)
    <3>0. w \in Threads
      BY DEF Runners, Threads
    <3>1. CASE SwapIn(w)
      BY <1>1, <3>0, <3>1, TurnBegins
    <3>2. CASE BodyReturn(w) \/ BodyThrow(w)
      BY <1>1, <3>0, <3>2, TurnEnds
    <3>3. CASE YieldToReady(w) \/ YieldToHold(w)
      BY <1>1, <3>0, <3>3, TurnYields
    <3>4. CASE ~SwapIn(w) /\ ~BodyReturn(w) /\ ~BodyThrow(w) /\ ~YieldToReady(w) /\ ~YieldToHold(w)
      <4>1. \A j \in Jobs : Seen(j)
        BY <1>1, <2>2, <3>0, <3>4, QuietRunSeen
      <4>2. UNCHANGED mpc
        BY <2>2, <3>0, RunFrame DEF mainVars
      <4> QED BY <4>1, <4>2, SeesNothing DEF Serving
    <3> QED BY <3>1, <3>2, <3>3, <3>4
  <2>3. ASSUME NEW by \in Threads \cup {NULL}, Client(by) PROVE [JP!Next]_(JP!jobPoolVars)
    BY <1>1, <2>3, SubmitCbSeen, SubmitBatchSeen, SubmitFiberSeen, WakeSeen DEF Client
  <2> QED BY <1>1, <2>1, <2>2, <2>3, MainJobPool
<1>2. CASE UNCHANGED vars
  <2>1. \A j \in Jobs : Seen(j)
    BY <1>2 DEF vars, fiberVars, sharedVars, localVars, histVars, Seen, StatusOf, RunnerOf,
       RunnersOf, Runs, Woken, Pending, InQueue, Carries, For, Cur
  <2>2. UNCHANGED mpc
    BY <1>2 DEF vars, mainVars
  <2> QED BY <2>1, <2>2, SeesNothing DEF Serving
<1> QED BY <1>1, <1>2

\* Every behaviour of the scheduler whose clients keep to the contract is one of the
\* abstract job pool: schedule(), run(), the yields and stop() neither lose a job nor
\* run it twice.
THEOREM ImplementsJobPoolCorrect ==
    ASSUME Contract
    PROVE  Spec => ImplementsJobPool
<1>1. BaseInv /\ OwnerInv /\ StopInv /\ JobInv /\ [Next]_vars => [JP!Next]_(JP!jobPoolVars)
  BY JobPoolStep
<1> QED BY <1>1, JobPoolInit, BaseInvariant, Ownership, StopAgreed, JobsInOnePlace, PTL
        DEF Spec, ImplementsJobPool, JP!Spec
=============================================================================
