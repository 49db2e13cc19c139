----------------------------- MODULE Scheduler -----------------------------
(***************************************************************************)
(* The N:M fiber scheduler of src/src/scheduler.{h,cpp} on top of Fiber:   *)
(* the message queue m_fibers behind m_mutex, the run() loop of every      *)
(* worker thread, start(), stop(), and the clients that call schedule().   *)
(*                                                                         *)
(* One action is a stretch of code of one thread between two accesses to   *)
(* state that another thread also accesses.  The scan of m_fibers in run() *)
(* is taken entry by entry, because it reads the m_state of fibers that    *)
(* run on other threads and write it without m_mutex; the critical         *)
(* sections of schedule(), stopping() and stop() touch nothing else that   *)
(* is written outside m_mutex in a way they could tell, and are one step.  *)
(* tickle() only logs.                                                     *)
(***************************************************************************)
EXTENDS Fiber, SequencesExt

CONSTANTS
    Workers,    \* the threads of the pool, m_thread_count of them
    Caller,     \* the thread that constructs, starts and stops the scheduler
    UseCaller,  \* the constructor's use_caller: Caller also runs tasks, in stop()
    ANY,        \* the thread argument -1
    Contract,   \* TRUE: clients keep to the rules of section Clients
    MaxYields,  \* bound: how often one job yields
    MaxWakes,   \* bound: how many times an existing fiber is scheduled
    MaxStarts   \* bound: how many times start() succeeds

Threads == Workers \cup {Caller}

\* The threads that run run(), the ids of m_thread_ids.
Runners == IF UseCaller THEN Threads ELSE Workers

ASSUME SchedulerConstants ==
    /\ IsFiniteSet(Workers)
    /\ Caller \notin Workers
    /\ NULL \notin Threads /\ ANY \notin Threads /\ ANY # NULL
    /\ UseCaller \in BOOLEAN /\ Contract \in BOOLEAN
    /\ Runners # {}                         \* SYLAR_ASSERT(threads > 0)
    /\ MaxYields \in Nat /\ MaxWakes \in Nat /\ MaxStarts \in Nat

VARIABLES
    \* shared members of the Scheduler object
    m_mutex,                \* the thread that owns m_mutex, or NULL
    m_fibers,               \* the message queue
    m_threads,              \* the threads of the pool not yet handed to join
    m_active_thread_count,
    m_idle_thread_count,
    m_stopping,
    m_auto_stop,
    root_state,             \* m_root_fiber->m_state
    \* locals of run(), per thread
    pc,                     \* where the thread is
    iter,                   \* the scan's iterator into m_fibers
    ft,                     \* the dequeued FiberAndThread
    cb_fiber,               \* the fiber that callbacks run in
    idle_term,              \* idle_fiber->getState() == TERM
    \* the thread that calls start() and stop()
    mpc,                    \* where it is
    thrs,                   \* stop()'s local copy of m_threads
    \* history and bounds
    pin,                    \* the thread each job was submitted for, NULL before
    known,                  \* the fibers that clients may have a pointer to
    finished,               \* the jobs whose callback returned or threw
    yields, wakes, starts

sharedVars == <<m_mutex, m_fibers, m_active_thread_count, m_idle_thread_count>>
mainVars == <<m_threads, m_stopping, m_auto_stop, root_state, mpc, thrs, starts>>
localVars == <<iter, ft, cb_fiber, idle_term>>
histVars == <<pin, known, finished, yields, wakes>>

vars == <<fiberVars, sharedVars, mainVars, pc, localVars, histVars>>

-----------------------------------------------------------------------------
\* FiberAndThread
Task(fiber, cb, thread) == [fiber |-> fiber, cb |-> cb, thread |-> thread]

Tasks == [fiber : Fibers \cup {NULL}, cb : Jobs \cup {NULL}, thread : Threads \cup {ANY}]

\* FiberAndThread::reset()
NoTask == Task(NULL, NULL, ANY)

\* The fiber a worker is about to run, runs, or has just run: ft.fiber, or
\* cb_fiber once ft has been reset for a callback.
Cur(w) == IF ft[w].fiber # NULL THEN ft[w].fiber ELSE cb_fiber[w]

\* Worker w executes on the stack of Cur(w).
OnStack(w) == pc[w] \in {"body", "swapout"}

\* m_fibers holds a message for fiber f.
Queued(f) == \E i \in DOMAIN m_fibers : m_fibers[i].fiber = f

\* Worker w holds a pointer to fiber f.
Refers(w, f) == f \in {ft[w].fiber, cb_fiber[w]}

\* Fault: stopping() without its two flags.
StoppingUnasked == m_fibers = <<>> /\ m_active_thread_count = 0

\* stopping()
Stopping ==
    m_auto_stop /\ m_stopping /\ m_fibers = <<>> /\ m_active_thread_count = 0

\* scheduleNoLock(): an empty message is not queued.
scheduleNoLock(q, task) ==
    IF task.fiber # NULL \/ task.cb # NULL THEN Append(q, task) ELSE q

\* An assertion failed (abort), or two threads run on one stack (corrupt):
\* the process does nothing that could be described any more.
Crashed == mpc = "abort" \/ \E w \in Threads : pc[w] \in {"abort", "corrupt"}

SharedTypeOK ==
    /\ m_mutex \in Threads \cup {NULL}
    /\ m_fibers \in Seq(Tasks)
    /\ m_active_thread_count \in Nat /\ m_idle_thread_count \in Nat

LocalTypeOK ==
    /\ pc \in [Threads -> {"off", "loop", "scan", "dispatch", "assert", "enter",
                           "body", "swapout", "after", "requeue", "resched",
                           "park", "idle", "exited", "abort", "corrupt"}]
    /\ iter \in [Threads -> Nat]
    /\ ft \in [Threads -> Tasks]
    /\ cb_fiber \in [Threads -> Fibers \cup {NULL}]
    /\ idle_term \in [Threads -> BOOLEAN]

MainTypeOK ==
    /\ mpc \in {"idle", "starting", "started", "stop_alone", "stop_set",
                "stop_root", "root", "stop_swap", "join", "stopped", "abort"}
    /\ m_threads \in Seq(Workers) /\ thrs \in Seq(Workers)
    /\ m_stopping \in BOOLEAN /\ m_auto_stop \in BOOLEAN
    /\ root_state \in {"INIT", "EXEC", "TERM"}
    /\ starts \in Nat

HistTypeOK ==
    /\ pin \in [Jobs -> Threads \cup {ANY, NULL}]
    /\ known \in SUBSET Fibers /\ finished \in SUBSET Jobs
    /\ yields \in [Jobs -> Nat]
    /\ wakes \in Nat

\* Every member and local holds a value of its C++ type; in particular the
\* counters, which are size_t, are never decremented below 0.
TypeOK == FiberTypeOK /\ SharedTypeOK /\ LocalTypeOK /\ MainTypeOK /\ HistTypeOK

\* Scheduler::Scheduler()
Init ==
    /\ FiberInit
    /\ m_mutex = NULL
    /\ m_fibers = <<>>
    /\ m_threads = <<>> /\ thrs = <<>>
    /\ m_active_thread_count = 0 /\ m_idle_thread_count = 0
    /\ m_stopping = TRUE /\ m_auto_stop = FALSE
    /\ root_state = "INIT"
    /\ pc = [w \in Threads |-> "off"]
    /\ iter = [w \in Threads |-> 1]
    /\ ft = [w \in Threads |-> NoTask]
    /\ cb_fiber = [w \in Threads |-> NULL]
    /\ idle_term = [w \in Threads |-> FALSE]
    /\ mpc = "idle"
    /\ pin = [j \in Jobs |-> NULL]
    /\ known = {} /\ finished = {}
    /\ yields = [j \in Jobs |-> 0]
    /\ wakes = 0 /\ starts = 0

-----------------------------------------------------------------------------
(***************************************************************************)
(* Clients.  schedule() is called by a thread outside the pool (by = NULL) *)
(* or by the callback that worker `by' is running.  With Contract = TRUE:  *)
(*   - an outside thread calls schedule() only while stop() is not running;*)
(*   - a callback pins work to no other thread than its own;               *)
(*   - an existing fiber is scheduled only when nothing refers to it any   *)
(*     more, or by itself, for its own thread, as long as it then yields   *)
(*     to HOLD before anything else ends its turn;                         *)
(*   - a scheduler with use_caller is started once.                        *)
(***************************************************************************)
MayCall(by) ==
    IF by = NULL
    THEN Contract => \/ mpc \in {"idle", "started"}
                     \/ mpc = "stopped" /\ starts < MaxStarts
    ELSE pc[by] = "body" /\ m_cb[Cur(by)] # NULL

\* A thread id is known from the moment the thread exists.
MayPin(by, t) ==
    \/ t = ANY
    \/ /\ t \in Runners
       /\ t = Caller \/ pc[t] # "off"
       /\ Contract /\ by # NULL => t = by

\* Nothing of the scheduler refers to the suspended or finished fiber f.
Parked(f) ==
    /\ m_state[f] \in Finished \cup {"HOLD"}
    /\ ~Queued(f)
    /\ \A w \in Threads : ~Refers(w, f)

\* The critical section of schedule()
Schedule(task) ==
    /\ m_mutex = NULL
    /\ m_fibers' = scheduleNoLock(m_fibers, task)
    /\ UNCHANGED <<m_mutex, m_active_thread_count, m_idle_thread_count>>

\* schedule(cb, thread) of a new job
SubmitCb(by, j, t) ==
    /\ MayCall(by) /\ MayPin(by, t) /\ pin[j] = NULL
    /\ Schedule(Task(NULL, j, t))
    /\ pin' = [pin EXCEPT ![j] = t]
    /\ UNCHANGED <<fiberVars, mainVars, pc, localVars, known, finished, yields, wakes>>

\* schedule(std::make_shared<Fiber>(cb), thread) of a new job
SubmitFiber(by, j, f, t) ==
    /\ MayCall(by) /\ MayPin(by, t) /\ pin[j] = NULL
    /\ Construct(f, j)
    /\ Schedule(Task(f, NULL, t))
    /\ pin' = [pin EXCEPT ![j] = t]
    /\ known' = known \cup {f}
    /\ UNCHANGED <<mainVars, pc, localVars, finished, yields, wakes>>

\* schedule(begin, end) of two new jobs: one critical section
SubmitBatch(by, i, j) ==
    /\ MayCall(by) /\ i # j /\ pin[i] = NULL /\ pin[j] = NULL
    /\ m_mutex = NULL
    /\ m_fibers' = scheduleNoLock(scheduleNoLock(m_fibers, Task(NULL, i, ANY)),
                                  Task(NULL, j, ANY))
    /\ pin' = [pin EXCEPT ![i] = ANY, ![j] = ANY]
    /\ UNCHANGED <<fiberVars, mainVars, pc, localVars, known, finished, yields, wakes,
                   m_mutex, m_active_thread_count, m_idle_thread_count>>

\* schedule(fiber, thread) of a fiber that exists.  A client knows the fibers
\* that it made, and those in which a callback of its has called GetThis();
\* nobody else sees a cb_fiber of run().
Wake(by, f, t) ==
    /\ MayCall(by) /\ MayPin(by, t) /\ wakes < MaxWakes /\ f \in known
    /\ Contract => \/ Parked(f)
                   \/ /\ by # NULL /\ Cur(by) = f /\ t = by /\ ~Queued(f)
                      /\ yields[m_cb[f]] < MaxYields
    /\ Schedule(Task(f, NULL, t))
    /\ wakes' = wakes + 1
    /\ UNCHANGED <<fiberVars, mainVars, pc, localVars, pin, known, finished, yields>>

-----------------------------------------------------------------------------
(***************************************************************************)
(* Scheduler::run(): taking a message off the queue.                       *)
(***************************************************************************)
Goto(w, label) == pc' = [pc EXCEPT ![w] = label]

\* Top of the loop: reset ft, lock m_mutex, start the scan.
Lock(w) ==
    /\ pc[w] = "loop" /\ m_mutex = NULL
    /\ m_mutex' = w
    /\ ft' = [ft EXCEPT ![w] = NoTask]
    /\ Goto(w, "scan")
    /\ UNCHANGED <<fiberVars, m_fibers, m_active_thread_count, m_idle_thread_count,
                   mainVars, iter, cb_fiber, idle_term, histVars>>

\* Fault: a scan that does not look at the thread of a message.
RunnableAnywhere(w, task) == task.fiber # NULL => m_state[task.fiber] # "EXEC"

\* Fault: the ids of threads never compare equal.
RunnableUnpinned(w, task) ==
    task.thread = ANY /\ (task.fiber # NULL => m_state[task.fiber] # "EXEC")

\* The scan's two reasons to pass over a message.
Runnable(w, task) ==
    /\ task.thread \in {ANY, w}
    /\ task.fiber # NULL => m_state[task.fiber] # "EXEC"

ScanSkip(w) ==
    /\ pc[w] = "scan" /\ iter[w] \in DOMAIN m_fibers
    /\ ~Runnable(w, m_fibers[iter[w]])
    /\ iter' = [iter EXCEPT ![w] = @ + 1]
    /\ UNCHANGED <<fiberVars, sharedVars, mainVars, pc, ft, cb_fiber, idle_term,
                   histVars>>

\* The end of the scan's block: the iterator is gone, m_mutex is released.
Unlock(w) ==
    /\ m_mutex' = NULL
    /\ iter' = [iter EXCEPT ![w] = 1]
    /\ Goto(w, "dispatch")

\* Faults: the message is not counted, or not erased.
ScanTakeUncounted(w) ==
    /\ pc[w] = "scan" /\ iter[w] \in DOMAIN m_fibers
    /\ Runnable(w, m_fibers[iter[w]])
    /\ ft' = [ft EXCEPT ![w] = m_fibers[iter[w]]]
    /\ m_fibers' = RemoveAt(m_fibers, iter[w])
    /\ Unlock(w)
    /\ UNCHANGED <<fiberVars, m_active_thread_count, m_idle_thread_count, mainVars,
                   cb_fiber, idle_term, histVars>>

ScanTakeKeeps(w) ==
    /\ pc[w] = "scan" /\ iter[w] \in DOMAIN m_fibers
    /\ Runnable(w, m_fibers[iter[w]])
    /\ ft' = [ft EXCEPT ![w] = m_fibers[iter[w]]]
    /\ m_active_thread_count' = m_active_thread_count + 1
    /\ Unlock(w)
    /\ UNCHANGED <<fiberVars, m_fibers, m_idle_thread_count, mainVars, cb_fiber,
                   idle_term, histVars>>

ScanTake(w) ==
    /\ pc[w] = "scan" /\ iter[w] \in DOMAIN m_fibers
    /\ Runnable(w, m_fibers[iter[w]])
    /\ ft' = [ft EXCEPT ![w] = m_fibers[iter[w]]]
    /\ m_fibers' = RemoveAt(m_fibers, iter[w])
    /\ m_active_thread_count' = m_active_thread_count + 1
    /\ Unlock(w)
    /\ UNCHANGED <<fiberVars, m_idle_thread_count, mainVars, cb_fiber, idle_term,
                   histVars>>

ScanEnd(w) ==
    /\ pc[w] = "scan" /\ iter[w] \notin DOMAIN m_fibers
    /\ Unlock(w)
    /\ UNCHANGED <<fiberVars, m_fibers, m_active_thread_count, m_idle_thread_count,
                   mainVars, ft, cb_fiber, idle_term, histVars>>

-----------------------------------------------------------------------------
(***************************************************************************)
(* Scheduler::run(): the three branches on ft.                             *)
(***************************************************************************)
DispatchFiber(w) ==
    /\ pc[w] = "dispatch" /\ ft[w].fiber # NULL
    /\ m_state[ft[w].fiber] \notin Finished
    /\ Goto(w, "assert")
    /\ UNCHANGED <<fiberVars, sharedVars, mainVars, localVars, histVars>>

\* Fault: `continue' without the decrement.
DispatchDeadUncounted(w) ==
    /\ pc[w] = "dispatch" /\ ft[w].fiber # NULL
    /\ m_state[ft[w].fiber] \in Finished
    /\ ft' = [ft EXCEPT ![w] = NoTask]
    /\ Goto(w, "loop")
    /\ UNCHANGED <<fiberVars, sharedVars, mainVars, iter, cb_fiber, idle_term, histVars>>

\* The fiber has ended since it was scheduled: is_active, continue.
DispatchDead(w) ==
    /\ pc[w] = "dispatch" /\ ft[w].fiber # NULL
    /\ m_state[ft[w].fiber] \in Finished
    /\ m_active_thread_count' = m_active_thread_count - 1
    /\ ft' = [ft EXCEPT ![w] = NoTask]
    /\ Goto(w, "loop")
    /\ UNCHANGED <<fiberVars, m_mutex, m_fibers, m_idle_thread_count, mainVars, iter,
                   cb_fiber, idle_term, histVars>>

\* A callback runs in cb_fiber, created if the last one is gone.
DispatchCb(w) ==
    /\ pc[w] = "dispatch" /\ ft[w].fiber = NULL /\ ft[w].cb # NULL
    /\ \/ /\ cb_fiber[w] = NULL
          /\ \E f \in Fibers : /\ Construct(f, ft[w].cb)
                               /\ cb_fiber' = [cb_fiber EXCEPT ![w] = f]
          /\ Goto(w, "assert")
       \/ /\ cb_fiber[w] # NULL
          /\ Reset(cb_fiber[w], ft[w].cb)
          /\ Goto(w, "assert")
          /\ UNCHANGED cb_fiber
       \/ /\ cb_fiber[w] # NULL /\ m_state[cb_fiber[w]] \notin Idle
          /\ Goto(w, "abort")               \* the assertion of Fiber::reset()
          /\ UNCHANGED <<fiberVars, cb_fiber>>
    /\ ft' = [ft EXCEPT ![w] = NoTask]
    /\ UNCHANGED <<sharedVars, mainVars, iter, idle_term, histVars>>

\* Nothing to run: let the idle fiber look at stopping().
DispatchIdle(w) ==
    /\ pc[w] = "dispatch" /\ ft[w] = NoTask /\ ~idle_term[w]
    /\ m_idle_thread_count' = m_idle_thread_count + 1
    /\ Goto(w, "idle")
    /\ UNCHANGED <<fiberVars, m_mutex, m_fibers, m_active_thread_count, mainVars,
                   localVars, histVars>>

\* Nothing to run and the idle fiber has ended: leave the loop.
Exit(w) ==
    /\ pc[w] = "dispatch" /\ ft[w] = NoTask /\ idle_term[w]
    /\ cb_fiber' = [cb_fiber EXCEPT ![w] = NULL]
    /\ Goto(w, "exited")
    /\ UNCHANGED <<fiberVars, sharedVars, mainVars, iter, ft, idle_term, histVars>>

\* Scheduler::idle(): one round of its loop, then back in run().
IdleRound(w) ==
    /\ pc[w] = "idle" /\ m_mutex = NULL
    /\ idle_term' = [idle_term EXCEPT ![w] = Stopping]
    /\ m_idle_thread_count' = m_idle_thread_count - 1
    /\ Goto(w, "loop")
    /\ UNCHANGED <<fiberVars, m_mutex, m_fibers, m_active_thread_count, mainVars, iter,
                   ft, cb_fiber, histVars>>

-----------------------------------------------------------------------------
(***************************************************************************)
(* Fiber::swapIn() and the callback.                                       *)
(***************************************************************************)
SwapInAssert(w) ==
    /\ pc[w] = "assert"
    /\ Goto(w, IF m_state[Cur(w)] = "EXEC" THEN "abort" ELSE "enter")
    /\ UNCHANGED <<fiberVars, sharedVars, mainVars, localVars, histVars>>

\* Another thread has not left the stack of fiber f yet.
Occupied(f, w) == \E v \in Threads \ {w} : OnStack(v) /\ Cur(v) = f

\* m_state = EXEC, swapcontext.  Entering a context that ended runs into
\* MainFunc's "never reach" assertion.
SwapIn(w) ==
    /\ pc[w] = "enter"
    /\ SetState(Cur(w), "EXEC")
    /\ Goto(w, IF Occupied(Cur(w), w) THEN "corrupt"
               ELSE IF ctx[Cur(w)] = "end" THEN "abort" ELSE "body")
    /\ known' = IF m_cb[Cur(w)] = NULL THEN known ELSE known \cup {Cur(w)}
    /\ UNCHANGED <<m_cb, ctx, sharedVars, mainVars, localVars, pin, finished, yields, wakes>>

\* The four ways a callback's turn ends.  A fiber that scheduled itself
\* yields to HOLD (Contract); a fiber without a callback can only throw.
NotSelfScheduled(w) == Contract => ~Queued(Cur(w))

BodyReturn(w) ==
    /\ pc[w] = "body" /\ m_cb[Cur(w)] # NULL /\ NotSelfScheduled(w)
    /\ Return(Cur(w))
    /\ finished' = finished \cup {m_cb[Cur(w)]}
    /\ Goto(w, "swapout")
    /\ UNCHANGED <<sharedVars, mainVars, localVars, pin, known, yields, wakes>>

BodyThrow(w) ==
    /\ pc[w] = "body" /\ NotSelfScheduled(w)
    /\ Throw(Cur(w))
    /\ finished' = finished \cup ({m_cb[Cur(w)]} \ {NULL})
    /\ Goto(w, "swapout")
    /\ UNCHANGED <<sharedVars, mainVars, localVars, pin, known, yields, wakes>>

\* Fault: YieldToReady() queues the fiber itself, before it leaves the stack.
BodyYieldQueues(w, s) ==
    /\ pc[w] = "body" /\ m_cb[Cur(w)] # NULL
    /\ yields[m_cb[Cur(w)]] < MaxYields
    /\ Yield(Cur(w), s)
    /\ IF s = "READY" THEN Schedule(Task(Cur(w), NULL, ANY)) ELSE UNCHANGED sharedVars
    /\ yields' = [yields EXCEPT ![m_cb[Cur(w)]] = @ + 1]
    /\ Goto(w, "swapout")
    /\ UNCHANGED <<mainVars, localVars, pin, known, finished, wakes>>

BodyYield(w, s) ==
    /\ pc[w] = "body" /\ m_cb[Cur(w)] # NULL
    /\ s = "READY" => NotSelfScheduled(w)
    /\ yields[m_cb[Cur(w)]] < MaxYields
    /\ Yield(Cur(w), s)
    /\ yields' = [yields EXCEPT ![m_cb[Cur(w)]] = @ + 1]
    /\ Goto(w, "swapout")
    /\ UNCHANGED <<sharedVars, mainVars, localVars, pin, known, finished, wakes>>

YieldToReady(w) == BodyYield(w, "READY")
YieldToHold(w) == BodyYield(w, "HOLD")

\* swapOut(): the context is saved, the worker's loop continues.
SwapOut(w) ==
    /\ pc[w] = "swapout"
    /\ Goto(w, "after")
    /\ UNCHANGED <<fiberVars, sharedVars, mainVars, localVars, histVars>>

-----------------------------------------------------------------------------
(***************************************************************************)
(* Scheduler::run(): after the fiber came back.                            *)
(***************************************************************************)
\* Fault: no decrement after swapIn().
DeactivateUncounted(w) ==
    /\ pc[w] = "after"
    /\ Goto(w, "requeue")
    /\ UNCHANGED <<fiberVars, sharedVars, mainVars, localVars, histVars>>

Deactivate(w) ==
    /\ pc[w] = "after"
    /\ m_active_thread_count' = m_active_thread_count - 1
    /\ Goto(w, "requeue")
    /\ UNCHANGED <<fiberVars, m_mutex, m_fibers, m_idle_thread_count, mainVars,
                   localVars, histVars>>

\* The state decides.  A finished fiber is let go, a finished cb_fiber is
\* emptied for the next callback.
Requeue(w) ==
    /\ pc[w] = "requeue"
    /\ \/ /\ m_state[Cur(w)] = "READY"
          /\ Goto(w, "resched") /\ UNCHANGED <<fiberVars, ft>>
       \/ /\ m_state[Cur(w)] \notin Finished \cup {"READY"}
          /\ Goto(w, "park") /\ UNCHANGED <<fiberVars, ft>>
       \/ /\ m_state[Cur(w)] \in Finished
          /\ Goto(w, "loop")
          /\ ft' = [ft EXCEPT ![w] = NoTask]
          /\ IF ft[w].fiber = NULL THEN Reset(Cur(w), NULL) ELSE UNCHANGED fiberVars
    /\ UNCHANGED <<sharedVars, mainVars, iter, cb_fiber, idle_term, histVars>>

\* Fault: cb_fiber.reset() is missing.
ReleaseKeepsCb(w) ==
    /\ ft' = [ft EXCEPT ![w] = NoTask]
    /\ Goto(w, "loop")
    /\ UNCHANGED cb_fiber

\* Let go of the fiber: ft.reset(), or cb_fiber.reset() after a callback.
Release(w) ==
    /\ ft' = [ft EXCEPT ![w] = NoTask]
    /\ cb_fiber' = [cb_fiber EXCEPT ![w] = IF ft[w].fiber = NULL THEN NULL ELSE @]
    /\ Goto(w, "loop")

\* Fault: a fiber that yielded to READY is not queued again.
RescheduleForgets(w) ==
    /\ pc[w] = "resched"
    /\ Release(w)
    /\ UNCHANGED <<fiberVars, sharedVars, mainVars, iter, idle_term, histVars>>

\* schedule(fiber): back into the queue, for any thread.
Reschedule(w) ==
    /\ pc[w] = "resched"
    /\ Schedule(Task(Cur(w), NULL, ANY))
    /\ Release(w)
    /\ UNCHANGED <<fiberVars, mainVars, iter, idle_term, histVars>>

\* m_state = HOLD
Park(w) ==
    /\ pc[w] = "park"
    /\ SetState(Cur(w), "HOLD")
    /\ Release(w)
    /\ UNCHANGED <<m_cb, ctx, sharedVars, mainVars, iter, idle_term, histVars>>

-----------------------------------------------------------------------------
(***************************************************************************)
(* Scheduler::start(): m_mutex is held while the threads are created.      *)
(***************************************************************************)
\* SYLAR_ASSERT(m_threads.empty()) included.
StartLock ==
    /\ mpc \in {"idle", "stopped"} /\ starts < MaxStarts
    /\ Contract /\ UseCaller => starts = 0
    /\ m_mutex = NULL /\ m_stopping
    /\ m_mutex' = Caller
    /\ m_stopping' = FALSE
    /\ starts' = starts + 1
    /\ mpc' = IF m_threads = <<>> THEN "starting" ELSE "abort"
    /\ UNCHANGED <<fiberVars, m_fibers, m_active_thread_count, m_idle_thread_count,
                   m_threads, m_auto_stop, root_state, thrs, pc, localVars, histVars>>

\* Fault: the idle fiber of an earlier run() is used again.
EnterRunStale(w) ==
    /\ pc' = [pc EXCEPT ![w] = "loop"]
    /\ cb_fiber' = [cb_fiber EXCEPT ![w] = NULL]
    /\ ft' = [ft EXCEPT ![w] = NoTask]
    /\ UNCHANGED idle_term

\* A thread enters run() with a fresh idle fiber and no cb_fiber.
EnterRun(w) ==
    /\ pc' = [pc EXCEPT ![w] = "loop"]
    /\ idle_term' = [idle_term EXCEPT ![w] = FALSE]
    /\ cb_fiber' = [cb_fiber EXCEPT ![w] = NULL]
    /\ ft' = [ft EXCEPT ![w] = NoTask]

StartThread(w) ==
    /\ mpc = "starting" /\ pc[w] = "off"
    /\ m_threads' = Append(m_threads, w)
    /\ EnterRun(w)
    /\ UNCHANGED <<fiberVars, sharedVars, m_stopping, m_auto_stop, root_state, mpc, thrs,
                   starts, iter, histVars>>

StartUnlock ==
    /\ mpc = "starting" /\ \A w \in Workers : pc[w] # "off"
    /\ m_mutex' = NULL
    /\ mpc' = "started"
    /\ UNCHANGED <<fiberVars, m_fibers, m_active_thread_count, m_idle_thread_count,
                   m_threads, m_stopping, m_auto_stop, root_state, thrs, starts, pc,
                   localVars, histVars>>

-----------------------------------------------------------------------------
(***************************************************************************)
(* Scheduler::stop().                                                      *)
(***************************************************************************)
StopBegin ==
    /\ mpc = "started"
    /\ m_auto_stop' = TRUE
    /\ mpc' = IF UseCaller /\ Workers = {} /\ root_state \in {"TERM", "INIT"}
              THEN "stop_alone" ELSE "stop_set"
    /\ UNCHANGED <<fiberVars, sharedVars, m_threads, m_stopping, root_state, thrs, starts,
                   pc, localVars, histVars>>

\* Fault: the early return does not ask stopping().
StopAloneAtOnce ==
    /\ mpc = "stop_alone"
    /\ m_stopping' = TRUE
    /\ mpc' = "stopped"
    /\ UNCHANGED <<fiberVars, sharedVars, m_threads, m_auto_stop, root_state, thrs, starts,
                   pc, localVars, histVars>>

\* The early return of a scheduler without a pool.
StopAlone ==
    /\ mpc = "stop_alone" /\ m_mutex = NULL
    /\ m_stopping' = TRUE
    /\ UNCHANGED <<fiberVars, sharedVars, m_threads, m_auto_stop, root_state, thrs, starts,
                   pc, localVars, histVars>>
    /\ mpc' = IF Stopping' THEN "stopped" ELSE "stop_set"

StopSet ==
    /\ mpc = "stop_set"
    /\ m_stopping' = TRUE
    /\ mpc' = IF UseCaller THEN "stop_root" ELSE "stop_swap"
    /\ UNCHANGED <<fiberVars, sharedVars, m_threads, m_auto_stop, root_state, thrs, starts,
                   pc, localVars, histVars>>

\* if (!stopping()) m_root_fiber->call().  A root fiber that ended resumes
\* behind its last back(), at the "never reach" assertion.
StopRoot ==
    /\ mpc = "stop_root" /\ m_mutex = NULL
    /\ \/ /\ Stopping
          /\ mpc' = "stop_swap"
          /\ UNCHANGED <<root_state, pc, idle_term, cb_fiber, ft>>
       \/ /\ ~Stopping
          /\ root_state' = "EXEC"
          /\ \/ root_state = "INIT" /\ mpc' = "root" /\ EnterRun(Caller)
             \/ root_state = "TERM" /\ mpc' = "abort"
                /\ UNCHANGED <<pc, idle_term, cb_fiber, ft>>
    /\ UNCHANGED <<fiberVars, sharedVars, m_threads, m_stopping, m_auto_stop, thrs,
                   starts, iter, histVars>>

\* run() returned on the root fiber: TERM, back() into stop().
RootReturn ==
    /\ mpc = "root" /\ pc[Caller] = "exited"
    /\ root_state' = "TERM"
    /\ pc' = [pc EXCEPT ![Caller] = "off"]
    /\ mpc' = "stop_swap"
    /\ UNCHANGED <<fiberVars, sharedVars, m_threads, m_stopping, m_auto_stop, thrs,
                   starts, localVars, histVars>>

StopSwap ==
    /\ mpc = "stop_swap" /\ m_mutex = NULL
    /\ thrs' = m_threads
    /\ m_threads' = <<>>
    /\ mpc' = "join"
    /\ UNCHANGED <<fiberVars, sharedVars, m_stopping, m_auto_stop, root_state, starts, pc,
                   localVars, histVars>>

Join ==
    /\ mpc = "join" /\ thrs # <<>> /\ pc[Head(thrs)] = "exited"
    /\ thrs' = Tail(thrs)
    /\ pc' = [pc EXCEPT ![Head(thrs)] = "off"]
    /\ UNCHANGED <<fiberVars, sharedVars, m_threads, m_stopping, m_auto_stop, root_state,
                   mpc, starts, localVars, histVars>>

StopReturn ==
    /\ mpc = "join" /\ thrs = <<>>
    /\ mpc' = "stopped"
    /\ UNCHANGED <<fiberVars, sharedVars, m_threads, m_stopping, m_auto_stop, root_state,
                   thrs, starts, pc, localVars, histVars>>

-----------------------------------------------------------------------------
Client(by) ==
    \/ \E j \in Jobs, t \in Threads \cup {ANY} :
          SubmitCb(by, j, t) \/ \E f \in Fibers : SubmitFiber(by, j, f, t)
    \/ \E i, j \in Jobs : SubmitBatch(by, i, j)
    \/ \E f \in Fibers, t \in Threads \cup {ANY} : Wake(by, f, t)

Run(w) ==
    \/ Lock(w) \/ ScanSkip(w) \/ ScanTake(w) \/ ScanEnd(w)
    \/ DispatchFiber(w) \/ DispatchDead(w) \/ DispatchCb(w) \/ DispatchIdle(w)
    \/ Exit(w) \/ IdleRound(w)
    \/ SwapInAssert(w) \/ SwapIn(w)
    \/ BodyReturn(w) \/ BodyThrow(w) \/ YieldToReady(w) \/ YieldToHold(w)
    \/ SwapOut(w) \/ Deactivate(w) \/ Requeue(w) \/ Reschedule(w) \/ Park(w)

\* start() behind its lock; calling it is up to the client.
StartRest == (\E w \in Workers : StartThread(w)) \/ StartUnlock

Start == StartLock \/ StartRest

\* stop() from its first line on; calling it is up to the client.
Stop ==
    StopAlone \/ StopSet \/ StopRoot \/ RootReturn \/ StopSwap \/ Join \/ StopReturn

\* The process has ended: nothing is left to do, or it crashed.
Ended ==
    /\ Crashed \/ mpc = "stopped"
    /\ UNCHANGED vars

Next ==
    \/ /\ ~Crashed
       /\ \/ \E by \in Threads \cup {NULL} : Client(by)
          \/ \E w \in Runners : Run(w)
          \/ Start \/ StopBegin \/ Stop
    \/ Ended

Spec == Init /\ [][Next]_vars

\* A thread that waits for m_mutex is not locked out for ever, callbacks end
\* their turns, and start() and stop() go on once they are called.  Clients
\* need not call anything.
Fairness ==
    /\ \A w \in Runners : SF_vars(~Crashed /\ Run(w))
    /\ SF_vars(~Crashed /\ (StartRest \/ Stop))

FairSpec == Spec /\ Fairness

-----------------------------------------------------------------------------
(***************************************************************************)
(* Properties.                                                             *)
(***************************************************************************)
\* Fiber::m_ctx and the stack are plain memory: no fiber is ever entered by a
\* second thread before the first one has left its stack, although swapIn()
\* in run() is called without m_mutex and the state a fiber publishes before
\* it yields is ahead of its context.
FiberExclusive ==
    /\ \A w \in Threads : pc[w] # "corrupt"
    /\ \A v, w \in Threads : OnStack(v) /\ OnStack(w) /\ v # w => Cur(v) # Cur(w)

\* SYLAR_ASSERT(m_state != EXEC) in swapIn(), the assertion on m_state in
\* reset(), "never reach" behind the last swapOut() of MainFunc and the last
\* back() of CallerMainFunc, and SYLAR_ASSERT(m_threads.empty()) in start().
AssertionsHold == mpc # "abort" /\ \A w \in Threads : pc[w] # "abort"

\* The workers between ++m_active_thread_count and --m_active_thread_count.
IsActive(w) ==
    \/ pc[w] \in {"assert", "enter", "body", "swapout", "after", "abort", "corrupt"}
    \/ pc[w] = "dispatch" /\ ft[w] # NoTask

Active == {w \in Threads : IsActive(w)}
IdleThreads == {w \in Threads : pc[w] = "idle"}

\* Every path through run() pairs the increments and decrements of the two
\* counters: stopping() compares the first with 0, and both are size_t, so
\* that one decrement too many would never let the scheduler stop.
CountersExact ==
    /\ m_active_thread_count = Cardinality(Active)
    /\ m_idle_thread_count = Cardinality(IdleThreads)

\* schedule(fc, thread): a callback or fiber given to one thread starts there,
\* whatever the scans of the other threads do meanwhile.
StartsWherePinned ==
    \A w \in Threads :
        /\ pc[w] = "body" /\ ctx[Cur(w)] = "entry" /\ m_cb[Cur(w)] # NULL
        => pin[m_cb[Cur(w)]] \in {ANY, w}

\* src/README.md:28 on the scheduler: "也可以指定协程在固定的线程中执行" (a fiber can
\* also be given to a fixed thread to run on).  Unless a client schedules it
\* again for another thread, it runs on no other, after its yields neither.
StaysPinned ==
    \A w \in Threads :
        pc[w] = "body" /\ m_cb[Cur(w)] # NULL => pin[m_cb[Cur(w)]] \in {ANY, w}

\* A thread leaves run() only after stop(), and never while a message that
\* only this thread may take is in the queue.
NoOrphan ==
    \A w \in Threads : pc[w] = "exited" =>
        /\ m_auto_stop /\ m_stopping
        /\ \A i \in DOMAIN m_fibers : m_fibers[i].thread # w

\* stop() returns: run() of every thread finds the queue empty and leaves.
StopReturns == mpc \in {"stop_alone", "stop_set"} ~> mpc = "stopped"

\* Job j waits in the queue, as a callback or in a fiber, for a thread of the
\* pool.
Waiting(j) ==
    \E i \in DOMAIN m_fibers :
        /\ m_fibers[i].thread # Caller
        /\ \/ m_fibers[i].cb = j
           \/ m_fibers[i].fiber # NULL /\ m_cb[m_fibers[i].fiber] = j

\* A message that some thread of the pool may take does not stay in the queue
\* of a running scheduler for ever, although scans pass over it while it is
\* meant for another thread, or stands behind such a message.
NoStarvation ==
    \A j \in Jobs : mpc = "started" /\ Waiting(j) ~> ~Waiting(j)
=============================================================================
