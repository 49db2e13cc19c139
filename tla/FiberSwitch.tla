---------------------------- MODULE FiberSwitch ----------------------------
(***************************************************************************)
(* How threads switch between fibers (src/src/fiber.cpp): the thread-local *)
(* t_fiber and t_threadFiber, the t_fiber of src/src/scheduler.cpp, which  *)
(* is t_main here, and the stacks that swapcontext() saves and resumes.    *)
(* The threads are those of module Thread, and fibers move between them.   *)
(*                                                                         *)
(* Each thread also has a main fiber, the object without a stack of its    *)
(* own that GetThis() makes; it goes by the name of its thread, and so     *)
(* does the thread's native stack.  saved[f] is the stack that the m_ctx   *)
(* of f holds, on[t] the stack that t executes on.  Nothing but the code   *)
(* keeps the two worlds together: swapcontext() saves whatever stack it is *)
(* called on into the object it is given.                                  *)
(*                                                                         *)
(* What happens between the publication of a fiber's state and the end of  *)
(* swapcontext() is the subject of Scheduler; a switch is one step here.   *)
(***************************************************************************)
EXTENDS Fiber, Thread, FiniteSets

CONSTANTS
    Rules,      \* the rules of section Clients that clients keep to
    MaxYields   \* bound: how many times fibers yield

ASSUME FiberSwitchConstants ==
    /\ Fibers \cap (Threads \cup {Creator}) = {} /\ NULL \notin Threads \cup {Creator}
    /\ Rules \subseteq {"scheduler", "native", "live", "yield"}
    /\ MaxYields \in Nat

Actors == Threads \cup {Creator}
Objects == Fibers \cup Actors

VARIABLES
    t_fiber, t_threadFiber, t_main,     \* per thread
    on,
    saved,
    use_caller,     \* the fibers that run CallerMainFunc
    s_fiber_count,
    yields,
    crashed         \* a null pointer, a failed assertion

switchVars == <<t_fiber, t_threadFiber, t_main, on, saved, use_caller, s_fiber_count, yields,
                crashed>>
vars == <<fiberVars, threadVars, switchVars>>

TypeOK ==
    /\ FiberTypeOK /\ ThreadTypeOK
    /\ t_fiber \in [Actors -> Objects \cup {NULL}]
    /\ t_threadFiber \in [Actors -> Actors \cup {NULL}]
    /\ t_main \in [Actors -> Objects \cup {NULL}]
    /\ on \in [Actors -> Objects]
    /\ saved \in [Objects -> Objects]
    /\ use_caller \in SUBSET Fibers
    /\ s_fiber_count \in Nat /\ yields \in 0..MaxYields
    /\ crashed \in BOOLEAN

Init ==
    /\ FiberInit /\ ThreadInit
    /\ t_fiber = [t \in Actors |-> NULL]
    /\ t_threadFiber = [t \in Actors |-> NULL]
    /\ t_main = [t \in Actors |-> NULL]
    /\ on = [t \in Actors |-> t]
    /\ saved = [f \in Objects |-> f]
    /\ use_caller = {}
    /\ s_fiber_count = 0 /\ yields = 0
    /\ crashed = FALSE

\* A thread that runs client code
Runs(t) == IF t = Creator THEN Free ELSE place[t] = "cb"

-----------------------------------------------------------------------------
(***************************************************************************)
(* Clients, and the rules they may keep to:                                *)
(*   scheduler  swapIn() is called by the scheduling fiber of a thread     *)
(*   native     call() is called on the native stack of a thread           *)
(*   live       no fiber is entered that runs or has ended                 *)
(*   yield      a root fiber does not yield                                *)
(* The loop of Scheduler::run(), its constructor and stop() do so.         *)
(***************************************************************************)
\* swapcontext(): save the stack into the object `from', resume what `to' holds
Swap(t, from, to) ==
    /\ saved' = [saved EXCEPT ![from] = on[t]]
    /\ on' = [on EXCEPT ![t] = saved[to]]

\* Fault: the constructor Fiber() does not count.
CurrentUncounted(t, others) ==
    /\ t_fiber' = [t_fiber EXCEPT ![t] = IF @ = NULL THEN t ELSE @]
    /\ t_threadFiber' = [t_threadFiber EXCEPT ![t] = IF t_fiber[t] = NULL THEN t ELSE @]
    /\ s_fiber_count' = s_fiber_count + others

\* GetThis(), which constructs the main fiber of a thread that has no fiber, on
\* the way to something that constructs `others' more
Current(t, others) ==
    /\ t_fiber' = [t_fiber EXCEPT ![t] = IF @ = NULL THEN t ELSE @]
    /\ t_threadFiber' = [t_threadFiber EXCEPT ![t] = IF t_fiber[t] = NULL THEN t ELSE @]
    /\ s_fiber_count' = s_fiber_count + others + (IF t_fiber[t] = NULL THEN 1 ELSE 0)

GetThis(t) ==
    /\ Runs(t)
    /\ Current(t, 0)
    /\ UNCHANGED <<fiberVars, threadVars, t_main, on, saved, use_caller, yields, crashed>>

\* Fiber(cb, stacksize, false)
NewFiber(t, f, j) ==
    /\ Runs(t) /\ Construct(f, j)
    /\ s_fiber_count' = s_fiber_count + 1
    /\ UNCHANGED <<threadVars, t_fiber, t_threadFiber, t_main, on, saved, use_caller, yields,
                   crashed>>

\* Fault: the constructor does not call Fiber::GetThis().
NewRootAlone(t, f, j) ==
    /\ Runs(t) /\ t_main[t] = NULL
    /\ Construct(f, j)
    /\ use_caller' = use_caller \cup {f}
    /\ t_main' = [t_main EXCEPT ![t] = f]
    /\ s_fiber_count' = s_fiber_count + 1
    /\ UNCHANGED <<threadVars, t_fiber, t_threadFiber, on, saved, yields, crashed>>

\* Scheduler(threads, true), on a thread without scheduler: a root fiber with
\* use_caller becomes the thread's scheduling fiber.
NewRoot(t, f, j) ==
    /\ Runs(t) /\ t_main[t] = NULL
    /\ Construct(f, j)
    /\ Current(t, 1)
    /\ use_caller' = use_caller \cup {f}
    /\ t_main' = [t_main EXCEPT ![t] = f]
    /\ UNCHANGED <<threadVars, on, saved, yields, crashed>>

\* Scheduler::run() on a thread of the pool
EnterRun(t) ==
    /\ Runs(t) /\ t \in Threads /\ t_main[t] = NULL
    /\ Current(t, 0)
    /\ t_main' = [t_main EXCEPT ![t] = t_fiber'[t]]
    /\ UNCHANGED <<fiberVars, threadVars, on, saved, use_caller, yields, crashed>>

\* swapIn(): without a scheduling fiber it follows a null pointer.
swapIn(t, f) ==
    /\ Runs(t) /\ f \notin use_caller /\ m_state[f] # "NONE"
    /\ "scheduler" \in Rules => t_main[t] = on[t]
    /\ "live" \in Rules => m_state[f] \in {"INIT", "HOLD", "READY"}
    /\ t_fiber' = [t_fiber EXCEPT ![t] = f]
    /\ SetState(f, "EXEC")
    /\ Swap(t, t_main[t], f)
    /\ crashed' = (m_state[f] = "EXEC" \/ t_main[t] = NULL \/ ctx[f] = "end")
    /\ UNCHANGED <<m_cb, ctx, threadVars, t_threadFiber, t_main, use_caller, s_fiber_count,
                   yields>>

\* Fault: the current fiber stays t_fiber.
SwapOutUnset(t, f) ==
    /\ Swap(t, f, t_main[t])
    /\ crashed' = (t_main[t] = NULL)
    /\ UNCHANGED t_fiber

\* f->swapOut()
swapOut(t, f) ==
    /\ t_fiber' = [t_fiber EXCEPT ![t] = t_main[t]]
    /\ Swap(t, f, t_main[t])
    /\ crashed' = (t_main[t] = NULL)

\* YieldToReady(), YieldToHold(), in the callback of a fiber
YieldTo(t, s) ==
    /\ Runs(t) /\ on[t] \in Fibers /\ yields < MaxYields
    /\ "yield" \in Rules => on[t] \notin use_caller
    /\ Yield(t_fiber[t], s)
    /\ swapOut(t, t_fiber[t])
    /\ yields' = yields + 1
    /\ UNCHANGED <<threadVars, t_threadFiber, t_main, use_caller, s_fiber_count>>

\* The end of MainFunc
MainFunc(t) ==
    /\ Runs(t) /\ on[t] \in Fibers \ use_caller
    /\ Return(on[t]) \/ Throw(on[t])
    /\ swapOut(t, on[t])
    /\ UNCHANGED <<threadVars, t_threadFiber, t_main, use_caller, s_fiber_count, yields>>

\* call(), which Scheduler::stop() makes
call(t, f) ==
    /\ Runs(t) /\ f \in use_caller /\ t_main[t] = f
    /\ "live" \in Rules => m_state[f] = "INIT"
    /\ "native" \in Rules => on[t] = t
    /\ t_fiber' = [t_fiber EXCEPT ![t] = f]
    /\ SetState(f, "EXEC")
    /\ Swap(t, t_threadFiber[t], f)
    /\ crashed' = (t_threadFiber[t] = NULL \/ ctx[f] = "end")
    /\ UNCHANGED <<m_cb, ctx, threadVars, t_threadFiber, t_main, use_caller, s_fiber_count,
                   yields>>

\* f->back()
back(t, f) ==
    /\ t_fiber' = [t_fiber EXCEPT ![t] = t_threadFiber[t]]
    /\ Swap(t, f, t_threadFiber[t])
    /\ crashed' = (t_threadFiber[t] = NULL)

\* The end of CallerMainFunc
CallerMainFunc(t) ==
    /\ Runs(t) /\ on[t] \in use_caller
    /\ Return(on[t]) \/ Throw(on[t])
    /\ back(t, on[t])
    /\ UNCHANGED <<threadVars, t_threadFiber, t_main, use_caller, s_fiber_count, yields>>

\* reset(), of a fiber that is not a root fiber
resetFiber(t, f, j) ==
    /\ Runs(t) /\ f \notin use_caller
    /\ Reset(f, j)
    /\ UNCHANGED <<threadVars, switchVars>>

\* ~Fiber() of a fiber with a stack.  One that is suspended is held by its own
\* stack, a root fiber by its scheduler.
DestroyFiber(t, f) ==
    /\ Runs(t) /\ m_state[f] \in Idle /\ f \notin use_caller
    /\ m_state' = [m_state EXCEPT ![f] = "NONE"]
    /\ s_fiber_count' = s_fiber_count - 1
    /\ UNCHANGED <<m_cb, ctx, threadVars, t_fiber, t_threadFiber, t_main, on, saved, use_caller,
                   yields, crashed>>

\* The callback of a thread returns and t_threadFiber is destroyed: ~Fiber() of a
\* main fiber.
ThreadEnds(t) ==
    /\ on[t] = t
    /\ RunReturn(t)
    /\ t_fiber' = [t_fiber EXCEPT ![t] = IF t_threadFiber[t] = @ THEN NULL ELSE @]
    /\ t_threadFiber' = [t_threadFiber EXCEPT ![t] = NULL]
    /\ s_fiber_count' = IF t_threadFiber[t] = NULL THEN s_fiber_count ELSE s_fiber_count - 1
    /\ UNCHANGED <<fiberVars, t_main, on, saved, use_caller, yields, crashed>>

-----------------------------------------------------------------------------
Fiberwise(t) ==
    \/ GetThis(t) \/ EnterRun(t) \/ MainFunc(t) \/ CallerMainFunc(t)
    \/ \E s \in {"READY", "HOLD"} : YieldTo(t, s)
    \/ \E f \in Fibers :
          \/ swapIn(t, f) \/ call(t, f) \/ DestroyFiber(t, f)
          \/ \E j \in Jobs : NewFiber(t, f, j) \/ NewRoot(t, f, j)
          \/ \E j \in Jobs \cup {NULL} : resetFiber(t, f, j)

Handshake == Created \/ Joined \/ \E t \in Threads : Run(t) \/ Notify(t)

Threadwise ==
    /\ Handshake \/ \E t \in Threads : Create(t) \/ SetName(t) \/ Join(t) \/ Destroy(t)
    /\ UNCHANGED <<fiberVars, switchVars>>

Next ==
    /\ ~crashed
    /\ Threadwise \/ (\E t \in Threads : ThreadEnds(t)) \/ \E t \in Actors : Fiberwise(t)

Spec == Init /\ [][Next]_vars

\* Threads that can run do run.
FairSpec == Spec /\ WF_vars(Handshake /\ UNCHANGED <<fiberVars, switchVars>>)

-----------------------------------------------------------------------------
\* Unless a switch has crashed: t_fiber is the fiber whose stack the thread is on,
\* on every thread and through every switch, no two threads are on one stack, and
\* no thread is on the native stack of another, although fibers change threads.
RunningIsCurrent == ~crashed =>
    \A t \in Actors :
        /\ t_fiber[t] \in {NULL, on[t]}
        /\ on[t] \in Actors => on[t] = t
        /\ \A u \in Actors \ {t} : on[u] # on[t]

\* The object that swapOut() or back() of the fiber that thread t is on goes to.
BackTo(t) == IF on[t] \in use_caller THEN t_threadFiber[t] ELSE t_main[t]

\* A thread can leave the fiber it is on, whichever thread the fiber was on
\* before: the scheduling fiber (for a root fiber, the main fiber) of this
\* thread is there, has not ended, holds its own stack and nobody is on it.
\* What swapIn() and call() are given need not be fit to be entered (the rule
\* "live"): that crashes, but never for want of a way back.
WayBack ==
    \A t \in Actors : on[t] \in Fibers =>
        /\ BackTo(t) \in Objects \ {on[t]}
        /\ ~crashed =>
              /\ saved[BackTo(t)] = BackTo(t)
              /\ BackTo(t) \in Fibers => m_state[BackTo(t)] = "EXEC" /\ ctx[BackTo(t)] # "end"
              /\ BackTo(t) \in Actors => t_threadFiber[BackTo(t)] = BackTo(t)
              /\ \A u \in Actors : on[u] # BackTo(t)

\* tests/test_fiber.cpp:19-24: a thread that has called GetThis() and made a
\* fiber enters it with swapIn() and gets back, without a scheduler.  No switch
\* follows a null pointer, fails an assertion or enters a context that ended.
NoCrash == ~crashed

\* TotalFibers() is the number of fibers there are, main fibers included.
CountExact ==
    s_fiber_count = Cardinality({f \in Fibers : m_state[f] # "NONE"})
                    + Cardinality({t \in Actors : t_threadFiber[t] # NULL})

\* When the constructor of a Thread has returned, getId() is the id of the
\* thread and the callback is out of the object; when join() has returned, the
\* callback is over.
StartedKnown ==
    \A t \in Threads : object[t] = "alive" /\ waits # t =>
        /\ m_id[t] = t /\ t \notin cb_held
        /\ m_thread[t] = None => place[t] = "ended"

\* No thread uses its Thread object after it is destroyed: after notify() run()
\* has no need of it.
NoStray == stray = {}

\* The constructor returns: the new thread's notify() is not missed.
ConstructorReturns == \A t \in Threads : waits = t ~> waits # t
=============================================================================
