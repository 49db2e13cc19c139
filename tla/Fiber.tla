------------------------------- MODULE Fiber -------------------------------
(***************************************************************************)
(* The fiber object of src/src/fiber.{h,cpp}: the run state, the callback  *)
(* and the saved user-level context of every Fiber, and what each member   *)
(* function does to them.  A module that composes fibers with the threads  *)
(* running them (Scheduler) EXTENDS this one and decides on which thread,  *)
(* and in how many steps, an operation happens.                            *)
(*                                                                         *)
(* A context (ucontext_t plus stack) is abstracted to the place where a    *)
(* swapcontext into it resumes:                                            *)
(*   "entry"  at the first instruction of MainFunc / CallerMainFunc        *)
(*   "mid"    inside the callback, after one of its Yield calls            *)
(*   "end"    after the last swapOut() / back() of MainFunc, where only    *)
(*            SYLAR_ASSERT2(false, "never reach ...") is left              *)
(***************************************************************************)
EXTENDS Naturals

CONSTANTS
    Fibers,     \* Fiber objects that the run may create
    Jobs,       \* the callbacks (std::function<void()>) that clients submit
    NULL        \* the null pointer and the empty std::function

ASSUME FiberConstants == NULL \notin Fibers /\ NULL \notin Jobs

VARIABLES
    m_state,    \* Fiber::m_state, "NONE" while the object does not exist
    m_cb,       \* Fiber::m_cb
    ctx         \* where Fiber::m_ctx resumes

fiberVars == <<m_state, m_cb, ctx>>

State == {"INIT", "HOLD", "EXEC", "TERM", "READY", "EXCEPT"}

\* A fiber whose callback is over.
Finished == {"TERM", "EXCEPT"}

\* The states that reset() and ~Fiber() assert.
Idle == {"TERM", "EXCEPT", "INIT"}

FiberTypeOK ==
    /\ m_state \in [Fibers -> State \cup {"NONE"}]
    /\ m_cb \in [Fibers -> Jobs \cup {NULL}]
    /\ ctx \in [Fibers -> {"entry", "mid", "end"}]

FiberInit ==
    /\ m_state = [f \in Fibers |-> "NONE"]
    /\ m_cb = [f \in Fibers |-> NULL]
    /\ ctx = [f \in Fibers |-> "entry"]

-----------------------------------------------------------------------------
\* The common effect of the constructor and of reset(): a context at the
\* entry of MainFunc, a callback, state INIT.
Arm(f, cb) ==
    /\ m_state' = [m_state EXCEPT ![f] = "INIT"]
    /\ m_cb' = [m_cb EXCEPT ![f] = cb]
    /\ ctx' = [ctx EXCEPT ![f] = "entry"]

\* Fiber::Fiber(cb, stacksize, use_caller)
Construct(f, cb) == m_state[f] = "NONE" /\ Arm(f, cb)

\* Fiber::reset(cb), past its assertion on the state
Reset(f, cb) == m_state[f] \in Idle /\ Arm(f, cb)

\* The assignment m_state = s that swapIn(), call(), YieldToReady(),
\* YieldToHold() and the scheduler make.
SetState(f, s) == m_state' = [m_state EXCEPT ![f] = s]

\* YieldToReady() / YieldToHold(), up to the swapcontext of swapOut(): the
\* state is published before the context is saved.
Yield(f, s) ==
    /\ SetState(f, s)
    /\ ctx' = [ctx EXCEPT ![f] = "mid"]
    /\ UNCHANGED m_cb

\* MainFunc / CallerMainFunc after a callback that returned: the callback is
\* released, then the state is TERM.
Return(f) ==
    /\ SetState(f, "TERM")
    /\ m_cb' = [m_cb EXCEPT ![f] = NULL]
    /\ ctx' = [ctx EXCEPT ![f] = "end"]

\* MainFunc / CallerMainFunc after a callback that threw (an empty
\* std::function throws std::bad_function_call): the callback is kept.
Throw(f) ==
    /\ SetState(f, "EXCEPT")
    /\ ctx' = [ctx EXCEPT ![f] = "end"]
    /\ UNCHANGED m_cb
=============================================================================
