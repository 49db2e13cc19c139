------------------------- MODULE FiberSwitchProofs -------------------------
(***************************************************************************)
(* TLAPS proofs about Thread and FiberSwitch, for any number of threads,   *)
(* fibers and callbacks.                                                   *)
(***************************************************************************)
EXTENDS FiberSwitch, FiniteSetTheorems, TLAPS

(***************************************************************************)
(* The handshake between the constructor of a Thread and its run().        *)
(***************************************************************************)
\* While a thread is on its way to notify(), the constructor waits for it, and
\* there is nothing in the semaphore that it could get over the wait with.
OnItsWay ==
    \A t \in Threads :
        /\ place[t] \in {"none", "run", "notify"} => m_semaphore[t] = 0
        /\ place[t] \in {"run", "notify"} => waits = t
        /\ waits = t => object[t] = "alive"

\* What run() has done by then, and what join() and the destructor leave behind.
Left ==
    \A t \in Threads :
        /\ object[t] = "none" <=> place[t] = "none"
        /\ place[t] \in {"notify", "cb", "ended"} => m_id[t] = t /\ t \notin cb_held
        /\ object[t] = "alive" /\ m_thread[t] = None => place[t] = "ended"
        /\ object[t] = "gone" /\ t \notin Detached => place[t] = "ended"

HandshakeInv == ThreadTypeOK /\ OnItsWay /\ Left /\ NoStray

(***************************************************************************)
(* Threads and stacks, for clients that keep to the rules on who may enter *)
(* a fiber; that the fiber is fit to be entered is for the code to check.  *)
(***************************************************************************)
\* Every object holds its own stack, whoever has saved it.
OwnStacks == saved = [f \in Objects |-> f]

\* The fiber a thread is on is running, is current, and has a way back.
OnFiber ==
    \A t \in Actors :
        /\ on[t] \in Actors => on[t] = t
        /\ on[t] \in Fibers => m_state[on[t]] = "EXEC" /\ t_fiber[t] = on[t] /\ t_main[t] # NULL
        /\ on[t] \in use_caller => t_main[t] = on[t]
        /\ t_fiber[t] \in {NULL, on[t]}

Alone == \A t, u \in Actors : on[t] = on[u] => t = u

\* A scheduling fiber is the main fiber of the thread or a root fiber of its own,
\* which stays EXEC while fibers run on the thread in its stead.
Scheduling ==
    /\ \A f \in use_caller : m_state[f] # "NONE"
    /\ \A t \in Actors :
          /\ t_main[t] \in {NULL, t} \cup use_caller
          /\ on[t] \in Fibers /\ t_main[t] \in use_caller => m_state[t_main[t]] = "EXEC"
          /\ \A u \in Actors : t_main[t] = t_main[u] /\ t_main[t] # NULL => t = u

\* A thread with a current or a scheduling fiber has its main fiber, until it
\* ends, and only then; a fiber runs on no thread that has ended.
MainFiber ==
    \A t \in Actors :
        /\ t_threadFiber[t] \in {NULL, t}
        /\ t_threadFiber[t] # NULL => t_fiber[t] # NULL
        /\ t \in Threads /\ place[t] = "ended" => on[t] = t
        /\ (t \in Threads => place[t] # "ended") /\ (t_fiber[t] # NULL \/ t_main[t] # NULL)
           => t_threadFiber[t] = t

\* A fiber that is running, or may be resumed, has a context that has not ended.
Enterable ==
    \A f \in Fibers : m_state[f] \in {"INIT", "HOLD", "READY", "EXEC"} => ctx[f] # "end"

SwitchTypeOK ==
    /\ FiberTypeOK
    /\ t_fiber \in [Actors -> Objects \cup {NULL}]
    /\ t_threadFiber \in [Actors -> Actors \cup {NULL}]
    /\ t_main \in [Actors -> Objects \cup {NULL}]
    /\ on \in [Actors -> Objects]
    /\ use_caller \in SUBSET Fibers

SwitchInv ==
    SwitchTypeOK /\ OwnStacks /\ OnFiber /\ Alone /\ Scheduling /\ MainFiber /\ Enterable /\ NoCrash

-----------------------------------------------------------------------------
LEMMA FiberwiseKeepsThreads ==
    ASSUME NEW t \in Actors, Fiberwise(t)
    PROVE  UNCHANGED threadVars
BY DEF Fiberwise, GetThis, EnterRun, MainFunc, CallerMainFunc, YieldTo, swapIn, call,
       DestroyFiber, NewFiber, NewRoot, resetFiber

LEMMA HandshakeStep ==
    ASSUME HandshakeInv, Next
    PROVE  HandshakeInv'
<1> USE ThreadConstants DEF HandshakeInv, ThreadTypeOK, NoStray
<1>1. CASE Created
  <2>1. ThreadTypeOK' /\ NoStray'
    BY <1>1 DEF Created
  <2>2. OnItsWay'
    BY <1>1 DEF Created, OnItsWay
  <2>3. Left'
    BY <1>1 DEF Created, Left
  <2> QED BY <2>1, <2>2, <2>3
<1>2. CASE Joined
  <2>1. ThreadTypeOK' /\ NoStray'
    BY <1>2 DEF Joined
  <2>2. OnItsWay'
    BY <1>2 DEF Joined, OnItsWay
  <2>3. Left'
    BY <1>2 DEF Joined, Left
  <2> QED BY <2>1, <2>2, <2>3
<1>3. ASSUME NEW t \in Threads, Run(t) PROVE HandshakeInv'
  <2>1. object[t] = "alive"
    BY <1>3 DEF Run, OnItsWay
  <2>2. ThreadTypeOK' /\ NoStray'
    BY <1>3, <2>1 DEF Run, Uses
  <2>3. OnItsWay'
    BY <1>3 DEF Run, OnItsWay
  <2>4. Left'
    BY <1>3, <2>1 DEF Run, Left
  <2> QED BY <2>2, <2>3, <2>4
<1>4. ASSUME NEW t \in Threads, Notify(t) PROVE HandshakeInv'
  <2>1. object[t] = "alive"
    BY <1>4 DEF Notify, OnItsWay
  <2>2. ThreadTypeOK' /\ NoStray'
    BY <1>4, <2>1 DEF Notify, Uses
  <2>3. OnItsWay'
    BY <1>4 DEF Notify, OnItsWay
  <2>4. Left'
    BY <1>4, <2>1 DEF Notify, Left
  <2> QED BY <2>2, <2>3, <2>4
<1>5. ASSUME NEW t \in Threads, Create(t) PROVE HandshakeInv'
  <2>1. ThreadTypeOK' /\ NoStray'
    BY <1>5 DEF Create
  <2>2. OnItsWay'
    BY <1>5 DEF Create, Free, OnItsWay, Left
  <2>3. Left'
    BY <1>5 DEF Create, Left
  <2> QED BY <2>1, <2>2, <2>3
<1>6. ASSUME NEW t \in Threads, SetName(t) PROVE HandshakeInv'
  <2>1. object[t] = "alive"
    BY <1>6 DEF SetName, Left
  <2> QED BY <1>6, <2>1 DEF SetName, Uses, OnItsWay, Left
<1>7. ASSUME NEW t \in Threads, Join(t) PROVE HandshakeInv'
  BY <1>7 DEF Join, OnItsWay, Left
<1>8. ASSUME NEW t \in Threads, Destroy(t) PROVE HandshakeInv'
  <2>1. ThreadTypeOK' /\ NoStray'
    BY <1>8 DEF Destroy
  <2>2. OnItsWay'
    BY <1>8 DEF Destroy, Free, OnItsWay
  <2>3. Left'
    BY <1>8 DEF Destroy, Left
  <2> QED BY <2>1, <2>2, <2>3
<1>9. ASSUME NEW t \in Threads, ThreadEnds(t) PROVE HandshakeInv'
  <2>1. RunReturn(t)
    BY <1>9 DEF ThreadEnds
  <2> QED BY <2>1 DEF RunReturn, OnItsWay, Left
<1>10. ASSUME NEW t \in Actors, Fiberwise(t) PROVE HandshakeInv'
  BY <1>10, FiberwiseKeepsThreads DEF threadVars, OnItsWay, Left
<1> QED
  BY <1>1, <1>2, <1>3, <1>4, <1>5, <1>6, <1>7, <1>8, <1>9, <1>10
     DEF Next, Threadwise, Handshake

\* The constructor and run() of Thread meet at the semaphore, whatever fibers
\* the threads run and whatever rules the clients break.
THEOREM HandshakeCorrect == Spec => []HandshakeInv
<1>1. Init => HandshakeInv
  BY ThreadConstants
     DEF Init, ThreadInit, HandshakeInv, ThreadTypeOK, OnItsWay, Left, NoStray
<1>2. HandshakeInv /\ [Next]_vars => HandshakeInv'
  <2>1. HandshakeInv /\ UNCHANGED vars => HandshakeInv'
    BY DEF vars, threadVars, HandshakeInv, ThreadTypeOK, OnItsWay, Left, NoStray
  <2> QED BY <2>1, HandshakeStep
<1> QED BY <1>1, <1>2, PTL DEF Spec

\* A Thread whose constructor has returned knows its id and has given its
\* callback away; one that was joined has ended.
THEOREM StartedKnownCorrect == Spec => []StartedKnown
<1>1. HandshakeInv => StartedKnown
  BY ThreadConstants DEF HandshakeInv, ThreadTypeOK, OnItsWay, Left, StartedKnown
<1> QED BY <1>1, HandshakeCorrect, PTL

\* run() never touches a Thread object that its creator has destroyed.
THEOREM NoStrayCorrect == Spec => []NoStray
<1>1. HandshakeInv => NoStray
  BY DEF HandshakeInv
<1> QED BY <1>1, HandshakeCorrect, PTL

-----------------------------------------------------------------------------
(***************************************************************************)
(* The steps of a thread that runs fibers.                                 *)
(***************************************************************************)
\* The rules that the stacks rest on.
KeepsRules == {"scheduler", "native", "yield"} \subseteq Rules

LEMMA GetThisStep ==
    ASSUME NEW t \in Actors,
           HandshakeInv, SwitchInv, KeepsRules, GetThis(t)
    PROVE  SwitchInv'
<1> USE ThreadConstants, FiberConstants, FiberSwitchConstants
    DEF HandshakeInv, ThreadTypeOK, SwitchInv, SwitchTypeOK, FiberTypeOK, Actors, Objects, State,
        KeepsRules
<1>1. (t \in Threads => place[t] # "ended") /\ UNCHANGED place
  BY DEF GetThis, Runs, threadVars
<1>2. OwnStacks' /\ NoCrash'
  BY DEF GetThis, OwnStacks, NoCrash
<1>3. SwitchTypeOK'
  BY <1>1 DEF GetThis, Current, fiberVars
<1>4. OnFiber'
  BY <1>1 DEF OnFiber, Alone, Scheduling, MainFiber, GetThis, Current, fiberVars
<1>5. Alone'
  BY <1>1 DEF OnFiber, Alone, Scheduling, GetThis, Current, fiberVars
<1>6. Scheduling'
  BY <1>1 DEF OnFiber, Scheduling, GetThis, Current, fiberVars
<1>7. MainFiber'
  BY <1>1 DEF OnFiber, Scheduling, MainFiber, GetThis, Current, fiberVars
<1>8. Enterable'
  BY <1>1 DEF OnFiber, Enterable, GetThis, Current, fiberVars
<1> QED BY <1>2, <1>3, <1>4, <1>5, <1>6, <1>7, <1>8

LEMMA EnterRunStep ==
    ASSUME NEW t \in Actors,
           HandshakeInv, SwitchInv, KeepsRules, EnterRun(t)
    PROVE  SwitchInv'
<1> USE ThreadConstants, FiberConstants, FiberSwitchConstants
    DEF HandshakeInv, ThreadTypeOK, SwitchInv, SwitchTypeOK, FiberTypeOK, Actors, Objects, State,
        KeepsRules
<1>1. (t \in Threads => place[t] # "ended") /\ UNCHANGED place
  BY DEF EnterRun, Runs, threadVars
<1>2. OwnStacks' /\ NoCrash'
  BY DEF EnterRun, OwnStacks, NoCrash
<1>3. SwitchTypeOK'
  BY <1>1 DEF EnterRun, Current, fiberVars
<1>4. OnFiber'
  BY <1>1 DEF OnFiber, Alone, Scheduling, MainFiber, EnterRun, Current, fiberVars
<1>5. Alone'
  BY <1>1 DEF OnFiber, Alone, Scheduling, EnterRun, Current, fiberVars
<1>6. Scheduling'
  BY <1>1 DEF OnFiber, Scheduling, EnterRun, Current, fiberVars
<1>7. MainFiber'
  BY <1>1 DEF OnFiber, Scheduling, MainFiber, EnterRun, Current, fiberVars
<1>8. Enterable'
  BY <1>1 DEF OnFiber, Enterable, EnterRun, Current, fiberVars
<1> QED BY <1>2, <1>3, <1>4, <1>5, <1>6, <1>7, <1>8

LEMMA NewFiberStep ==
    ASSUME NEW t \in Actors, NEW f \in Fibers, NEW j \in Jobs \cup {NULL},
           HandshakeInv, SwitchInv, KeepsRules, NewFiber(t, f, j)
    PROVE  SwitchInv'
<1> USE ThreadConstants, FiberConstants, FiberSwitchConstants
    DEF HandshakeInv, ThreadTypeOK, SwitchInv, SwitchTypeOK, FiberTypeOK, Actors, Objects, State,
        KeepsRules
<1>1. (t \in Threads => place[t] # "ended") /\ UNCHANGED place
  BY DEF NewFiber, Runs, threadVars
<1>2. OwnStacks' /\ NoCrash'
  BY DEF NewFiber, OwnStacks, NoCrash
<1>3. SwitchTypeOK'
  BY <1>1 DEF NewFiber, Construct, Arm
<1>4. OnFiber'
  BY <1>1 DEF OnFiber, Alone, Scheduling, MainFiber, NewFiber, Construct, Arm
<1>5. Alone'
  BY <1>1 DEF OnFiber, Alone, Scheduling, NewFiber, Construct, Arm
<1>6. Scheduling'
  BY <1>1 DEF OnFiber, Scheduling, NewFiber, Construct, Arm
<1>7. MainFiber'
  BY <1>1 DEF OnFiber, Scheduling, MainFiber, NewFiber, Construct, Arm
<1>8. Enterable'
  BY <1>1 DEF OnFiber, Enterable, NewFiber, Construct, Arm
<1> QED BY <1>2, <1>3, <1>4, <1>5, <1>6, <1>7, <1>8

LEMMA NewRootStep ==
    ASSUME NEW t \in Actors, NEW f \in Fibers, NEW j \in Jobs \cup {NULL},
           HandshakeInv, SwitchInv, KeepsRules, NewRoot(t, f, j)
    PROVE  SwitchInv'
<1> USE ThreadConstants, FiberConstants, FiberSwitchConstants
    DEF HandshakeInv, ThreadTypeOK, SwitchInv, SwitchTypeOK, FiberTypeOK, Actors, Objects, State,
        KeepsRules
<1>1. (t \in Threads => place[t] # "ended") /\ UNCHANGED place
  BY DEF NewRoot, Runs, threadVars
<1>2. OwnStacks' /\ NoCrash'
  BY DEF NewRoot, OwnStacks, NoCrash
<1>3. SwitchTypeOK'
  BY <1>1 DEF NewRoot, Construct, Arm, Current
<1>4. OnFiber'
  BY <1>1 DEF OnFiber, Alone, Scheduling, MainFiber, NewRoot, Construct, Arm, Current
<1>5. Alone'
  BY <1>1 DEF OnFiber, Alone, Scheduling, NewRoot, Construct, Arm, Current
<1>6. Scheduling'
  BY <1>1 DEF OnFiber, Scheduling, NewRoot, Construct, Arm, Current
<1>7. MainFiber'
  BY <1>1 DEF OnFiber, Scheduling, MainFiber, NewRoot, Construct, Arm, Current
<1>8. Enterable'
  BY <1>1 DEF OnFiber, Enterable, NewRoot, Construct, Arm, Current
<1> QED BY <1>2, <1>3, <1>4, <1>5, <1>6, <1>7, <1>8

LEMMA SwapInStep ==
    ASSUME NEW t \in Actors, NEW f \in Fibers,
           HandshakeInv, SwitchInv, KeepsRules, swapIn(t, f), NoCrash'
    PROVE  SwitchInv'
<1> USE ThreadConstants, FiberConstants, FiberSwitchConstants
    DEF HandshakeInv, ThreadTypeOK, SwitchInv, SwitchTypeOK, FiberTypeOK, Actors, Objects, State,
        KeepsRules
<1>1. (t \in Threads => place[t] # "ended") /\ UNCHANGED place
  BY DEF swapIn, Runs, threadVars
<1>2. /\ t_main[t] = on[t]
      /\ m_state[f] # "EXEC" /\ ctx[f] # "end"
  BY DEF swapIn, NoCrash
<1>3. Swap(t, on[t], f)
  BY <1>2 DEF swapIn
<1>4. saved' = saved
  <2>1. saved' = [saved EXCEPT ![on[t]] = on[t]]
    BY <1>2, <1>3 DEF Swap
  <2>2. on[t] \in Objects
    BY <1>2
  <2> QED BY <2>1, <2>2 DEF OwnStacks
<1>5. on' = [on EXCEPT ![t] = f] /\ t_fiber' = [t_fiber EXCEPT ![t] = f]
  BY <1>2, <1>3 DEF Swap, OwnStacks, swapIn
<1>6. UNCHANGED <<t_threadFiber, t_main, use_caller>>
  BY DEF swapIn
<1>7. SwitchTypeOK'
  BY <1>1, <1>2, <1>5, <1>6 DEF swapIn, SetState
<1>8. OnFiber'
  BY <1>1, <1>2, <1>5, <1>6 DEF OnFiber, Alone, Scheduling, MainFiber, swapIn, SetState
<1>9. Alone'
  BY <1>1, <1>2, <1>5, <1>6 DEF OnFiber, Alone, Scheduling, swapIn, SetState
<1>10. Scheduling'
  BY <1>1, <1>2, <1>5, <1>6 DEF OnFiber, Scheduling, swapIn, SetState
<1>11. MainFiber'
  BY <1>1, <1>2, <1>5, <1>6 DEF OnFiber, Scheduling, MainFiber, swapIn, SetState
<1>12. Enterable'
  BY <1>1, <1>2, <1>5, <1>6 DEF OnFiber, Enterable, swapIn, SetState
<1> QED BY <1>4, <1>7, <1>8, <1>9, <1>10, <1>11, <1>12 DEF OwnStacks

LEMMA CallStep ==
    ASSUME NEW t \in Actors, NEW f \in Fibers,
           HandshakeInv, SwitchInv, KeepsRules, call(t, f), NoCrash'
    PROVE  SwitchInv'
<1> USE ThreadConstants, FiberConstants, FiberSwitchConstants
    DEF HandshakeInv, ThreadTypeOK, SwitchInv, SwitchTypeOK, FiberTypeOK, Actors, Objects, State,
        KeepsRules
<1>1. (t \in Threads => place[t] # "ended") /\ UNCHANGED place
  BY DEF call, Runs, threadVars
<1>2. /\ t_threadFiber[t] = t /\ on[t] = t
      /\ ctx[f] # "end" /\ t_main[t] = f
  BY <1>1 DEF call, NoCrash, OnFiber, Scheduling, MainFiber
<1>3. Swap(t, t, f)
  BY <1>2 DEF call
<1>4. saved' = saved
  <2>1. saved' = [saved EXCEPT ![t] = t]
    BY <1>2, <1>3 DEF Swap
  <2>2. t \in Objects
    BY <1>2
  <2> QED BY <2>1, <2>2 DEF OwnStacks
<1>5. on' = [on EXCEPT ![t] = f] /\ t_fiber' = [t_fiber EXCEPT ![t] = f]
  BY <1>2, <1>3 DEF Swap, OwnStacks, call
<1>6. UNCHANGED <<t_threadFiber, t_main, use_caller>>
  BY DEF call
<1>7. SwitchTypeOK'
  BY <1>1, <1>2, <1>5, <1>6 DEF call, SetState
<1>8. OnFiber'
  BY <1>1, <1>2, <1>5, <1>6 DEF OnFiber, Alone, Scheduling, MainFiber, call, SetState
<1>9. Alone'
  BY <1>1, <1>2, <1>5, <1>6 DEF OnFiber, Alone, Scheduling, call, SetState
<1>10. Scheduling'
  BY <1>1, <1>2, <1>5, <1>6 DEF OnFiber, Scheduling, call, SetState
<1>11. MainFiber'
  BY <1>1, <1>2, <1>5, <1>6 DEF OnFiber, Scheduling, MainFiber, call, SetState
<1>12. Enterable'
  BY <1>1, <1>2, <1>5, <1>6 DEF OnFiber, Enterable, call, SetState
<1> QED BY <1>4, <1>7, <1>8, <1>9, <1>10, <1>11, <1>12 DEF OwnStacks

LEMMA YieldToStep ==
    ASSUME NEW t \in Actors, NEW s \in {"READY", "HOLD"},
           HandshakeInv, SwitchInv, KeepsRules, YieldTo(t, s)
    PROVE  SwitchInv'
<1> USE ThreadConstants, FiberConstants, FiberSwitchConstants
    DEF HandshakeInv, ThreadTypeOK, SwitchInv, SwitchTypeOK, FiberTypeOK, Actors, Objects, State,
        KeepsRules
<1>1. (t \in Threads => place[t] # "ended") /\ UNCHANGED place
  BY DEF YieldTo, Runs, threadVars
<1>2. /\ t_fiber[t] = on[t] /\ on[t] \in Fibers \ use_caller
      /\ t_main[t] \in {t} \cup use_caller
  BY <1>1 DEF YieldTo, OnFiber, Scheduling, MainFiber
<1>3. swapOut(t, on[t])
  BY <1>2 DEF YieldTo
<1>4. saved' = saved
  <2>1. saved' = [saved EXCEPT ![on[t]] = on[t]]
    BY <1>2, <1>3 DEF swapOut, Swap
  <2>2. on[t] \in Objects
    BY <1>2
  <2> QED BY <2>1, <2>2 DEF OwnStacks
<1>5. on' = [on EXCEPT ![t] = t_main[t]] /\ t_fiber' = [t_fiber EXCEPT ![t] = t_main[t]]
  <2>1. saved[t_main[t]] = t_main[t]
    BY <1>2 DEF OwnStacks
  <2>2. /\ on' = [on EXCEPT ![t] = saved[t_main[t]]]
        /\ t_fiber' = [t_fiber EXCEPT ![t] = t_main[t]]
    BY <1>3 DEF swapOut, Swap
  <2> QED BY <2>1, <2>2, Zenon
<1>6. UNCHANGED <<t_threadFiber, t_main, use_caller>>
  BY DEF YieldTo
<1>7. NoCrash'
  <2>1. ~(t_main[t] = NULL)
    BY <1>2
  <2>2. crashed' = (t_main[t] = NULL)
    BY <1>3 DEF swapOut
  <2> QED BY <2>1, <2>2, Zenon DEF NoCrash
<1>8. SwitchTypeOK'
  BY <1>1, <1>2, <1>5, <1>6 DEF YieldTo, Yield, SetState
<1>9. OnFiber'
  BY <1>1, <1>2, <1>5, <1>6
     DEF OnFiber, Alone, Scheduling, MainFiber, YieldTo, Yield, SetState
<1>10. Alone'
  BY <1>1, <1>2, <1>5, <1>6 DEF OnFiber, Alone, Scheduling, YieldTo, Yield, SetState
<1>11. Scheduling'
  BY <1>1, <1>2, <1>5, <1>6 DEF OnFiber, Scheduling, YieldTo, Yield, SetState
<1>12. MainFiber'
  BY <1>1, <1>2, <1>5, <1>6 DEF OnFiber, Scheduling, MainFiber, YieldTo, Yield, SetState
<1>13. Enterable'
  BY <1>1, <1>2, <1>5, <1>6 DEF OnFiber, Enterable, YieldTo, Yield, SetState
<1> QED BY <1>4, <1>7, <1>8, <1>9, <1>10, <1>11, <1>12, <1>13 DEF OwnStacks

LEMMA MainFuncStep ==
    ASSUME NEW t \in Actors,
           HandshakeInv, SwitchInv, KeepsRules, MainFunc(t)
    PROVE  SwitchInv'
<1> USE ThreadConstants, FiberConstants, FiberSwitchConstants
    DEF HandshakeInv, ThreadTypeOK, SwitchInv, SwitchTypeOK, FiberTypeOK, Actors, Objects, State,
        KeepsRules
<1>1. (t \in Threads => place[t] # "ended") /\ UNCHANGED place
  BY DEF MainFunc, Runs, threadVars
<1>2. /\ t_fiber[t] = on[t] /\ on[t] \in Fibers \ use_caller
      /\ t_main[t] \in {t} \cup use_caller
  BY <1>1 DEF MainFunc, OnFiber, Scheduling, MainFiber
<1>3. swapOut(t, on[t])
  BY <1>2 DEF MainFunc
<1>4. saved' = saved
  <2>1. saved' = [saved EXCEPT ![on[t]] = on[t]]
    BY <1>2, <1>3 DEF swapOut, Swap
  <2>2. on[t] \in Objects
    BY <1>2
  <2> QED BY <2>1, <2>2 DEF OwnStacks
<1>5. on' = [on EXCEPT ![t] = t_main[t]] /\ t_fiber' = [t_fiber EXCEPT ![t] = t_main[t]]
  <2>1. saved[t_main[t]] = t_main[t]
    BY <1>2 DEF OwnStacks
  <2>2. /\ on' = [on EXCEPT ![t] = saved[t_main[t]]]
        /\ t_fiber' = [t_fiber EXCEPT ![t] = t_main[t]]
    BY <1>3 DEF swapOut, Swap
  <2> QED BY <2>1, <2>2, Zenon
<1>6. UNCHANGED <<t_threadFiber, t_main, use_caller>>
  BY DEF MainFunc
<1>7. NoCrash'
  <2>1. ~(t_main[t] = NULL)
    BY <1>2
  <2>2. crashed' = (t_main[t] = NULL)
    BY <1>3 DEF swapOut
  <2> QED BY <2>1, <2>2, Zenon DEF NoCrash
<1>8. SwitchTypeOK'
  BY <1>1, <1>2, <1>5, <1>6 DEF MainFunc, Return, Throw, SetState
<1>9. OnFiber'
  BY <1>1, <1>2, <1>5, <1>6
     DEF OnFiber, Alone, Scheduling, MainFiber, MainFunc, Return, Throw, SetState
<1>10. Alone'
  BY <1>1, <1>2, <1>5, <1>6
     DEF OnFiber, Alone, Scheduling, MainFunc, Return, Throw, SetState
<1>11. Scheduling'
  BY <1>1, <1>2, <1>5, <1>6 DEF OnFiber, Scheduling, MainFunc, Return, Throw, SetState
<1>12. MainFiber'
  BY <1>1, <1>2, <1>5, <1>6
     DEF OnFiber, Scheduling, MainFiber, MainFunc, Return, Throw, SetState
<1>13. Enterable'
  BY <1>1, <1>2, <1>5, <1>6 DEF OnFiber, Enterable, MainFunc, Return, Throw, SetState
<1> QED BY <1>4, <1>7, <1>8, <1>9, <1>10, <1>11, <1>12, <1>13 DEF OwnStacks

LEMMA CallerMainFuncStep ==
    ASSUME NEW t \in Actors,
           HandshakeInv, SwitchInv, KeepsRules, CallerMainFunc(t)
    PROVE  SwitchInv'
<1> USE ThreadConstants, FiberConstants, FiberSwitchConstants
    DEF HandshakeInv, ThreadTypeOK, SwitchInv, SwitchTypeOK, FiberTypeOK, Actors, Objects, State,
        KeepsRules
<1>1. (t \in Threads => place[t] # "ended") /\ UNCHANGED place
  BY DEF CallerMainFunc, Runs, threadVars
<1>2. /\ t_fiber[t] = on[t] /\ on[t] \in use_caller
      /\ t_threadFiber[t] = t /\ t_main[t] = on[t]
  BY <1>1 DEF CallerMainFunc, OnFiber, Scheduling, MainFiber
<1>3. back(t, on[t])
  BY <1>2 DEF CallerMainFunc
<1>4. saved' = saved
  <2>1. saved' = [saved EXCEPT ![on[t]] = on[t]]
    BY <1>2, <1>3 DEF back, Swap
  <2>2. on[t] \in Objects
    BY <1>2
  <2> QED BY <2>1, <2>2 DEF OwnStacks
<1>5. on' = [on EXCEPT ![t] = t] /\ t_fiber' = [t_fiber EXCEPT ![t] = t]
  <2>1. saved[t] = t
    BY DEF OwnStacks
  <2>2. /\ on' = [on EXCEPT ![t] = saved[t]]
        /\ t_fiber' = [t_fiber EXCEPT ![t] = t]
    BY <1>2, <1>3, Zenon DEF back, Swap
  <2> QED BY <2>1, <2>2, Zenon
<1>6. UNCHANGED <<t_threadFiber, t_main, use_caller>>
  BY DEF CallerMainFunc
<1>7. NoCrash'
  <2>1. ~(t_threadFiber[t] = NULL)
    BY <1>2
  <2>2. crashed' = (t_threadFiber[t] = NULL)
    BY <1>3 DEF back
  <2> QED BY <2>1, <2>2, Zenon DEF NoCrash
<1>8. SwitchTypeOK'
  BY <1>1, <1>2, <1>5, <1>6 DEF CallerMainFunc, Return, Throw, SetState
<1>9. OnFiber'
  BY <1>1, <1>2, <1>5, <1>6
     DEF OnFiber, Alone, Scheduling, MainFiber, CallerMainFunc, Return, Throw, SetState
<1>10. Alone'
  BY <1>1, <1>2, <1>5, <1>6
     DEF OnFiber, Alone, Scheduling, CallerMainFunc, Return, Throw, SetState
<1>11. Scheduling'
  BY <1>1, <1>2, <1>5, <1>6 DEF OnFiber, Scheduling, CallerMainFunc, Return, Throw, SetState
<1>12. MainFiber'
  BY <1>1, <1>2, <1>5, <1>6
     DEF OnFiber, Scheduling, MainFiber, CallerMainFunc, Return, Throw, SetState
<1>13. Enterable'
  BY <1>1, <1>2, <1>5, <1>6 DEF OnFiber, Enterable, CallerMainFunc, Return, Throw, SetState
<1> QED BY <1>4, <1>7, <1>8, <1>9, <1>10, <1>11, <1>12, <1>13 DEF OwnStacks

LEMMA ResetFiberStep ==
    ASSUME NEW t \in Actors, NEW f \in Fibers, NEW j \in Jobs \cup {NULL},
           HandshakeInv, SwitchInv, KeepsRules, resetFiber(t, f, j)
    PROVE  SwitchInv'
<1> USE ThreadConstants, FiberConstants, FiberSwitchConstants
    DEF HandshakeInv, ThreadTypeOK, SwitchInv, SwitchTypeOK, FiberTypeOK, Actors, Objects, State,
        KeepsRules
<1>1. (t \in Threads => place[t] # "ended") /\ UNCHANGED place
  BY DEF resetFiber, Runs, threadVars
<1>2. OwnStacks' /\ NoCrash'
  BY DEF resetFiber, OwnStacks, NoCrash, switchVars
<1>3. SwitchTypeOK'
  BY <1>1 DEF resetFiber, Reset, Arm, Idle, switchVars
<1>4. OnFiber'
  BY <1>1
     DEF OnFiber, Alone, Scheduling, MainFiber, resetFiber, Reset, Arm, Idle, switchVars
<1>5. Alone'
  BY <1>1 DEF OnFiber, Alone, Scheduling, resetFiber, Reset, Arm, Idle, switchVars
<1>6. Scheduling'
  BY <1>1 DEF OnFiber, Scheduling, resetFiber, Reset, Arm, Idle, switchVars
<1>7. MainFiber'
  BY <1>1 DEF OnFiber, Scheduling, MainFiber, resetFiber, Reset, Arm, Idle, switchVars
<1>8. Enterable'
  BY <1>1 DEF OnFiber, Enterable, resetFiber, Reset, Arm, Idle, switchVars
<1> QED BY <1>2, <1>3, <1>4, <1>5, <1>6, <1>7, <1>8

LEMMA DestroyFiberStep ==
    ASSUME NEW t \in Actors, NEW f \in Fibers,
           HandshakeInv, SwitchInv, KeepsRules, DestroyFiber(t, f)
    PROVE  SwitchInv'
<1> USE ThreadConstants, FiberConstants, FiberSwitchConstants
    DEF HandshakeInv, ThreadTypeOK, SwitchInv, SwitchTypeOK, FiberTypeOK, Actors, Objects, State,
        KeepsRules
<1>1. (t \in Threads => place[t] # "ended") /\ UNCHANGED place
  BY DEF DestroyFiber, Runs, threadVars
<1>2. OwnStacks' /\ NoCrash'
  BY DEF DestroyFiber, OwnStacks, NoCrash
<1>3. SwitchTypeOK'
  BY <1>1 DEF DestroyFiber, Idle
<1>4. OnFiber'
  BY <1>1 DEF OnFiber, Alone, Scheduling, MainFiber, DestroyFiber, Idle
<1>5. Alone'
  BY <1>1 DEF OnFiber, Alone, Scheduling, DestroyFiber, Idle
<1>6. Scheduling'
  BY <1>1 DEF OnFiber, Scheduling, DestroyFiber, Idle
<1>7. MainFiber'
  BY <1>1 DEF OnFiber, Scheduling, MainFiber, DestroyFiber, Idle
<1>8. Enterable'
  BY <1>1 DEF OnFiber, Enterable, DestroyFiber, Idle
<1> QED BY <1>2, <1>3, <1>4, <1>5, <1>6, <1>7, <1>8

LEMMA ThreadEndsStep ==
    ASSUME NEW t \in Threads, HandshakeInv, SwitchInv, ThreadEnds(t)
    PROVE  SwitchInv'
<1> USE ThreadConstants, FiberConstants, FiberSwitchConstants
    DEF HandshakeInv, ThreadTypeOK, SwitchInv, SwitchTypeOK, FiberTypeOK, Actors, Objects, State
<1>1. UNCHANGED <<m_state, m_cb, ctx, t_main, on, saved, use_caller, crashed>>
  BY DEF ThreadEnds, fiberVars
<1>2. OwnStacks' /\ NoCrash' /\ Alone' /\ Scheduling' /\ Enterable'
  BY <1>1 DEF OwnStacks, NoCrash, Alone, Scheduling, Enterable
<1>3. SwitchTypeOK'
  BY <1>1 DEF ThreadEnds
<1>4. OnFiber'
  BY <1>1 DEF ThreadEnds, OnFiber
<1>5. MainFiber'
  BY <1>1 DEF ThreadEnds, RunReturn, MainFiber
<1> QED BY <1>2, <1>3, <1>4, <1>5

LEMMA ThreadwiseStep ==
    ASSUME HandshakeInv, SwitchInv, Threadwise
    PROVE  SwitchInv'
<1> USE ThreadConstants, FiberConstants, FiberSwitchConstants
    DEF HandshakeInv, ThreadTypeOK, SwitchInv, SwitchTypeOK, FiberTypeOK, Actors, Objects, State
<1>1. UNCHANGED <<fiberVars, switchVars>>
  BY DEF Threadwise
<1>2. \A t \in Threads : place'[t] = "ended" <=> place[t] = "ended"
  BY DEF Threadwise, Handshake, Created, Joined, Run, Notify, Create, SetName, Join, Destroy, Left
<1>3. SwitchTypeOK' /\ OwnStacks' /\ OnFiber' /\ Alone' /\ Scheduling' /\ Enterable' /\ NoCrash'
  BY <1>1 DEF fiberVars, switchVars, OwnStacks, OnFiber, Alone, Scheduling, Enterable, NoCrash
<1>4. MainFiber'
  BY <1>1, <1>2 DEF switchVars, MainFiber
<1> QED BY <1>3, <1>4

\* A thread and the stack it is on belong together: every object holds the stack
\* that is its own, a fiber is current on the one thread that is on it, and each
\* thread has a way back to its native stack, until a switch crashes.
THEOREM SwitchCorrect ==
    ASSUME KeepsRules
    PROVE  Spec => [](crashed \/ SwitchInv)
<1>1. Init => SwitchInv
  BY ThreadConstants, FiberConstants, FiberSwitchConstants
     DEF Init, FiberInit, ThreadInit, SwitchInv, SwitchTypeOK, FiberTypeOK, OwnStacks, OnFiber,
         Alone, Scheduling, MainFiber, Enterable, NoCrash, Actors, Objects, State
<1>2. HandshakeInv /\ (crashed \/ SwitchInv) /\ [Next]_vars => (crashed \/ SwitchInv)'
  <2> SUFFICES ASSUME HandshakeInv, crashed \/ SwitchInv, [Next]_vars, ~crashed'
               PROVE  SwitchInv'
    OBVIOUS
  <2>1. NoCrash' /\ SwitchInv
    BY DEF NoCrash, Next, vars, switchVars
  <2>2. CASE Threadwise
    BY <2>1, <2>2, ThreadwiseStep
  <2>3. ASSUME NEW t \in Threads, ThreadEnds(t) PROVE SwitchInv'
    BY <2>1, <2>3, ThreadEndsStep
  <2>4. ASSUME NEW t \in Actors, Fiberwise(t) PROVE SwitchInv'
    BY <2>1, <2>4, GetThisStep, EnterRunStep, NewFiberStep, NewRootStep, SwapInStep, CallStep,
       YieldToStep, MainFuncStep, CallerMainFuncStep, ResetFiberStep, DestroyFiberStep
       DEF Fiberwise
  <2>5. CASE UNCHANGED vars
    BY <2>1, <2>5 DEF vars, fiberVars, threadVars, switchVars, SwitchInv, SwitchTypeOK,
       FiberTypeOK, OwnStacks, OnFiber, Alone, Scheduling, MainFiber, Enterable, NoCrash
  <2> QED BY <2>2, <2>3, <2>4, <2>5 DEF Next
<1> QED BY <1>1, <1>2, HandshakeCorrect, PTL DEF Spec

\* t_fiber is the fiber whose stack the thread is on, and no stack has two threads.
THEOREM RunningIsCurrentCorrect ==
    ASSUME KeepsRules
    PROVE  Spec => []RunningIsCurrent
<1>1. crashed \/ SwitchInv => RunningIsCurrent
  BY DEF SwitchInv, SwitchTypeOK, OnFiber, Alone, RunningIsCurrent
<1> QED BY <1>1, SwitchCorrect, PTL

LEMMA InvWayBack ==
    ASSUME HandshakeInv, SwitchInv
    PROVE  WayBack
<1> SUFFICES ASSUME NEW t \in Actors, on[t] \in Fibers
             PROVE  /\ BackTo(t) \in Objects \ {on[t]}
                    /\ saved[BackTo(t)] = BackTo(t)
                    /\ BackTo(t) \in Fibers =>
                          m_state[BackTo(t)] = "EXEC" /\ ctx[BackTo(t)] # "end"
                    /\ BackTo(t) \in Actors => t_threadFiber[BackTo(t)] = BackTo(t)
                    /\ \A u \in Actors : on[u] # BackTo(t)
  BY DEF WayBack
<1> USE ThreadConstants, FiberConstants, FiberSwitchConstants
    DEF HandshakeInv, ThreadTypeOK, SwitchInv, SwitchTypeOK, FiberTypeOK, Actors, Objects
<1>1. t_threadFiber[t] = t
  BY DEF OnFiber, MainFiber
<1>2. \A u \in Actors : on[u] # t
  BY DEF OnFiber
<1>3. CASE on[t] \in use_caller \/ t_main[t] = t
  <2>1. BackTo(t) = t
    BY <1>1, <1>3 DEF BackTo, OnFiber
  <2> QED BY <1>1, <1>2, <2>1 DEF OwnStacks
<1>4. CASE on[t] \notin use_caller /\ t_main[t] # t
  <2>1. BackTo(t) = t_main[t] /\ t_main[t] \in use_caller
    BY <1>4 DEF BackTo, OnFiber, Scheduling
  <2>2. m_state[t_main[t]] = "EXEC" /\ ctx[t_main[t]] # "end"
    BY <2>1 DEF Scheduling, Enterable
  <2>3. \A u \in Actors : on[u] # t_main[t]
    BY <1>4, <2>1 DEF OnFiber, Scheduling
  <2> QED BY <1>4, <2>1, <2>2, <2>3 DEF OwnStacks
<1> QED BY <1>3, <1>4

LEMMA CrashWayBack ==
    ASSUME NEW t \in Actors, NEW f \in Fibers,
           HandshakeInv, SwitchInv, KeepsRules, swapIn(t, f) \/ call(t, f), crashed'
    PROVE  WayBack'
<1> USE ThreadConstants, FiberConstants, FiberSwitchConstants
    DEF HandshakeInv, ThreadTypeOK, SwitchInv, SwitchTypeOK, FiberTypeOK, Actors, Objects,
        KeepsRules
<1>1. on' = [on EXCEPT ![t] = f] /\ UNCHANGED <<t_main, t_threadFiber, use_caller>>
  BY DEF swapIn, call, Swap, OwnStacks
<1>2. BackTo(t)' \in Objects \ {f}
  <2>1. CASE swapIn(t, f)
    BY <1>1, <2>1 DEF swapIn, BackTo, Scheduling
  <2>2. CASE call(t, f)
    <3>1. t_threadFiber[t] = t
      BY <2>2 DEF call, Runs, MainFiber
    <3> QED BY <1>1, <2>2, <3>1 DEF call, BackTo
  <2> QED BY <2>1, <2>2
<1>3. ASSUME NEW u \in Actors, u # t, on'[u] \in Fibers
      PROVE  BackTo(u)' \in Objects \ {on'[u]}
  BY <1>1, <1>3, InvWayBack DEF BackTo, WayBack
<1> QED BY <1>1, <1>2, <1>3 DEF WayBack

\* A thread on a fiber, whichever thread that fiber was on before, has a context of
\* its own to go back to, whatever fibers clients try to enter.
THEOREM WayBackCorrect ==
    ASSUME KeepsRules
    PROVE  Spec => []WayBack
<1>1. Init => WayBack
  BY FiberSwitchConstants DEF Init, WayBack, Actors
<1>2. /\ HandshakeInv /\ HandshakeInv' /\ (crashed \/ SwitchInv) /\ (crashed \/ SwitchInv)'
      /\ WayBack /\ [Next]_vars
      => WayBack'
  <2> SUFFICES ASSUME HandshakeInv, HandshakeInv', crashed \/ SwitchInv, (crashed \/ SwitchInv)',
                      WayBack, [Next]_vars
               PROVE  WayBack'
    OBVIOUS
  <2>1. CASE ~crashed'
    <3>1. HandshakeInv' /\ SwitchInv'
      BY <2>1
    <3> QED BY <3>1, InvWayBack, PTL
  <2>2. CASE crashed' /\ Next
    <3>1. SwitchInv
      BY <2>2 DEF Next
    <3>2. CASE Threadwise \/ \E t \in Threads : ThreadEnds(t)
      BY <2>2, <3>1, <3>2 DEF Threadwise, ThreadEnds, switchVars, SwitchInv, NoCrash
    <3>3. ASSUME NEW t \in Actors, NEW f \in Fibers, swapIn(t, f) \/ call(t, f) PROVE WayBack'
      BY <2>2, <3>1, <3>3, CrashWayBack
    <3>4. ASSUME NEW t \in Actors, Fiberwise(t),
                 ~\E f \in Fibers : swapIn(t, f) \/ call(t, f)
          PROVE  SwitchInv'
      BY <3>1, <3>4, GetThisStep, EnterRunStep, NewFiberStep, NewRootStep, YieldToStep,
         MainFuncStep, CallerMainFuncStep, ResetFiberStep, DestroyFiberStep
         DEF Fiberwise
    <3> QED BY <2>2, <3>2, <3>3, <3>4 DEF Next, SwitchInv, NoCrash
  <2>3. CASE UNCHANGED vars
    BY <2>3 DEF vars, fiberVars, threadVars, switchVars, WayBack, BackTo
  <2> QED BY <2>1, <2>2, <2>3
<1> QED BY <1>1, <1>2, HandshakeCorrect, SwitchCorrect, PTL DEF Spec

-----------------------------------------------------------------------------
(***************************************************************************)
(* TotalFibers().                                                          *)
(***************************************************************************)
Existing == {f \in Fibers : m_state[f] # "NONE"}
Mains == {t \in Actors : t_threadFiber[t] # NULL}

Same == Existing' = Existing /\ Mains' = Mains /\ s_fiber_count' = s_fiber_count

\* How a step changes the fibers that there are, and the count with them.
Counted ==
    \/ Same
    \/ \E f \in Fibers \ Existing :
          Existing' = Existing \cup {f} /\ Mains' = Mains /\ s_fiber_count' = s_fiber_count + 1
    \/ \E f \in Existing :
          Existing' = Existing \ {f} /\ Mains' = Mains /\ s_fiber_count' = s_fiber_count - 1
    \/ \E t \in Actors \ Mains :
          Existing' = Existing /\ Mains' = Mains \cup {t} /\ s_fiber_count' = s_fiber_count + 1
    \/ \E t \in Mains :
          Existing' = Existing /\ Mains' = Mains \ {t} /\ s_fiber_count' = s_fiber_count - 1
    \/ \E f \in Fibers \ Existing, t \in Actors \ Mains :
          /\ Existing' = Existing \cup {f} /\ Mains' = Mains \cup {t}
          /\ s_fiber_count' = s_fiber_count + 2

LEMMA CountedKeeps ==
    ASSUME IsFiniteSet(Fibers), IsFiniteSet(Threads), CountExact, Counted
    PROVE  CountExact'
<1>1. IsFiniteSet(Actors)
  BY FS_AddElement DEF Actors
<1>2. IsFiniteSet(Existing) /\ IsFiniteSet(Mains)
  <2>1. Existing \in SUBSET Fibers /\ Mains \in SUBSET Actors
    BY DEF Existing, Mains
  <2> QED BY <1>1, <2>1, FS_Subset
<1>3. Cardinality(Existing) \in Nat /\ Cardinality(Mains) \in Nat
  BY <1>2, FS_CardinalityType
<1>4. s_fiber_count = Cardinality(Existing) + Cardinality(Mains)
  BY DEF CountExact, Existing, Mains
<1>5. s_fiber_count' = Cardinality(Existing') + Cardinality(Mains')
  <2>1. CASE Same
    BY <1>4, <2>1 DEF Same
  <2>2. ASSUME NEW f \in Fibers \ Existing, Existing' = Existing \cup {f}
        PROVE  Cardinality(Existing') = Cardinality(Existing) + 1
    BY <1>2, <2>2, FS_AddElement
  <2>3. ASSUME NEW f \in Existing, Existing' = Existing \ {f}
        PROVE  Cardinality(Existing') = Cardinality(Existing) - 1
    BY <1>2, <2>3, FS_RemoveElement
  <2>4. ASSUME NEW t \in Actors \ Mains, Mains' = Mains \cup {t}
        PROVE  Cardinality(Mains') = Cardinality(Mains) + 1
    BY <1>2, <2>4, FS_AddElement
  <2>5. ASSUME NEW t \in Mains, Mains' = Mains \ {t}
        PROVE  Cardinality(Mains') = Cardinality(Mains) - 1
    BY <1>2, <2>5, FS_RemoveElement
  <2> QED BY <1>3, <1>4, <2>1, <2>2, <2>3, <2>4, <2>5 DEF Counted
<1> QED BY <1>5 DEF CountExact, Existing, Mains

LEMMA CurrentCounted ==
    ASSUME NEW t \in Actors, NEW n \in Nat, SwitchInv, s_fiber_count \in Nat, Current(t, n),
           t \in Threads => place[t] # "ended"
    PROVE  \/ Mains' = Mains /\ s_fiber_count' = s_fiber_count + n
           \/ /\ t \in Actors \ Mains
              /\ Mains' = Mains \cup {t} /\ s_fiber_count' = s_fiber_count + n + 1
<1> USE FiberSwitchConstants DEF SwitchInv, SwitchTypeOK, MainFiber, Actors, Mains, Current
<1>1. CASE t_fiber[t] = NULL
  <2>1. t_threadFiber[t] = NULL
    BY <1>1
  <2>2. Mains' = Mains \cup {t} /\ t \notin Mains
    BY <1>1, <2>1
  <2> QED BY <1>1, <2>2
<1>2. CASE t_fiber[t] # NULL
  <2>1. t_threadFiber' = t_threadFiber
    BY <1>2
  <2> QED BY <1>2, <2>1
<1> QED BY <1>1, <1>2

LEMMA FiberwiseCounted ==
    ASSUME NEW t \in Actors, HandshakeInv, SwitchInv, KeepsRules, Fiberwise(t),
           CountExact, s_fiber_count \in Nat
    PROVE  Counted
<1> USE FiberConstants, FiberSwitchConstants
    DEF SwitchInv, SwitchTypeOK, FiberTypeOK, Counted, Same, Existing
<1>1. CASE GetThis(t)
  <2>1. t \in Threads => place[t] # "ended"
    BY <1>1, ThreadConstants DEF GetThis, Runs
  <2> QED BY <1>1, <2>1, CurrentCounted DEF GetThis, fiberVars
<1>2. CASE EnterRun(t)
  <2>1. t \in Threads => place[t] # "ended"
    BY <1>2, ThreadConstants DEF EnterRun, Runs
  <2> QED BY <1>2, <2>1, CurrentCounted DEF EnterRun, fiberVars
<1>3. ASSUME NEW f \in Fibers, NEW j \in Jobs, NewFiber(t, f, j) PROVE Counted
  <2>1. f \notin Existing /\ Existing' = Existing \cup {f}
    BY <1>3 DEF NewFiber, Construct, Arm
  <2> QED BY <1>3, <2>1 DEF NewFiber, Mains
<1>4. ASSUME NEW f \in Fibers, NEW j \in Jobs, NewRoot(t, f, j) PROVE Counted
  <2>1. f \notin Existing /\ Existing' = Existing \cup {f}
    BY <1>4 DEF NewRoot, Construct, Arm
  <2>2. t \in Threads => place[t] # "ended"
    BY <1>4, ThreadConstants DEF NewRoot, Runs
  <2> QED BY <1>4, <2>1, <2>2, CurrentCounted DEF NewRoot
<1>5. ASSUME NEW f \in Fibers, DestroyFiber(t, f) PROVE Counted
  <2>1. f \in Existing /\ Existing' = Existing \ {f}
    BY <1>5 DEF DestroyFiber, Idle
  <2> QED BY <1>5, <2>1 DEF DestroyFiber, Mains
<1>6. ASSUME NEW f \in Fibers, swapIn(t, f) \/ call(t, f) PROVE Counted
  <2>1. f \in Existing
    BY <1>6 DEF swapIn, call, Scheduling
  <2>2. Existing' = Existing
    BY <1>6, <2>1 DEF swapIn, call, SetState
  <2> QED BY <1>6, <2>2 DEF swapIn, call, Mains
<1>7. ASSUME NEW f \in Fibers, NEW j \in Jobs \cup {NULL}, resetFiber(t, f, j) PROVE Counted
  <2>1. Existing' = Existing
    BY <1>7 DEF resetFiber, Reset, Arm, Idle
  <2> QED BY <1>7, <2>1 DEF resetFiber, switchVars, Mains
<1>8. ASSUME NEW s \in {"READY", "HOLD"}, YieldTo(t, s) PROVE Counted
  <2>1. t_fiber[t] = on[t] /\ on[t] \in Existing
    BY <1>8 DEF YieldTo, OnFiber
  <2>2. Existing' = Existing
    BY <1>8, <2>1 DEF YieldTo, Yield, SetState
  <2> QED BY <1>8, <2>2 DEF YieldTo, Mains
<1>9. CASE MainFunc(t) \/ CallerMainFunc(t)
  <2>1. on[t] \in Existing
    BY <1>9 DEF MainFunc, CallerMainFunc, OnFiber
  <2>2. Existing' = Existing
    BY <1>9, <2>1 DEF MainFunc, CallerMainFunc, Return, Throw, SetState
  <2> QED BY <1>9, <2>2 DEF MainFunc, CallerMainFunc, Mains
<1> QED
  BY <1>1, <1>2, <1>3, <1>4, <1>5, <1>6, <1>7, <1>8, <1>9 DEF Fiberwise

\* TotalFibers() is the number of fibers: each constructor and each destructor,
\* that of the main fiber of a thread included, counts once.
THEOREM CountExactCorrect ==
    ASSUME KeepsRules, IsFiniteSet(Fibers), IsFiniteSet(Threads)
    PROVE  Spec => []CountExact
<1>1. Init => CountExact /\ s_fiber_count \in Nat
  <2> SUFFICES ASSUME Init PROVE CountExact /\ s_fiber_count \in Nat
    OBVIOUS
  <2>1. Existing = {} /\ Mains = {} /\ s_fiber_count = 0
    BY DEF Init, FiberInit, Existing, Mains
  <2> QED BY <2>1, FS_EmptySet DEF CountExact, Existing, Mains
<1>2. /\ HandshakeInv /\ (crashed \/ SwitchInv) /\ CountExact /\ s_fiber_count \in Nat /\ [Next]_vars
      => CountExact'
  <2> SUFFICES ASSUME HandshakeInv, crashed \/ SwitchInv, CountExact, s_fiber_count \in Nat,
                      [Next]_vars
               PROVE  Counted
    BY CountedKeeps
  <2>1. CASE Threadwise \/ UNCHANGED vars
    BY <2>1 DEF Threadwise, vars, fiberVars, switchVars, Counted, Same, Existing, Mains
  <2>2. ASSUME NEW t \in Threads, SwitchInv, ThreadEnds(t) PROVE Counted
    <3>1. Existing' = Existing
      BY <2>2 DEF ThreadEnds, fiberVars, Existing
    <3>2. CASE t_threadFiber[t] = NULL
      BY <2>2, <3>1, <3>2 DEF ThreadEnds, Counted, Same, Mains, SwitchInv, SwitchTypeOK, Actors
    <3>3. CASE t_threadFiber[t] # NULL
      <4>1. t \in Mains /\ Mains' = Mains \ {t}
        BY <2>2, <3>3 DEF ThreadEnds, Mains, SwitchInv, SwitchTypeOK, Actors
      <4> QED BY <2>2, <3>1, <3>3, <4>1 DEF ThreadEnds, Counted
    <3> QED BY <3>2, <3>3
  <2>3. ASSUME NEW t \in Actors, SwitchInv, Fiberwise(t) PROVE Counted
    BY <2>3, FiberwiseCounted
  <2> QED BY <2>1, <2>2, <2>3 DEF Next
<1>3. CountExact => s_fiber_count \in Nat
  <2> SUFFICES ASSUME CountExact PROVE s_fiber_count \in Nat
    OBVIOUS
  <2>1. IsFiniteSet(Actors)
    BY FS_AddElement DEF Actors
  <2>2. Existing \in SUBSET Fibers /\ Mains \in SUBSET Actors
    BY DEF Existing, Mains
  <2>3. Cardinality(Existing) \in Nat /\ Cardinality(Mains) \in Nat
    BY <2>1, <2>2, FS_Subset, FS_CardinalityType
  <2> QED BY <2>3 DEF CountExact, Existing, Mains
<1> QED BY <1>1, <1>2, <1>3, HandshakeCorrect, SwitchCorrect, PTL DEF Spec
=============================================================================
