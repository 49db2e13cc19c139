-------------------------- MODULE SchedulerJobPool --------------------------
(***************************************************************************)
(* The scheduler as clients see it: a refinement mapping from Scheduler to *)
(* JobPool.  A job that is neither new, pending, running nor done is one   *)
(* that the scheduler no longer knows of: its fiber yielded to HOLD and    *)
(* only its owner can schedule it again.                                   *)
(***************************************************************************)
EXTENDS Scheduler

\* Thread w is in the middle of job j's callback.
Runs(w, j) == pc[w] = "body" /\ m_cb[Cur(w)] = j

\* The threads in the middle of job j's callback.
RunnersOf(j) == {w \in Threads : Runs(w, j)}

RunnerOf(j) == IF RunnersOf(j) = {} THEN NULL ELSE CHOOSE w \in RunnersOf(j) : TRUE

\* A message for job j.
For(j, task) == task.cb = j \/ (task.fiber # NULL /\ m_cb[task.fiber] = j)

InQueue(j) == \E i \in DOMAIN m_fibers : For(j, m_fibers[i])

\* Worker w carries job j from the queue to swapIn(), or from YieldToReady()
\* back to the queue.
Carries(w, j) ==
    \/ pc[w] = "dispatch" /\ For(j, ft[w])
    \/ pc[w] \in {"assert", "enter"} /\ m_cb[Cur(w)] = j
    \/ /\ pc[w] \in {"swapout", "after", "requeue", "resched"}
       /\ m_state[Cur(w)] = "READY" /\ m_cb[Cur(w)] = j

Pending(j) == InQueue(j) \/ \E w \in Threads : Carries(w, j)

StatusOf(j) ==
    IF pin[j] = NULL THEN "new"
    ELSE IF RunnersOf(j) # {} THEN "running"
    ELSE IF j \in finished THEN "done"
    ELSE IF Pending(j) THEN "pending" ELSE "parked"

\* Job j was scheduled again while it runs.
Woken(j) == RunnersOf(j) # {} /\ Pending(j)

\* From the end of start() to the end of stop().
Serving == mpc \notin {"idle", "starting", "stopped"}

JP == INSTANCE JobPool WITH
    None <- NULL,
    status <- [j \in Jobs |-> StatusOf(j)],
    runner <- [j \in Jobs |-> RunnerOf(j)],
    woken <- {j \in Jobs : Woken(j)},
    up <- Serving

\* Every behaviour of the scheduler is one of the abstract job pool: schedule(),
\* run(), the yields and stop() neither lose a job nor run it twice.
ImplementsJobPool == JP!Spec
=============================================================================
