---------------------------- MODULE SchedulerInv ----------------------------
(***************************************************************************)
(* The inductive strengthenings of Scheduler's invariants, used by         *)
(* SchedulerProofs and SchedulerJobPoolProofs, and checked by TLC          *)
(* beforehand.                                                             *)
(***************************************************************************)
EXTENDS Scheduler

\* The places of run() at which the fiber that is being run is at hand.
HasFiber == {"assert", "enter", "body", "swapout", "after", "requeue", "resched", "park"}

\* An empty message is never queued (scheduleNoLock() drops it).
QueueOK ==
    /\ m_fibers \in Seq(Tasks)
    /\ \A i \in DOMAIN m_fibers : m_fibers[i].fiber # NULL \/ m_fibers[i].cb # NULL

\* What the locals of run() hold where: the scan starts with ft reset, a fiber
\* is at hand from the dispatch to its release, and the caller's thread is in
\* run() only inside stop().
Shape ==
    /\ \A w \in Threads : pc[w] = "scan" => ft[w] = NoTask
    /\ \A w \in Threads : pc[w] \in HasFiber => Cur(w) # NULL
    /\ pc[Caller] # "off" => mpc = "root"

\* The inductive invariant behind TypeOK and CountersExact: the size of Active
\* follows the counter only if an empty message cannot be taken off the queue.
BaseInv == TypeOK /\ QueueOK /\ Shape /\ CountersExact

-----------------------------------------------------------------------------
(***************************************************************************)
(* Who owns a fiber, when clients keep to the contract.  A fiber that the  *)
(* scheduler knows of is in one place: in the queue once, or with one      *)
(* worker; in both only while its own callback, which scheduled it for the *)
(* worker's thread, is leaving that thread.                                *)
(***************************************************************************)

\* One message per fiber.
QueueDistinct ==
    \A i, k \in DOMAIN m_fibers :
        m_fibers[i].fiber # NULL /\ m_fibers[i].fiber = m_fibers[k].fiber => i = k

\* One worker per fiber, in one role.
RefsDisjoint ==
    /\ \A v, w \in Threads, f \in Fibers : Refers(v, f) /\ Refers(w, f) => v = w
    /\ \A w \in Threads : ft[w].fiber # NULL => ft[w].fiber # cb_fiber[w]

\* A queued fiber that a worker still holds has scheduled itself.
SelfScheduled ==
    \A i \in DOMAIN m_fibers, w \in Threads :
        m_fibers[i].fiber # NULL /\ Refers(w, m_fibers[i].fiber) =>
            /\ m_fibers[i].thread = w
            /\ m_fibers[i].fiber = Cur(w)
            /\ pc[w] \in {"body", "swapout", "after", "requeue", "park"}
            /\ pc[w] # "body" => m_state[Cur(w)] = "HOLD"

\* The state of the fiber a worker has at hand, place by place.
StateAt(w) ==
    /\ pc[w] \in {"assert", "enter"} => m_state[Cur(w)] \in {"INIT", "HOLD", "READY"}
    /\ pc[w] = "body" => m_state[Cur(w)] = "EXEC"
    /\ pc[w] \in {"swapout", "after", "requeue"} =>
          m_state[Cur(w)] \in {"HOLD", "READY", "TERM", "EXCEPT"}
    /\ pc[w] = "resched" => m_state[Cur(w)] = "READY"
    /\ pc[w] = "park" => m_state[Cur(w)] = "HOLD"

\* A worker that is not running a fiber holds none but an armed cb_fiber.
RestingRefs(w) ==
    /\ pc[w] \notin HasFiber \cup {"dispatch"} => ft[w].fiber = NULL
    /\ cb_fiber[w] # NULL /\ ~(pc[w] \in HasFiber /\ Cur(w) = cb_fiber[w]) =>
          m_state[cb_fiber[w]] = "INIT"

Places == \A w \in Threads : StateAt(w) /\ RestingRefs(w)

\* Every fiber: EXEC means that a worker is in its callback, a context that
\* ended belongs to a finished fiber, and an object that does not exist is
\* nowhere.
FiberStates ==
    \A f \in Fibers :
        /\ m_state[f] = "EXEC" => \E w \in Threads : pc[w] = "body" /\ Cur(w) = f
        /\ ctx[f] = "end" => m_state[f] \in Finished
        /\ m_state[f] = "NONE" => ~Queued(f) /\ \A w \in Threads : ~Refers(w, f)

\* stop() calls the root fiber at most once, and leaves nothing in m_threads.
RootOnce ==
    /\ mpc = "stop_alone" => Workers = {}
    /\ mpc \in {"idle", "join", "stopped"} => m_threads = <<>>
    /\ mpc = "stop_root" => UseCaller
    /\ mpc # "idle" => starts > 0
    /\ UseCaller /\ mpc \in {"idle", "starting", "started", "stop_alone", "stop_set",
                             "stop_root"} => root_state = "INIT"

\* The inductive invariant behind FiberExclusive and AssertionsHold.
OwnerInv ==
    /\ QueueDistinct /\ RefsDisjoint /\ SelfScheduled /\ Places /\ FiberStates
    /\ RootOnce
    /\ FiberExclusive /\ AssertionsHold

-----------------------------------------------------------------------------
(***************************************************************************)
(* start() and stop() against the scans: when a thread may leave run().    *)
(***************************************************************************)

\* Which threads there are in which phase, who is left to be joined, and since
\* when the threads may see m_stopping.
Phases ==
    /\ \A w \in Workers : pc[w] # "off" => w \in ToSet(m_threads) \cup ToSet(thrs)
    /\ mpc # "join" => thrs = <<>>
    /\ mpc \in {"idle", "stopped", "join"} => m_threads = <<>>
    /\ mpc = "starting" =>
          m_mutex = Caller /\ \A w \in Workers : pc[w] \in {"off", "loop"}
    /\ mpc \in {"starting", "started"} => ~m_stopping
    /\ mpc = "stop_set" /\ ~UseCaller => ~m_stopping
    /\ mpc = "stop_alone" => Workers = {}
    /\ mpc \in {"started", "stop_alone", "stop_set", "stop_root", "root", "stop_swap"} =>
          \A w \in Workers : pc[w] # "off"

\* A scan holds m_mutex and has passed over nothing that its thread may take.
Scanning ==
    \A w \in Threads :
        /\ pc[w] # "scan" => iter[w] = 1
        /\ pc[w] = "scan" =>
              /\ m_mutex = w /\ iter[w] > 0
              /\ \A i \in DOMAIN m_fibers :
                    i < iter[w] => m_fibers[i].thread \notin {ANY, w}

\* Thread w has looked at the queue for the last time.
Left(w) == pc[w] = "exited" \/ (pc[w] = "dispatch" /\ ft[w] = NoTask /\ idle_term[w])

\* A thread whose idle fiber ended has seen stop(), and nothing is queued for a
\* thread that has left.
Leavers ==
    \A w \in Threads :
        /\ pc[w] # "off" /\ idle_term[w] => m_auto_stop /\ m_stopping
        /\ pc[w] = "exited" => idle_term[w]
        /\ Left(w) => \A i \in DOMAIN m_fibers : m_fibers[i].thread # w

\* The end of stop(): what is queued is for a thread that is there, and as long
\* as anything is queued some thread is there to take it.
EndGame == {"root", "stop_swap", "join"}

Takers ==
    /\ \A i \in DOMAIN m_fibers : m_fibers[i].thread \in Runners \cup {ANY}
    /\ mpc \in EndGame =>
          \A i \in DOMAIN m_fibers :
              m_fibers[i].thread # ANY => pc[m_fibers[i].thread] # "off"
    /\ mpc \in EndGame /\ m_fibers # <<>> =>
          \E w \in Threads : pc[w] # "off" /\ ~Left(w)

\* The inductive invariant behind NoOrphan.
StopInv == Phases /\ Scanning /\ Leavers /\ Takers

-----------------------------------------------------------------------------
(***************************************************************************)
(* The thread a job was submitted for.  Until the job starts, the message  *)
(* for it names this thread, and the worker that carries it is this        *)
(* thread.                                                                 *)
(***************************************************************************)

\* A fiber that has not been entered is new or being entered for the first time.
EntryStates == \A f \in Fibers : ctx[f] = "entry" => m_state[f] \in {"NONE", "INIT", "EXEC"}

\* A message for fiber f that would start the callback of f.
Starting(f) == f # NULL /\ m_state[f] = "INIT" /\ m_cb[f] # NULL

PinnedQueue ==
    \A i \in DOMAIN m_fibers :
        /\ m_fibers[i].cb # NULL => pin[m_fibers[i].cb] = m_fibers[i].thread
        /\ Starting(m_fibers[i].fiber) =>
              pin[m_cb[m_fibers[i].fiber]] = m_fibers[i].thread

PinnedWorkers ==
    \A w \in Threads :
        /\ pc[w] = "dispatch" /\ ft[w].cb # NULL => pin[ft[w].cb] \in {ANY, w}
        /\ pc[w] = "dispatch" /\ Starting(ft[w].fiber) => pin[m_cb[ft[w].fiber]] \in {ANY, w}
        /\ pc[w] \in {"assert", "enter"} /\ Starting(Cur(w)) => pin[m_cb[Cur(w)]] \in {ANY, w}

\* The inductive invariant behind StartsWherePinned.
PinInv == EntryStates /\ PinnedQueue /\ PinnedWorkers /\ StartsWherePinned

-----------------------------------------------------------------------------
(***************************************************************************)
(* Where a job is.  From schedule() to its end a job is in one place: as a *)
(* callback in one message or with one worker, or in one fiber.            *)
(***************************************************************************)

\* A message names a fiber or a callback, and a worker holds a callback only until
\* it has a fiber for it.
Messages ==
    /\ \A i \in DOMAIN m_fibers : m_fibers[i].fiber = NULL \/ m_fibers[i].cb = NULL
    /\ \A w \in Threads : ft[w].cb # NULL => pc[w] = "dispatch" /\ ft[w].fiber = NULL

OnePlace ==
    \A j \in Jobs :
        /\ \A f, g \in Fibers : m_cb[f] = j /\ m_cb[g] = j => f = g
        /\ \A i, k \in DOMAIN m_fibers : m_fibers[i].cb = j /\ m_fibers[k].cb = j => i = k
        /\ \A v, w \in Threads : ft[v].cb = j /\ ft[w].cb = j => v = w
        /\ \A i \in DOMAIN m_fibers, f \in Fibers : m_fibers[i].cb = j => m_cb[f] # j
        /\ \A w \in Threads, f \in Fibers : ft[w].cb = j => m_cb[f] # j
        /\ \A i \in DOMAIN m_fibers, w \in Threads : m_fibers[i].cb = j => ft[w].cb # j

\* A job that is anywhere has been submitted, and it is over when its fiber is.
Lives ==
    /\ \A f \in Fibers : m_cb[f] # NULL =>
          pin[m_cb[f]] # NULL /\ (m_cb[f] \in finished <=> m_state[f] \in Finished)
    /\ \A i \in DOMAIN m_fibers : m_fibers[i].cb # NULL =>
          pin[m_fibers[i].cb] # NULL /\ m_fibers[i].cb \notin finished
    /\ \A w \in Threads : ft[w].cb # NULL => pin[ft[w].cb] # NULL /\ ft[w].cb \notin finished
    /\ \A j \in finished : pin[j] # NULL

\* A fiber that does not exist yet, or that waits for the next callback, has no job.
Vacant ==
    /\ \A f \in Fibers : m_state[f] = "NONE" => m_cb[f] = NULL
    /\ \A w \in Threads :
          cb_fiber[w] # NULL /\ ~(pc[w] \in HasFiber /\ Cur(w) = cb_fiber[w]) =>
              m_cb[cb_fiber[w]] = NULL

\* The invariant that the refinement of JobPool rests on, with StopInv.
JobInv == Messages /\ OnePlace /\ Lives /\ Vacant
=============================================================================
