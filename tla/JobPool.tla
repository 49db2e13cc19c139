------------------------------ MODULE JobPool ------------------------------
(***************************************************************************)
(* What a Scheduler promises to the code that submits work to it, without  *)
(* queue, mutex, fibers or counters: every job that was accepted is run by *)
(* one thread at a time, a job that is pending stays so until a thread     *)
(* runs it, a wake-up is never lost, and the pool goes down only when      *)
(* nothing is pending or running.                                          *)
(***************************************************************************)
EXTENDS Naturals

CONSTANTS Jobs, Runners

VARIABLES
    status,     \* what has become of each job
    runner,     \* the thread that runs a job, None when it is not running
    woken,      \* the running jobs that have been scheduled again
    up          \* TRUE from start() to the return of stop()

CONSTANT None

jobPoolVars == <<status, runner, woken, up>>

Status == {"new", "pending", "running", "parked", "done"}

JobPoolTypeOK ==
    /\ status \in [Jobs -> Status]
    /\ runner \in [Jobs -> Runners \cup {None}]
    /\ woken \in SUBSET Jobs
    /\ up \in BOOLEAN

Init ==
    /\ status = [j \in Jobs |-> "new"]
    /\ runner = [j \in Jobs |-> None]
    /\ woken = {}
    /\ up = FALSE

\* One call of schedule() with new work.
Submit(S) ==
    /\ S # {} /\ \A j \in S : status[j] = "new"
    /\ status' = [j \in Jobs |-> IF j \in S THEN "pending" ELSE status[j]]
    /\ UNCHANGED <<runner, woken, up>>

\* A free thread takes up a pending job.
Begin(j, t) ==
    /\ up /\ status[j] = "pending"
    /\ \A k \in Jobs : runner[k] # t
    /\ status' = [status EXCEPT ![j] = "running"]
    /\ runner' = [runner EXCEPT ![j] = t]
    /\ UNCHANGED <<woken, up>>

\* The turn of a running job ends: it is over, it yielded to READY, or it
\* yielded to HOLD.
EndTurn(j, s) ==
    /\ status[j] = "running"
    /\ s = "parked" => j \notin woken
    /\ status' = [status EXCEPT ![j] = s]
    /\ runner' = [runner EXCEPT ![j] = None]
    /\ woken' = woken \ {j}
    /\ UNCHANGED up

\* schedule() of a job that exists.
Wake(j) ==
    /\ \/ status[j] = "parked" /\ status' = [status EXCEPT ![j] = "pending"]
          /\ UNCHANGED woken
       \/ status[j] = "running" /\ woken' = woken \cup {j} /\ UNCHANGED status
    /\ UNCHANGED <<runner, up>>

Up == ~up /\ up' = TRUE /\ UNCHANGED <<status, runner, woken>>

Down ==
    /\ up /\ \A j \in Jobs : status[j] \notin {"pending", "running"}
    /\ up' = FALSE
    /\ UNCHANGED <<status, runner, woken>>

Next ==
    \/ \E S \in SUBSET Jobs : Submit(S)
    \/ \E j \in Jobs, t \in Runners : Begin(j, t)
    \/ \E j \in Jobs, s \in {"done", "pending", "parked"} : EndTurn(j, s)
    \/ \E j \in Jobs : Wake(j)
    \/ Up \/ Down

Spec == Init /\ [][Next]_jobPoolVars
=============================================================================
