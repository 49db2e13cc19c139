------------------------------- MODULE Thread -------------------------------
(***************************************************************************)
(* Thread of src/src/thread.{h,cpp}: the life of Thread objects and of the *)
(* pthreads behind them.  One thread, Creator, constructs, joins and       *)
(* destroys the objects.  A constructor returns when the new thread has    *)
(* posted m_semaphore; a destructor detaches a thread that was not joined, *)
(* which then goes on with a pointer t_thread to an object that is gone.   *)
(*                                                                         *)
(* pthread_create() and the sem_ calls are taken to succeed: otherwise the *)
(* constructor throws and there is no object.                              *)
(***************************************************************************)
EXTENDS Naturals

CONSTANTS
    Threads,    \* the Thread objects, and the pthreads they start
    Creator,
    None,
    Detached    \* the ones that may be destroyed without join(); their callbacks
                \* keep away from Thread::GetThis() and SetName()

ASSUME ThreadConstants ==
    Creator \notin Threads /\ None \notin Threads /\ Detached \subseteq Threads

VARIABLES
    object,         \* the Thread object: "none", "alive", "gone"
    m_thread,       \* the thread to join or to detach, None for 0
    m_id,           \* None for -1
    cb_held,        \* the objects whose m_cb holds the callback
    m_semaphore,
    place,          \* where the pthread is
    waits, joins,   \* the object whose constructor, whose join() Creator is in
    stray           \* the threads that have used an object that is gone

threadVars == <<object, m_thread, m_id, cb_held, m_semaphore, place, waits, joins, stray>>

ThreadTypeOK ==
    /\ object \in [Threads -> {"none", "alive", "gone"}]
    /\ m_thread \in [Threads -> Threads \cup {None}]
    /\ m_id \in [Threads -> Threads \cup {None}]
    /\ cb_held \in SUBSET Threads
    /\ m_semaphore \in [Threads -> Nat]
    /\ place \in [Threads -> {"none", "run", "notify", "cb", "ended"}]
    /\ waits \in Threads \cup {None} /\ joins \in Threads \cup {None}
    /\ stray \in SUBSET Threads

ThreadInit ==
    /\ object = [t \in Threads |-> "none"]
    /\ m_thread = [t \in Threads |-> None]
    /\ m_id = [t \in Threads |-> None]
    /\ cb_held = {}
    /\ m_semaphore = [t \in Threads |-> 0]
    /\ place = [t \in Threads |-> "none"]
    /\ waits = None /\ joins = None
    /\ stray = {}

\* Creator is in none of the blocking calls.
Free == waits = None /\ joins = None

\* A thread uses its object, through t_thread.
Uses(t) == stray' = IF object[t] = "alive" THEN stray ELSE stray \cup {t}

\* Thread::Thread() up to m_semaphore.wait()
Create(t) ==
    /\ Free /\ object[t] = "none"
    /\ object' = [object EXCEPT ![t] = "alive"]
    /\ m_thread' = [m_thread EXCEPT ![t] = t]
    /\ cb_held' = cb_held \cup {t}
    /\ place' = [place EXCEPT ![t] = "run"]
    /\ waits' = t
    /\ UNCHANGED <<m_id, m_semaphore, joins, stray>>

\* Semaphore::wait()
Created ==
    /\ waits # None /\ m_semaphore[waits] > 0
    /\ m_semaphore' = [m_semaphore EXCEPT ![waits] = @ - 1]
    /\ waits' = None
    /\ UNCHANGED <<object, m_thread, m_id, cb_held, place, joins, stray>>

\* Fault: notify() comes first.
RunNotifies(t) ==
    /\ place[t] = "run"
    /\ m_semaphore' = [m_semaphore EXCEPT ![t] = @ + 1]
    /\ place' = [place EXCEPT ![t] = "notify"]
    /\ UNCHANGED <<object, m_thread, m_id, cb_held, waits, joins, stray>>

\* run() up to notify(): t_thread, the name, m_id; the callback is moved out of
\* the object.
Run(t) ==
    /\ place[t] = "run"
    /\ m_id' = [m_id EXCEPT ![t] = t]
    /\ cb_held' = cb_held \ {t}
    /\ place' = [place EXCEPT ![t] = "notify"]
    /\ Uses(t)
    /\ UNCHANGED <<object, m_thread, m_semaphore, waits, joins>>

\* Fault: the semaphore is not posted.
NotifyForgets(t) ==
    /\ place[t] = "notify"
    /\ place' = [place EXCEPT ![t] = "cb"]
    /\ Uses(t)
    /\ UNCHANGED <<object, m_thread, m_id, cb_held, m_semaphore, waits, joins>>

\* Semaphore::notify()
Notify(t) ==
    /\ place[t] = "notify"
    /\ m_semaphore' = [m_semaphore EXCEPT ![t] = @ + 1]
    /\ place' = [place EXCEPT ![t] = "cb"]
    /\ Uses(t)
    /\ UNCHANGED <<object, m_thread, m_id, cb_held, waits, joins>>

\* SetName() in the callback writes to the object behind t_thread.
SetName(t) ==
    /\ place[t] = "cb" /\ t \notin Detached
    /\ Uses(t)
    /\ UNCHANGED <<object, m_thread, m_id, cb_held, m_semaphore, place, waits, joins>>

\* cb() and run() return.
RunReturn(t) ==
    /\ place[t] = "cb"
    /\ place' = [place EXCEPT ![t] = "ended"]
    /\ UNCHANGED <<object, m_thread, m_id, cb_held, m_semaphore, waits, joins, stray>>

\* Fault: join() does not wait for the thread.
JoinAtOnce(t) ==
    /\ Free /\ object[t] = "alive"
    /\ m_thread' = [m_thread EXCEPT ![t] = None]
    /\ UNCHANGED <<object, m_id, cb_held, m_semaphore, place, waits, joins, stray>>

\* join(), a second time it does nothing
Join(t) ==
    /\ Free /\ object[t] = "alive" /\ m_thread[t] # None
    /\ joins' = t
    /\ UNCHANGED <<object, m_thread, m_id, cb_held, m_semaphore, place, waits, stray>>

Joined ==
    /\ joins # None /\ place[joins] = "ended"
    /\ m_thread' = [m_thread EXCEPT ![joins] = None]
    /\ joins' = None
    /\ UNCHANGED <<object, m_id, cb_held, m_semaphore, place, waits, stray>>

\* Thread::~Thread()
Destroy(t) ==
    /\ Free /\ object[t] = "alive" /\ (t \notin Detached => m_thread[t] = None)
    /\ object' = [object EXCEPT ![t] = "gone"]
    /\ m_thread' = [m_thread EXCEPT ![t] = None]
    /\ UNCHANGED <<m_id, cb_held, m_semaphore, place, waits, joins, stray>>
=============================================================================
