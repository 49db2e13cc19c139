------------------------------ MODULE RWMutex ------------------------------
(***************************************************************************)
(* RWMutex of src/src/thread.h and its scoped locks ReadLock and           *)
(* WriteLock.  A lock is a value, the threads that hold it.  A thread has  *)
(* one scoped lock on it at a time, whose m_locked says whether the thread *)
(* is among them: lock() of one that is locked and unlock() of one that    *)
(* is not, the destructor's too, do nothing.                               *)
(***************************************************************************)
CONSTANTS
    Threads,
    None        \* no thread

ASSUME RWMutexConstants == None \notin Threads

RWMutexes == [readers : SUBSET Threads, writer : Threads \cup {None}]

Unlocked == [readers |-> {}, writer |-> None]

\* pthread_rwlock_rdlock() and pthread_rwlock_wrlock() would not block.
CanRead(lock) == lock.writer = None
CanWrite(lock) == lock = Unlocked

\* ReadLock and WriteLock, of a thread that need not wait
rdlock(lock, t) == [lock EXCEPT !.readers = @ \cup {t}]

wrlock(lock, t) == [lock EXCEPT !.writer = t]

unlock(lock, t) ==
    [readers |-> lock.readers \ {t}, writer |-> IF lock.writer = t THEN None ELSE lock.writer]
=============================================================================
