------------------------------ MODULE MutexSpec ------------------------------
(***************************************************************************)
(* What QMutex promises its callers, with no futex, no waiter flag and no  *)
(* fast path: one owner at a time, a blocked lock() that only ever ends by *)
(* owning the mutex, and a timed tryLock() that may also give up.          *)
(* QBasicMutex is shown to implement this module; QRecursiveMutex and      *)
(* QOrderedMutexLocker are built on top of it.                             *)
(***************************************************************************)
CONSTANTS Threads,   \* the threads that call the mutex
          NoThread   \* "nobody"

VARIABLES owner,     \* the thread that holds the mutex, or NoThread
          blocked,   \* threads inside lock()
          waiting    \* threads inside tryLock() with a deadline

svars == <<owner, blocked, waiting>>

SpecInit == owner = NoThread /\ blocked = {} /\ waiting = {}

Idle(t) == t # owner /\ t \notin blocked \cup waiting

(* lock(), tryLock() or tryLock(deadline) on a free mutex.                 *)
AcquireNow(t) == /\ Idle(t)
                 /\ owner = NoThread
                 /\ owner' = t
                 /\ UNCHANGED <<blocked, waiting>>

Block(t)      == /\ Idle(t)
                 /\ blocked' = blocked \cup {t}
                 /\ UNCHANGED <<owner, waiting>>

BlockTimed(t) == /\ Idle(t)
                 /\ waiting' = waiting \cup {t}
                 /\ UNCHANGED <<owner, blocked>>

(* A blocked call succeeds: only when nobody owns the mutex.               *)
AcquireBlocked(t) == /\ t \in blocked \cup waiting
                     /\ owner = NoThread
                     /\ owner' = t
                     /\ blocked' = blocked \ {t}
                     /\ waiting' = waiting \ {t}

(* Only a call with a deadline may return without the mutex.               *)
GiveUp(t)     == /\ t \in waiting
                 /\ waiting' = waiting \ {t}
                 /\ UNCHANGED <<owner, blocked>>

Release(t)    == /\ owner = t
                 /\ owner' = NoThread
                 /\ UNCHANGED <<blocked, waiting>>

SpecNext == \E t \in Threads : \/ AcquireNow(t) \/ Block(t) \/ BlockTimed(t)
                               \/ AcquireBlocked(t) \/ GiveUp(t) \/ Release(t)

AbstractSpec == SpecInit /\ [][SpecNext]_svars
=============================================================================
