---------------------------- MODULE QReadWriteLock ----------------------------
(***************************************************************************)
(* QReadWriteLock, non-recursive: src/corelib/thread/qreadwritelock.cpp.   *)
(*                                                                         *)
(* An uncontended lock is its d_ptr alone. Under contention a              *)
(* QReadWriteLockPrivate from a free list, shared by all the locks of the  *)
(* process, is installed in d_ptr, and the last unlock that leaves no      *)
(* waiter gives it back - possibly to another lock, while a thread still   *)
(* holds the stale pointer.                                                *)
(*                                                                         *)
(* A successful compare-and-swap is one step with the load it confirms. A  *)
(* section under Private::mutex is one step too: d_ptr cannot change from  *)
(* a private to anything else outside of it.                               *)
(***************************************************************************)
EXTENDS Naturals, FiniteSets

CONSTANTS Threads, Locks, Privates, NoPrivate, NoLock,
          Patience   \* how long calls may wait, a subset of AllPatience

(* lockFor...(), tryLockFor...(timeout), tryLockFor...()                   *)
AllPatience == {"forever", "timed", "expired"}

ASSUME ReadWriteLockAssumption ==
    /\ NoPrivate \notin Privates /\ NoLock \notin Locks
    /\ Patience \subseteq AllPatience

ASSUME FiniteThreads == IsFiniteSet(Threads)

VARIABLES dptr,     \* QReadWriteLock::d_ptr of each lock
          priv,     \* the QReadWriteLockPrivate objects
          free,     \* the privates in the free list
          pc,
          op,       \* the call each thread is in, or how it holds its lock
          lock,     \* the lock that call is about
          timeout,  \* the deadline of the call: "expired" once it has passed
          seen,     \* the value of d_ptr that a private is prepared for
          d         \* the local pointer to a private

vars == <<dptr, priv, free, pc, op, lock, timeout, seen, d>>

Ops == {"read", "write"}
Labels == {"idle",
           "attempt",  \* about to load d_ptr and act on it
           "install",  \* allocated a private; about to put it in d_ptr
           "enter",    \* has a private; about to lock its mutex
           "asleep",   \* waits on readerCond or writerCond of the private
           "awake",    \* notified or timed out; about to relock the mutex
           "held"}     \* the call returned true

(* The values of d_ptr (qreadwritelock.cpp:19-28).                         *)
Unlocked      == [state |-> "unlocked", readers |-> 0, private |-> NoPrivate]
LockedRead(n) == [state |-> "read", readers |-> n, private |-> NoPrivate]
LockedWrite   == [state |-> "write", readers |-> 0, private |-> NoPrivate]
Pointer(p)    == [state |-> "private", readers |-> 0, private |-> p]

Clean == [readers |-> 0, writers |-> 0, waitingReaders |-> 0, waitingWriters |-> 0]

Init == /\ dptr = [l \in Locks |-> Unlocked]
        /\ priv = [p \in Privates |-> Clean]
        /\ free = Privates
        /\ pc = [t \in Threads |-> "idle"]
        /\ op = [t \in Threads |-> "read"]
        /\ lock = [t \in Threads |-> NoLock]
        /\ timeout = [t \in Threads |-> "forever"]
        /\ seen = [t \in Threads |-> Unlocked]
        /\ d = [t \in Threads |-> NoPrivate]

Goto(t, l) == pc' = [pc EXCEPT ![t] = l]

(* The call returns true: its caller holds the lock.                       *)
Succeed(t) == /\ Goto(t, "held")
              /\ timeout' = [timeout EXCEPT ![t] = "forever"]
              /\ d' = [d EXCEPT ![t] = NoPrivate]
              /\ UNCHANGED <<op, lock, seen>>

(* A call returns false, or an unlock() is done.                           *)
Leave(t) == /\ Goto(t, "idle")
            /\ timeout' = [timeout EXCEPT ![t] = "forever"]
            /\ d' = [d EXCEPT ![t] = NoPrivate]
            /\ op' = [op EXCEPT ![t] = "read"]
            /\ lock' = [lock EXCEPT ![t] = NoLock]
            /\ UNCHANGED seen

(* tryLockForRead or tryLockForWrite on lock l, waiting as w says.         *)
Call(t, o, l, w) ==
    /\ pc[t] = "idle"
    /\ Goto(t, "attempt")
    /\ op' = [op EXCEPT ![t] = o]
    /\ lock' = [lock EXCEPT ![t] = l]
    /\ timeout' = [timeout EXCEPT ![t] = w]
    /\ UNCHANGED <<dptr, priv, free, seen, d>>

Expire(t) == /\ timeout[t] = "timed"
             /\ timeout' = [timeout EXCEPT ![t] = "expired"]
             /\ UNCHANGED <<dptr, priv, free, pc, op, lock, seen, d>>

(* The uncontended word that a successful swap leaves.                     *)
Swapped(v, o) == CASE v = Unlocked /\ o = "read"  -> LockedRead(1)
                   [] v = Unlocked /\ o = "write" -> LockedWrite
                   [] OTHER                       -> LockedRead(v.readers + 1)

(* Mistake: the swap forgets that d_ptr holds the readers minus one.       *)
Prepared_OneReader(v) ==
    [Clean EXCEPT !.readers = IF v.readers > 1 THEN v.readers - 1 ELSE v.readers,
                  !.writers = IF v = LockedWrite THEN 1 ELSE 0]

(* The counters of a private that is to stand for the word v.              *)
Prepared(v) == [Clean EXCEPT !.readers = v.readers,
                             !.writers = IF v = LockedWrite THEN 1 ELSE 0]

(* The fast path, and one round of contendedTryLockForRead/Write: swap an  *)
(* uncontended word; return false if that cannot be and the deadline has   *)
(* passed; allocate a private that stands for the present holders; or take *)
(* the pointer to the private that is installed.                           *)
Attempt(t) ==
    LET v == dptr[lock[t]]
        swaps == v = Unlocked \/ (v.state = "read" /\ op[t] = "read") IN
    /\ pc[t] = "attempt"
    /\ \/ /\ swaps
          /\ dptr' = [dptr EXCEPT ![lock[t]] = Swapped(v, op[t])]
          /\ Succeed(t) /\ UNCHANGED <<priv, free>>
       \/ /\ ~swaps /\ v.state # "private" /\ timeout[t] = "expired"
          /\ Leave(t) /\ UNCHANGED <<dptr, priv, free>>
       \/ /\ ~swaps /\ v.state # "private" /\ timeout[t] # "expired"
          /\ \E p \in free :
               /\ free' = free \ {p}
               /\ priv' = [priv EXCEPT ![p] = Prepared(v)]
               /\ d' = [d EXCEPT ![t] = p]
          /\ seen' = [seen EXCEPT ![t] = v]
          /\ Goto(t, "install")
          /\ UNCHANGED <<dptr, op, lock, timeout>>
       \/ /\ v.state = "private"
          /\ d' = [d EXCEPT ![t] = v.private]
          /\ Goto(t, "enter")
          /\ UNCHANGED <<dptr, priv, free, op, lock, timeout, seen>>

(* Mistake: a private that could not be installed is returned as it is.    *)
Install_ReturnsDirty(t) ==
    /\ pc[t] = "install" /\ dptr[lock[t]] # seen[t]
    /\ seen' = [seen EXCEPT ![t] = Unlocked]
    /\ free' = free \cup {d[t]}
    /\ d' = [d EXCEPT ![t] = NoPrivate]
    /\ Goto(t, "attempt")
    /\ UNCHANGED <<dptr, priv, op, lock, timeout>>

(* The swap of the word for the prepared private, or its return to the     *)
(* free list when the word has changed in the meantime.                    *)
Install(t) ==
    /\ pc[t] = "install"
    /\ seen' = [seen EXCEPT ![t] = Unlocked]
    /\ IF dptr[lock[t]] = seen[t]
       THEN /\ dptr' = [dptr EXCEPT ![lock[t]] = Pointer(d[t])]
            /\ Goto(t, "enter")
            /\ UNCHANGED <<priv, free, d>>
       ELSE /\ priv' = [priv EXCEPT ![d[t]] = Clean]
            /\ free' = free \cup {d[t]}
            /\ d' = [d EXCEPT ![t] = NoPrivate]
            /\ Goto(t, "attempt")
            /\ UNCHANGED dptr
    /\ UNCHANGED <<op, lock, timeout>>

Asleep(p, o) == {t \in Threads : pc[t] = "asleep" /\ d[t] = p /\ op[t] = o}

(* Mistake: readers look at the writer, but not at the waiting ones.       *)
Blocked_NoPreference(q, o) == IF o = "read" THEN q.writers > 0
                                            ELSE q.readers + q.writers > 0

Blocked(q, o) == IF o = "read" THEN q.waitingWriters + q.writers > 0
                               ELSE q.readers + q.writers > 0

(* Mistake: a writer that times out leaves without a word.                 *)
LetGo_Nobody(t, q) == {}

(* The readers that the writer t lets go when it gives up.                 *)
LetGo(t, q) ==
    IF /\ op[t] = "write" /\ q.waitingReaders > 0
       /\ q.waitingWriters = 0 /\ q.writers = 0
    THEN Asleep(d[t], "read") ELSE {}

(* The loop of Private::lockForRead or lockForWrite on the state q of the  *)
(* private: take the lock, give up - a writer that gives up last lets the  *)
(* readers go that queued behind it - or wait.                             *)
LockPrivate(t, q) ==
    \/ /\ ~Blocked(q, op[t])
       /\ priv' = [priv EXCEPT ![d[t]] = IF op[t] = "read"
                                         THEN [q EXCEPT !.readers = @ + 1]
                                         ELSE [q EXCEPT !.writers = 1]]
       /\ Succeed(t)
    \/ /\ Blocked(q, op[t]) /\ timeout[t] = "expired"
       /\ priv' = [priv EXCEPT ![d[t]] = q]
       /\ pc' = [x \in Threads |-> IF x = t THEN "idle"
                                   ELSE IF x \in LetGo(t, q) THEN "awake" ELSE pc[x]]
       /\ timeout' = [timeout EXCEPT ![t] = "forever"]
       /\ d' = [d EXCEPT ![t] = NoPrivate]
       /\ op' = [op EXCEPT ![t] = "read"]
       /\ lock' = [lock EXCEPT ![t] = NoLock]
       /\ UNCHANGED seen
    \/ /\ Blocked(q, op[t]) /\ timeout[t] # "expired"
       /\ priv' = [priv EXCEPT ![d[t]] = IF op[t] = "read"
                                         THEN [q EXCEPT !.waitingReaders = @ + 1]
                                         ELSE [q EXCEPT !.waitingWriters = @ + 1]]
       /\ Goto(t, "asleep")
       /\ UNCHANGED <<op, lock, timeout, seen, d>>

(* Mistake: trusting the pointer that was loaded before the mutex was held.*)
Enter_NoRecheck(t) ==
    /\ pc[t] = "enter"
    /\ LockPrivate(t, priv[d[t]])
    /\ UNCHANGED <<dptr, free>>

(* Locks the private's mutex and checks that d_ptr still points to it: the *)
(* private may have been released, and re-used, in between.                *)
Enter(t) ==
    /\ pc[t] = "enter"
    /\ IF dptr[lock[t]] = Pointer(d[t])
       THEN LockPrivate(t, priv[d[t]])
       ELSE /\ d' = [d EXCEPT ![t] = NoPrivate]
            /\ Goto(t, "attempt")
            /\ UNCHANGED <<priv, op, lock, timeout, seen>>
    /\ UNCHANGED <<dptr, free>>

(* wait_until() returns without a notification; wait() may, too.           *)
CondTimeout(t) == /\ pc[t] = "asleep" /\ timeout[t] = "expired"
                  /\ Goto(t, "awake")
                  /\ UNCHANGED <<dptr, priv, free, op, lock, timeout, seen, d>>

SpuriousWake(t) == /\ pc[t] = "asleep"
                   /\ Goto(t, "awake")
                   /\ UNCHANGED <<dptr, priv, free, op, lock, timeout, seen, d>>

(* The waiter has the mutex again: no longer waiting, round the loop.      *)
Resume(t) ==
    LET q == priv[d[t]] IN
    /\ pc[t] = "awake"
    /\ LockPrivate(t, IF op[t] = "read" THEN [q EXCEPT !.waitingReaders = @ - 1]
                                        ELSE [q EXCEPT !.waitingWriters = @ - 1])
    /\ UNCHANGED <<dptr, free>>

(* Mistake: the last reader is not the fast case.                          *)
UnlockUncontended_AlwaysCounts(t) ==
    LET v == dptr[lock[t]] IN
    /\ pc[t] = "held" /\ v.state # "private"
    /\ dptr' = [dptr EXCEPT ![lock[t]] =
                  IF v.state = "read" THEN LockedRead(v.readers - 1) ELSE Unlocked]
    /\ Leave(t)
    /\ UNCHANGED <<priv, free>>

(* unlock() of a word without private.                                     *)
UnlockUncontended(t) ==
    LET v == dptr[lock[t]] IN
    /\ pc[t] = "held" /\ v.state # "private"
    /\ dptr' = [dptr EXCEPT ![lock[t]] =
                  IF v.readers > 1 THEN LockedRead(v.readers - 1) ELSE Unlocked]
    /\ Leave(t)
    /\ UNCHANGED <<priv, free>>

(* Mistake: readers are woken first, and find the writers waiting.         *)
Wakes_ReadersFirst(p, q, s) ==
    IF q.waitingReaders > 0 THEN s = Asleep(p, "read")
    ELSE IF Asleep(p, "write") = {} THEN s = {}
    ELSE \E w \in Asleep(p, "write") : s = {w}

(* Private::unlock(): one writer, else all readers. Wakes s.               *)
Wakes(p, q, s) ==
    LET writers == Asleep(p, "write")
        readers == Asleep(p, "read") IN
    IF q.waitingWriters > 0
    THEN IF writers = {} THEN s = {} ELSE \E w \in writers : s = {w}
    ELSE s = IF q.waitingReaders > 0 THEN readers ELSE {}

(* unlock() of a contended lock, under the private's mutex: the holder     *)
(* leaves; other readers may remain; waiters are woken; or nobody is left  *)
(* and the private goes back to the free list.                             *)
UnlockContended(t) ==
    LET p == dptr[lock[t]].private
        q == IF priv[p].writers > 0 THEN [priv[p] EXCEPT !.writers = 0]
                                    ELSE [priv[p] EXCEPT !.readers = @ - 1]
        waiters == q.waitingReaders + q.waitingWriters > 0 IN
    /\ pc[t] = "held" /\ dptr[lock[t]].state = "private"
    /\ priv' = [priv EXCEPT ![p] = q]
    /\ IF q.readers = 0 /\ ~waiters
       THEN dptr' = [dptr EXCEPT ![lock[t]] = Unlocked] /\ free' = free \cup {p}
       ELSE UNCHANGED <<dptr, free>>
    /\ \E s \in SUBSET Threads :
         /\ IF q.readers = 0 /\ waiters THEN Wakes(p, q, s) ELSE s = {}
         /\ pc' = [x \in Threads |-> IF x = t THEN "idle"
                                     ELSE IF x \in s THEN "awake" ELSE pc[x]]
    /\ op' = [op EXCEPT ![t] = "read"]
    /\ lock' = [lock EXCEPT ![t] = NoLock]
    /\ UNCHANGED <<timeout, seen, d>>

Internal(t) == Attempt(t) \/ Install(t) \/ Enter(t) \/ Resume(t)

Next == \E t \in Threads :
          \/ \E o \in Ops, l \in Locks, w \in Patience : Call(t, o, l, w)
          \/ Internal(t)
          \/ Expire(t) \/ CondTimeout(t) \/ SpuriousWake(t)
          \/ UnlockUncontended(t) \/ UnlockContended(t)

Spec == Init /\ [][Next]_vars

(* A thread inside a call keeps running. Holders need not unlock.          *)
FairSpec == Spec /\ \A t \in Threads : WF_vars(Internal(t))

-----------------------------------------------------------------------------
HoldersOf(l, o) == {t \in Threads : pc[t] = "held" /\ lock[t] = l /\ op[t] = o}
Holders(l) == HoldersOf(l, "read") \cup HoldersOf(l, "write")
Waiters(p, o) == {t \in Threads : pc[t] \in {"asleep", "awake"} /\ d[t] = p /\ op[t] = o}

TypeOK == /\ dptr \in [Locks -> {Unlocked, LockedWrite}
                                \cup {LockedRead(n) : n \in 1..Cardinality(Threads)}
                                \cup {Pointer(p) : p \in Privates}]
          /\ priv \in [Privates -> [readers: Nat, writers: Nat,
                                    waitingReaders: Nat, waitingWriters: Nat]]
          /\ free \subseteq Privates
          /\ pc \in [Threads -> Labels]
          /\ op \in [Threads -> Ops]
          /\ lock \in [Threads -> Locks \cup {NoLock}]
          /\ timeout \in [Threads -> AllPatience]
          /\ d \in [Threads -> Privates \cup {NoPrivate}]

(* A writer is alone: no other writer and no reader of the same lock,      *)
(* across the fast paths, the change to a private and back, and the re-use *)
(* of privates by other locks.                                             *)
WritersExclude ==
    \A l \in Locks : \A w \in HoldersOf(l, "write") : Holders(l) = {w}

(* The counters of d_ptr and of an installed private are the threads that  *)
(* hold and wait. An unlock relies on them to know that it is the last.    *)
CountsMatch ==
    \A l \in Locks :
      LET v == dptr[l]
          readers == Cardinality(HoldersOf(l, "read"))
          writers == Cardinality(HoldersOf(l, "write")) IN
      IF v.state = "private"
      THEN priv[v.private] =
             [readers |-> readers, writers |-> writers,
              waitingReaders |-> Cardinality(Waiters(v.private, "read")),
              waitingWriters |-> Cardinality(Waiters(v.private, "write"))]
      ELSE /\ v.readers = readers
           /\ (v = LockedWrite) = (writers = 1)

(* The assertions of allocate() and release() (qreadwritelock.cpp:569,     *)
(* 576): what is in the free list has no holder and no waiter, even though *)
(* threads with stale pointers lock its mutex; and a private serves one    *)
(* lock at a time.                                                         *)
FreePrivatesAreClean ==
    /\ \A p \in free : priv[p] = Clean /\ Waiters(p, "read") \cup Waiters(p, "write") = {}
    /\ \A l \in Locks : dptr[l].state = "private" =>
         /\ dptr[l].private \notin free
         /\ \A m \in Locks \ {l} : dptr[m].private # dptr[l].private

(* A reader sleeps only behind a writer. In particular the last waiting    *)
(* writer that times out lets the readers go (qreadwritelock.cpp:441-444). *)
ReadersSleepBehindWriters ==
    \A t \in Threads : pc[t] = "asleep" /\ op[t] = "read" =>
        priv[d[t]].writers + priv[d[t]].waitingWriters > 0

(* A contended lock that nobody holds has a waiter that is up and about to *)
(* take it: the wake-up of unlock() cannot be lost to a time-out.          *)
FreeLockHasTaker ==
    \A l \in Locks : dptr[l].state = "private" /\ Holders(l) = {} =>
        \E t \in Threads : d[t] = dptr[l].private /\ pc[t] = "awake"

(* What the lock is believed to be is what it is: who holds it, who waits, *)
(* and which private serves it, while privates are being passed around.    *)
LockAccounted == WritersExclude /\ CountsMatch /\ FreePrivatesAreClean

(* Whoever sleeps has somebody to wait for, who will wake the next.        *)
SleepersHaveWaker == ReadersSleepBehindWriters /\ FreeLockHasTaker

(* "readers attempting to obtain a lock will not succeed if there is a     *)
(* blocked writer waiting for access": no reader gets in, by any path,     *)
(* while a writer waits.                                                   *)
NoReaderPassesAWriter ==
    [][\A t, w \in Threads :
         /\ pc[t] # "held" /\ pc'[t] = "held" /\ op'[t] = "read"
         /\ pc[w] \in {"asleep", "awake"} /\ op[w] = "write" /\ pc'[w] = pc[w]
         => lock[w] # lock'[t]]_vars

-----------------------------------------------------------------------------
(* Refinement: each lock implements RWLockSpec. A thread is inside a call  *)
(* until it holds the lock; a writer is in the queue once it has been      *)
(* counted as waiting, whether it sleeps or is on its way to look again.   *)
Calling(l, o) == {t \in Threads : lock[t] = l /\ op[t] = o /\ pc[t] \notin {"idle", "held"}}
Patient(l) == {t \in Threads :
                 lock[t] = l /\ timeout[t] = "forever" /\ pc[t] \notin {"idle", "held"}}
Queued(l)  == {t \in Calling(l, "write") : pc[t] \in {"asleep", "awake"}}

Abstract(l) == INSTANCE RWLockSpec WITH readers <- HoldersOf(l, "read"),
                                        writers <- HoldersOf(l, "write"),
                                        reading <- Calling(l, "read"),
                                        writing <- Calling(l, "write"),
                                        patient <- Patient(l),
                                        queued  <- Queued(l)

Unchanged(l) == UNCHANGED <<HoldersOf(l, "read"), HoldersOf(l, "write"),
                            Calling(l, "read"), Calling(l, "write"), Patient(l), Queued(l)>>

(* Every step, on the fast path, through a private or on the way from one  *)
(* lock to the other with it, is for each lock a step of the abstract lock *)
(* or none: calls succeed and fail only at moments when that is right.     *)
ImplementsRWLockSpec ==
    /\ \A l \in Locks : Abstract(l)!SpecInit
    /\ [][\A l \in Locks : Unchanged(l) \/ Abstract(l)!SpecNext]_vars

(* Somebody who would wait forever does not stay asleep at a lock nobody   *)
(* holds: the lock is taken, or all of them are up.                        *)
FreeLockIsTaken ==
    \A l \in Locks :
      LET sleepers == {t \in Threads : pc[t] = "asleep" /\ lock[t] = l /\ timeout[t] = "forever"}
      IN  (Holders(l) = {} /\ sleepers # {}) ~> (Holders(l) # {} \/ sleepers = {})
=============================================================================
