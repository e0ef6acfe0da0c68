----------------------------- MODULE QBasicMutex -----------------------------
(***************************************************************************)
(* QBasicMutex / QMutex on a platform with futexes (Linux, Windows):       *)
(* src/corelib/thread/qmutex.h and qmutex.cpp.                             *)
(*                                                                         *)
(* The whole mutex is one word. Each atomic operation on it, each futex    *)
(* system call and each return from one is an action of the calling        *)
(* thread, so that threads interleave exactly where the machine lets them. *)
(***************************************************************************)
EXTENDS Naturals, FiniteSets, Callers

Unlocked      == 0   \* nullptr
DummyLocked   == 1   \* dummyLocked():     locked, no waiters
DummyFutex    == 3   \* dummyFutexValue(): locked, at least one waiter

Kinds == {"lock", "timed", "try"}   \* lock(), tryLock(deadline), tryLock()

VARIABLES word,      \* QBasicMutex::d_ptr
          pc,        \* where each thread is in the code
          kind,      \* the call each thread is making, or made last
          sleepers   \* threads the kernel keeps asleep on the futex

vars == <<word, pc, kind, sleepers>>

Labels == {"idle",       \* outside; does not hold the mutex
           "xchg",       \* about to fetchAndStore on entering lockInternal
           "wait",       \* about to call futexWait
           "asleep",     \* asleep inside futexWait
           "woken",      \* futexWait returned; about to fetchAndStore again
           "remaining",  \* timed call: about to compute the remaining time
           "held",       \* the call returned true: the caller owns the mutex
           "store",      \* in unlockInternal, about to store nullptr
           "wake"}       \* in unlockInternal, about to call futexWakeOne

Goto(t, l) == pc' = [pc EXCEPT ![t] = l]

Init == /\ word = Unlocked
        /\ pc = [t \in Threads |-> "idle"]
        /\ kind = [t \in Threads |-> "lock"]
        /\ sleepers = {}

(* fastTryLock() and the choice of what follows its failure. The load and  *)
(* the compare-and-swap are one step: when the load sees a non-null word   *)
(* the call fails as the swap would have failed at that moment.            *)
FastTryLock(t, k) ==
    /\ pc[t] = "idle"
    /\ kind' = [kind EXCEPT ![t] = k]
    /\ IF word = Unlocked
       THEN word' = DummyLocked /\ Goto(t, "held")
       ELSE word' = word /\ Goto(t, IF k = "try" THEN "idle" ELSE "xchg")
    /\ UNCHANGED sleepers

(* lockInternal(deadline): remainingTime == 0 returns false before the     *)
(* word is touched.                                                        *)
AlreadyExpired(t) ==
    /\ pc[t] = "xchg" /\ kind[t] = "timed"
    /\ Goto(t, "idle")
    /\ UNCHANGED <<word, kind, sleepers>>

(* Mistake: the mark is added to the word, not stored.                     *)
FetchAndStore_Adds(t) ==
    /\ pc[t] \in {"xchg", "woken"}
    /\ word' = word + (DummyFutex - DummyLocked)
    /\ Goto(t, IF word = Unlocked THEN "held"
               ELSE IF kind[t] = "timed" /\ pc[t] = "woken" THEN "remaining"
               ELSE "wait")
    /\ UNCHANGED <<kind, sleepers>>

(* fetchAndStoreAcquire(dummyFutexValue()): owns the mutex if it was free, *)
(* otherwise every later unlock knows that somebody waits.                 *)
FetchAndStore(t) ==
    /\ pc[t] \in {"xchg", "woken"}
    /\ word' = DummyFutex
    /\ Goto(t, IF word = Unlocked THEN "held"
               ELSE IF kind[t] = "timed" /\ pc[t] = "woken" THEN "remaining"
               ELSE "wait")
    /\ UNCHANGED <<kind, sleepers>>

(* remainingTime <= 0 after a wake-up that did not get the mutex, or not.  *)
Remaining(t) ==
    /\ pc[t] = "remaining"
    /\ \E l \in {"idle", "wait"} : Goto(t, l)
    /\ UNCHANGED <<word, kind, sleepers>>

(* The kernel compares the word with the expected value and queues the     *)
(* caller in one step; a mismatch is EWOULDBLOCK, which is not a time-out. *)
FutexWait(t) ==
    /\ pc[t] = "wait"
    /\ IF word = DummyFutex
       THEN Goto(t, "asleep") /\ sleepers' = sleepers \cup {t}
       ELSE Goto(t, "woken") /\ UNCHANGED sleepers
    /\ UNCHANGED <<word, kind>>

(* A return from FUTEX_WAIT that no wake caused (EINTR).                   *)
SpuriousWake(t) ==
    /\ t \in sleepers
    /\ sleepers' = sleepers \ {t}
    /\ Goto(t, "woken")
    /\ UNCHANGED <<word, kind>>

(* Mistakes: a waiter that gives up clears the word, or its mark.          *)
FutexTimeout_Frees(t) ==
    /\ t \in sleepers /\ kind[t] = "timed"
    /\ sleepers' = sleepers \ {t}
    /\ word' = Unlocked
    /\ Goto(t, "idle") /\ UNCHANGED kind

FutexTimeout_Unmarks(t) ==
    /\ t \in sleepers /\ kind[t] = "timed"
    /\ sleepers' = sleepers \ {t}
    /\ word' = DummyLocked
    /\ Goto(t, "idle") /\ UNCHANGED kind

(* ETIMEDOUT: tryLock(deadline) returns false and leaves the word alone.   *)
FutexTimeout(t) ==
    /\ t \in sleepers /\ kind[t] = "timed"
    /\ sleepers' = sleepers \ {t}
    /\ Goto(t, "idle")
    /\ UNCHANGED <<word, kind>>

(* unlock(): the fast path swaps 1 for 0, anything else is unlockInternal. *)
FastTryUnlock(t) ==
    /\ pc[t] = "held"
    /\ IF word = DummyLocked
       THEN word' = Unlocked /\ Goto(t, "idle")
       ELSE word' = word /\ Goto(t, "store")
    /\ UNCHANGED <<kind, sleepers>>

(* Mistake: the slow unlock forgets the wake-up.                           *)
StoreUnlocked_NoWake(t) ==
    /\ pc[t] = "store"
    /\ word' = Unlocked
    /\ Goto(t, "idle")
    /\ UNCHANGED <<kind, sleepers>>

StoreUnlocked(t) ==
    /\ pc[t] = "store"
    /\ word' = Unlocked
    /\ Goto(t, "wake")
    /\ UNCHANGED <<kind, sleepers>>

(* FUTEX_WAKE of one: the mutex may have a new owner by now, and there may *)
(* be nobody left to wake. Which sleeper the kernel takes is its business. *)
FutexWakeOne(t) ==
    /\ pc[t] = "wake"
    /\ IF sleepers = {}
       THEN Goto(t, "idle") /\ UNCHANGED sleepers
       ELSE \E s \in sleepers :
              /\ sleepers' = sleepers \ {s}
              /\ pc' = [pc EXCEPT ![t] = "idle", ![s] = "woken"]
    /\ UNCHANGED <<word, kind>>

(* Steps a thread takes by itself once it is inside a call.                *)
Internal(t) == \/ FetchAndStore(t) \/ Remaining(t) \/ FutexWait(t)
               \/ StoreUnlocked(t) \/ FutexWakeOne(t)

Next == \E t \in Threads :
          \/ \E k \in Kinds : FastTryLock(t, k)
          \/ AlreadyExpired(t)
          \/ Internal(t)
          \/ SpuriousWake(t)
          \/ FutexTimeout(t)
          \/ FastTryUnlock(t)

Spec == Init /\ [][Next]_vars

(* Threads inside lock(), tryLock() or unlock() keep running. Nothing      *)
(* obliges a holder to unlock, a deadline to pass or a signal to arrive.   *)
FairSpec == Spec /\ \A t \in Threads : WF_vars(Internal(t))

-----------------------------------------------------------------------------
Holders == {t \in Threads : pc[t] \in {"held", "store"}}

TypeOK == /\ word \in {Unlocked, DummyLocked, DummyFutex}
          /\ pc \in [Threads -> Labels]
          /\ kind \in [Threads -> Kinds]
          /\ sleepers = {t \in Threads : pc[t] = "asleep"}

(* "only one thread can access it at a time" (qmutex.cpp:50).              *)
MutualExclusion == \A s, t \in Holders : s = t

(* A free word is a free mutex: nobody owns the mutex while a new caller's *)
(* fastTryLock would succeed, and a taken word has an owner who will clear *)
(* it - a word left at 3 by a waiter that timed out would be a mutex that  *)
(* nobody can ever lock again.                                             *)
WordMatchesOwner == word = Unlocked <=> Holders = {}

(* The assertions of unlockInternal (qmutex.cpp:820-821): the slow path of *)
(* unlock only ever sees a word with the waiter mark.                      *)
UnlockAsserts == \A t \in Threads : pc[t] = "store" => word = DummyFutex

(* The word tells the truth about who owns the mutex to each of the four   *)
(* that decide by it alone: a caller in fastTryLock(), a waiter in         *)
(* fetchAndStoreAcquire(), and the two paths of unlock().                  *)
OwnerIsExact == MutualExclusion /\ WordMatchesOwner /\ UnlockAsserts

(* No lost wake-up: while somebody sleeps, the word still carries the      *)
(* waiter mark, or a thread is on its way that will either wake a sleeper  *)
(* or set the mark again. A timed waiter that gives up must not take the   *)
(* only mark or the only wake-up with it.                                  *)
SleepersAreMarked ==
    sleepers # {} => \/ word = DummyFutex
                     \/ \E t \in Threads : pc[t] \in {"woken", "wake"}

(* A sleeping lock() is never left behind on a free mutex: someone gets it. This *)
(* is what the single FUTEX_WAKE of unlockInternal has to achieve even     *)
(* when the wake-up goes to a timed waiter or comes after a barging lock.  *)
FreeMutexIsTaken ==
    \A t \in Threads :
      (t \in sleepers /\ kind[t] = "lock" /\ Holders = {}) ~> (Holders # {})

-----------------------------------------------------------------------------
(* Refinement: the futex protocol implements MutexSpec.                    *)
Owner == IF \E t \in Threads : t \in Holders
         THEN CHOOSE t \in Threads : t \in Holders ELSE NoThread

InCall(k) == {t \in Threads : /\ kind[t] = k
                              /\ pc[t] \in {"xchg", "wait", "asleep", "woken", "remaining"}}

Abstract == INSTANCE MutexSpec WITH owner   <- Owner,
                                    blocked <- InCall("lock"),
                                    waiting <- InCall("timed")

(* Every step of the futex code is a step of the abstract mutex or none.   *)
ImplementsMutexSpec == Abstract!AbstractSpec
=============================================================================
