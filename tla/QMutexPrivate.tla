---------------------------- MODULE QMutexPrivate ----------------------------
(***************************************************************************)
(* QMutex on a platform without futexes: the second half of qmutex.cpp     *)
(* (lines 709-853, 878-911), QMutexPrivate of qmutex_p.h and the semaphore *)
(* of qmutex_unix.cpp.                                                     *)
(*                                                                         *)
(* The word of a contended mutex points to a QMutexPrivate out of a free   *)
(* list that all mutexes share. A waiter finds the pointer first and takes *)
(* its reference later; by then the private may be free, or belong to      *)
(* another mutex. Each atomic operation is a step.                         *)
(***************************************************************************)
EXTENDS Integers, FiniteSets

CONSTANTS Threads, NoThread,
          Locks,              \* the mutexes
          Privates,           \* the QMutexPrivate objects
          NoPrivate, NoLock,
          BigNumber           \* more than there can be waiters

ASSUME BigNumberAssumption == /\ IsFiniteSet(Threads) /\ BigNumber \in Nat
                              /\ Cardinality(Threads) < BigNumber
ASSUME NoPrivateAssumption == NoPrivate \notin Privates
ASSUME NobodyAssumption    == NoThread \notin Threads

Unlocked    == "nullptr"
DummyLocked == "dummyLocked"
(* Neither is the address of an object (qmutex.h:94-96).                   *)
ASSUME WordAssumption == Unlocked \notin Privates /\ DummyLocked \notin Privates

Kinds       == {"lock", "timed", "try"}  \* lock(), tryLock(deadline), tryLock()

VARIABLES dptr,              \* QBasicMutex::d_ptr of each mutex
          refCount,          \* QMutexPrivate::refCount
          waiters,           \* QMutexPrivate::waiters
          possiblyUnlocked,  \* QMutexPrivate::possiblyUnlocked
          tokens,            \* value of QMutexPrivate::semaphore
          pc,                \* where each thread is in the code
          call               \* of each thread: the mutex, the kind of call while it
                             \* is inside one, and the local variable d

object == <<refCount, waiters, possiblyUnlocked, tokens>>
vars == <<dptr, object, pc, call>>

Entering == {"retry",      \* about to call fastTryLock() and to load d_ptr
             "allocate",   \* saw dummyLocked(), about to allocate a private
             "install",    \* about to swap dummyLocked() for the new private
             "ref",        \* saw a private, about to reference it
             "recheck",    \* has the reference, about to load d_ptr again
             "count",      \* about to count itself in as a waiter
             "takeover",   \* met an unlock(): about to swap the private away
             "recheck2",   \* counted in, about to load d_ptr once more
             "wait",       \* in sem_wait() or sem_timedwait()
             "timedout",   \* about to count itself out
             "flag",       \* about to set possiblyUnlocked
             "dropRetry"}  \* about to give up the reference and start over
Owning   == {"dropHeld",   \* took over, about to give up the reference
             "won",        \* has the token, about to reset possiblyUnlocked
             "leave",      \* about to count itself out
             "held",       \* the call has returned true
             "mark",       \* in unlockInternal(), about to subtract BigNumber
             "pass",       \* somebody waits: about to add BigNumber again
             "post"}       \* about to post the semaphore
Leaving  == {"clear",      \* nobody waits: about to set d_ptr to nullptr
             "unflag", "unmark", "dropIdle"}

NoCall  == [lock |-> NoLock, kind |-> "none", d |-> NoPrivate]
Held(m) == [NoCall EXCEPT !.lock = m]

Goto(t, l) == pc' = [pc EXCEPT ![t] = l]
Set(t, c)  == call' = [call EXCEPT ![t] = c]

Init == /\ dptr = [m \in Locks |-> Unlocked]
        /\ refCount = [p \in Privates |-> 0]
        /\ waiters = [p \in Privates |-> 0]
        /\ possiblyUnlocked = [p \in Privates |-> FALSE]
        /\ tokens = [p \in Privates |-> 0]
        /\ pc = [t \in Threads |-> "idle"]
        /\ call = [t \in Threads |-> NoCall]

-----------------------------------------------------------------------------
(* QMutexPrivate::deref(); release() of the last reference is a part of it:*)
(* the object is in the free list when its count is zero.                  *)
Deref(p) == refCount' = [refCount EXCEPT ![p] = @ - 1]

(* Mistake: the flag of an unlock() that is under way stays.               *)
DerefWaiters_KeepsMark(p, n) == waiters' = [waiters EXCEPT ![p] = @ - n]

(* QMutexPrivate::derefWaiters(): also takes BigNumber off again.          *)
DerefWaiters(p, n) ==
    waiters' = [waiters EXCEPT ![p] = IF @ < 0 THEN @ + BigNumber - n ELSE @ - n]

(* A private that is flagged, and that no mutex and no thread points to.   *)
(* It never gets back into the free list. The list grows when it is empty; *)
(* a finite model gives the new object the name of one that is lost.       *)
Lost(p) == /\ refCount[p] = 1 /\ possiblyUnlocked[p]
           /\ \A m \in Locks : dptr[m] # p
           /\ \A t \in Threads : call[t].d # p

-----------------------------------------------------------------------------
(* lock(), tryLock(deadline) or tryLock() from outside: the fast path. A   *)
(* deadline that has passed by then ends the call.                         *)
FastTryLock(t, m, k) ==
    /\ pc[t] = "idle"
    /\ \/ /\ dptr[m] = Unlocked
          /\ dptr' = [dptr EXCEPT ![m] = DummyLocked]
          /\ Goto(t, "held") /\ Set(t, Held(m))
       \/ /\ dptr[m] # Unlocked /\ k # "try"
          /\ Goto(t, "retry") /\ Set(t, [Held(m) EXCEPT !.kind = k])
          /\ UNCHANGED dptr
       \/ /\ dptr[m] # Unlocked /\ k # "lock"
          /\ UNCHANGED <<dptr, pc, call>>
    /\ UNCHANGED object

(* The head of the loop in lockInternal(): fastTryLock(), then the load.   *)
Retry(t) ==
    LET m == call[t].lock IN
    /\ pc[t] = "retry"
    /\ IF dptr[m] = Unlocked
       THEN dptr' = [dptr EXCEPT ![m] = DummyLocked] /\ Goto(t, "held") /\ Set(t, Held(m))
       ELSE IF dptr[m] = DummyLocked
       THEN Goto(t, "allocate") /\ UNCHANGED <<dptr, call>>
       ELSE Goto(t, "ref") /\ call' = [call EXCEPT ![t].d = dptr[m]] /\ UNCHANGED dptr
    /\ UNCHANGED object

(* QMutexPrivate::allocate(): takes the object as it was released.         *)
Allocate(t) ==
    /\ pc[t] = "allocate"
    /\ \E p \in Privates :
         /\ call' = [call EXCEPT ![t].d = p]
         /\ refCount' = [refCount EXCEPT ![p] = 1]
         /\ \/ refCount[p] = 0 /\ UNCHANGED possiblyUnlocked
            \/ Lost(p) /\ possiblyUnlocked' = [possiblyUnlocked EXCEPT ![p] = FALSE]
    /\ Goto(t, "install")
    /\ UNCHANGED <<dptr, waiters, tokens>>

(* testAndSetOrdered(dummyLocked(), newD). The reference that allocate()   *)
(* has set is the owner's from then on; the waiter takes one of its own.   *)
Install(t) ==
    LET m == call[t].lock IN
    /\ pc[t] = "install"
    /\ IF dptr[m] = DummyLocked
       THEN dptr' = [dptr EXCEPT ![m] = call[t].d] /\ Goto(t, "ref")
       ELSE dptr' = dptr /\ Goto(t, "dropRetry")
    /\ UNCHANGED <<object, call>>

(* ref() fails when the object is free.                                    *)
Ref(t) ==
    /\ pc[t] = "ref"
    /\ IF refCount[call[t].d] = 0
       THEN Goto(t, "retry") /\ call' = [call EXCEPT ![t].d = NoPrivate] /\ UNCHANGED refCount
       ELSE /\ refCount' = [refCount EXCEPT ![call[t].d] = @ + 1]
            /\ Goto(t, "recheck") /\ UNCHANGED call
    /\ UNCHANGED <<dptr, waiters, possiblyUnlocked, tokens>>

(* Mistake: a private that is alive is taken for the mutex's own.          *)
Recheck_Trusts(t) ==
    /\ pc[t] = "recheck"
    /\ Goto(t, "count")
    /\ UNCHANGED <<dptr, object, call>>

(* Does d_ptr still point to the private that is referenced now?           *)
Recheck(t) ==
    /\ pc[t] = "recheck"
    /\ Goto(t, IF dptr[call[t].lock] = call[t].d THEN "count" ELSE "dropRetry")
    /\ UNCHANGED <<dptr, object, call>>

(* waiters is -BigNumber exactly while an unlock() that found no waiter is *)
(* about to clear d_ptr; then the mutex is there to be taken.              *)
CountIn(t) ==
    /\ pc[t] = "count"
    /\ IF waiters[call[t].d] = -BigNumber
       THEN Goto(t, "takeover") /\ UNCHANGED waiters
       ELSE Goto(t, "recheck2") /\ waiters' = [waiters EXCEPT ![call[t].d] = @ + 1]
    /\ UNCHANGED <<dptr, refCount, possiblyUnlocked, tokens, call>>

(* testAndSetAcquire(d, dummyLocked()). When it fails d_ptr has changed for*)
(* good, as the load at line 773 finds: the reference keeps d from re-use. *)
TakeOver(t) ==
    LET m == call[t].lock IN
    /\ pc[t] = "takeover"
    /\ IF dptr[m] = call[t].d
       THEN dptr' = [dptr EXCEPT ![m] = DummyLocked] /\ Goto(t, "dropHeld")
       ELSE dptr' = dptr /\ Goto(t, "dropRetry")
    /\ UNCHANGED <<object, call>>

(* The mutex may have been unlocked before the waiter was counted.         *)
RecheckCounted(t) ==
    /\ pc[t] = "recheck2"
    /\ IF dptr[call[t].lock] = call[t].d
       THEN Goto(t, "wait") /\ UNCHANGED waiters
       ELSE Goto(t, "dropRetry") /\ waiters' = [waiters EXCEPT ![call[t].d] = @ - 1]
    /\ UNCHANGED <<dptr, refCount, possiblyUnlocked, tokens, call>>

(* QMutexPrivate::wait(): sem_wait() returns with the token, and so does   *)
(* sem_timedwait(), or it reports ETIMEDOUT. EINTR goes back to sleep.     *)
SemWait(t) ==
    /\ pc[t] = "wait" /\ tokens[call[t].d] > 0
    /\ tokens' = [tokens EXCEPT ![call[t].d] = @ - 1]
    /\ Goto(t, "won")
    /\ UNCHANGED <<dptr, refCount, waiters, possiblyUnlocked, call>>

SemTimeout(t) ==
    /\ pc[t] = "wait" /\ call[t].kind = "timed" /\ tokens[call[t].d] = 0
    /\ Goto(t, "timedout")
    /\ UNCHANGED <<dptr, object, call>>

(* The token came: drop the flag of an earlier time-out with its reference.*)
ResetFlag(t) ==
    LET p == call[t].d IN
    /\ pc[t] \in {"won", "unflag"}
    /\ IF possiblyUnlocked[p]
       THEN Deref(p) /\ possiblyUnlocked' = [possiblyUnlocked EXCEPT ![p] = FALSE]
       ELSE UNCHANGED <<refCount, possiblyUnlocked>>
    /\ Goto(t, IF pc[t] = "won" THEN "leave" ELSE "unmark")
    /\ UNCHANGED <<dptr, waiters, tokens, call>>

(* derefWaiters(1), of the new owner and of a waiter that gives up.        *)
CountOut(t) ==
    /\ pc[t] \in {"leave", "timedout"}
    /\ DerefWaiters(call[t].d, 1)
    /\ IF pc[t] = "leave"
       THEN Goto(t, "held") /\ Set(t, Held(call[t].lock))
       ELSE Goto(t, "flag") /\ UNCHANGED call
    /\ UNCHANGED <<dptr, refCount, possiblyUnlocked, tokens>>

(* Mistake: a waiter that gives up always drops its reference.             *)
Flag_KeepsNoReference(t) ==
    /\ pc[t] = "flag"
    /\ possiblyUnlocked' = [possiblyUnlocked EXCEPT ![call[t].d] = TRUE]
    /\ Deref(call[t].d)
    /\ Goto(t, "idle") /\ Set(t, NoCall)
    /\ UNCHANGED <<dptr, waiters, tokens>>

(* The one who sets the flag leaves its reference with it.                 *)
Flag(t) ==
    /\ pc[t] = "flag"
    /\ IF possiblyUnlocked[call[t].d]
       THEN Deref(call[t].d) /\ UNCHANGED possiblyUnlocked
       ELSE possiblyUnlocked' = [possiblyUnlocked EXCEPT ![call[t].d] = TRUE] /\ UNCHANGED refCount
    /\ Goto(t, "idle") /\ Set(t, NoCall)
    /\ UNCHANGED <<dptr, waiters, tokens>>

-----------------------------------------------------------------------------
(* unlock(): the fast path, or the load that unlockInternal() begins with. *)
FastTryUnlock(t) ==
    LET m == call[t].lock IN
    /\ pc[t] = "held"
    /\ IF dptr[m] = DummyLocked
       THEN dptr' = [dptr EXCEPT ![m] = Unlocked] /\ Goto(t, "idle") /\ Set(t, NoCall)
       ELSE Goto(t, "mark") /\ call' = [call EXCEPT ![t].d = dptr[m]] /\ UNCHANGED dptr
    /\ UNCHANGED object

(* fetchAndAddRelease(-BigNumber): is anybody waiting?                     *)
Mark(t) ==
    /\ pc[t] = "mark"
    /\ waiters' = [waiters EXCEPT ![call[t].d] = @ - BigNumber]
    /\ Goto(t, IF waiters[call[t].d] = 0 THEN "clear" ELSE "pass")
    /\ UNCHANGED <<dptr, refCount, possiblyUnlocked, tokens, call>>

(* Mistake: stores nullptr without a look at who took over.                *)
Clear_Stores(t) ==
    /\ pc[t] = "clear"
    /\ dptr' = [dptr EXCEPT ![call[t].lock] = Unlocked]
    /\ Goto(t, "unflag")
    /\ UNCHANGED <<object, call>>

(* testAndSetRelease(d, 0); the swap fails when a waiter has taken over.   *)
Clear(t) ==
    LET m == call[t].lock IN
    /\ pc[t] = "clear"
    /\ IF dptr[m] = call[t].d
       THEN dptr' = [dptr EXCEPT ![m] = Unlocked] /\ Goto(t, "unflag")
       ELSE dptr' = dptr /\ Goto(t, "unmark")
    /\ UNCHANGED <<object, call>>

(* derefWaiters(0), on either way through unlockInternal().                *)
Unmark(t) ==
    /\ pc[t] \in {"unmark", "pass"}
    /\ DerefWaiters(call[t].d, 0)
    /\ Goto(t, IF pc[t] = "pass" THEN "post" ELSE "dropIdle")
    /\ UNCHANGED <<dptr, refCount, possiblyUnlocked, tokens, call>>

(* Mistake: a waiter that is seen to time out gets no token.               *)
WakeUp_OnlyWaiters(t) ==
    /\ pc[t] = "post"
    /\ tokens' = [tokens EXCEPT ![call[t].d] = IF waiters[call[t].d] > 0 THEN @ + 1 ELSE @]
    /\ Goto(t, "dropIdle")
    /\ UNCHANGED <<dptr, refCount, waiters, possiblyUnlocked, call>>

(* QMutexPrivate::wakeUp(): sem_post() hands the mutex on.                 *)
WakeUp(t) ==
    /\ pc[t] = "post"
    /\ tokens' = [tokens EXCEPT ![call[t].d] = @ + 1]
    /\ Goto(t, "dropIdle")
    /\ UNCHANGED <<dptr, refCount, waiters, possiblyUnlocked, call>>

(* deref() as the last step of an attempt, a take-over or an unlock().     *)
Drop(t) ==
    /\ pc[t] \in {"dropRetry", "dropHeld", "dropIdle"}
    /\ Deref(call[t].d)
    /\ \/ /\ pc[t] = "dropRetry" /\ Goto(t, "retry")
          /\ call' = [call EXCEPT ![t].d = NoPrivate]
       \/ pc[t] = "dropHeld" /\ Goto(t, "held") /\ Set(t, Held(call[t].lock))
       \/ pc[t] = "dropIdle" /\ Goto(t, "idle") /\ Set(t, NoCall)
    /\ UNCHANGED <<dptr, waiters, possiblyUnlocked, tokens>>

-----------------------------------------------------------------------------
Internal(t) == \/ Retry(t) \/ Allocate(t) \/ Install(t) \/ Ref(t) \/ Recheck(t)
               \/ CountIn(t) \/ TakeOver(t) \/ RecheckCounted(t) \/ SemWait(t)
               \/ ResetFlag(t) \/ CountOut(t) \/ Flag(t)
               \/ Mark(t) \/ Clear(t) \/ Unmark(t) \/ WakeUp(t) \/ Drop(t)

Next == \E t \in Threads : \/ \E m \in Locks, k \in Kinds : FastTryLock(t, m, k)
                           \/ Internal(t) \/ SemTimeout(t) \/ FastTryUnlock(t)

Spec == Init /\ [][Next]_vars

-----------------------------------------------------------------------------
TypeOK == /\ dptr \in [Locks -> {Unlocked, DummyLocked} \cup Privates]
          /\ refCount \in [Privates -> Nat]
          /\ waiters \in [Privates -> Int]
          /\ possiblyUnlocked \in [Privates -> BOOLEAN]
          /\ tokens \in [Privates -> {0, 1}]
          /\ pc \in [Threads -> {"idle"} \cup Entering \cup Owning \cup Leaving]
          /\ call \in [Threads -> [lock : Locks \cup {NoLock}, kind : Kinds \cup {"none"},
                                d : Privates \cup {NoPrivate}]]

In(m, places) == {t \in Threads : call[t].lock = m /\ pc[t] \in places}

(* "only one thread can access it at a time" (qmutex.cpp:50), and the      *)
(* token that unlock() passes on counts as an owner: a waiter that takes   *)
(* it enters without another look at the word.                             *)
OneOwner ==
    \A m \in Locks :
      Cardinality(In(m, Owning)) + (IF dptr[m] \in Privates THEN tokens[dptr[m]] ELSE 0) <= 1

(* The mutex belongs to its word: a free word has no owner, and an owner   *)
(* that is not about to hand on finds in d_ptr what its unlock() relies on *)
(* (the assertions at qmutex.cpp:790 and 820-821).                         *)
WordFitsOwner ==
    \A m \in Locks :
      /\ In(m, Owning) # {} => dptr[m] # Unlocked
      /\ \A t \in In(m, {"won", "leave", "mark", "pass", "post"}) : dptr[m] = call[t].d

(* References: those of threads from ref() or allocate(), that of the owner*)
(* of a mutex, which unlock() takes along, and that of the flag.           *)
References(p) ==
      Cardinality({t \in Threads :
          /\ call[t].d = p
          /\ pc[t] \in (Entering \ {"ref"}) \cup {"dropHeld"} \cup Leaving})
    + Cardinality({m \in Locks : dptr[m] = p /\ In(m, Owning) # {}})
    + (IF possiblyUnlocked[p] THEN 1 ELSE 0)

(* The counts of references and of waiters are exact, with the offset that *)
(* an unlock() sets and any step of a waiter may take off again.           *)
CountsMatch ==
    \A p \in Privates :
      /\ refCount[p] = References(p)
      /\ LET n == Cardinality({t \in Threads : /\ call[t].d = p
                                              /\ pc[t] \in {"recheck2", "wait", "timedout", "won", "leave"}})
         IN  waiters[p] \in {n, n - BigNumber}

(* A released object is as allocate() asserts it to be (qmutex.cpp:883-885,*)
(* 892-894), and has no token left for the next mutex that uses it.        *)
FreePrivatesAreClean ==
    \A p \in Privates : refCount[p] = 0 =>
      waiters[p] = 0 /\ ~possiblyUnlocked[p] /\ tokens[p] = 0

(* The bookkeeping that allocate(), deref(), derefWaiters() and unlock()   *)
(* rely on survives waiters that give up and privates that are re-used for *)
(* another mutex while threads with old pointers refer to them.            *)
PrivatesAccounted == OneOwner /\ WordFitsOwner /\ CountsMatch /\ FreePrivatesAreClean

(* No lost wake-up: whoever waits in the semaphore waits in the one that   *)
(* the mutex will use, and an owner is there who will post it, or a token  *)
(* is there already - also when that was meant for a waiter that gave up.  *)
WaitersAreServed ==
    \A m \in Locks : \A t \in In(m, {"wait"}) :
      dptr[m] = call[t].d /\ (In(m, Owning) # {} \/ tokens[call[t].d] > 0)

(* "maybe the mutex is actually unlocked. Set the possiblyUnlocked flag to *)
(* indicate this possibility" (qmutex.cpp:797-798): a tryLock() on a mutex *)
(* that nobody owns, wants or is leaving succeeds. The code lets such a    *)
(* mutex look locked until the next lock(): with no time to wait,          *)
(* lockInternal() returns (lines 677-678) before it comes to the flag.     *)
QuietTryLockSucceeds ==
    (\A t \in Threads : pc[t] = "idle") => \A m \in Locks : dptr[m] = Unlocked

(* "reset the possiblyUnlocked flag if needed (and deref its corresponding *)
(* reference)" (qmutex.cpp:839): no object stays out of the free list once *)
(* nothing points to it any more.                                          *)
NoPrivateIsLost == \A p \in Privates : ~Lost(p)

-----------------------------------------------------------------------------
(* Refinement: each mutex implements MutexSpec. The mutex is free once the *)
(* unlock() has set BigNumber, and while it is a token in the semaphore.   *)
Owner(m) == IF In(m, Owning) = {} THEN NoThread ELSE CHOOSE t \in Threads : t \in In(m, Owning)

InCall(m, k) == {t \in In(m, Entering) : call[t].kind = k}

Abstract(m) == INSTANCE MutexSpec WITH owner   <- Owner(m),
                                       blocked <- InCall(m, "lock"),
                                       waiting <- InCall(m, "timed")

(* Every step of the protocol with privates is, for each mutex, a step of  *)
(* the abstract mutex or none.                                             *)
ImplementsMutexSpec ==
    /\ \A m \in Locks : Abstract(m)!SpecInit
    /\ [][\A m \in Locks : \/ Abstract(m)!SpecNext
                           \/ UNCHANGED <<Owner(m), InCall(m, "lock"), InCall(m, "timed")>>]_vars
=============================================================================
