-------------------------- MODULE QBasicMutexProofs --------------------------
(***************************************************************************)
(* What QBasicMutex guarantees for any number of threads; and, at the end, *)
(* what QWaitCondition does, which only relies on the contract that is     *)
(* proved here of the mutex.                                               *)
(***************************************************************************)
EXTENDS QBasicMutex, QWaitCondition, FiniteSetTheorems, TLAPS

(* tryLock() without a deadline never enters lockInternal, and only a call *)
(* with one ever looks at the clock.                                       *)
KindFitsPlace ==
    \A t \in Threads :
      /\ kind[t] = "try" => pc[t] \in {"idle", "held", "store", "wake"}
      /\ pc[t] = "remaining" => kind[t] = "timed"

(* Mutual exclusion is not inductive by itself: it needs the word to tell  *)
(* whether there is a holder, and the slow unlock to find the waiter mark. *)
IInv == TypeOK /\ MutualExclusion /\ WordMatchesOwner /\ UnlockAsserts
               /\ SleepersAreMarked /\ KindFitsPlace

LEMMA InitIInv == Init => IInv
  BY DEF Init, IInv, TypeOK, MutualExclusion, WordMatchesOwner, UnlockAsserts,
         SleepersAreMarked, KindFitsPlace, Holders, Labels, Kinds, Unlocked, DummyLocked, DummyFutex

LEMMA StepIInv == IInv /\ [Next]_vars => IInv'
<1>1. SUFFICES ASSUME IInv, [Next]_vars PROVE IInv'
  OBVIOUS
<1> USE DEF IInv, TypeOK, MutualExclusion, WordMatchesOwner, UnlockAsserts,
            SleepersAreMarked, KindFitsPlace, Holders, Labels, Kinds, Unlocked, DummyLocked, DummyFutex,
            Goto
<1>2. ASSUME NEW t \in Threads, NEW k \in Kinds, FastTryLock(t, k) PROVE IInv'
  BY <1>1, <1>2 DEF FastTryLock
<1>3. ASSUME NEW t \in Threads, AlreadyExpired(t) PROVE IInv'
  BY <1>1, <1>3 DEF AlreadyExpired
<1>4. ASSUME NEW t \in Threads, FetchAndStore(t) PROVE IInv'
  BY <1>1, <1>4 DEF FetchAndStore
<1>5. ASSUME NEW t \in Threads, Remaining(t) PROVE IInv'
  BY <1>1, <1>5 DEF Remaining
<1>6. ASSUME NEW t \in Threads, FutexWait(t) PROVE IInv'
  BY <1>1, <1>6 DEF FutexWait
<1>7. ASSUME NEW t \in Threads, StoreUnlocked(t) PROVE IInv'
  BY <1>1, <1>7 DEF StoreUnlocked
<1>8. ASSUME NEW t \in Threads, FutexWakeOne(t) PROVE IInv'
  BY <1>1, <1>8 DEF FutexWakeOne
<1>9. ASSUME NEW t \in Threads, SpuriousWake(t) PROVE IInv'
  BY <1>1, <1>9 DEF SpuriousWake
<1>10. ASSUME NEW t \in Threads, FutexTimeout(t) PROVE IInv'
  BY <1>1, <1>10 DEF FutexTimeout
<1>11. ASSUME NEW t \in Threads, FastTryUnlock(t) PROVE IInv'
  BY <1>1, <1>11 DEF FastTryUnlock
<1>12. CASE UNCHANGED vars
  BY <1>1, <1>12 DEF vars
<1> QED
  BY <1>1, <1>2, <1>3, <1>4, <1>5, <1>6, <1>7, <1>8, <1>9, <1>10, <1>11, <1>12
     DEF Next, Internal

(* The futex protocol keeps its invariant in every reachable state.        *)
THEOREM MutexInvariant == Spec => []IInv
<1>1. Init => IInv
  BY InitIInv
<1>2. IInv /\ [Next]_vars => IInv'
  BY StepIInv
<1> QED
  BY <1>1, <1>2, PTL DEF Spec

(* The word, the places in the code and the kernel's queue keep to their   *)
(* types; in particular the kernel queues those who are in FUTEX_WAIT.     *)
THEOREM TypeCorrect == Spec => []TypeOK
<1>1. IInv => TypeOK
  BY DEF IInv
<1> QED
  BY <1>1, MutexInvariant, PTL

(* No waiter that gives up leaves behind a word that looks locked, and no  *)
(* owner ever holds a mutex that looks free.                               *)
THEOREM WordMatchesOwnerHolds == Spec => []WordMatchesOwner
<1>1. IInv => WordMatchesOwner
  BY DEF IInv
<1> QED
  BY <1>1, MutexInvariant, PTL

(* The assertions of unlockInternal (qmutex.cpp:820-821) never fail.       *)
THEOREM UnlockAssertsHolds == Spec => []UnlockAsserts
<1>1. IInv => UnlockAsserts
  BY DEF IInv
<1> QED
  BY <1>1, MutexInvariant, PTL

(* "only one thread can access it at a time" (qmutex.cpp:50), whatever the *)
(* number of threads, time-outs, spurious wake-ups and barging callers.    *)
THEOREM MutualExclusionHolds == Spec => []MutualExclusion
<1>1. IInv => MutualExclusion
  BY DEF IInv
<1> QED
  BY <1>1, MutexInvariant, PTL

(* The word tells the truth about the owner to each of those who decide by *)
(* it alone: new callers, waiters that exchange it, and both unlock paths. *)
THEOREM OwnerIsExactHolds == Spec => []OwnerIsExact
<1>1. IInv => OwnerIsExact
  BY DEF IInv, OwnerIsExact
<1> QED
  BY <1>1, MutexInvariant, PTL

(* No lost wake-up: unlockInternal wakes a single thread, and still no     *)
(* sleeper is ever left behind an unmarked word.                           *)
THEOREM SleepersAreMarkedHolds == Spec => []SleepersAreMarked
<1>1. IInv => SleepersAreMarked
  BY DEF IInv
<1> QED
  BY <1>1, MutexInvariant, PTL

-----------------------------------------------------------------------------
(* The refinement mapping picks an arbitrary holder; under the invariant   *)
(* that is the only one.                                                   *)
LEMMA OwnerIsHolder ==
  ASSUME MutualExclusion, NEW t \in Threads, t \in Holders
  PROVE  Owner = t
  BY DEF MutualExclusion, Owner, Holders

LEMMA NoHolderNoOwner ==
  ASSUME Holders = {} PROVE Owner = NoThread
  BY DEF Owner

(* Owner and the word agree about who holds the mutex.                     *)
OwnerFacts == /\ word = Unlocked => Owner = NoThread
              /\ \A t \in Threads : t \in Holders <=> Owner = t

LEMMA OwnerNow == IInv => OwnerFacts
<1>1. SUFFICES ASSUME IInv PROVE OwnerFacts
  OBVIOUS
<1>2. CASE Holders = {}
  BY <1>1, <1>2, NoHolderNoOwner, NoThreadAssumption
     DEF IInv, WordMatchesOwner, Holders, OwnerFacts
<1>3. CASE Holders # {}
  BY <1>1, <1>3, OwnerIsHolder
     DEF IInv, WordMatchesOwner, MutualExclusion, Holders, OwnerFacts
<1> QED
  BY <1>2, <1>3

LEMMA SameHolderSameOwner ==
  ASSUME Holders' = Holders PROVE Owner' = Owner
  BY DEF Owner

LEMMA InitRefines == Init => Abstract!SpecInit
  BY DEF Init, Abstract!SpecInit, Owner, Holders, InCall

LEMMA StepRefines ==
  IInv /\ IInv' /\ [Next]_vars => [Abstract!SpecNext]_(Abstract!svars)
<1>1. SUFFICES ASSUME IInv, IInv', [Next]_vars
               PROVE  [Abstract!SpecNext]_(Abstract!svars)
  OBVIOUS
<1>2. OwnerFacts
  BY <1>1, OwnerNow
<1>3. (IInv => OwnerFacts)'
  BY OwnerNow, PTL
<1>4. OwnerFacts'
  BY <1>1, <1>3
<1>5. Owner \in Threads \cup {NoThread} /\ Owner' \in Threads \cup {NoThread}
  BY <1>1 DEF Owner, Holders
<1> USE DEF IInv, TypeOK, KindFitsPlace, Labels, Kinds, Holders, InCall, Goto, OwnerFacts,
            Unlocked, DummyLocked, DummyFutex, Abstract!SpecNext, Abstract!svars
<1>6. ASSUME NEW t \in Threads, NEW k \in Kinds, FastTryLock(t, k)
      PROVE  [Abstract!SpecNext]_(Abstract!svars)
  <2> USE <1>1, <1>2, <1>4, <1>5, <1>6, NoThreadAssumption DEF FastTryLock
  <2>1. CASE word = Unlocked
    <3>1. Owner = NoThread /\ Owner' = t
      BY <2>1
    <3>2. UNCHANGED <<InCall("lock"), InCall("timed")>>
      BY <2>1
    <3> QED
      BY <2>1, <3>1, <3>2 DEF Abstract!AcquireNow, Abstract!Idle
  <2>2. CASE word # Unlocked
    <3>1. Holders' = Holders
      BY <2>2
    <3>2. Owner' = Owner
      BY <3>1, SameHolderSameOwner
    <3>3. CASE k = "lock"
      BY <2>2, <3>2, <3>3 DEF Abstract!Block, Abstract!Idle
    <3>4. CASE k = "timed"
      BY <2>2, <3>2, <3>4 DEF Abstract!BlockTimed, Abstract!Idle
    <3>5. CASE k = "try"
      BY <2>2, <3>2, <3>5
    <3> QED
      BY <3>3, <3>4, <3>5
  <2> QED
    BY <2>1, <2>2
<1>7. ASSUME NEW t \in Threads, AlreadyExpired(t)
      PROVE  Abstract!GiveUp(t)
  <2> USE <1>1, <1>7 DEF AlreadyExpired
  <2>1. Holders' = Holders
    OBVIOUS
  <2>2. Owner' = Owner
    BY <2>1, SameHolderSameOwner
  <2>3. t \in InCall("timed") /\ InCall("timed")' = InCall("timed") \ {t}
    OBVIOUS
  <2>4. InCall("lock")' = InCall("lock")
    OBVIOUS
  <2> QED
    BY <2>2, <2>3, <2>4 DEF Abstract!GiveUp
<1>8. ASSUME NEW t \in Threads, FetchAndStore(t)
      PROVE  [Abstract!SpecNext]_(Abstract!svars)
  <2> USE <1>1, <1>2, <1>4, <1>5, <1>8, NoThreadAssumption DEF FetchAndStore
  <2>1. CASE word = Unlocked
    <3>1. Owner = NoThread /\ Owner' = t
      BY <2>1
    <3> QED
      BY <2>1, <3>1 DEF Abstract!AcquireBlocked
  <2>2. CASE word # Unlocked
    <3>1. Holders' = Holders
      BY <2>2
    <3>2. Owner' = Owner
      BY <3>1, SameHolderSameOwner
    <3>3. UNCHANGED <<InCall("lock"), InCall("timed")>>
      BY <2>2
    <3> QED
      BY <3>2, <3>3
  <2> QED
    BY <2>1, <2>2
<1>9. ASSUME NEW t \in Threads, Remaining(t)
      PROVE  [Abstract!SpecNext]_(Abstract!svars)
  <2> USE <1>1, <1>9 DEF Remaining
  <2>1. Holders' = Holders
    OBVIOUS
  <2>2. Owner' = Owner
    BY <2>1, SameHolderSameOwner
  <2>3. CASE pc' = [pc EXCEPT ![t] = "idle"]
    BY <2>2, <2>3 DEF Abstract!GiveUp
  <2>4. CASE pc' = [pc EXCEPT ![t] = "wait"]
    <3>1. UNCHANGED <<InCall("lock"), InCall("timed")>>
      BY <2>4
    <3> QED
      BY <2>2, <3>1
  <2> QED
    BY <2>3, <2>4
<1>10. ASSUME NEW t \in Threads, FutexWait(t) \/ SpuriousWake(t)
       PROVE  UNCHANGED Abstract!svars
  <2> USE <1>1, <1>10 DEF FutexWait, SpuriousWake
  <2>1. Holders' = Holders /\ UNCHANGED <<InCall("lock"), InCall("timed")>>
    OBVIOUS
  <2> QED
    BY <2>1, SameHolderSameOwner
<1>11. ASSUME NEW t \in Threads, FutexTimeout(t)
       PROVE  Abstract!GiveUp(t)
  <2> USE <1>1, <1>11 DEF FutexTimeout
  <2>1. Holders' = Holders
    OBVIOUS
  <2> QED
    BY <2>1, SameHolderSameOwner DEF Abstract!GiveUp
<1>12. ASSUME NEW t \in Threads, FutexWakeOne(t)
       PROVE  UNCHANGED Abstract!svars
  <2> USE <1>1, <1>12 DEF FutexWakeOne
  <2>1. Holders' = Holders /\ UNCHANGED <<InCall("lock"), InCall("timed")>>
    OBVIOUS
  <2> QED
    BY <2>1, SameHolderSameOwner
<1>13. ASSUME NEW t \in Threads, FastTryUnlock(t)
       PROVE  [Abstract!SpecNext]_(Abstract!svars)
  <2> USE <1>1, <1>2, <1>4, <1>13, NoThreadAssumption DEF FastTryUnlock
  <2>1. CASE word = DummyLocked
    BY <2>1 DEF Abstract!Release
  <2>2. CASE word # DummyLocked
    <3>1. Holders' = Holders /\ UNCHANGED <<InCall("lock"), InCall("timed")>>
      BY <2>2
    <3> QED
      BY <3>1, SameHolderSameOwner
  <2> QED
    BY <2>1, <2>2
<1>14. ASSUME NEW t \in Threads, StoreUnlocked(t)
       PROVE  Abstract!Release(t)
  BY <1>1, <1>2, <1>4, <1>14, NoThreadAssumption DEF StoreUnlocked, Abstract!Release
<1>15. CASE UNCHANGED vars
  <2>1. Holders' = Holders /\ UNCHANGED <<InCall("lock"), InCall("timed")>>
    BY <1>15 DEF vars
  <2> QED
    BY <2>1, SameHolderSameOwner
<1> QED
  BY <1>1, <1>6, <1>7, <1>8, <1>9, <1>10, <1>11, <1>12, <1>13, <1>14, <1>15
     DEF Next, Internal

(* The futex protocol implements the abstract mutex: one owner at a time,  *)
(* blocked lock() calls that only end as owners, and timed ones that may   *)
(* also give up. Every step of the code maps to a step of it or to none.   *)
THEOREM Refinement == Spec => ImplementsMutexSpec
<1>1. Init => Abstract!SpecInit
  BY InitRefines
<1>2. IInv /\ IInv' /\ [Next]_vars => [Abstract!SpecNext]_(Abstract!svars)
  BY StepRefines
<1> QED
  BY <1>1, <1>2, MutexInvariant, PTL
     DEF Spec, ImplementsMutexSpec, Abstract!AbstractSpec

-----------------------------------------------------------------------------
(* QWaitCondition. ConditionTypeOK and CountsExact together are inductive: *)
(* each step moves one thread, or wakes sleepers, and the lemmas say how   *)
(* that changes the number of those inside wait() and of those signalled.  *)
CountsInv == ConditionTypeOK /\ CountsExact

(* The numbers that a step of one thread can change.                       *)
LEMMA Counted ==
  /\ IsFiniteSet(Inside) /\ IsFiniteSet(At("signalled")) /\ IsFiniteSet(Reachable)
  /\ Cardinality(Threads) \in Nat /\ Cardinality(Inside) \in Nat
  /\ Cardinality(Reachable) \in Nat /\ Cardinality(At("signalled")) \in Nat
  /\ Cardinality(Inside) <= Cardinality(Threads)
  /\ Cardinality(Reachable) <= Cardinality(Inside)
  /\ Cardinality(At("signalled")) <= Cardinality(Reachable)
<1>1. Inside \subseteq Threads /\ Reachable \subseteq Inside /\ At("signalled") \subseteq Reachable
  BY DEF Inside, Reachable, At
<1>2. IsFiniteSet(Inside) /\ Cardinality(Inside) <= Cardinality(Threads)
  BY <1>1, ThreadsAssumption, FS_Subset
<1>3. IsFiniteSet(Reachable) /\ Cardinality(Reachable) <= Cardinality(Inside)
  BY <1>1, <1>2, FS_Subset
<1>4. IsFiniteSet(At("signalled")) /\ Cardinality(At("signalled")) <= Cardinality(Reachable)
  BY <1>1, <1>3, FS_Subset
<1>5. /\ Cardinality(Threads) \in Nat /\ Cardinality(Inside) \in Nat
      /\ Cardinality(Reachable) \in Nat /\ Cardinality(At("signalled")) \in Nat
  BY <1>2, <1>3, <1>4, ThreadsAssumption, FS_CardinalityType
<1> QED
  BY <1>2, <1>3, <1>4, <1>5

(* A thread that goes from one place to another.                           *)
LEMMA Moved ==
  ASSUME NEW t \in Threads, NEW l \in Places, place \in [Threads -> Places], MoveTo(t, l)
  PROVE  /\ place' \in [Threads -> Places]
         /\ Inside' = IF l \in {"unlocking", "blocking", "asleep", "signalled", "timedout"}
                      THEN Inside \cup {t} ELSE Inside \ {t}
         /\ At("signalled")' = IF l = "signalled" THEN At("signalled") \cup {t}
                                                  ELSE At("signalled") \ {t}
  BY DEF MoveTo, Inside, At

(* A thread whose place neither counts as inside nor as signalled, before  *)
(* and after.                                                              *)
LEMMA Apart ==
  ASSUME NEW t \in Threads, NEW l \in Places, place \in [Threads -> Places], MoveTo(t, l),
         place[t] \notin {"unlocking", "blocking", "asleep", "signalled", "timedout"},
         l \notin {"unlocking", "blocking", "asleep", "signalled", "timedout"}
  PROVE  place' \in [Threads -> Places] /\ Inside' = Inside /\ At("signalled")' = At("signalled")
  BY DEF MoveTo, Inside, At

LEMMA InitCounts == ConditionInit => CountsInv
<1>1. SUFFICES ASSUME ConditionInit PROVE CountsInv
  OBVIOUS
<1>2. Inside = {} /\ At("signalled") = {}
  BY <1>1 DEF ConditionInit, Inside, At
<1>3. Cardinality(Threads) \in Nat
  BY ThreadsAssumption, FS_CardinalityType
<1>4. ConditionTypeOK
  BY <1>1, <1>3, ItemsAssumption DEF ConditionInit, ConditionTypeOK, Places, M!SpecInit
<1>5. CountsExact
  BY <1>1, <1>2, FS_EmptySet DEF ConditionInit, CountsExact, WaitersExact, WakesAreServed
<1> QED
  BY <1>4, <1>5 DEF CountsInv

(* The threads that are not inside wait(), and those that only go on in it.*)
LEMMA StepUsers ==
  ASSUME CountsInv, NEW t \in Threads,
         \/ Lock(t) \/ Enter(t) \/ Consume(t) \/ Leave(t) \/ Produce(t)
  PROVE  CountsInv'
<1> USE DEF CountsInv, ConditionTypeOK
<1>1. /\ UNCHANGED <<native, waiters, wakeups, timed, owed, called>>
      /\ place[t] \notin {"unlocking", "blocking", "asleep", "signalled", "timedout"}
      /\ \E l \in {"idle", "lock", "relock", "in", "done", "notify"} : MoveTo(t, l)
  BY DEF Lock, Enter, Consume, Leave, Produce
<1>2. place' \in [Threads -> Places] /\ Inside' = Inside /\ At("signalled")' = At("signalled")
  BY <1>1, Apart DEF Places
<1>3. /\ owner' \in Threads \cup {NoThread}
      /\ blocked' \subseteq Threads /\ waiting' = {}
  BY DEF Lock, Enter, Consume, Leave, Produce, M!Block, M!AcquireBlocked, M!Release, mutex
<1>4. items' \in 0..MaxItems
  BY ItemsAssumption DEF Lock, Enter, Consume, Leave, Produce
<1> QED
  BY <1>1, <1>2, <1>3, <1>4 DEF CountsExact, WaitersExact, WakesAreServed

LEMMA StepWait ==
  ASSUME CountsInv, NEW t \in Threads,
         \/ \E deadline \in BOOLEAN : WaitEnter(t, deadline)
         \/ WaitUnlock(t) \/ CondWait(t) \/ CondTimeout(t)
  PROVE  CountsInv'
<1> USE DEF CountsInv, ConditionTypeOK
<1>1. /\ UNCHANGED <<wakeups, items, owed, called>>
      /\ blocked' = blocked /\ waiting' = waiting /\ owner' \in Threads \cup {NoThread}
      /\ native' \in Threads \cup {NoThread} /\ timed' \subseteq Threads
  BY DEF WaitEnter, WaitUnlock, CondWait, CondTimeout, M!Release, mutex
<1>2. \E l \in {"unlocking", "blocking", "asleep", "timedout"} : MoveTo(t, l)
  BY DEF WaitEnter, WaitUnlock, CondWait, CondTimeout
<1>3. place' \in [Threads -> Places] /\ Inside' = Inside \cup {t}
      /\ At("signalled")' = At("signalled") \ {t}
  BY <1>2, Moved DEF Places
<1>4. place[t] # "signalled"
  BY DEF WaitEnter, WaitUnlock, CondWait, CondTimeout
<1>5. At("signalled")' = At("signalled")
  BY <1>3, <1>4 DEF At
<1>6. waiters' = Cardinality(Inside')
  <2>1. CASE \E deadline \in BOOLEAN : WaitEnter(t, deadline)
    <3>1. t \notin Inside /\ waiters' = waiters + 1
      BY <2>1 DEF WaitEnter, Inside
    <3> QED
      BY <3>1, <1>3, Counted, FS_AddElement DEF CountsExact, WaitersExact
  <2>2. CASE WaitUnlock(t) \/ CondWait(t) \/ CondTimeout(t)
    <3>1. t \in Inside /\ waiters' = waiters
      BY <2>2 DEF WaitUnlock, CondWait, CondTimeout, Inside
    <3>2. Inside' = Inside
      BY <3>1, <1>3
    <3> QED
      BY <3>1, <3>2 DEF CountsExact, WaitersExact
  <2> QED
    BY <2>1, <2>2
<1>7. waiters' \in 0..Cardinality(Threads)
  <2>1. Inside' \subseteq Threads
    BY <1>3 DEF Inside
  <2> QED
    BY <2>1, <1>6, ThreadsAssumption, FS_Subset, FS_CardinalityType
<1> QED
  BY <1>1, <1>3, <1>5, <1>6, <1>7 DEF CountsExact, WaitersExact, WakesAreServed

(* A spurious return, true or false, only adds to those who look.          *)
LEMMA StepSpurious == ASSUME CountsInv, NEW t \in Threads, SpuriousReturn(t) PROVE CountsInv'
<1> USE DEF CountsInv, ConditionTypeOK
<1>1. /\ UNCHANGED <<mutex, native, waiters, wakeups, timed, items, owed, called>>
      /\ MoveTo(t, "signalled") /\ t \in Inside
  BY DEF SpuriousReturn, Inside
<1>2. place' \in [Threads -> Places] /\ Inside' = Inside \cup {t}
      /\ At("signalled")' = At("signalled") \cup {t}
  BY <1>1, Moved DEF Places
<1>3. Inside' = Inside
  BY <1>1, <1>2
<1>4. t \notin At("signalled")
  BY DEF SpuriousReturn, At
<1>5. Cardinality(At("signalled")') = Cardinality(At("signalled")) + 1
  BY <1>2, <1>4, Counted, FS_AddElement
<1> QED
  BY <1>1, <1>2, <1>3, <1>5, Counted DEF CountsExact, WaitersExact, WakesAreServed, mutex

(* Who leaves wait() is counted out.                                       *)
LEMMA LeftWait ==
  ASSUME CountsInv, NEW t \in Threads, NEW l \in {"lock", "relock"}, MoveTo(t, l),
         t \in Inside, waiters' = waiters - 1
  PROVE  /\ place' \in [Threads -> Places] /\ At("signalled")' = At("signalled") \ {t}
         /\ waiters' = Cardinality(Inside') /\ waiters' \in 0..Cardinality(Threads)
<1>1. place' \in [Threads -> Places] /\ Inside' = Inside \ {t}
      /\ At("signalled")' = At("signalled") \ {t}
  BY Moved DEF Places, CountsInv, ConditionTypeOK
<1>2. Cardinality(Inside \ {t}) = Cardinality(Inside) - 1
  BY Counted, FS_RemoveElement
<1>3. Cardinality(Inside \ {t}) \in Nat
  BY Counted, FS_RemoveElement, FS_CardinalityType
<1>4. waiters' = Cardinality(Inside \ {t})
  BY <1>2 DEF CountsInv, CountsExact, WaitersExact
<1>5. waiters' <= Cardinality(Threads)
  BY <1>2, <1>4, Counted
<1> QED
  BY <1>1, <1>3, <1>4, <1>5, Counted

(* The ways out of wait(), and the way back to sleep. A thread that leaves *)
(* with a wake-up takes one from the count, its own at most from what is   *)
(* owed; one whose time is up takes none.                                  *)
LEMMA StepEnd ==
  ASSUME CountsInv, NEW t \in Threads, Woken(t) \/ TimedOut(t)
  PROVE  CountsInv'
<1> USE DEF CountsInv, ConditionTypeOK
<1> DEFINE c == Cardinality(At("signalled"))
<1>0. /\ owed <= wakeups /\ owed <= c /\ c \in Nat /\ owed \in Nat /\ wakeups \in Nat
      /\ wakeups <= Cardinality(Threads) /\ Cardinality(Threads) \in Nat
  BY Counted DEF CountsExact, WakesAreServed
<1>1. CASE Woken(t) /\ wakeups = 0
  <2>1. /\ UNCHANGED <<mutex, native, waiters, wakeups, timed, items, owed, called>>
        /\ MoveTo(t, "asleep") /\ t \in Inside
    BY <1>1 DEF Woken, Inside
  <2>2. place' \in [Threads -> Places] /\ Inside' = Inside \cup {t}
        /\ At("signalled")' = At("signalled") \ {t}
    BY <2>1, Moved DEF Places
  <2>3. Inside' = Inside
    BY <2>1, <2>2
  <2>4. Cardinality(At("signalled")') \in Nat /\ owed = 0
    BY <1>0, <1>1, <2>2, Counted, FS_RemoveElement, FS_CardinalityType
  <2> QED
    BY <2>1, <2>2, <2>3, <2>4 DEF CountsExact, WaitersExact, WakesAreServed, mutex
<1>2. CASE Woken(t) /\ wakeups # 0
  <2>1. /\ EndWait(t, 1, TRUE) /\ t \in Inside /\ t \in At("signalled") /\ place[t] = "signalled"
    BY <1>2 DEF Woken, Inside, At
  <2>2. /\ MoveTo(t, "lock") /\ waiters' = waiters - 1 /\ wakeups' = wakeups - 1
        /\ owed' = (IF owed > 0 THEN owed - 1 ELSE owed) /\ UNCHANGED <<native, items, owner, waiting>>
        /\ blocked' = blocked \cup {t} /\ timed' = timed \ {t} /\ called' = called \ {t}
    BY <2>1 DEF EndWait, M!Block
  <2>3. /\ place' \in [Threads -> Places] /\ At("signalled")' = At("signalled") \ {t}
        /\ waiters' = Cardinality(Inside') /\ waiters' \in 0..Cardinality(Threads)
    BY <2>1, <2>2, LeftWait
  <2>4. Cardinality(At("signalled") \ {t}) = c - 1
    BY <2>1, Counted, FS_RemoveElement
  <2>5. Cardinality(At("signalled") \ {t}) \in Nat
    BY Counted, FS_RemoveElement, FS_CardinalityType
  <2>6. /\ owed' <= wakeups' /\ owed' <= c - 1
        /\ owed' \in 0..Cardinality(Threads) /\ wakeups' \in 0..Cardinality(Threads)
    <3>1. c - 1 \in Nat
      BY <2>4, <2>5
    <3> HIDE DEF c
    <3> QED
      BY <1>0, <1>2, <2>2, <3>1
  <2> QED
    BY <2>2, <2>3, <2>4, <2>6 DEF CountsExact, WaitersExact, WakesAreServed
<1>3. CASE TimedOut(t)
  <2>1. /\ EndWait(t, 0, FALSE) /\ t \in Inside /\ t \notin At("signalled")
    BY <1>3 DEF TimedOut, Inside, At
  <2>2. /\ MoveTo(t, "relock") /\ waiters' = waiters - 1 /\ wakeups' = wakeups - 0 /\ owed' = owed
        /\ UNCHANGED <<native, items, owner, waiting>>
        /\ blocked' = blocked \cup {t} /\ timed' = timed \ {t} /\ called' = called \ {t}
    BY <2>1 DEF EndWait, M!Block
  <2>3. /\ place' \in [Threads -> Places] /\ At("signalled")' = At("signalled") \ {t}
        /\ waiters' = Cardinality(Inside') /\ waiters' \in 0..Cardinality(Threads)
    BY <2>1, <2>2, LeftWait
  <2>4. At("signalled")' = At("signalled") /\ wakeups' = wakeups
    BY <1>0, <2>1, <2>2, <2>3
  <2> QED
    BY <1>0, <2>2, <2>3, <2>4 DEF CountsExact, WaitersExact, WakesAreServed
<1> QED
  BY <1>1, <1>2, <1>3

(* wakeOne() and wakeAll(): each wake-up that is counted finds somebody    *)
(* signalled, unless nobody is there to be woken.                          *)
LEMMA StepNotify == ASSUME CountsInv, NEW t \in Threads, Notify(t) PROVE CountsInv'
<1> USE DEF CountsInv, ConditionTypeOK
<1> DEFINE c == Cardinality(At("signalled"))
           r == Cardinality(Reachable)
<1>1. /\ UNCHANGED <<mutex, native, waiters, timed, items>>
      /\ Notified(t) \in {"done", "idle"} /\ place[t] = "notify"
  BY DEF Notify, WakeOne, WakeAll, Notified
<1>2. /\ c \in Nat /\ r \in Nat /\ c <= r /\ r <= waiters /\ owed <= wakeups /\ owed <= c
      /\ waiters <= Cardinality(Threads) /\ Cardinality(Threads) \in Nat /\ waiters \in Nat
      /\ owed \in Nat /\ wakeups \in Nat
  BY Counted, ThreadsAssumption, FS_CardinalityType DEF CountsExact, WaitersExact, WakesAreServed
<1>3. CASE WakeOne(t)
  <2>1. wakeups' = Least(wakeups + 1, waiters) /\ owed' = Least(owed + 1, r) /\ called' = called
    BY <1>3 DEF WakeOne
  <2>2. place' \in [Threads -> Places] /\ Inside' = Inside
        /\ owed' <= Cardinality(At("signalled")') /\ Cardinality(At("signalled")') \in Nat
    <3>1. CASE At("asleep") = {} /\ MoveTo(t, Notified(t))
      <4>1. place' \in [Threads -> Places] /\ Inside' = Inside /\ At("signalled")' = At("signalled")
        BY <1>1, <3>1, Apart DEF Places
      <4>2. Reachable = At("signalled")
        BY <3>1 DEF Reachable
      <4> QED
        BY <1>2, <2>1, <4>1, <4>2 DEF Least
    <3>2. ASSUME NEW s \in At("asleep"), place' = [place EXCEPT ![s] = "signalled", ![t] = Notified(t)]
          PROVE  /\ place' \in [Threads -> Places] /\ Inside' = Inside
                 /\ owed' <= Cardinality(At("signalled")') /\ Cardinality(At("signalled")') \in Nat
      <4>1. /\ place' \in [Threads -> Places] /\ Inside' = Inside
            /\ At("signalled")' = At("signalled") \cup {s} /\ s \notin At("signalled")
        BY <1>1, <3>2 DEF Places, Inside, At
      <4>2. Cardinality(At("signalled")') = c + 1
        BY <4>1, Counted, FS_AddElement
      <4> HIDE DEF c, r
      <4> QED
        BY <1>2, <2>1, <4>1, <4>2 DEF Least
    <3> QED
      BY <1>3, <3>1, <3>2 DEF WakeOne
  <2>3. /\ wakeups' \in 0..Cardinality(Threads) /\ owed' \in 0..Cardinality(Threads)
        /\ owed' <= wakeups'
    <3> HIDE DEF c, r
    <3> QED
      BY <1>2, <2>1 DEF Least
  <2> QED
    BY <1>1, <2>1, <2>2, <2>3 DEF mutex, CountsExact, WaitersExact, WakesAreServed
<1>4. CASE WakeAll(t)
  <2>1. wakeups' = waiters /\ owed' = r /\ called' = called \cup Reachable
    BY <1>4 DEF WakeAll
  <2>2. place' \in [Threads -> Places] /\ Inside' = Inside /\ At("signalled")' = Reachable
    BY <1>1, <1>4 DEF WakeAll, Places, Inside, At, Reachable
  <2>3. called' \subseteq Threads
    BY <2>1 DEF Reachable, At
  <2> QED
    BY <1>1, <1>2, <2>1, <2>2, <2>3 DEF mutex, CountsExact, WaitersExact, WakesAreServed
<1> QED
  BY <1>3, <1>4 DEF Notify

LEMMA StepCounts == CountsInv /\ [ConditionNext]_cvars => CountsInv'
<1>1. ASSUME CountsInv, ConditionNext PROVE CountsInv'
  BY <1>1, StepUsers, StepWait, StepSpurious, StepEnd, StepNotify DEF ConditionNext, Proceed
<1>2. ASSUME CountsInv, UNCHANGED cvars PROVE CountsInv'
  BY <1>2 DEF CountsInv, ConditionTypeOK, CountsExact, WaitersExact, WakesAreServed, Inside, At, cvars, mutex
<1> QED
  BY <1>1, <1>2

(* qwaitcondition_unix.cpp, waiters and wakeups: the fields keep to their  *)
(* types, and to what there can be of threads, in every behaviour.         *)
THEOREM ConditionTypeCorrect == ConditionSpec => []ConditionTypeOK
<1>1. CountsInv => ConditionTypeOK
  BY DEF CountsInv
<1> QED
  BY InitCounts, StepCounts, <1>1, PTL DEF ConditionSpec

(* wait(), wakeOne() and wakeAll(): waiters is the number of threads inside*)
(* wait(), and every wake-up that a thread is owed is in wakeups, with a   *)
(* thread that is awake to find it - whoever times out at that moment.     *)
THEOREM CountsExactHolds == ConditionSpec => []CountsExact
<1>1. CountsInv => CountsExact
  BY DEF CountsInv
<1> QED
  BY InitCounts, StepCounts, <1>1, PTL DEF ConditionSpec
===============================================================================
