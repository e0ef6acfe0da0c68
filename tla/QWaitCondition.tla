--------------------------- MODULE QWaitCondition ---------------------------
(***************************************************************************)
(* QWaitCondition on UNIX (src/corelib/thread/qwaitcondition_unix.cpp) and *)
(* the QMutex that goes with it, which is used by its contract MutexSpec.  *)
(*                                                                         *)
(* The condition has a native mutex and a native condition variable of its *)
(* own, and counts waiters and wake-ups to tell a wake-up from a spurious  *)
(* return. Its users are the producers and consumers that such a condition *)
(* is for: they change the number of items under the mutex, wait while it  *)
(* is zero, and wake when they have added one.                             *)
(***************************************************************************)
EXTENDS Naturals, FiniteSets, Callers

CONSTANTS MaxItems,          \* bound on the items that producers add
          Wakes              \* the calls producers make: "one", "all"

ASSUME ThreadsAssumption == IsFiniteSet(Threads)
ASSUME ItemsAssumption   == MaxItems \in Nat

VARIABLES owner, blocked, waiting,   \* the QMutex, see MutexSpec
          native,            \* holder of QWaitConditionPrivate::mutex across steps
          waiters, wakeups,  \* QWaitConditionPrivate::waiters, wakeups
          place,             \* where each thread is
          timed,             \* threads whose wait() has a deadline
          items,             \* what the users' condition is about
          owed,              \* history: wake-ups that have not ended a wait yet
          called             \* history: threads that a wakeAll() found waiting

mutex == <<owner, blocked, waiting>>
cvars == <<mutex, native, waiters, wakeups, place, timed, items, owed, called>>

M == INSTANCE MutexSpec

Places == {"idle",       \* outside
           "lock",       \* in lock(), also in that at the end of a wait() that is true
           "relock",     \* in the lock() at the end of a wait() that timed out
           "in",         \* owns the mutex
           "done",       \* owns the mutex; has produced or given up
           "notify",     \* has added an item, about to wake; may own the mutex
           "unlocking",  \* in wait(), counted, about to unlock the mutex
           "blocking",   \* about to give up the native mutex and to sleep
           "asleep",     \* in pthread_cond_wait() or pthread_cond_timedwait()
           "signalled",  \* woken, for a reason or none; needs the native mutex
           "timedout"}   \* ETIMEDOUT; needs the native mutex

At(l) == {t \in Threads : place[t] = l}
Inside == {t \in Threads : place[t] \in {"unlocking", "blocking", "asleep", "signalled", "timedout"}}
MoveTo(t, l) == place' = [place EXCEPT ![t] = l]
Least(m, n) == IF m < n THEN m ELSE n

ConditionInit ==
    /\ M!SpecInit
    /\ native = NoThread
    /\ waiters = 0 /\ wakeups = 0
    /\ place = [t \in Threads |-> "idle"]
    /\ timed = {}
    /\ items = 0
    /\ owed = 0 /\ called = {}

-----------------------------------------------------------------------------
(* The users.                                                              *)
Lock(t) == /\ place[t] = "idle"
           /\ M!Block(t) /\ MoveTo(t, "lock")
           /\ UNCHANGED <<native, waiters, wakeups, timed, items, owed, called>>

Enter(t) == /\ place[t] \in {"lock", "relock"}
            /\ M!AcquireBlocked(t) /\ MoveTo(t, IF place[t] = "lock" THEN "in" ELSE "done")
            /\ UNCHANGED <<native, waiters, wakeups, timed, items, owed, called>>

Consume(t) == /\ place[t] = "in" /\ items > 0
              /\ items' = items - 1
              /\ M!Release(t) /\ MoveTo(t, "idle")
              /\ UNCHANGED <<native, waiters, wakeups, timed, owed, called>>

Leave(t) == /\ place[t] = "done"
            /\ M!Release(t) /\ MoveTo(t, "idle")
            /\ UNCHANGED <<native, waiters, wakeups, timed, items, owed, called>>

(* Wakes under the mutex, or after unlocking it.                           *)
Produce(t) == /\ place[t] = "in" /\ items < MaxItems
              /\ items' = items + 1
              /\ M!Release(t) \/ UNCHANGED mutex
              /\ MoveTo(t, "notify")
              /\ UNCHANGED <<native, waiters, wakeups, timed, owed, called>>

-----------------------------------------------------------------------------
(* Mistake: the wait is not counted before the mutex is unlocked.          *)
WaitEnter_NoNative(t, deadline) ==
    /\ place[t] = "in" /\ items = 0 /\ native = NoThread
    /\ waiters' = waiters + 1
    /\ timed' = IF deadline THEN timed \cup {t} ELSE timed
    /\ MoveTo(t, "unlocking")
    /\ UNCHANGED <<mutex, native, wakeups, items, owed, called>>

(* wait(): takes the native mutex and keeps it until it sleeps.            *)
WaitEnter(t, deadline) ==
    /\ place[t] = "in" /\ items = 0 /\ native = NoThread
    /\ native' = t
    /\ waiters' = waiters + 1
    /\ timed' = IF deadline THEN timed \cup {t} ELSE timed
    /\ MoveTo(t, "unlocking")
    /\ UNCHANGED <<mutex, wakeups, items, owed, called>>

WaitUnlock(t) ==
    /\ place[t] = "unlocking"
    /\ M!Release(t)
    /\ MoveTo(t, "blocking")
    /\ UNCHANGED <<native, waiters, wakeups, timed, items, owed, called>>

CondWait(t) ==
    /\ place[t] = "blocking"
    /\ native' = NoThread
    /\ MoveTo(t, "asleep")
    /\ UNCHANGED <<mutex, waiters, wakeups, timed, items, owed, called>>

(* The native condition variable may return for no reason.                 *)
SpuriousReturn(t) ==
    /\ place[t] = "asleep"
    /\ MoveTo(t, "signalled")
    /\ UNCHANGED <<mutex, native, waiters, wakeups, timed, items, owed, called>>

CondTimeout(t) ==
    /\ place[t] = "asleep" /\ t \in timed
    /\ MoveTo(t, "timedout")
    /\ UNCHANGED <<mutex, native, waiters, wakeups, timed, items, owed, called>>

(* The end of QWaitConditionPrivate::wait(), then mutex->lock(): the count *)
(* of waiters goes down on every way out, that of wake-ups only with       *)
(* code == 0.                                                              *)
EndWait(t, taken, result) ==
    /\ waiters' = waiters - 1
    /\ wakeups' = wakeups - taken
    /\ M!Block(t) /\ MoveTo(t, IF result THEN "lock" ELSE "relock")
    /\ timed' = timed \ {t}
    /\ called' = called \ {t}
    /\ owed' = IF result /\ owed > 0 THEN owed - 1 ELSE owed
    /\ UNCHANGED <<native, items>>

(* Back from the native wait with code == 0. Without a wake-up in the      *)
(* count it was spurious, and the thread goes back to sleep.               *)
Woken(t) ==
    /\ place[t] = "signalled" /\ native = NoThread
    /\ IF wakeups = 0
       THEN /\ MoveTo(t, "asleep")
            /\ UNCHANGED <<mutex, native, waiters, wakeups, timed, items, owed, called>>
       ELSE EndWait(t, 1, TRUE)

(* Mistake: the wait that times out takes a wake-up with it.               *)
TimedOut_TakesWakeup(t) ==
    /\ place[t] = "timedout" /\ native = NoThread
    /\ EndWait(t, Least(wakeups, 1), FALSE)

(* Mistake: only a wake-up is counted out.                                 *)
TimedOut_StaysCounted(t) ==
    /\ place[t] = "timedout" /\ native = NoThread
    /\ M!Block(t) /\ MoveTo(t, "relock")
    /\ timed' = timed \ {t}
    /\ UNCHANGED <<native, waiters, wakeups, items, owed, called>>

TimedOut(t) ==
    /\ place[t] = "timedout" /\ native = NoThread
    /\ EndWait(t, 0, FALSE)

-----------------------------------------------------------------------------
(* After a producer has woken: back to the mutex it holds, or outside.     *)
Notified(t) == IF owner = t THEN "done" ELSE "idle"

Reachable == At("asleep") \cup At("signalled")

(* Mistake: counts one wake-up however many calls there are.               *)
WakeOne_Flag(t) ==
    /\ place[t] = "notify" /\ native = NoThread
    /\ wakeups' = Least(1, waiters)
    /\ owed' = Least(owed + 1, Cardinality(Reachable))
    /\ \/ At("asleep") = {} /\ MoveTo(t, Notified(t))
       \/ \E s \in At("asleep") : place' = [place EXCEPT ![s] = "signalled", ![t] = Notified(t)]
    /\ UNCHANGED <<mutex, native, waiters, timed, items, called>>

(* wakeOne(): pthread_cond_signal() unblocks one thread that is asleep.    *)
WakeOne(t) ==
    /\ place[t] = "notify" /\ native = NoThread
    /\ wakeups' = Least(wakeups + 1, waiters)
    /\ owed' = Least(owed + 1, Cardinality(Reachable))
    /\ \/ At("asleep") = {} /\ MoveTo(t, Notified(t))
       \/ \E s \in At("asleep") : place' = [place EXCEPT ![s] = "signalled", ![t] = Notified(t)]
    /\ UNCHANGED <<mutex, native, waiters, timed, items, called>>

WakeAll(t) ==
    /\ place[t] = "notify" /\ native = NoThread
    /\ wakeups' = waiters
    /\ owed' = Cardinality(Reachable)
    /\ called' = called \cup Reachable
    /\ place' = [s \in Threads |-> IF s = t THEN Notified(t)
                                ELSE IF place[s] = "asleep" THEN "signalled" ELSE place[s]]
    /\ UNCHANGED <<mutex, native, waiters, timed, items>>

Notify(t) == ("one" \in Wakes /\ WakeOne(t)) \/ ("all" \in Wakes /\ WakeAll(t))

-----------------------------------------------------------------------------
(* What a thread does unless it waits for something that need not happen.  *)
Proceed(t) == \/ Enter(t) \/ Consume(t) \/ Leave(t)
              \/ \E deadline \in BOOLEAN : WaitEnter(t, deadline)
              \/ WaitUnlock(t) \/ CondWait(t) \/ Woken(t) \/ TimedOut(t)
              \/ Notify(t)

ConditionNext == \E t \in Threads : \/ Lock(t) \/ Produce(t) \/ Proceed(t)
                                    \/ SpuriousReturn(t) \/ CondTimeout(t)

ConditionSpec == ConditionInit /\ [][ConditionNext]_cvars

(* Threads keep running, and the two mutexes let everybody in at some time:*)
(* strong fairness, since both are free again and again but not for long.  *)
(* Nobody has to come, to produce, or to return for no reason, and no      *)
(* deadline has to pass.                                                   *)
FairConditionSpec == ConditionSpec /\ \A t \in Threads : SF_cvars(Proceed(t))

-----------------------------------------------------------------------------
ConditionTypeOK ==
    /\ owner \in Threads \cup {NoThread}
    /\ blocked \subseteq Threads /\ waiting = {}
    /\ native \in Threads \cup {NoThread}
    /\ waiters \in 0..Cardinality(Threads)
    /\ wakeups \in 0..Cardinality(Threads)
    /\ place \in [Threads -> Places]
    /\ timed \subseteq Threads
    /\ items \in 0..MaxItems
    /\ owed \in 0..Cardinality(Threads)
    /\ called \subseteq Threads

(* The assertion "internal error (waiters)": the count is that of threads  *)
(* inside wait(), exact on both ways out of it. A thread is counted before *)
(* the mutex is free for those who are to wake it.                         *)
WaitersExact == waiters = Cardinality(Inside)

(* No wake-up is lost to a spurious return or to a deadline: as many       *)
(* threads as calls have been made for are awake, and find their wake-up   *)
(* in the count. A thread that times out at the moment of wakeOne() is     *)
(* counted but not signalled; it must leave the wake-up to others.         *)
WakesAreServed == owed <= wakeups /\ owed <= Cardinality(At("signalled"))

(* Both counts of the native condition variable are exact, however         *)
(* deadlines, spurious returns, wakeOne() and wakeAll() fall together.     *)
CountsExact == WaitersExact /\ WakesAreServed

(* What the condition is for: no consumer sleeps on while there are items. *)
(* Deadlines, spurious returns and consumers that barge in do not change   *)
(* that each item is followed by a wake-up that somebody acts upon.        *)
ItemsEndTheWait ==
    \A t \in Threads :
      (place[t] = "asleep" /\ items > 0) ~> (place[t] # "asleep" \/ items = 0)

(* "Wakes all threads waiting on the wait condition" (qwaitcondition.qdoc, *)
(* wakeAll): a thread that a wakeAll() found waiting does not sleep again  *)
(* in the same wait().                                                     *)
WakeAllWakesAll == called \cap At("asleep") = {}
=============================================================================
