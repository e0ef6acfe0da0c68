# Qt Base: a verification project for the core of QtCore

This directory holds TLA+ models of the parts of Qt Base in which threads meet: both mutexes, the
semaphore, the read-write lock, the wait condition, the thread pool, futures and their continuations,
the posted events and event loops of a thread, and objects that move between threads. Each module is
translated from the source under `src/src/corelib/` and says at each definition which code it stands
for; `PROJECT.json` maps every definition to its lines. TLC checks the modules on small instances, TLAPS
proves theorems about both mutexes, the semaphore, the wait condition, the read-write lock, the thread pool,
futures, the events of a thread and objects that move, for instances of any size.

## 1. The system: components, state, operations

Qt Base is a large library. Most of it (strings, containers, serialisation, painting, widgets) is
sequential and data-centric. What is hard to get right, and nearly impossible to test, is the layer on
which everything else relies:

| component | state | operations | interacts with |
|---|---|---|---|
| `QBasicMutex`, `QMutex` (`qmutex.h`, `qmutex.cpp`, `qfutex_p.h`) | one pointer-sized word: 0 free, 1 locked, 3 locked with possible sleepers; the kernel's queue | `lock`, `tryLock`, `tryLock(deadline)`, `unlock` | the futex system call; used by everything below |
| `QMutexPrivate` (`qmutex.cpp`, second half; `qmutex_p.h`, `qmutex_unix.cpp`) | on platforms without futexes: the word points to a private with counts of references and waiters, a flag and a native semaphore; a free list that all mutexes share | the same four | `QFreeList`, the native semaphore |
| `QSemaphore` (`qsemaphore.cpp`) | one word: tokens, tokens + waiters, a wake-all flag | `acquire`, `tryAcquire`, `tryAcquire(deadline)`, `release` | futex, on either half of the word |
| `QWaitCondition` (`qwaitcondition_unix.cpp`) | a native mutex and condition variable; `waiters`, `wakeups` | `wait`, `wakeOne`, `wakeAll` | the user's `QMutex` |
| `QReadWriteLock` (`qreadwritelock.cpp`, `_p.h`) | `d_ptr`: free, readers, writer, or a pointer to a private with counters and condition variables; the free list of privates, which all locks share | `lockForRead`, `lockForWrite`, their `tryLock` forms, `unlock` | mutex and condition variables of the private |
| `QThreadPool` (`qthreadpool.cpp`, `_p.h`) | pages of runnables by priority; all, waiting and expired threads; limits; `activeThreads` | `start`, `tryStart`, `startOnReservedThread`, `tryTake`, `clear`, `setMaxThreadCount`, `reserveThread`, `releaseThread`, `waitForDone`, and each worker's `run` | `QThread`, `QWaitCondition`, the callers' runnables |
| `QFutureInterface`, `QPromise`, `QFutureWatcher` (`qfutureinterface.cpp`, `qpromise.h`, `qfuture_impl.h`, `qfuturewatcher.cpp`) | a set of state flags, the results, the connected watchers, the continuation; per watcher the pending result events | `start`, `addResult`, `setException`, `finish`, `~QPromise`, `cancel`, `setSuspended`, `suspendIfRequested`, `waitForResult`, `waitForFinished`, `then`, `setFuture` | two condition variables; posts events to the thread of the watcher |
| posted events (`qcoreapplication.cpp`, `qthread.cpp`, `qthread_p.h`) | per thread a list of events with nulled entries, `startOffset`, `insertionOffset`, `recursion`, `canWait`; per object a count | `postEvent`, `sendPostedEvents`, `removePostedEvents`, `deleteLater` | called from every thread; wakes the dispatcher |
| `QObject::moveToThread` (`qobject.cpp`) | `threadData` of the object; the lists of both threads, under both mutexes | `moveToThread` against the calls that follow an object | posted events, both dispatchers |
| `QEventLoop`, UNIX dispatcher (`qeventloop.cpp`, `qeventdispatcher_unix.cpp`) | stack of loops, `exit` flags, `interrupt`, `wakeUps` and the eventfd | `exec`, `exit`, `processEvents`, `wakeUp`, `interrupt` | sends the posted events, then sleeps in `poll` |
| `QThread`, `QRecursiveMutex`, recursive `QReadWriteLock`, Qt Concurrent, signals and slots | thread life cycle; owner and count; connection lists | | not modelled, see sections 6 and 7 |

What the hard behaviours are, and what makes each component correct:

- **Mutex.** A waiter's exchange, a compare-and-swap of the fast path and an unlock interleave freely,
  sleepers time out, and the word is left at 3 by threads that are gone. Correct: at most one owner; the
  word is free exactly when nobody owns; no sleeper without a mark in the word or a thread on its way to
  wake it; the assertions of `unlockInternal()`.
- **Mutex without futexes.** A thread that loads the pointer to a private references it only later, when
  the private may be free or serve another mutex; a waiter that times out leaves a reference and a flag behind for
  the unlock to find. Correct: the same contract; references, waiters and tokens are those of the threads
  that are there; privates in the free list are clean; a free mutex with waiters has a thread that wakes one.
- **Semaphore.** The word is read, then changed, then waited on, in separate steps. Correct: the waiter
  count is exact on every way out; a sleeper that the tokens suffice for does not sleep on; a call with
  a deadline returns.
- **Wait condition.** `wakeups` says that somebody was woken, not who; waits time out or return for no
  reason while a wake-up has been counted for them. Correct: both counts are exact, no wake-up is lost to
  a deadline, and a consumer does not sleep on while there is an item.
- **Read-write lock.** A pointer is loaded and locked later, when the object may be free or serve
  another lock. Correct: writers exclude; counters are the threads that hold and wait; privates in the
  free list are clean; readers only sleep behind writers, also when the writers time out; no reader
  passes a waiting writer; a free lock is taken.
- **Thread pool.** Work is handed to sleeping threads through the queue, threads expire while they are
  being woken, and `waitForDone()` gives up the mutex while it joins. Correct: each runnable is in one
  place; the two counts of busy threads agree; the limits are respected, and used; everything accepted
  is run or taken back; `waitForDone()` returns.
- **Futures.** Cancellation, suspension, exceptions, the end, `then()` and a new watcher come at any
  moment, from any thread; the continuation has a mutex of its own, and the watcher is told partly by
  call-outs and partly by a list made under the lock and posted after it. Correct: nobody sleeps on a condition
  that holds; an attached watcher misses nothing, and while it is attached the computation is not throttled for good; one of
  two threads runs the continuation; the end is final.
- **Posted events and event loops.** Handlers run with the list unlocked and may post, remove, send
  again and enter nested loops, all of which move the offsets of the outer rounds; other threads post
  and call `exit()` at any moment. Correct: no loop blocks while something can be delivered; nothing is
  delivered twice, or to a deleted object; `exit()` ends `exec()`.
- **Moving objects.** A poster loads `threadData`, locks that list, and looks again; the mover holds both
  mutexes in the order of their addresses. Correct: events are where their receiver lives, once and in order; no
  thread sleeps on events that were moved to it; every call returns.

## 2. Modules

Each module models one component. `INSTANCE` is used where one module implements another, or uses it
by its contract.

| module | code | state, and how it corresponds | actions |
|---|---|---|---|
| `Callers` | | the set of threads, shared by the mutex and the wait condition, and what stands for nobody | (constants only) |
| `MutexSpec` | what `QMutex` promises its callers | `owner`; the threads `blocked` in `lock()` and `waiting` in a timed `tryLock()` | `AcquireNow`, `Block`, `AcquireBlocked`, `GiveUp`, `Release` |
| `QBasicMutex` | the futex build of `qmutex.h`, `qmutex.cpp:605-700, 817-830` | `word` is `d_ptr` (0, 1, 3); `pc` is the place of a thread in `lockInternal()` and `unlockInternal()`; `sleepers` is the queue of the kernel | one per atomic operation, system call, and return from one |
| `QBasicMutexProofs` | | the inductive invariant, the theorems and the refinement of `MutexSpec`; then those of `QWaitCondition`, the client of that contract | |
| `QMutexPrivate` | the build without futexes: `qmutex.cpp:709-853, 878-911`, `qmutex_p.h`, `qmutex_unix.cpp` | `dptr` of every mutex; `refCount`, `waiters`, `possiblyUnlocked` and the `tokens` of the semaphore of every private; `call` holds the local variables of each thread. A private with no reference is in the free list | one per atomic operation and system call |
| `QMutexPrivateProofs` | | the inductive invariant, the theorems and the refinement for this mutex | |
| `QSemaphore` | `qsemaphore.cpp`, both layouts of the word | `u` is the word: low half, high half, wake-all flag, and whether it has a waiter count at all; `cur`, `remaining` are the local variables of `futexSemaphoreTryAcquire_loop()` | one per atomic operation and system call; `FutexWake` is the FUTEX_WAKE_OP of `release()` |
| `QSemaphoreProofs` | | its inductive invariant and the theorems | |
| `QWaitCondition` | `qwaitcondition_unix.cpp` | `waiters`, `wakeups` and the holder of the `native` mutex; the `QMutex` is the variables of an instance of `MutexSpec`; `items` is the condition its users wait for | one per section under the native mutex, one per system call |
| `RWLockSpec` | what `QReadWriteLock` promises its callers | `readers` and `writers` hold it; `reading` and `writing` are inside a call, the `patient` ones without a deadline; readers respect the `queued` writers | `Begin`, `LockForRead`, `LockForWrite`, `Queue`, `GiveUp`, `Unlock` |
| `QReadWriteLock` | the non-recursive lock | `dptr` of every lock; `priv`, the counters of every private; `free`, the free list; `seen` and `d`, what a thread holds on to between its steps | one per compare-and-swap, and one per section under the mutex of a private |
| `QReadWriteLockProofs` | | the same for the read-write lock, with an action property and the refinement of `RWLockSpec` | |
| `QThreadPool` | `qthreadpool.cpp`, `qthreadpool_p.h` | the fields of `QThreadPoolPrivate`; where each worker and each client is; `starting`, that somebody is in the loop of `tryToStartMoreThreads()` with the mutex | one per section under the pool's mutex, one per thing that happens to a thread outside of it |
| `QThreadPoolProofs` | | lemmas on lists, pages and their effects, three inductive invariants, the theorems | |
| `QFutureInterface` | `qfutureinterface.cpp`, `qpromise.h`, `qfuture_impl.h`, `qfuturewatcher.cpp` | `state` is the set of flags; `results`, `continuation`, `cleaned` are fields of the shared state; `promise`, `wait`, `attach`, `watch` tell where the owner of the promise, the waiters, the thread in `then()` and the watcher are; `queue` and `pending` belong to the watcher, which comes, is set to another future (`leaving`, `none`), comes again, or is destroyed (`gone`); `told` and `runs` are history | one per section under `m_mutex` or `continuationMutex`, one per step after an unlock |
| `QFutureInterfaceProofs` | | its inductive invariant and the theorems | |
| `PostEventList` | `QPostEventList` | a list is a sequence of entries with the two offsets | (operators only) |
| `QEventLoop` | posting, sending, removing; loops; the UNIX dispatcher | `stack` is the call stack of the thread: loops, rounds of `processEvents()`, walks of `sendPostedEvents()`, handlers. `loopLevel`, `scopeLevel` and `recursion` are numbers of frames in it. `list`, `canWait`, `postedEvents`, `exit`, `interrupt`, `wakeUps` are the fields of these names; `pipe` says that the eventfd is readable | one per iteration of the loop over the list, one per step of a round between two reads of shared state, one per call that user code makes |
| `QEventLoopProofs` | | lemmas on the list and its operations, on counting entries and on the stack; its inductive invariants and the theorems | |
| `MoveToThread` | `QObject::moveToThread()`, `lockThreadPostEventList()`, and posting, removing and sending in two threads | `home` is `threadData`; per thread `list`, the holder of its `mutex`, `canWait`, `wakeUp`; `call` holds the local variables | one per mutex taken, one per section under it, one per event that `setThreadData_helper()` moves, one per delivery |
| `MoveToThreadProofs` | | lemmas on the list with numbered events; its inductive invariant and the theorems | |

How they compose:

- `QEventLoop` and `MoveToThread` EXTEND `PostEventList`: the same list once under every nesting in one
  thread, once in several threads without nesting.
- `QWaitCondition` INSTANCEs `MutexSpec` and takes its actions as conjuncts: the mutex goes as the wait
  condition goes. Its own definitions have names of their own (`place`, `ConditionInit`, `ConditionNext`, ...), so that `QBasicMutexProofs` can EXTEND
  both the mutex and its client. `QBasicMutex` and `QMutexPrivate` INSTANCE it WITH a refinement mapping and are shown to implement it, the latter once for each mutex of the
  instance, though all of them share their privates. So is `QReadWriteLock` with `RWLockSpec`, once for each lock.
- The pool, the lock, futures and the event loop use mutexes and condition variables by the same
  contract without an instance, since an action under a mutex is atomic for everybody who takes that mutex.
- `MCQMutexPrivate`, `MCQSemaphore` and `MCQThreadPool` only add what a configuration cannot say: the
  symmetry of threads, locks and privates, and a negative priority.

Definitions named `X_Something`, with a comment that begins with "Mistake", are slips that a
programmer could make in `X`. No specification uses them. Each property is checked to fail when the
mistake takes the place of `X`, which shows that the property sees this code and is not true of any
program.

### Abstractions

- **Atomicity.** A step is one atomic operation on shared memory, one system call, or one section under
  the mutex that protects what it touches. A load that a successful compare-and-swap confirms is one
  step with it. Loads that are acted upon later are steps of their own, with the value kept in a
  variable (`cur`, `seen`, `d`, `waits`, `call`, `snapshot`).
- **Memory order.** Memory is sequentially consistent. The acquire and release annotations themselves
  are not modelled.
- **Time.** A deadline passes at any moment (`Expire`, `Remaining`, `WaitTimeout`, `ExpiryTimeout`,
  `SemTimeout`, `CondTimeout`).
- **The kernel.** FUTEX_WAIT compares and queues in one step, FUTEX_WAKE takes any sleepers up to its
  number, waits return spuriously. Condition variables do, too; a native semaphore is a counter.
- **Data.** Events, receivers, runnables, results and threads are model values or numbers. Of an event the
  model keeps whether it is a DeferredDelete, its priority and its level.
- **User code.** A handler makes any sequence of the calls listed in `Calls`, nested as deep as
  `MaxDepth` allows, and returns. The same goes for the code that runs below all loops, for the owner of a promise
  and for whoever holds its future. The users of the wait condition are producers and consumers.
- **sendPostedEvents()** increments `recursion` before it takes the mutex, so that another thread's
  `removePostedEvents()` may already see the walk; `RemovePostedEvents` of `QEventLoop` and `RemovePosted` of `MoveToThread` (by `Recursion`)
  have both outcomes.
- **The other future of a watcher** is not there: of what `setFuture()` does to it, the model keeps that up to `Strays` of its results may be
  counted between the reset of `pendingResultsReady` and the disconnection (`ConnectOutputInterface`).
- **Callers of setException()** obey its documentation ("must not be used after `QFuture::cancel()` or `finish()`"): that is the guard of
  `SetException`. The code does not check it (`qfutureinterface.h:272-287` clears the results whatever the state), so `FinishedIsFinal` is
  a property of the future and of callers that respect this.

## 3. Runs

| run | question | size |
|---|---|---|
| `mutex` | ownership, sleepers, the refinement of `MutexSpec` and the progress of sleepers with all three kinds of calls, time-outs and spurious wake-ups | 4 threads |
| `mutexprivate` | ownership, references and counts, wake-ups and the refinement of `MutexSpec` while the mutexes pass their privates to each other | 3 threads, 2 mutexes, 2 privates |
| `waitcondition` | are both counts exact with deadlines and spurious returns, and does an item always end the wait of a consumer? | 3 threads, 2 items, `wakeOne` and `wakeAll` |
| `semaphore` | is the waiter count exact on every way out, the wake-all flag set while somebody depends on it, and does a sleeper get an available token? | 3 threads, requests of 1 and 2, both layouts |
| `rwlock` | exclusion, counters, re-use of privates, wake-ups across time-outs, the refinement of `RWLockSpec` (with writer preference), progress | 3 threads, 2 locks, 2 privates |
| `pool` | nothing lost or run twice, counts, limits, the lists, progress of runnables and of `waitForDone()` | 3 workers, 3 runnables, limits 0 to 2, 1 client |
| `future` | sleepers, the watcher, throttling, the continuation, the end, under cancel, suspend and resume at any moment | 2 waiters and `then()`, or a watcher that comes and goes; 2 results, 2 requests, throttling at 2, 1 stray result |
| `events` | the list under all nestings, the pipe, sleeping, deletion, delivery | 2 events, 2 receivers, 1 loop, 1 other thread, calls nest while the stack is lower than 5 |
| `movetothread` | do events follow their objects, wake their thread, and do calls with two locks return? | 2 threads, 2 objects, 2 events, 2 moves |
| `semaphore_lostwake`, `pool_lost`, `future_then` | statements of the documentation that the code does not keep, see section 4 | the smallest instances that show it |

Properties with a wide name are conjunctions of parts that each have a comment of their own: `OwnerIsExact` (mutual
exclusion, the word, the assertions), `PrivatesAccounted`, `WordIsExact`, `CountsExact`, `LockAccounted`,
`Bookkeeping`, `WatcherKeepsUp`, `ListIsSound`, `WakeUpsArrive`, `EverythingEnds`.

Why these bounds are enough for the interesting cases:

- **mutex.** An owner, a sleeper, a waiter that times out and a thread that barges in are four; a fifth
  repeats one of those roles. The proofs hold for any number.
- **mutexprivate.** A private is taken from one mutex to the other while a third thread holds the pointer that it
  loaded: three threads, two mutexes, two privates. Allocation waits when both are in use; the code has more than there
  can be threads. `BigNumber` (0x100000 in the code) only has to exceed the number of threads.
- **waitcondition.** One thread that times out, one that returns for no reason, and one that wakes.
- **semaphore.** Two waiters of different kinds and a releaser; `MaxTokens` allows a token to be taken
  while another waiter is counted. `MaxCount` stands for 2^31-1 and is not reached in the runs.
- **rwlock.** Two locks and two privates are the least for a private to be released by one lock and
  installed in the other while a third thread holds the stale pointer. When both privates are in use, a
  thread that needs a third one waits in the model; the code allocates one. Deadlines that have
  passed from the start are the case `Expire` at once.
- **pool.** `PageSize` is 2 (256 in the code), so that three runnables fill a page and open the next.
  Three workers allow one that waits, one that expires and one that runs. `Reserves` bounds
  `reserveThread()`; `MaxCounts` includes 0, for which `maxThreadCount()` is 1.
- **future.** Throttling begins at two pending results (`Limit`; twice the number of processors in the
  code). With one left over from the former future (`Strays`) the second of two results throttles, and with none a future that was throttled when
  the watcher left is there when it comes back. `Strays` is less than `Limit`, without which the property does not hold (section 4); the
  theorem has it as its assumption and needs no other bound. The watcher does not touch what waiters and
  `then()` touch, so `Meetings` checks them apart. `CHECK_DEADLOCK FALSE`: a future may be left alone by everybody.
- **events.** With two events there can be a walk in the handler of an event of an outer walk, a nested
  loop in it, and an event that is posted, removed, or posted again under both. `MaxDepth` = 5 lets a
  handler in a loop (loop, round, walk, handler) call a nested loop or round, whose walk calls a
  handler in turn. Posted events have priority 1 and DeferredDelete 0, so that they overtake each other in the list.
- **movetothread.** Two threads that move two objects to each other are what a deadlock of two locks takes;
  two events tell order. With two moves an object returns while a poster still holds its first
  address. `CHECK_DEADLOCK FALSE`: threads that have nothing to deliver sleep for good.

### Fairness

- **mutex, rwlock.** A thread inside a call keeps running: weak fairness of its own steps
  (`Internal`). Nobody is obliged to unlock or to call.
- **waitcondition.** Strong fairness of `Proceed`, one action per thread: both mutexes are free again and again, but not
  for long, and are assumed to let everybody in at some time. Nobody has to produce, and no deadline has to pass.
- **pool.** Runnables return, worker threads and clients inside `waitForDone()`, `clear()` keep running, the
  loop that starts more threads goes on. `Work` and `Wait` are fair as one action per thread, never a branch of it.
- **events.** The thread runs on while it is inside Qt. A handler returns: strong fairness, because its
  calls into Qt push other frames over it, so that its return is enabled again and again but not
  all the time. Other threads finish their `wakeUp()`. Nobody has to post, to call `exit()`, or to
  enter a loop.
- **movetothread.** Strong fairness of the steps inside a call (`InCall`), for the same reason as in the wait condition. That a
  thread which follows an object gets its lock in the end (`CallsReturn`) also rests on `MaxMoves`: an object that is moved to and fro for ever can be chased
  for ever, in the code too. That two movers do not deadlock does not depend on that bound.
- **mutexprivate, semaphore, future** check safety only; there, that no wake-up is lost is an invariant about who is
  there to serve the sleepers.

## 4. Where the code and its documentation disagree

Three have a run that shows them; `PROJECT.json` quotes the lines.

1. **A multi-token `acquire()` sleeps on available tokens** (`semaphore_lostwake`, `qsemaphore.cpp:233`).
   The value that FUTEX_WAIT compares was computed from an older load. If in between a waiter leaves
   and as many tokens come in, the high half is the same sum of different parts.
2. **A runnable with a negative priority is lost** (`pool_lost`, `qthreadpool.cpp:220`), when it is passed
   to a waiting thread through a new page of priority 0 and the wrong page is then removed.
3. **A continuation runs twice** (`future_then`, `qfutureinterface.cpp:907`). The promise is marked as
   finished first and looks for a continuation later; `then()` in between runs the function and stores it where it is found.

Further counterexamples, each with a configuration or a definition to show it by hand
(`tlc -config QThreadPool_waiters.cfg QThreadPool`, and so on):

- A timed `tryAcquire()` may wait without its time-out, when the deadline passes between two reads of the
  clock (`QSemaphore_deadline.cfg`, `TimedCallsReturn`, `qsemaphore.cpp:169`).
- One of two threads in `waitForDone()` may never return (`QThreadPool_waiters.cfg`, `ClientsReturn`, `qthreadpool.cpp:290`).
- `exit()` followed by `processEvents()` in a handler does not end `exec()` until something else happens: the nested round consumes both the
  interrupt flag and the wake-up (`QEventLoop_exit.cfg`, `ExitEndsExec`, `qeventdispatcher_unix.cpp:426`).
- `deleteLater()` followed by `processEvents()` in a handler: the deletion is posted again without a wake-up and waits for
  the next unrelated event (`QEventLoop_delete.cfg`, `DeferredDeletesHappen`, `qcoreapplication.cpp:1876`).
- A thread in `waitForResult()` on a pending future sleeps on when the promise is destroyed: `cancelAndFinish()` removes Running,
  but not Pending (`QFutureInterface_waits.cfg`, `FinishEndsWaits`; `qpromise.h` says "cancel potential waits").
- A watcher that leaves may leave the computation throttled for good, also when it is destroyed: `callOutInterfaceDisconnected()` removes the result events,
  whose delivery would have called `setThrottled(false)`, and nothing else clears Throttled. `setPendingResultsLimit()` says that "the computation will resume
  once the number of pending signals drops below the limit" (`QFutureInterface_detached.cfg`, `ThrottleEnds`, `qfuturewatcher.cpp:479`).
- A watcher that is set to another future may keep that one throttled: `disconnectOutputInterface(true)` resets `pendingResultsReady` before the former
  future is disconnected, so that what that one reports in between stays in the count. With at least as many such results as the limit, the
  last delivery finds the count above it (`QFutureInterface_stale.cfg`, `WatcherKeepsUp`, `qfuturewatcher.cpp:461`).
- `wakeAll()` need not wake all who wait: a thread that has begun to wait since, and returns for no reason, takes the wake-up of one of
  them, which sleeps on (`QWaitCondition_all.cfg`, `WakeAllWakesAll`). Loops around `wait()` hide it.
- Without futexes, `tryLock()` fails on a mutex that nobody owns, from a waiter's time-out until the next `lock()` or `unlock()`
  (`QuietTryLockSucceeds`, `qmutex.cpp:797`), and a private that was flagged after the last user had left
  does not return to the free list (`NoPrivateIsLost`, `qmutex.cpp:839`).

Seen while modelling, without a property: `connectOutputInterface()` posts its list after the unlock, so that a call-out may
overtake an earlier event of it; a suspension requested before `start()` is overwritten by `setState()`; `setSuspended(true)` on
a suspended future leaves Suspending and Suspended set both; `setException()` clears the results without `m_mutex`; wake-ups
counted for threads that time out stay in `wakeups` until another waiter takes them.

## 5. Proofs

`QBasicMutexProofs` proves about `QBasicMutex`, for every set of threads:

- `MutexInvariant`, and from it `TypeCorrect`, `MutualExclusionHolds`, `WordMatchesOwnerHolds`,
  `UnlockAssertsHolds`, `OwnerIsExactHolds`, `SleepersAreMarkedHolds`: the invariants of the run `mutex`.
- `Refinement`: every behaviour of the futex protocol is one of `MutexSpec`. The owner is the thread
  that is past the swap which found 0 and before the store of 0; the blocked threads are those
  inside `lockInternal()`.

The only assumption is that `NoThread` is no thread. The inductive invariant `IInv` is the conjunction of
the invariants and `KindFitsPlace`. None of them is inductive alone: exclusion needs to know that
the word tells whether there is an owner; that needs to know that the slow unlock meets a marked word,
because its plain store would otherwise free the mutex of somebody else; and a waiter that times out is
harmless only because it never touches the word. `KindFitsPlace` says that a `tryLock()` never
gets into `lockInternal()`, which the mapping of blocked threads depends on. The proof of `StepIInv` has
one step per action. The refinement proof goes through `OwnerFacts`, which replace the CHOOSE in
the definition of the owner by what it means for a holder.

`QMutexPrivateProofs` proves about `QMutexPrivate`, for any finite set of threads, any mutexes and any privates:

- `TypeCorrect`, `PrivatesAccountedHolds`, `WaitersAreServedHolds`: the invariants of the run `mutexprivate`, of which the
  middle one says that references, waiters and tokens are those of the threads that are there and that nobody uses a private that was given back.
- `Refinement`: each of the mutexes implements `MutexSpec`, though they pass their privates to each other.

It assumes that `BigNumber` exceeds the number of threads and that neither marked word is the address of a private. The invariant
`IInv` (`PrivatesInvariant`) has thirteen parts, none inductive alone. The circle goes through all of them: the counts are exact because it is
known which thread refers to which private (`RefsFit`, `WaitersFit`); a private stays with its mutex because a thread that has looked again
still counts (`PrivateStays`), or because it is not installed yet (`PendingIsOwn`); the word of a mutex stands for its owner
(`WordStands`, `Exclusive`) because a waiter that wakes finds itself at the mutex it waited for. The hard corner is an unlock that has subtracted
`BigNumber`: it must be alone at its private (`EndingIsAlone`, `MarkFits`) while late waiters undo their count or take the mutex over
(`TakeoverMeetsUnlock`), and a token that it leaves must find somebody, or the flag, that keeps the private alive
(`TokenIsKept`). The counts are kept per private, so that a step of one thread changes one number by one (`CardinalityStep`).

`QReadWriteLockProofs` proves about `QReadWriteLock`, for any finite set of threads, any locks and any privates:

- `TypeCorrect`, `LockAccountedHolds` (writers exclude, the word and the counters are those who hold and wait, free privates are clean),
  `SleepersHaveWakerHolds` (a contended lock that nobody holds has a waiter that is up, across time-outs).
- `NoReaderPassesAWriterHolds`, writer preference as an action property of every step of every reader; the run checks it as a
  part of the refinement.
- `Refinement`: each lock implements `RWLockSpec`, though the locks share their privates. A call gets in only when the lock is free
  for it, and fails only at a moment when it is not, after its deadline.

`LockInvariant` adds to what the run checks that a waiter's private stays installed in the lock it waits for (`WaitersPoint`), that a
private on its way into `d_ptr` belongs to one thread and is as it was prepared (`PreparedIsOwn`), and the place of every thread (`PlacesFit`).
`SleepersHaveWaker` is not inductive on top of that: `SInv` asks for a waiter that is up *and* of the kind that may take the lock, and that readers sleep only
behind a writer; else a reader that is up could meet waiting writers and sleep again.
The refinement needs no invariant beyond `LockInvariant`. What a thread is to a lock is one of six words (`Role`), `Moves` says how a step may change it, and `RoleStep` shows
once that such a change is a step of the abstract lock or none. Left is that the code decides by the truth: that the word, where there is no private (`WordIsTrue`),
and the counters, where there is one (`BlockedIsTrue`), tell whether the lock is free for the call.

`QThreadPoolProofs` proves about `QThreadPool`, for any finite set of workers, any runnables, clients, limits, reserves and any size of a page:

- `ListsAndCountsHold` and `LimitRespectedHolds` (an action property: no worker takes on a runnable beyond the limit, reserved threads counted, unless it is the only one that works), for any priorities;
- `TypeCorrect`, `BookkeepingHolds`, `EveryTaskInOnePlaceHolds`, `QueuedOnlyWhenBusyHolds`, for priorities that are not negative. Their assumption
  is needed: `pool_lost` is the counterexample without it.

`ThreadsInvariant` has the lists and counts of threads, `TasksInvariant` the queue and who runs what. Both are shown step by step
from a description of what each step of the code may change (`Moves` for threads, `QueueStep`, `JobStep`, `IdleStep` for runnables; `Turns` for
the history of one), so that each action is looked at once. Pages are a sequence of sequences; the lemmas on them (`PageFacts`, `MinOfPositions`, `InsertAtForm` and
others) show that inserting by priority, popping and taking out keep every runnable in one place. `QueuedOnlyWhenBusy` needs
a third invariant, `ServedInv`, the same statement over what is in the pages: with fewer threads busy than may be, no more runnables are queued than threads are on their
way to the queue, unless the loop that starts more threads is running.

`QSemaphoreProofs` proves about `QSemaphore`, in both layouts, `TypeCorrect` and `WordIsExactHolds`: the waiter count is exact on every
way out of the wait, and whoever sleeps for the wake-all flag finds it set, or a release on its way. It assumes finitely many threads and a word
with room for all tokens and one waiter per thread (`RoomAssumption`); a full count is the hazard that section 6 leaves out. The
inductive invariant adds a bound of the tokens and `AboutToSleep`: a thread about to wait has the flag in the value that it will wait for, so that the
kernel does not let it sleep once a release has cleared the flag. The two parts of `WordIsExact` need each other: FUTEX_WAKE_OP
wakes those that depend on the flag only if the high half is not zero, which holds because they are counted in it.

`TokensReachSleepersHolds` is the absence of lost wake-ups for those who sleep on the low half: tokens that a sleeper could take are at most
the threads that are awake to look at them, plus the wake-ups that are due. The induction (`WakeUpsInvariant`) follows that sum: a token
taken takes its thread from those awake, a time-out leaves with nothing, a release adds to both sides, FUTEX_WAKE turns wake-ups
due into threads awake or has no sleeper left. It needs two facts besides: a thread that goes to sleep has seen fewer tokens than
it wants (`CurIsShort`), and who is about to wake has tokens to wake for (`WakeIsReal`).

The second part of `QBasicMutexProofs` proves about `QWaitCondition`, for any finite set of threads and any `MaxItems`, `ConditionTypeCorrect` and
`CountsExactHolds`. The two are inductive together. The argument counts who is inside `wait()` and who is signalled before and after each step: a thread
that returns with a wake-up takes one from `wakeups`, from what is owed, and from those signalled; one whose time is up takes none of them. Only this part
cites the assumptions of `QWaitCondition` (finitely many threads); those about the mutex hold for any set of threads.

`QFutureInterfaceProofs` proves about `QFutureInterface`, for any waiters, results, requests and any throttling limit of 1 or more (the fourth
for a limit above `Strays`, without which section 4 has the counterexample):

- `NobodySleepsInVainHolds`: the wake-ups of cancel, exceptions, results and the end match the conditions of both kinds of sleepers.
- `ContinuationNotLostHolds`: a continuation attached while the promise is being finished is run by one of the two threads.
- `FinishedIsFinalHolds`, an action property.
- `WatcherKeepsUpHolds`: a watcher is told once of the start, each result, the cancellation and the end, each time that it is attached, and while it is
  attached what throttles the computation is lifted.
- `TypeCorrect`, with the bounds of the pending results and of the runs of the continuation.

`FutureInvariant` has the types of what the first three depend on, `EndIsMarked` (a finished future does not run; every place behind `finish()` is one of a
finished future; no exception is about to be reported to one) and `ContinuationHeld`: a continuation that has been attached is with the shared state, with the thread that took it, or has
been run. Without the former a waiter for a result could sleep at a finished future, as waiters look at Running and
not at Finished; without the latter it would be open who has the function between the two mutexes.
Each lemma `Step...` has one step per group of actions of one thread.

`WatcherInvariant` adds the watcher. What it has been told of plus what stands in the list made under the lock (`Sent`) is what has happened, for results as numbers
(`ResultsSent`) and for the flags as one or none (`MarksSent`); `pending` is the number of result events in the queue, and at most `Strays` more, until
a cancellation or until the watcher leaves (`PendingFits`); a throttled computation has a result event that is queued or still in that list, or a delivery on its way to lift it (`Throttling`):
the last delivery finds a count of at most `Strays` + 1. A watcher that comes back to a future it left throttled is sent its results again, of which there
are some (`ThrottledHasResults`). An exception clears the
results before it cancels, which is why these except that moment. Events are counted as the cardinality of their places in a list; `CountConcat` and
`CountHead` do the arithmetic of appending and delivering.

`QEventLoopProofs` proves about `QEventLoop`, for any finite set of events, any receivers, other threads, loops and priorities, and any depth of
nested calls:

- `ListIsSoundHolds`: the counts of the receivers are exact, every posted event is in the list once, nothing is posted to a deleted object, and the offsets fit the list.
- `WakeUpsArriveHolds`: no thread sleeps on a posted event, and the pipe agrees with `wakeUps`.
- `DeletedAfterReturnHolds`, an action property: no DeferredDelete is delivered before the handler that posted it has returned, unless it is asked for.
- `TypeCorrect`.

`ListInvariant` holds what a handler may do to the walks below it. The stack has the shape that the code gives it (`Nested`); the list is sorted
behind `insertionOffset`, null before `startOffset`, and has each event once (`SoundList`); counts and fates agree with the entries that are not null (`Books`); and
`startOffset` is only more than 0 while a walk over everything is on the stack (`StartIsWalked`): only then does a removal, which would otherwise move the entries, leave them in
place. Entries are compared as the set of those that are not null, so that nulling, inserting and erasing each
change that set by what they take out or put in (`PlacesInOrder` and the lemmas behind it do this for the sequence of the entries that are kept).

For the wake-ups that is not enough, since `canWait` is set when a walk *begins*. The invariant says what it promises at each moment. While walks are on the stack,
`MayWait`: if `canWait` is set, the innermost walk has yet to come to every normal entry, at a place between its position and `insertionOffset`. That is inductive, because
posting clears `canWait`, a skipped entry does, and an inner walk over everything leaves nothing normal behind it; and it needs no statement about what the outer walks will see. After the walk of a round,
`SentAll`: the list has no normal entry left. Once `canWait` has been read, `SleepInv`: whatever has come in since has the pipe readable or its poster
about to write; which in turn needs `PipeInv`, that `wakeUps` stays 1 only while somebody is about to write, the pipe is readable, or the round that has read it is about to reset it.

Deletion has an invariant of its own, `DInv`: an entry that was posted in a handler still on the stack has as its level the number of loops and handlers up to that
handler (`LevelsFit`). Steps keep it because all calls go on top (`Alike`), because handlers on the stack have different events (`Distinct`), and
because nothing was posted in a handler that has yet to begin (`PostedFits`). Such a level is more than 0 and at most the present one, which is what `DeleteAllowed` turns away.

`MoveToThreadProofs` proves about `MoveToThread`, for any threads (with addresses that can be compared), objects and priorities, and any number of events and moves:

- `EventsFollowHolds`: each event is in one list, that of the thread its receiver lives in or is just being moved to, and events of one receiver and priority are in the order of posting.
- `NoSleepOnMovedHolds`: no thread sleeps on an event in its list, unless its dispatcher is woken or about to be.
- `TypeCorrect`, with the offsets of the list of each thread.

That nothing is moved twice or forgotten is a statement about two lists, of which one grows while the other is emptied, entry by entry. `Books` says that two lists have no
event in common and that every entry is at home or with a mover who holds both mutexes (`LocksFit`). The order follows
from `FirstFirst`: while a thread moves an object, what is already in the target's list was posted before what is still in its own, because a post to the object would
need one of the two mutexes, and would look at `threadData` again under it (`StillThere`), which is why `Follow` is in the
model. `SoundList` has what `insertionOffset` and `startOffset` mean for a list: null up to the latter, sorted behind the former, each event once.
The lemma `Undisturbed` is what a mutex gives: whoever holds one finds that list as it was. `Numbered` reserves a number for every call that has begun to post.

As for one loop, `canWait` needs a statement for each moment. While a walk goes on (`MayWait`), if `canWait` is set, then all events are within
`insertionOffset` and will be seen by the walk, or the thread that moves them here has yet to come to its own `canWait = false`; after it (`Sleepless`) the
dispatcher will not wait, is woken, or is about to be. Between the first event moved and the wake-up the mover is in `AboutToWake` because it holds the target's mutex to the end:
the walk cannot look at the list, nor end, before `canWait` is cleared.

Only model-checked:

- Everything that holds under fairness (`FreeMutexIsTaken`, `TasksEnd`, `EventsAreDelivered` and so on): liveness and ENABLED are not in reach of the prover.

## 6. What is not modelled, and why

- In the modelled parts: removal by event type, the compression of Quit events and
  exceptions in handlers; timers, socket notifiers and the signals of the dispatcher; `QThread::exit()`;
  the semaphore build without futexes; `QWaitCondition::wait(QReadWriteLock *)`; progress values and texts,
  `waitForNextResult()`, stealing of a runnable by a waiter, and the cancellation of a chain of continuations; moves of an object from a handler that
  runs in a nested loop; the pool's stack
  size, thread priority and object names, which change no control.
- Three hazards stand without a property. Two are behaviours of section 4 for which there is no weaker statement that the
  code keeps (the deadline of a semaphore, `exit()` in a nested round). The third, a count of tokens and waiters that is full, needs 2^31 of them.
- `QThread`, `QRecursiveMutex`, the recursive `QReadWriteLock`, Qt Concurrent and the connection lists of QObject are next in the plan.
- The rest of the library, with a reason each, is in the components of `PROJECT.json`. Parsers, strings,
  containers and rendering are sequential and well served by tests; the network state machines come after
  the core on which they run.

## 7. Plan

In this order:

1. **Abstract specifications** of the semaphore, like `MutexSpec` and `RWLockSpec`, for the detailed modules to implement and their users to INSTANCE.
2. **QRecursiveMutex, QOrderedMutexLocker** (`qmutex.cpp:335-434`) on an instance of `MutexSpec`, and the recursive `QReadWriteLock`.
3. **QThread** with its start, finish, `quit()` and `wait()`, on `QEventLoop`.
4. The **connection lists** of QObject, which change while a signal walks them.
