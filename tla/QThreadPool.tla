---------------------------- MODULE QThreadPool ----------------------------
(***************************************************************************)
(* QThreadPool and its worker threads: src/corelib/thread/qthreadpool.cpp  *)
(* and qthreadpool_p.h.                                                    *)
(*                                                                         *)
(* All of the pool's state is under one mutex, so an action is a section   *)
(* of code between taking and releasing it. Runnables run outside of it,   *)
(* and reset() leaves it while it wakes and joins the threads it took.     *)
(* tryToStartMoreThreads() keeps the mutex over the rounds of its loop,    *)
(* each of which may wait for an expired thread to end: starting says that *)
(* a caller is in that loop, and blocks whoever else needs the mutex.      *)
(***************************************************************************)
EXTENDS Integers, FiniteSets, SequencesExt

CONSTANTS Workers,     \* QThreadPoolThread objects; a deleted one is re-used
          Tasks,       \* the runnables; each is started at most once
          Clients,     \* threads that call waitForDone() and clear()
          NoTask,
          PageSize,    \* QueuePage::MaxPageSize
          Priorities,  \* the priorities that start() is called with
          MaxCounts,   \* the values of maxThreadCount; the largest is the first
          Reserves     \* bound: the values that reservedThreads takes

TopPriority == 99      \* INT_MAX

ASSUME ThreadPoolAssumption ==
    /\ IsFiniteSet(Workers)
    /\ NoTask \notin Tasks
    /\ PageSize \in Nat \ {0}
    /\ MaxCounts \subseteq Int /\ \E m \in MaxCounts : \A n \in MaxCounts : n <= m
    /\ Reserves \subseteq Int /\ 0 \in Reserves
    /\ Priorities \subseteq Int /\ \A p \in Priorities : p < TopPriority

VARIABLES queue,      \* the QueuePages: [priority, pushed, tasks]
          allThreads, waitingThreads, expiredThreads,
          maxThreads,     \* requestedMaxThreadCount
          reserved,       \* reservedThreads
          activeThreads,
          starting,
          thread,     \* where each worker is
          job,        \* the runnable that each worker was given, or runs
          client,     \* where each client is
          todo,       \* the threads that a client in reset() has still to delete
          task        \* history: what became of each runnable

lists   == <<allThreads, waitingThreads, expiredThreads>>
limits  == <<maxThreads, reserved>>
workers == <<thread, job, activeThreads>>
clients == <<client, todo>>
vars == <<queue, lists, limits, workers, starting, clients, task>>

ThreadStates == {"none",      \* no such object
                 "running",   \* started, or running its job
                 "asleep",    \* in runnableReady.wait()
                 "awake",     \* signalled or timed out; about to relock the mutex
                 "leaving",   \* returned from run()
                 "finished"}  \* QThread::isFinished()

ClientStates == {"idle",
                 "check",     \* in waitForDone(), about to look at the pool
                 "sleeping",  \* in noActiveThreads.wait()
                 "reset",     \* in reset(), without the mutex
                 "clear"}     \* in clear()

TaskStates == {"new",
               "owned",   \* in the queue, or given to a worker
               "gone"}    \* was run, or taken out of the queue

Init == /\ queue = <<>>
        /\ allThreads = {} /\ waitingThreads = <<>> /\ expiredThreads = <<>>
        /\ maxThreads = CHOOSE m \in MaxCounts : \A n \in MaxCounts : n <= m
        /\ reserved = 0 /\ activeThreads = 0 /\ starting = FALSE
        /\ thread = [w \in Workers |-> "none"]
        /\ job = [w \in Workers |-> NoTask]
        /\ client = [c \in Clients |-> "idle"]
        /\ todo = [c \in Clients |-> <<>>]
        /\ task = [r \in Tasks |-> "new"]

-----------------------------------------------------------------------------
(* The queue: pages of runnables, by descending priority. A page is full   *)
(* once so many runnables were pushed, however many are left.              *)

PagesWithRoom(q, p) == {i \in DOMAIN q : q[i].priority = p /\ q[i].pushed < PageSize}

(* Mistake: new pages go to the end.                                       *)
NewPagePlace_Last(q, p) == Len(q) + 1

(* std::upper_bound: before the first page of a lower priority.            *)
NewPagePlace(q, p) == Min({i \in DOMAIN q : q[i].priority < p} \cup {Len(q) + 1})

(* Onto the first page of that priority with room, else onto a new page.   *)
EnqueueTask(q, r, p) ==
    IF PagesWithRoom(q, p) # {}
    THEN LET i == Min(PagesWithRoom(q, p)) IN
         [q EXCEPT ![i].tasks = Append(@, r), ![i].pushed = @ + 1]
    ELSE InsertAt(q, NewPagePlace(q, p), [priority |-> p, pushed |-> 1, tasks |-> <<r>>])

(* pop() on page i. When that empties it, the first page is removed.       *)
Pop(q, i) == LET popped == [q EXCEPT ![i].tasks = Tail(@)] IN
             IF popped[i].tasks = <<>> THEN RemoveAt(popped, 1) ELSE popped

InQueue == UNION {ToSet(queue[i].tasks) : i \in DOMAIN queue}

-----------------------------------------------------------------------------
(* The limits.                                                             *)

MaxThreadCount == IF maxThreads > 1 THEN maxThreads ELSE 1

Busy == Cardinality(allThreads) - Len(waitingThreads) - Len(expiredThreads)

(* Mistake: the limit is compared one too late.                            *)
AreAllThreadsActive_OneMore(res) == Busy + res > MaxThreadCount /\ Busy >= 1

AreAllThreadsActive(res) == Busy + res >= MaxThreadCount /\ Busy >= 1

TooManyThreadsActive == Busy + reserved > MaxThreadCount /\ Busy > 1

-----------------------------------------------------------------------------
(* Starting runnables.                                                     *)

(* Runnable r becomes the job of w.                                        *)
Give(w, r) == /\ thread' = [thread EXCEPT ![w] = "running"]
              /\ job' = [job EXCEPT ![w] = r]
              /\ activeThreads' = activeThreads + 1

StartThread(r) ==
    \E w \in Workers :
      /\ thread[w] = "none"
      /\ Give(w, r)
      /\ allThreads' = allThreads \cup {w}
      /\ UNCHANGED <<waitingThreads, expiredThreads>>

(* Mistake: the thread that is woken stays in waitingThreads.              *)
Recycle_StaysListed ==
    /\ thread' = [thread EXCEPT ![Head(waitingThreads)] = "awake"]
    /\ UNCHANGED <<lists, job, activeThreads>>

(* The longest waiting thread is woken; the runnable is in the queue.      *)
Recycle ==
    /\ thread' = [thread EXCEPT ![Head(waitingThreads)] = "awake"]
    /\ waitingThreads' = Tail(waitingThreads)
    /\ UNCHANGED <<allThreads, expiredThreads, job, activeThreads>>

(* The thread that expired first is started again, once it has finished.   *)
Restart(r) ==
    /\ thread[Head(expiredThreads)] = "finished"
    /\ Give(Head(expiredThreads), r)
    /\ expiredThreads' = Tail(expiredThreads)
    /\ UNCHANGED <<allThreads, waitingThreads>>

(* tryStart(r) where it returns true: the queue becomes given when a       *)
(* thread gets r directly, and recycled when r goes through the queue.     *)
Dispatch(r, given, recycled) ==
    \/ /\ waitingThreads # <<>>
       /\ Recycle /\ queue' = recycled
    \/ /\ waitingThreads = <<>> /\ expiredThreads # <<>>
       /\ Restart(r) /\ queue' = given
    \/ /\ waitingThreads = <<>> /\ expiredThreads = <<>>
       /\ StartThread(r) /\ queue' = given

Accept(r) == /\ task[r] = "new"
             /\ task' = [task EXCEPT ![r] = "owned"]

(* tryStart(r), else enqueueTask(r, p).                                    *)
StartOrEnqueue(r, p, res) ==
    \/ /\ ~AreAllThreadsActive(res)
       /\ Dispatch(r, queue, EnqueueTask(queue, r, 0))
    \/ /\ AreAllThreadsActive(res)
       /\ queue' = EnqueueTask(queue, r, p)
       /\ UNCHANGED <<lists, workers>>

Start(r, p) == /\ ~starting
               /\ Accept(r)
               /\ StartOrEnqueue(r, p, reserved)
               /\ UNCHANGED <<limits, starting, clients>>

(* QThreadPool::tryStart(), where it returns true.                         *)
TryStart(r) == /\ ~starting /\ ~AreAllThreadsActive(reserved)
               /\ Accept(r)
               /\ Dispatch(r, queue, EnqueueTask(queue, r, 0))
               /\ UNCHANGED <<limits, starting, clients>>

StartOnReservedThread(r) ==
    /\ ~starting /\ reserved > 0
    /\ reserved' = reserved - 1
    /\ Accept(r)
    /\ StartOrEnqueue(r, TopPriority, reserved - 1)
    /\ UNCHANGED <<maxThreads, starting, clients>>

(* The loop of tryToStartMoreThreads() has another round to do.            *)
MoreToStart == queue # <<>> /\ ~AreAllThreadsActive(reserved)

(* Mistake: the runnable that a thread is woken for is not popped.         *)
TryToStartMoreThreads_NoPop ==
    LET r == Head(queue[1].tasks) IN
    /\ starting
    /\ Dispatch(r, Pop(queue, 1), EnqueueTask(queue, r, 0))
    /\ UNCHANGED <<limits, clients, task>>
    /\ starting' = MoreToStart'

(* A round of tryToStartMoreThreads(). The page that it pops was the first *)
(* one before tryStart() put the runnable into the queue once more.        *)
TryToStartMoreThreads ==
    LET r == Head(queue[1].tasks)
        again == EnqueueTask(queue, r, 0)
        moved == Len(again) > Len(queue) /\ queue[1].priority < 0 IN
    /\ starting
    /\ Dispatch(r, Pop(queue, 1), Pop(again, IF moved THEN 2 ELSE 1))
    /\ UNCHANGED <<limits, clients, task>>
    /\ starting' = MoreToStart'

-----------------------------------------------------------------------------
(* The limits change.                                                      *)

SetMaxThreadCount(m) ==
    /\ ~starting /\ m # maxThreads
    /\ maxThreads' = m
    /\ UNCHANGED <<queue, lists, reserved, workers, clients, task>>
    /\ starting' = MoreToStart'

ReserveThread ==
    /\ ~starting /\ reserved + 1 \in Reserves
    /\ reserved' = reserved + 1
    /\ UNCHANGED <<queue, lists, maxThreads, workers, starting, clients, task>>

(* Mistake: the runnables that wait are not looked at.                     *)
ReleaseThread_StartsNone ==
    /\ ~starting /\ reserved - 1 \in Reserves
    /\ reserved' = reserved - 1
    /\ UNCHANGED <<queue, lists, maxThreads, workers, starting, clients, task>>

ReleaseThread ==
    /\ ~starting /\ reserved - 1 \in Reserves
    /\ reserved' = reserved - 1
    /\ UNCHANGED <<queue, lists, maxThreads, workers, clients, task>>
    /\ starting' = MoreToStart'

-----------------------------------------------------------------------------
(* The worker threads.                                                     *)

(* Mistake: the clients of waitForDone() are not woken.                    *)
RegisterThreadInactive_Silent(active) ==
    activeThreads' = active - 1 /\ UNCHANGED client

(* registerThreadInactive(), called with that many active threads.         *)
RegisterThreadInactive(active) ==
    /\ activeThreads' = active - 1
    /\ client' = [c \in Clients |-> IF active = 1 /\ client[c] = "sleeping"
                                    THEN "check" ELSE client[c]]

(* What w does next in run(), with the mutex and without a runnable: the   *)
(* next one from the queue, or no more: expire, wait, or be deleted.       *)
GoOn(w, active) ==
    \/ /\ ~TooManyThreadsActive /\ queue # <<>>
       /\ job' = [job EXCEPT ![w] = Head(queue[1].tasks)]
       /\ queue' = Pop(queue, 1)
       /\ thread' = [thread EXCEPT ![w] = "running"]
       /\ activeThreads' = active
       /\ UNCHANGED <<lists, client>>
    \/ /\ TooManyThreadsActive \/ queue = <<>>
       /\ job' = [job EXCEPT ![w] = NoTask]
       /\ LET deleted == w \notin allThreads
              expires == ~deleted /\ TooManyThreadsActive
              waits == ~deleted /\ ~TooManyThreadsActive IN
          /\ thread' = [thread EXCEPT ![w] = IF waits THEN "asleep" ELSE "leaving"]
          /\ expiredThreads' = IF expires THEN Append(expiredThreads, w) ELSE expiredThreads
          /\ waitingThreads' = IF waits THEN Append(waitingThreads, w) ELSE waitingThreads
       /\ RegisterThreadInactive(active)
       /\ UNCHANGED <<queue, allThreads>>

(* r->run() returns and the worker takes the mutex.                        *)
TaskDone(w) == /\ ~starting /\ thread[w] = "running"
               /\ task' = [task EXCEPT ![job[w]] = "gone"]
               /\ GoOn(w, activeThreads)
               /\ UNCHANGED <<limits, starting, todo>>

(* expiryTimeout has passed in runnableReady.wait().                       *)
ExpiryTimeout(w) == /\ thread[w] = "asleep"
                    /\ thread' = [thread EXCEPT ![w] = "awake"]
                    /\ UNCHANGED <<queue, lists, limits, job, activeThreads, starting,
                                   clients, task>>

(* Mistake: a thread that was woken for work does not count itself.        *)
Relock_NotCounted(w) ==
    /\ ~starting /\ thread[w] = "awake" /\ w \in allThreads
    /\ ~Contains(waitingThreads, w)
    /\ GoOn(w, activeThreads)
    /\ UNCHANGED <<limits, starting, todo, task>>

(* The worker has the mutex again: deleted; or expired, for nobody took it *)
(* out of waitingThreads; or woken for work.                               *)
Relock(w) ==
    /\ ~starting /\ thread[w] = "awake"
    /\ \/ /\ w \notin allThreads
          /\ thread' = [thread EXCEPT ![w] = "leaving"]
          /\ UNCHANGED <<queue, lists, job, activeThreads, client>>
       \/ /\ w \in allThreads /\ Contains(waitingThreads, w)
          /\ waitingThreads' = RemoveFirst(waitingThreads, w)
          /\ expiredThreads' = Append(expiredThreads, w)
          /\ thread' = [thread EXCEPT ![w] = "leaving"]
          /\ UNCHANGED <<queue, allThreads, job, activeThreads, client>>
       \/ /\ w \in allThreads /\ ~Contains(waitingThreads, w)
          /\ GoOn(w, activeThreads + 1)
    /\ UNCHANGED <<limits, starting, todo, task>>

(* QThread's own end, after run().                                         *)
ThreadFinish(w) == /\ thread[w] = "leaving"
                   /\ thread' = [thread EXCEPT ![w] = "finished"]
                   /\ UNCHANGED <<queue, lists, limits, job, activeThreads, starting,
                                  clients, task>>

-----------------------------------------------------------------------------
(* The clients.                                                            *)

CallClient(c, what) == /\ client[c] = "idle"
                       /\ client' = [client EXCEPT ![c] = what]
                       /\ UNCHANGED <<queue, lists, limits, workers, starting, todo, task>>

Done == queue = <<>> /\ activeThreads = 0

(* Mistake: the queue alone decides.                                       *)
WaitForDone_QueueOnly(c) ==
    /\ ~starting /\ client[c] = "check" /\ queue = <<>>
    /\ client' = [client EXCEPT ![c] = "reset"]
    /\ \E s \in SetToSeqs(allThreads) : todo' = [todo EXCEPT ![c] = s]
    /\ allThreads' = {} /\ waitingThreads' = <<>> /\ expiredThreads' = <<>>
    /\ UNCHANGED <<queue, limits, workers, starting, task>>

(* A look at the pool in waitForDone(): wait on; or on to reset(), which   *)
(* takes all threads. The set is gone through in no particular order.      *)
WaitForDone(c) ==
    /\ ~starting /\ client[c] = "check"
    /\ \/ /\ ~Done
          /\ client' = [client EXCEPT ![c] = "sleeping"]
          /\ UNCHANGED <<lists, todo>>
       \/ /\ Done
          /\ client' = [client EXCEPT ![c] = "reset"]
          /\ \E s \in SetToSeqs(allThreads) : todo' = [todo EXCEPT ![c] = s]
          /\ allThreads' = {} /\ waitingThreads' = <<>> /\ expiredThreads' = <<>>
    /\ UNCHANGED <<queue, limits, workers, starting, task>>

(* The timer of waitForDone() expires.                                     *)
WaitTimeout(c) == /\ ~starting /\ client[c] = "sleeping"
                  /\ client' = [client EXCEPT ![c] = IF Done THEN "check" ELSE "idle"]
                  /\ UNCHANGED <<queue, lists, limits, workers, starting, todo, task>>

(* reset(), without the mutex: the next thread is woken, joined, deleted.  *)
ResetThread(c) ==
    LET w == Head(todo[c]) IN
    /\ client[c] = "reset" /\ todo[c] # <<>>
    /\ \/ /\ thread[w] = "asleep"
          /\ thread' = [thread EXCEPT ![w] = "awake"]
          /\ UNCHANGED todo
       \/ /\ thread[w] = "finished"
          /\ thread' = [thread EXCEPT ![w] = "none"]
          /\ todo' = [todo EXCEPT ![c] = Tail(@)]
    /\ UNCHANGED <<queue, lists, limits, job, activeThreads, starting, client, task>>

ResetDone(c) == /\ ~starting /\ client[c] = "reset" /\ todo[c] = <<>>
                /\ client' = [client EXCEPT ![c] = "idle"]
                /\ UNCHANGED <<queue, lists, limits, workers, starting, todo, task>>

(* clear() takes the last page and deletes its runnables, leaving the      *)
(* mutex for each of them; nobody else sees that page any more.            *)
Clear(c) ==
    /\ ~starting /\ client[c] = "clear"
    /\ \/ /\ queue # <<>>
          /\ task' = [r \in Tasks |-> IF Contains(Last(queue).tasks, r) THEN "gone"
                                                                       ELSE task[r]]
          /\ queue' = Front(queue)
          /\ UNCHANGED client
       \/ /\ queue = <<>>
          /\ client' = [client EXCEPT ![c] = "idle"]
          /\ UNCHANGED <<queue, task>>
    /\ UNCHANGED <<lists, limits, workers, starting, todo>>

(* tryTake(r) where it returns true: r is the caller's again, who may run  *)
(* it (stealAndRunRunnable()).                                             *)
TryTake(r) ==
    /\ ~starting
    /\ \E i \in DOMAIN queue :
         /\ Contains(queue[i].tasks, r)
         /\ LET rest == RemoveFirst(queue[i].tasks, r) IN
            queue' = IF rest = <<>> THEN RemoveAt(queue, i)
                                    ELSE [queue EXCEPT ![i].tasks = rest]
    /\ task' = [task EXCEPT ![r] = "gone"]
    /\ UNCHANGED <<lists, limits, workers, starting, clients>>

Work(w) == TaskDone(w) \/ Relock(w) \/ ThreadFinish(w)
Wait(c) == WaitForDone(c) \/ ResetThread(c) \/ ResetDone(c) \/ Clear(c)

Next == \/ \E r \in Tasks : \/ \E p \in Priorities : Start(r, p)
                            \/ TryStart(r) \/ StartOnReservedThread(r) \/ TryTake(r)
        \/ \E m \in MaxCounts : SetMaxThreadCount(m)
        \/ ReserveThread \/ ReleaseThread \/ TryToStartMoreThreads
        \/ \E w \in Workers : Work(w) \/ ExpiryTimeout(w)
        \/ \E c \in Clients : \/ \E what \in {"check", "clear"} : CallClient(c, what)
                              \/ Wait(c) \/ WaitTimeout(c)

Spec == Init /\ [][Next]_vars

(* Runnables return and threads keep running; nobody has to call anything. *)
FairSpec == /\ Spec
            /\ WF_vars(TryToStartMoreThreads)
            /\ \A w \in Workers : WF_vars(Work(w))
            /\ \A c \in Clients : WF_vars(Wait(c))

-----------------------------------------------------------------------------
Running == {w \in Workers : thread[w] = "running"}

(* Workers that were taken out of waitingThreads to serve the queue.       *)
OnTheWay == {w \in allThreads : thread[w] = "awake" /\ ~Contains(waitingThreads, w)}

(* Where runnables stand in the queue: in which page, and where in it.      *)
Positions == UNION {{i} \X DOMAIN queue[i].tasks : i \in DOMAIN queue}

Places(r) == Cardinality({w \in Running : job[w] = r})
             + Cardinality({at \in Positions : queue[at[1]].tasks[at[2]] = r})

TypeOK == /\ \A i \in DOMAIN queue : queue[i].tasks \in Seq(Tasks)
          /\ allThreads \subseteq Workers
          /\ waitingThreads \in Seq(Workers) /\ expiredThreads \in Seq(Workers)
          /\ maxThreads \in MaxCounts /\ reserved \in Reserves
          /\ activeThreads \in 0..Cardinality(Workers)
          /\ starting \in BOOLEAN
          /\ thread \in [Workers -> ThreadStates]
          /\ job \in [Workers -> Tasks \cup {NoTask}]
          /\ client \in [Clients -> ClientStates]
          /\ todo \in [Clients -> Seq(Workers)]
          /\ task \in [Tasks -> TaskStates]

(* A runnable that the pool has accepted is in one page or with one worker *)
(* until it was run or taken back, and then nowhere: none is lost or run   *)
(* twice when tryStart() recycles threads through the queue.               *)
EveryTaskInOnePlace ==
    \A r \in Tasks : Places(r) = IF task[r] = "owned" THEN 1 ELSE 0

(* Pages are by descending priority and none of them is finished: first()  *)
(* and pop() assert it (qthreadpool_p.h:57, 65).                           *)
QueueInOrder ==
    /\ \A i, j \in DOMAIN queue : i < j => queue[i].priority >= queue[j].priority
    /\ \A i \in DOMAIN queue : queue[i].tasks # <<>>

(* activeThreads, which waitForDone() looks at, counts the workers with a  *)
(* job; the count that the limits are checked with, made from the sizes of *)
(* the lists, is that plus the workers on their way to the queue.          *)
CountsAgree ==
    /\ activeThreads = Cardinality(Running)
    /\ Busy = activeThreads + Cardinality(OnTheWay)

(* The lists and the life of the threads agree: who is listed as waiting   *)
(* can be woken, who is listed as expired left by itself, and only threads *)
(* that nobody can find any more are deleted.                              *)
ListsMatchThreads ==
    /\ \A w \in ToSet(waitingThreads) : w \in allThreads /\ thread[w] \in {"asleep", "awake"}
    /\ \A w \in ToSet(expiredThreads) : w \in allThreads /\ thread[w] \in {"leaving", "finished"}
    /\ \A w \in Workers : thread[w] = "asleep" /\ w \in allThreads
                             => Contains(waitingThreads, w)
    /\ \A c \in Clients : ToSet(todo[c]) \cap (allThreads \cup Running) = {}
    /\ \A w \in Workers : thread[w] = "none" =>
         w \notin allThreads /\ \A c \in Clients : ~Contains(todo[c], w)

(* The books of the pool are right whenever its mutex is free.             *)
Bookkeeping == QueueInOrder /\ CountsAgree /\ ListsMatchThreads

(* Runnables wait in the queue only while as many threads are busy as the  *)
(* limits allow, or while workers are on their way for all of them.        *)
QueuedOnlyWhenBusy ==
    starting \/ AreAllThreadsActive(reserved)
             \/ Cardinality(InQueue) <= Cardinality(OnTheWay)

(* No worker takes on a runnable beyond maxThreadCount(), reserved threads *)
(* counted, unless it is the only one that works.                          *)
LimitRespected ==
    [][\A w \in Workers :
         (job'[w] # NoTask /\ job'[w] # job[w]) =>
           \/ activeThreads' + reserved' <= MaxThreadCount'
           \/ activeThreads' = 1]_vars

(* What the pool has accepted is run or taken back.                        *)
TasksEnd == \A r \in Tasks : task[r] = "owned" ~> task[r] = "gone"

(* waitForDone() and clear() return.                                       *)
ClientsReturn == \A c \in Clients : client[c] # "idle" ~> client[c] = "idle"

(* Nothing that the pool has taken on stays with it: every runnable is run *)
(* or taken back, and whoever waits for that comes back.                   *)
EverythingEnds == TasksEnd /\ ClientsReturn
=============================================================================
