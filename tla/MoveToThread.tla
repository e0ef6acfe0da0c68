---------------------------- MODULE MoveToThread ----------------------------
(***************************************************************************)
(* QObject::moveToThread() (src/corelib/kernel/qobject.cpp) against the    *)
(* threads that post to the object meanwhile, and against the event loops  *)
(* of both threads: who follows whom, with which locks.                    *)
(*                                                                         *)
(* Every thread has a QThreadData: a PostEventList with its mutex, canWait *)
(* and a dispatcher. An object stands for itself and its children, which   *)
(* move with it. The walk of sendPostedEvents() is the one of QEventLoop,  *)
(* not nested; the dispatcher is the wake-up it is to remember.            *)
(***************************************************************************)
EXTENDS PostEventList

CONSTANTS Threads,      \* by the addresses of their mutexes
          Objects,
          NoThread,
          Priorities,
          MaxEvents,    \* bound on the events, which are numbered as they are posted
          MaxMoves      \* bound on the calls of moveToThread()

ASSUME MoveAssumption ==
    /\ Threads \subseteq Nat /\ NoThread \notin Threads
    /\ Priorities \subseteq Int
    /\ MaxEvents \in Nat /\ MaxMoves \in Nat
    /\ NoEvent \notin 1..MaxEvents /\ NoReceiver \notin Objects

VARIABLES home,         \* QObjectPrivate::threadData
          list, mutex,  \* per thread: postEventList, and who holds its mutex
          canWait,
          wakeUp,       \* the dispatcher has been woken
          at,           \* what each thread does
          call,         \* per thread: the call it is in
          walking,      \* the threads in a walk
          posted,       \* how many events have been posted
          moves,
          queued          \* history: events that are in a list

vars == <<home, list, mutex, canWait, wakeUp, at, call, walking, posted, moves, queued>>

Labels == {"user",      \* in user code: a handler, or before exec()
           "loop",      \* about to walk
           "walk",      \* about to look at the next entry
           "wait",      \* in the dispatcher, about to read canWait
           "poll",      \* in poll(), that blocks until the dispatcher is woken
           "load",      \* in lockThreadPostEventList(), about to load threadData
           "lock",      \* has loaded it; needs that mutex
           "wake",      \* has posted; about to wake the dispatcher
           "first",     \* in moveToThread(), needs the first mutex
           "second",    \* holds it, needs the other
           "move"}      \* holds both; about to look for the next event to move

Goto(t, l) == at' = [at EXCEPT ![t] = l]

NoCall == [kind |-> "none"]
PostCall(o, p) == [kind |-> "post", object |-> o, priority |-> p, data |-> NoThread]
RemoveCall(o) == [kind |-> "remove", object |-> o, data |-> NoThread]
MoveCall(o, t) == [kind |-> "move", object |-> o, target |-> t, moved |-> FALSE]

Init == /\ home \in [Objects -> Threads]
        /\ list = [t \in Threads |-> EmptyList]
        /\ mutex = [t \in Threads |-> NoThread]
        /\ canWait = [t \in Threads |-> TRUE]
        /\ wakeUp = [t \in Threads |-> FALSE]
        /\ at = [t \in Threads |-> "user"]
        /\ call = [t \in Threads |-> NoCall]
        /\ walking = {} /\ posted = 0 /\ moves = 0 /\ queued = {}

-----------------------------------------------------------------------------
(* User code.                                                              *)
Posting == {t \in Threads : at[t] \in {"load", "lock"} /\ call[t].kind = "post"}

StartPost(t, o, p) ==
    /\ at[t] = "user" /\ posted + Cardinality(Posting) < MaxEvents
    /\ call' = [call EXCEPT ![t] = PostCall(o, p)]
    /\ Goto(t, "load")
    /\ UNCHANGED <<home, list, mutex, canWait, wakeUp, walking, posted, moves, queued>>

StartRemove(t, o) ==
    /\ at[t] = "user"
    /\ call' = [call EXCEPT ![t] = RemoveCall(o)]
    /\ Goto(t, "load")
    /\ UNCHANGED <<home, list, mutex, canWait, wakeUp, walking, posted, moves, queued>>

(* Only the thread of an object may move it.                               *)
StartMove(t, o, target) ==
    /\ at[t] = "user" /\ moves < MaxMoves
    /\ home[o] = t /\ target # t
    /\ moves' = moves + 1
    /\ call' = [call EXCEPT ![t] = MoveCall(o, target)]
    /\ Goto(t, "first")
    /\ UNCHANGED <<home, list, mutex, canWait, wakeUp, walking, posted, queued>>

(* The handler returns to the walk, or the thread enters its event loop.   *)
EndUserCode(t) ==
    /\ at[t] = "user"
    /\ Goto(t, IF t \in walking THEN "walk" ELSE "loop")
    /\ UNCHANGED <<home, list, mutex, canWait, wakeUp, call, walking, posted, moves, queued>>

-----------------------------------------------------------------------------
(* lockThreadPostEventList()                                               *)
Load(t) ==
    /\ at[t] = "load"
    /\ call' = [call EXCEPT ![t].data = home[call[t].object]]
    /\ Goto(t, "lock")
    /\ UNCHANGED <<home, list, mutex, canWait, wakeUp, walking, posted, moves, queued>>

Seen(t) == call[t].data

(* Mistake: the object is not looked at again.                             *)
StillThere_Trusts(t) == TRUE

(* threadData is the same under the mutex as before.                       *)
StillThere(t) == home[call[t].object] = Seen(t)

CanLock(t) == at[t] = "lock" /\ mutex[Seen(t)] = NoThread

Follow(t) ==
    /\ CanLock(t) /\ ~StillThere(t)
    /\ Goto(t, "load")
    /\ UNCHANGED <<home, list, mutex, canWait, wakeUp, call, walking, posted, moves, queued>>

(* postEvent(), up to the unlock.                                          *)
Post(t) ==
    LET entry == [event |-> posted + 1, receiver |-> call[t].object, type |-> "normal",
                  priority |-> call[t].priority, level |-> 0] IN
    /\ CanLock(t) /\ StillThere(t) /\ call[t].kind = "post"
    /\ list' = [list EXCEPT ![Seen(t)] = AddEvent(@, entry)]
    /\ posted' = posted + 1 /\ queued' = queued \cup {posted + 1}
    /\ canWait' = [canWait EXCEPT ![Seen(t)] = FALSE]
    /\ Goto(t, "wake")
    /\ UNCHANGED <<home, mutex, wakeUp, call, walking, moves>>

WakeDispatcher(t) ==
    /\ at[t] = "wake"
    /\ wakeUp' = [wakeUp EXCEPT ![Seen(t)] = TRUE]
    /\ Goto(t, "user")
    /\ call' = [call EXCEPT ![t] = NoCall]
    /\ UNCHANGED <<home, list, mutex, canWait, walking, posted, moves, queued>>

EventsOf(o) == {list[home[o]].entries[i].event :
                  i \in {j \in 1..Size(list[home[o]]) : list[home[o]].entries[j].receiver = o}}

(* Whether a thread's list has a recursion, to others: sendPostedEvents()  *)
(* counts it before it locks, so one that is about to walk may have it.    *)
Recursion(t) == {at[t] = "loop" \/ t \in walking, (t \in walking)}

(* removePostedEvents()                                                    *)
RemovePosted(t) ==
    /\ CanLock(t) /\ StillThere(t) /\ call[t].kind = "remove"
    /\ \E inWalk \in Recursion(Seen(t)) :
         list' = [list EXCEPT ![Seen(t)] = RemoveEvents(@, call[t].object, inWalk)]
    /\ queued' = queued \ EventsOf(call[t].object)
    /\ Goto(t, "user")
    /\ call' = [call EXCEPT ![t] = NoCall]
    /\ UNCHANGED <<home, mutex, canWait, wakeUp, walking, posted, moves>>

-----------------------------------------------------------------------------
(* moveToThread(): QOrderedMutexLocker takes the lower address first.      *)
Lower(t) == Min({t, call[t].target})
Higher(t) == Max({t, call[t].target})

(* Mistake: one's own mutex first.                                         *)
LockFirst_Own(t) ==
    /\ at[t] = "first" /\ mutex[t] = NoThread
    /\ mutex' = [mutex EXCEPT ![t] = t]
    /\ Goto(t, "second")
    /\ UNCHANGED <<home, list, canWait, wakeUp, call, walking, posted, moves, queued>>

LockFirst(t) ==
    /\ at[t] = "first" /\ mutex[Lower(t)] = NoThread
    /\ mutex' = [mutex EXCEPT ![Lower(t)] = t]
    /\ Goto(t, "second")
    /\ UNCHANGED <<home, list, canWait, wakeUp, call, walking, posted, moves, queued>>

LockSecond(t) ==
    LET other == IF mutex[Lower(t)] = t THEN Higher(t) ELSE Lower(t) IN
    /\ at[t] = "second" /\ mutex[other] = NoThread
    /\ mutex' = [mutex EXCEPT ![other] = t]
    /\ Goto(t, "move")
    /\ UNCHANGED <<home, list, canWait, wakeUp, call, walking, posted, moves, queued>>

(* The loop of setThreadData_helper(): what is still to be moved; entries  *)
(* of other objects are passed.                                            *)
ToMove(t) == {i \in 1..Size(list[t]) : list[t].entries[i].receiver = call[t].object}

(* The next event is added to the list of the target, and its entry left   *)
(* behind as a null one.                                                   *)
MoveEvent(t) ==
    LET next == Min(ToMove(t)) IN
    /\ at[t] = "move" /\ ToMove(t) # {}
    /\ list' = [list EXCEPT ![call[t].target] = AddEvent(@, list[t].entries[next]),
                            ![t] = NullAt(@, next)]
    /\ call' = [call EXCEPT ![t].moved = TRUE]
    /\ UNCHANGED <<home, mutex, canWait, wakeUp, at, walking, posted, moves, queued>>

(* Mistake: only the target's next walk will tell.                         *)
Move_NoWake(t) ==
    LET target == call[t].target IN
    /\ at[t] = "move" /\ ToMove(t) = {}
    /\ home' = [home EXCEPT ![call[t].object] = target]
    /\ canWait' = [canWait EXCEPT ![target] = @ /\ ~call[t].moved]
    /\ mutex' = [mutex EXCEPT ![t] = NoThread, ![target] = NoThread]
    /\ call' = [call EXCEPT ![t] = NoCall]
    /\ Goto(t, "user")
    /\ UNCHANGED <<list, wakeUp, walking, posted, moves, queued>>

(* What follows the loop, and the end of moveToThread().                   *)
Move(t) ==
    LET target == call[t].target IN
    /\ at[t] = "move" /\ ToMove(t) = {}
    /\ home' = [home EXCEPT ![call[t].object] = target]
    /\ canWait' = [canWait EXCEPT ![target] = @ /\ ~call[t].moved]
    /\ wakeUp' = [wakeUp EXCEPT ![target] = @ \/ call[t].moved]
    /\ mutex' = [mutex EXCEPT ![t] = NoThread, ![target] = NoThread]
    /\ call' = [call EXCEPT ![t] = NoCall]
    /\ Goto(t, "user")
    /\ UNCHANGED <<list, walking, posted, moves, queued>>

-----------------------------------------------------------------------------
(* The event loop: sendPostedEvents() and the dispatcher.                  *)
BeginWalk(t) ==
    /\ at[t] = "loop" /\ mutex[t] = NoThread
    /\ canWait' = [canWait EXCEPT ![t] = TRUE]
    /\ IF Size(list[t]) = 0
       THEN Goto(t, "wait") /\ UNCHANGED <<list, walking>>
       ELSE /\ list' = [list EXCEPT ![t].insertionOffset = Size(list[t])]
            /\ walking' = walking \cup {t}
            /\ Goto(t, "walk")
    /\ UNCHANGED <<home, mutex, wakeUp, call, posted, moves, queued>>

AtEnd(t) == list[t].startOffset >= Size(list[t]) \/ list[t].startOffset >= list[t].insertionOffset
Here(t) == list[t].entries[list[t].startOffset + 1]

(* The next entry: skipped if null; otherwise its handler is called.       *)
Deliver(t) ==
    /\ at[t] = "walk" /\ mutex[t] = NoThread /\ ~AtEnd(t)
    /\ list' = [list EXCEPT ![t] = [NullAt(list[t], list[t].startOffset + 1)
                                       EXCEPT !.startOffset = @ + 1]]
    /\ queued' = queued \ {Here(t).event}
    /\ Goto(t, IF Here(t).event = NoEvent THEN "walk" ELSE "user")
    /\ UNCHANGED <<home, mutex, canWait, wakeUp, call, walking, posted, moves>>

EndWalk(t) ==
    /\ at[t] = "walk" /\ mutex[t] = NoThread /\ AtEnd(t)
    /\ list' = [list EXCEPT ![t] = EraseSent(@)]
    /\ wakeUp' = [wakeUp EXCEPT ![t] = @ \/ ~canWait[t]]
    /\ walking' = walking \ {t}
    /\ Goto(t, "wait")
    /\ UNCHANGED <<home, mutex, canWait, call, posted, moves, queued>>

(* processEvents() of the dispatcher reads canWait once; poll() blocks      *)
(* until somebody has woken it, or returns at once and takes the wake-up.  *)
ReadCanWait(t) ==
    /\ at[t] = "wait"
    /\ Goto(t, IF canWait[t] THEN "poll" ELSE "loop")
    /\ wakeUp' = [wakeUp EXCEPT ![t] = @ /\ canWait[t]]
    /\ UNCHANGED <<home, list, mutex, canWait, call, walking, posted, moves, queued>>

Return(t) ==
    /\ at[t] = "poll" /\ wakeUp[t]
    /\ wakeUp' = [wakeUp EXCEPT ![t] = FALSE]
    /\ Goto(t, "loop")
    /\ UNCHANGED <<home, list, mutex, canWait, call, walking, posted, moves, queued>>

-----------------------------------------------------------------------------
InCall(t) == \/ Load(t) \/ Follow(t) \/ Post(t) \/ WakeDispatcher(t) \/ RemovePosted(t)
             \/ LockFirst(t) \/ LockSecond(t) \/ MoveEvent(t) \/ Move(t)

Next == \E t \in Threads :
          \/ \E o \in Objects :
               \/ \E p \in Priorities : StartPost(t, o, p)
               \/ StartRemove(t, o)
               \/ \E target \in Threads : StartMove(t, o, target)
          \/ EndUserCode(t) \/ InCall(t)
          \/ BeginWalk(t) \/ Deliver(t) \/ EndWalk(t)
          \/ ReadCanWait(t) \/ Return(t)

Spec == Init /\ [][Next]_vars

(* A thread inside of Qt keeps running; a mutex that is free again and     *)
(* again is granted. User code may do anything, or nothing.                *)
FairSpec == Spec /\ \A t \in Threads : SF_vars(InCall(t))

-----------------------------------------------------------------------------
Entries(t) == {i \in 1..Size(list[t]) : list[t].entries[i].event # NoEvent}

TypeOK == /\ home \in [Objects -> Threads]
          /\ mutex \in [Threads -> Threads \cup {NoThread}]
          /\ canWait \in [Threads -> BOOLEAN] /\ wakeUp \in [Threads -> BOOLEAN]
          /\ at \in [Threads -> Labels]
          /\ walking \subseteq Threads
          /\ posted \in 0..MaxEvents /\ moves \in 0..MaxMoves
          /\ queued \subseteq 1..MaxEvents
          /\ \A t \in Threads : list[t].startOffset \in 0..Size(list[t])

(* A thread moves o to t, and holds the mutexes of both threads.           *)
Moving(s, o, t) == /\ at[s] = "move" /\ home[o] = s
                   /\ call[s].object = o /\ call[s].target = t
                   /\ mutex[s] = s /\ mutex[t] = s

(* An event waits in the list of the thread that its receiver lives in, or *)
(* is being moved to, once, and those of one receiver and priority in the  *)
(* order in which they were posted, whoever posts while the object moves:  *)
(* it is delivered there, and nowhere else.                                *)
EventsFollow ==
    /\ \A t \in Threads : \A i \in Entries(t) :
         LET o == list[t].entries[i].receiver IN
         home[o] = t \/ \E s \in Threads : Moving(s, o, t)
    /\ \A e \in queued : \E t \in Threads : \E i \in Entries(t) :
         /\ list[t].entries[i].event = e
         /\ \A s \in Threads : \A j \in Entries(s) :
              list[s].entries[j].event = e => s = t /\ j = i
    /\ \A t \in Threads : \A i, j \in Entries(t) :
         LET x == list[t].entries[i]
             y == list[t].entries[j] IN
         i < j /\ x.receiver = y.receiver /\ x.priority = y.priority => x.event < y.event

(* No thread sleeps on events that an object brought along or that were    *)
(* posted to it on the way: it has been woken, or is about to be, by who   *)
(* posted or by who still moves the events, under its mutex.               *)
AboutToWake(s, t) == \/ at[s] = "wake" /\ Seen(s) = t
                     \/ at[s] = "move" /\ call[s].target = t /\ call[s].moved

NoSleepOnMoved ==
    \A t \in Threads :
      at[t] = "poll" /\ Entries(t) # {} =>
        wakeUp[t] \/ \E s \in Threads : AboutToWake(s, t)

(* Two threads that move objects towards each other, and those that follow *)
(* an object, all get their locks: every call returns. (Who follows needs  *)
(* an object that comes to rest, as MaxMoves has it; who moves does not.)  *)
CallsReturn ==
    \A t \in Threads :
      at[t] \in {"load", "lock", "wake", "first", "second", "move"} ~> at[t] = "user"
=============================================================================
