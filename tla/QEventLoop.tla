----------------------------- MODULE QEventLoop -----------------------------
(***************************************************************************)
(* The events of one thread: postEvent(), sendPostedEvents() and           *)
(* removePostedEvents() of qcoreapplication.cpp, QEventLoop, and the UNIX  *)
(* event dispatcher with its thread pipe, in src/corelib/kernel.           *)
(*                                                                         *)
(* stack is the call stack of the thread: event loops, rounds of           *)
(* processEvents(), walks of sendPostedEvents() and handlers. User code    *)
(* runs in handlers and at the bottom; it may call all of them again. The  *)
(* mutex of the list is held by the walk on top of the stack, if there is  *)
(* one. Other threads post and remove events and call exit().              *)
(***************************************************************************)
EXTENDS PostEventList

CONSTANTS Events,      \* QEvent objects; each is posted at most once
          Receivers,
          Posters,     \* the other threads
          Loops,       \* QEventLoop objects of the thread
          Priorities,
          MaxDepth,    \* bound: the depth of the stack from which calls nest
          Calls        \* the calls that user code makes, a subset of AllCalls

AllCalls == {"post", "deleteLater", "remove", "send", "sendDeletes",
             "process", "exec", "exit"}

ASSUME EventLoopAssumption ==
    /\ NoEvent \notin Events /\ NoReceiver \notin Receivers
    /\ Priorities \subseteq Int /\ MaxDepth \in Nat
    /\ Calls \subseteq AllCalls

VARIABLES list,          \* postEventList
          canWait,
          postedEvents,  \* of each receiver
          deleteLaterCalled,
          alive,         \* the receivers that exist
          stack,
          exit,          \* the loops whose flag exit is set
          interrupt,     \* of the dispatcher
          wakeUps,       \* of QThreadPipe: a byte is, or will be, in the pipe
          pipe,          \* the eventfd is readable
          poster,        \* where each other thread is
          fate,          \* history: what became of each event
          postedIn       \* history: the event in whose handler it was posted,
                         \* until that handler returns

objects == <<postedEvents, deleteLaterCalled, alive>>
dispatcher == <<interrupt, wakeUps, pipe>>
history == <<fate, postedIn>>
vars == <<list, canWait, objects, stack, exit, dispatcher, poster, history>>

PosterStates == {"idle",
                 "interrupt",  \* in exit(): the flag is set
                 "wake",       \* in wakeUp()
                 "write"}      \* wakeUps went from 0 to 1; about to write

Fates == {"new", "posted", "gone"}

Init == /\ list = EmptyList /\ canWait = TRUE
        /\ postedEvents = [r \in Receivers |-> 0]
        /\ deleteLaterCalled = {} /\ alive = Receivers
        /\ stack = <<>> /\ exit = Loops
        /\ interrupt = FALSE /\ wakeUps = FALSE /\ pipe = FALSE
        /\ poster = [p \in Posters |-> "idle"]
        /\ fate = [e \in Events |-> "new"]
        /\ postedIn = [e \in Events |-> NoEvent]

-----------------------------------------------------------------------------
(* The stack.                                                              *)

LoopFrame(l) == [frame |-> "loop", loop |-> l]
RoundFrame(w) == [frame |-> "round", at |-> "start", waits |-> w]
WalkFrame(r, ty, i) == [frame |-> "walk", receiver |-> r, type |-> ty, i |-> i]
HandlerFrame(entry) == [frame |-> "handler", event |-> entry.event,
                        receiver |-> entry.receiver, type |-> entry.type]

Frames(kind) == {i \in DOMAIN stack : stack[i].frame = kind}
Top == Last(stack)
TopIs(kind) == stack # <<>> /\ Top.frame = kind
Push(f) == stack' = Append(stack, f)
Return == stack' = Front(stack)

loopLevel == Cardinality(Frames("loop"))
scopeLevel == Cardinality(Frames("handler"))
recursion == Cardinality(Frames("walk"))

Locked == TopIs("walk")

RoundAt(at) == TopIs("round") /\ Top.at = at

(* User code has control.                                                  *)
InUserCode(call) == /\ call \in Calls
                    /\ stack = <<>> \/ (TopIs("handler") /\ Top.type = "normal")

CanNest == Len(stack) < MaxDepth

(* QEventDispatcherUNIX::wakeUp() by the thread itself.                    *)
WakeUpSelf == wakeUps' = TRUE /\ pipe' = (pipe \/ ~wakeUps)

-----------------------------------------------------------------------------
(* Posting and removing events.                                            *)

(* The entry goes into the list; a second DeferredDelete is dropped.       *)
AddPosted(r, e, ty, p, level) ==
    /\ fate[e] = "new" /\ r \in alive
    /\ IF ty = "delete" /\ postedEvents[r] > 0 /\ r \in deleteLaterCalled
       THEN /\ fate' = [fate EXCEPT ![e] = "gone"]
            /\ UNCHANGED <<list, canWait, postedEvents, deleteLaterCalled>>
       ELSE /\ fate' = [fate EXCEPT ![e] = "posted"]
            /\ list' = AddEvent(list, [event |-> e, receiver |-> r, type |-> ty,
                                       priority |-> p, level |-> level])
            /\ canWait' = FALSE
            /\ postedEvents' = [postedEvents EXCEPT ![r] = @ + 1]
            /\ deleteLaterCalled' = IF ty = "delete" THEN deleteLaterCalled \cup {r}
                                                     ELSE deleteLaterCalled
    /\ UNCHANGED alive

Added == list' # list

(* The level that DeferredDelete remembers: 0 from other threads.          *)
PostLevel == IF scopeLevel = 0 /\ loopLevel # 0 THEN loopLevel + 1
                                                ELSE loopLevel + scopeLevel

(* postEvent() and deleteLater() in the thread itself.                     *)
Post(r, e, ty, p) ==
    /\ InUserCode(IF ty = "normal" THEN "post" ELSE "deleteLater")
    /\ AddPosted(r, e, ty, p, IF ty = "normal" THEN 0 ELSE PostLevel)
    /\ postedIn' = [postedIn EXCEPT ![e] = IF ty = "delete" /\ stack # <<>>
                                           THEN Top.event ELSE NoEvent]
    /\ IF Added THEN WakeUpSelf ELSE UNCHANGED <<wakeUps, pipe>>
    /\ UNCHANGED <<stack, exit, interrupt, poster>>

(* The same in another thread, up to the unlock.                           *)
PostFrom(t, r, e, ty, p) ==
    /\ poster[t] = "idle" /\ ~Locked
    /\ (IF ty = "normal" THEN "post" ELSE "deleteLater") \in Calls
    /\ AddPosted(r, e, ty, p, 0)
    /\ poster' = [poster EXCEPT ![t] = IF Added THEN "wake" ELSE "idle"]
    /\ UNCHANGED <<stack, exit, dispatcher, postedIn>>

Gone(r) == [e \in Events |->
              IF \E i \in 1..Size(list) : list.entries[i].event = e
                                          /\ list.entries[i].receiver = r
              THEN "gone" ELSE fate[e]]

(* removePostedEvents(r, 0).                                               *)
RemoveAll(r, walked) ==
    IF postedEvents[r] = 0 THEN UNCHANGED <<list, postedEvents, fate>>
    ELSE /\ list' = RemoveEvents(list, r, walked)
         /\ postedEvents' = [postedEvents EXCEPT ![r] = 0]
         /\ fate' = Gone(r)

(* By any thread. sendPostedEvents() counts its recursion before it locks: *)
(* a thread that is about to walk may already appear to walk.              *)
RemovePostedEvents(r) ==
    /\ "remove" \in Calls /\ ~Locked /\ r \in alive
    /\ postedEvents[r] > 0
    /\ \/ RemoveAll(r, recursion > 0)
       \/ (stack = <<>> \/ RoundAt("send")) /\ RemoveAll(r, TRUE)
    /\ UNCHANGED <<canWait, deleteLaterCalled, alive, stack, exit, dispatcher, poster,
                   postedIn>>

-----------------------------------------------------------------------------
(* sendPostedEvents().                                                     *)

(* Up to the loop: nothing to do; or a walk begins.                        *)
BeginWalk(below, r, ty) ==
    IF Size(list) = 0 \/ (r # NoReceiver /\ postedEvents[r] = 0)
    THEN /\ canWait' = (Size(list) = 0)
         /\ stack' = below
         /\ UNCHANGED list
    ELSE /\ canWait' = TRUE
         /\ list' = [list EXCEPT !.insertionOffset = Size(list)]
         /\ stack' = Append(below, WalkFrame(r, ty, list.startOffset))

(* Called by user code: for everything, for a receiver, or for all         *)
(* DeferredDelete events.                                                  *)
SendPostedEvents(r, ty) ==
    /\ InUserCode(IF ty = "any" THEN "send" ELSE "sendDeletes") /\ CanNest
    /\ BeginWalk(stack, r, ty)
    /\ UNCHANGED <<objects, exit, dispatcher, poster, history>>

WalksAll == Top.receiver = NoReceiver /\ Top.type = "any"
Position == IF WalksAll THEN list.startOffset ELSE Top.i
Here == list.entries[Position + 1]
AtEnd == Position >= Size(list) \/ Position >= list.insertionOffset

(* Position goes to the next entry of l; the stack below may get a frame.  *)
Advance(l, frames) ==
    IF WalksAll
    THEN /\ list' = [l EXCEPT !.startOffset = @ + 1]
         /\ stack' = stack \o frames
    ELSE /\ list' = l
         /\ stack' = [stack EXCEPT ![Len(stack)].i = @ + 1] \o frames

(* Mistake: an event of the present level is sent.                         *)
DeleteAllowed_SameLevel(level, ty) ==
    LET here == loopLevel + scopeLevel IN level >= here \/ (level = 0 /\ here > 0)

(* May a DeferredDelete of that level be sent in a walk for ty?            *)
DeleteAllowed(level, ty) ==
    LET here == loopLevel + scopeLevel IN
    \/ level > here
    \/ level = 0 /\ here > 0
    \/ ty = "delete" /\ level = here

Matches == /\ Top.receiver \in {NoReceiver, Here.receiver}
           /\ Top.type \in {"any", Here.type}

Deferred == Here.type = "delete" /\ ~DeleteAllowed(Here.level, Top.type)

(* An entry that is null, or not for this walk.                            *)
SkipEntry ==
    /\ TopIs("walk") /\ ~AtEnd
    /\ Here.event = NoEvent \/ ~Matches
    /\ canWait' = (canWait /\ Here.event = NoEvent)
    /\ Advance(list, <<>>)
    /\ UNCHANGED <<objects, exit, dispatcher, poster, history>>

(* A DeferredDelete event whose time has not come: a walk over everything  *)
(* posts it again.                                                         *)
RepostDelete ==
    /\ TopIs("walk") /\ ~AtEnd
    /\ Here.event # NoEvent /\ Matches /\ Deferred
    /\ Advance(IF WalksAll THEN AddEvent(NullAt(list, Position + 1), Here) ELSE list, <<>>)
    /\ UNCHANGED <<canWait, objects, exit, dispatcher, poster, history>>

(* The event is taken out and its handler called, without the mutex.       *)
Deliver ==
    /\ TopIs("walk") /\ ~AtEnd
    /\ Here.event # NoEvent /\ Matches /\ ~Deferred
    /\ Advance(NullAt(list, Position + 1), <<HandlerFrame(Here)>>)
    /\ postedEvents' = [postedEvents EXCEPT ![Here.receiver] = @ - 1]
    /\ fate' = [fate EXCEPT ![Here.event] = "gone"]
    /\ UNCHANGED <<canWait, deleteLaterCalled, alive, exit, dispatcher, poster, postedIn>>

(* Mistake: the walk decides at its end that the thread may sleep.         *)
EndWalk_CanWait ==
    /\ TopIs("walk") /\ AtEnd
    /\ Return
    /\ canWait' = TRUE
    /\ list' = IF WalksAll THEN EraseSent(list) ELSE list
    /\ UNCHANGED <<objects, exit, dispatcher, poster, history>>

(* The end of a walk and its clean-up.                                     *)
EndWalk ==
    /\ TopIs("walk") /\ AtEnd
    /\ Return
    /\ list' = IF WalksAll THEN EraseSent(list) ELSE list
    /\ IF recursion = 1 /\ ~canWait THEN WakeUpSelf ELSE UNCHANGED <<wakeUps, pipe>>
    /\ UNCHANGED <<canWait, objects, exit, interrupt, poster, history>>

(* A handler returns.                                                      *)
HandlerReturns ==
    /\ TopIs("handler") /\ Top.type = "normal"
    /\ Return
    /\ postedIn' = [e \in Events |-> IF postedIn[e] = Top.event THEN NoEvent ELSE postedIn[e]]
    /\ UNCHANGED <<list, canWait, objects, exit, dispatcher, poster, fate>>

(* The handler of DeferredDelete: the destructor removes what is posted.   *)
DeleteReceiver ==
    LET r == Top.receiver IN
    /\ TopIs("handler") /\ Top.type = "delete"
    /\ RemoveAll(r, TRUE)
    /\ alive' = alive \ {r}
    /\ Return
    /\ UNCHANGED <<canWait, deleteLaterCalled, exit, dispatcher, poster, postedIn>>

-----------------------------------------------------------------------------
(* QEventLoop.                                                             *)

(* exec(), up to its loop; not for a loop that is in exec() already.       *)
Exec(l) ==
    /\ InUserCode("exec") /\ CanNest
    /\ \A i \in Frames("loop") : stack[i].loop # l
    /\ exit' = exit \ {l}
    /\ Push(LoopFrame(l))
    /\ UNCHANGED <<list, canWait, objects, dispatcher, poster, history>>

(* The loop looks at the flag.                                             *)
CheckExit ==
    /\ TopIs("loop")
    /\ IF Top.loop \in exit THEN Return ELSE Push(RoundFrame(TRUE))
    /\ UNCHANGED <<list, canWait, objects, exit, dispatcher, poster, history>>

(* exit() by the thread itself.                                            *)
Exit(l) ==
    /\ InUserCode("exit")
    /\ exit' = exit \cup {l} /\ interrupt' = TRUE
    /\ WakeUpSelf
    /\ UNCHANGED <<list, canWait, objects, stack, poster, history>>

(* exit() by another thread: the flag, then the dispatcher's interrupt().  *)
ExitFrom(t, l) ==
    /\ "exit" \in Calls /\ poster[t] = "idle"
    /\ exit' = exit \cup {l}
    /\ poster' = [poster EXCEPT ![t] = "interrupt"]
    /\ UNCHANGED <<list, canWait, objects, stack, dispatcher, history>>

Interrupt(t) ==
    /\ poster[t] = "interrupt"
    /\ interrupt' = TRUE
    /\ poster' = [poster EXCEPT ![t] = "wake"]
    /\ UNCHANGED <<list, canWait, objects, stack, exit, wakeUps, pipe, history>>

-----------------------------------------------------------------------------
(* The dispatcher.                                                         *)

(* Mistake: every thread writes.                                           *)
SetWakeUps_AllWrite(t) ==
    /\ poster[t] = "wake"
    /\ wakeUps' = TRUE
    /\ poster' = [poster EXCEPT ![t] = "write"]
    /\ UNCHANGED <<list, canWait, objects, stack, exit, interrupt, pipe, history>>

(* QThreadPipe::wakeUp() of another thread.                                *)
SetWakeUps(t) ==
    /\ poster[t] = "wake"
    /\ wakeUps' = TRUE
    /\ poster' = [poster EXCEPT ![t] = IF wakeUps THEN "idle" ELSE "write"]
    /\ UNCHANGED <<list, canWait, objects, stack, exit, interrupt, pipe, history>>

WritePipe(t) ==
    /\ poster[t] = "write"
    /\ pipe' = TRUE
    /\ poster' = [poster EXCEPT ![t] = "idle"]
    /\ UNCHANGED <<list, canWait, objects, stack, exit, interrupt, wakeUps, history>>

(* processEvents() by user code, without waiting.                          *)
ProcessEvents ==
    /\ InUserCode("process") /\ CanNest
    /\ Push(RoundFrame(FALSE))
    /\ UNCHANGED <<list, canWait, objects, exit, dispatcher, poster, history>>

RoundTo(at) == [stack EXCEPT ![Len(stack)].at = at]

StartRound ==
    /\ RoundAt("start")
    /\ interrupt' = FALSE
    /\ stack' = RoundTo("send")
    /\ UNCHANGED <<list, canWait, objects, exit, wakeUps, pipe, poster, history>>

SendAll ==
    /\ RoundAt("send")
    /\ BeginWalk(RoundTo("sent"), NoReceiver, "any")
    /\ UNCHANGED <<objects, exit, dispatcher, poster, history>>

(* May this round wait?                                                    *)
ReadCanWait ==
    /\ RoundAt("sent")
    /\ stack' = [stack EXCEPT ![Len(stack)].at = "decide", ![Len(stack)].waits = @ /\ canWait]
    /\ UNCHANGED <<list, canWait, objects, exit, dispatcher, poster, history>>

(* interrupt is set: back to the caller. Otherwise into poll().            *)
ReadInterrupt ==
    /\ RoundAt("decide")
    /\ IF interrupt THEN Return ELSE stack' = RoundTo("poll")
    /\ UNCHANGED <<list, canWait, objects, exit, dispatcher, poster, history>>

(* poll() returns at once, or when the pipe is readable; then it is read.  *)
Poll ==
    /\ RoundAt("poll")
    /\ pipe \/ ~Top.waits
    /\ IF pipe THEN stack' = RoundTo("check") ELSE Return
    /\ pipe' = FALSE
    /\ UNCHANGED <<list, canWait, objects, exit, interrupt, wakeUps, poster, history>>

(* Mistake: wakeUps stays 1.                                               *)
ResetWakeUps_Never ==
    /\ RoundAt("check")
    /\ Return
    /\ UNCHANGED <<list, canWait, objects, exit, dispatcher, poster, history>>

(* The end of QThreadPipe::check() and of the round.                       *)
ResetWakeUps ==
    /\ RoundAt("check")
    /\ wakeUps' = FALSE
    /\ Return
    /\ UNCHANGED <<list, canWait, objects, exit, interrupt, pipe, poster, history>>

Round == \/ StartRound \/ SendAll \/ ReadCanWait \/ ReadInterrupt \/ Poll \/ ResetWakeUps
Walk == SkipEntry \/ RepostDelete \/ Deliver \/ EndWalk \/ DeleteReceiver
UserCall ==
    \/ \E r \in Receivers, e \in Events :
         \/ \E p \in Priorities : Post(r, e, "normal", p)
         \/ Post(r, e, "delete", 0)
    \/ \E r \in alive \cup {NoReceiver} : SendPostedEvents(r, "any")
    \/ SendPostedEvents(NoReceiver, "delete")
    \/ \E l \in Loops : Exec(l) \/ Exit(l)
    \/ ProcessEvents

OtherThread(t) ==
    \/ \E r \in Receivers, e \in Events :
         \/ \E p \in Priorities : PostFrom(t, r, e, "normal", p)
         \/ PostFrom(t, r, e, "delete", 0)
    \/ \E l \in Loops : ExitFrom(t, l)

InWakeUp(t) == Interrupt(t) \/ SetWakeUps(t) \/ WritePipe(t)

Next == \/ CheckExit \/ Round \/ Walk \/ HandlerReturns \/ UserCall
        \/ \E r \in Receivers : RemovePostedEvents(r)
        \/ \E t \in Posters : OtherThread(t) \/ InWakeUp(t)

Spec == Init /\ [][Next]_vars

(* The threads keep running inside of Qt, and a handler returns after      *)
(* finitely many calls. Nobody has to post, to exit or to enter a loop.    *)
FairSpec == /\ Spec
            /\ WF_vars(CheckExit \/ Round \/ Walk)
            /\ SF_vars(HandlerReturns)
            /\ \A t \in Posters : WF_vars(InWakeUp(t))

-----------------------------------------------------------------------------
EntryOf(e) == list.entries[CHOOSE i \in 1..Size(list) : list.entries[i].event = e]

Undelivered == \E e \in Events : fate[e] = "posted" /\ EntryOf(e).type = "normal"

TypeOK == /\ list.entries \in Seq([event: Events \cup {NoEvent},
                                   receiver: Receivers \cup {NoReceiver},
                                   type: {"normal", "delete"},
                                   priority: Priorities \cup {0}, level: Nat])
          /\ canWait \in BOOLEAN
          /\ postedEvents \in [Receivers -> Nat]
          /\ deleteLaterCalled \subseteq Receivers /\ alive \subseteq Receivers
          /\ \A i \in DOMAIN stack : stack[i].frame \in {"loop", "round", "walk", "handler"}
          /\ exit \subseteq Loops
          /\ {interrupt, wakeUps, pipe} \subseteq BOOLEAN
          /\ poster \in [Posters -> PosterStates]
          /\ fate \in [Events -> Fates]
          /\ postedIn \in [Events -> Events \cup {NoEvent}]

(* postedEvents, by which sendPostedEvents() and removePostedEvents() skip *)
(* their work, counts the entries of each receiver; a posted event is in   *)
(* the list once; nothing is posted to an object that is deleted.          *)
EntriesAccountedFor ==
    /\ \A r \in Receivers :
         postedEvents[r] = Cardinality({i \in 1..Size(list) : list.entries[i].receiver = r})
    /\ \A e \in Events :
         Cardinality({i \in 1..Size(list) : list.entries[i].event = e})
           = IF fate[e] = "posted" THEN 1 ELSE 0
    /\ \A r \in Receivers \ alive : postedEvents[r] = 0

(* However walks nest, the offsets stay within the list (the assertion at  *)
(* qcoreapplication.cpp:1826), what startOffset has passed is null, and    *)
(* what std::upper_bound searches in addEvent() is sorted.                 *)
OffsetsMakeSense ==
    /\ list.startOffset \in 0..Size(list)
    /\ list.startOffset > 0 => list.startOffset <= list.insertionOffset
    /\ \A i \in 1..list.startOffset : list.entries[i].event = NoEvent
    /\ \A i, j \in list.insertionOffset + 1 .. Size(list) :
         i < j => list.entries[i].priority >= list.entries[j].priority

(* The list is what the next step of any walk or removal takes it for.     *)
ListIsSound == EntriesAccountedFor /\ OffsetsMakeSense

(* "hopefully, this is dead code" (qeventdispatcher_unix.cpp:181): when    *)
(* the pipe is readable, and when check() has read it, wakeUps is 1, and   *)
(* one thread at most is about to write.                                   *)
PipeMatchesWakeUps ==
    /\ pipe \/ RoundAt("check") \/ (\E t \in Posters : poster[t] = "write") => wakeUps
    /\ \A t, s \in Posters : poster[t] = "write" /\ poster[s] = "write" => t = s
    /\ pipe => \A t \in Posters : poster[t] # "write"

(* The thread does not sleep on events: when it blocks in poll() with a    *)
(* deliverable event in the list, somebody is about to wake it.            *)
NoSleepOnEvents ==
    RoundAt("poll") /\ Top.waits /\ ~pipe /\ Undelivered
    => \E t \in Posters : poster[t] \in {"wake", "write"}

(* The pipe, its flag, canWait and the list agree about whether the thread *)
(* may sleep, at every point between their being set and being looked at.  *)
WakeUpsArrive == PipeMatchesWakeUps /\ NoSleepOnEvents

(* Nested loops "will not perform the deferred deletion": an object is not *)
(* deleted, unless explicitly asked for, before the handler returns that   *)
(* called deleteLater().                                                   *)
DeletedAfterReturn ==
    [][(Deliver /\ Here.type = "delete" /\ Top.type = "any") =>
         \A i \in Frames("handler") : stack[i].event # postedIn[Here.event]]_vars

(* In a loop, posted events are delivered, unless they are removed: the    *)
(* list runs out of them, since there are finitely many in all.            *)
EventsAreDelivered == Undelivered ~> (~Undelivered \/ stack = <<>>)

(* exec() returns after exit() once the loops nested in it were told, too. *)
ToldToExit(l) == \E i \in Frames("loop") :
                   /\ stack[i].loop = l
                   /\ \A j \in Frames("loop") : j >= i => stack[j].loop \in exit
ExitEndsExec == \A l \in Loops : ToldToExit(l) ~> ~ToldToExit(l)

(* deleteLater(): "The object will be deleted when control returns to the  *)
(* event loop" (qobject.cpp:2380). Due: no handler is running, and the     *)
(* level of the event allows it.                                           *)
Due(e) == /\ fate[e] = "posted" /\ EntryOf(e).type = "delete"
          /\ loopLevel > 0 /\ scopeLevel = 0
          /\ DeleteAllowed(EntryOf(e).level, "any")
DeferredDeletesHappen == \A e \in Events : Due(e) ~> ~Due(e)
=============================================================================
