-------------------------- MODULE QFutureInterface --------------------------
(***************************************************************************)
(* The shared state of one QFuture (QFutureInterfaceBasePrivate) and those *)
(* that meet over it: the thread that owns the QPromise, threads that wait *)
(* for results, threads that cancel or suspend, a QFutureWatcher, and the  *)
(* thread that attaches a continuation with then().                        *)
(*                                                                         *)
(* Every function takes m_mutex for its whole length unless it sleeps, so  *)
(* it is one step; what the code does after an unlock() is a step of its   *)
(* own. waitCondition and pausedWaitCondition wake whoever sleeps on them. *)
(* Progress values are left out, and no runnable is there to be stolen.    *)
(***************************************************************************)
EXTENDS Integers, Sequences, FiniteSets

CONSTANTS Waiters,          \* threads in waitForResult() or waitForFinished()
          Meetings,         \* sets of parties that may come: "waiters", "then", "watcher"
          Limit,            \* QFutureWatcherBasePrivate::maximumPendingResultsReady
          Strays,           \* bound on the results that the watcher's former future
                            \* reports while setFuture() leaves it
          MaxResults,       \* bound on the results
          MaxRequests       \* bound on the calls that cancel, suspend, resume

ASSUME LimitAssumption == Limit \in Nat \ {0}
ASSUME BoundsAssumption == Strays \in Nat /\ MaxResults \in Nat /\ MaxRequests \in Nat

VARIABLES parties,          \* who comes in this behaviour
          state,            \* QFutureInterfaceBasePrivate::state, a set of flags
          isValid, hasException,
          results,          \* how many results have been stored
          requests,         \* calls made so far by those who cancel or suspend
          promise,          \* where the owner of the promise is
          destroying,       \* it is in ~QPromise()
          wait, want,       \* per waiter: where it is, and what it waits for
          continuation,     \* d->continuation is set
          cleaned,          \* d->continuationState is Cleaned
          attach,           \* where the thread in then() is
          runs,             \* history: how often the continuation has been called
          watch,            \* where the watcher is; "none": at no future or another one
          snapshot,         \* the events that connectOutputInterface() still has to post
          queue,            \* call-out events posted to the watcher
          pending,          \* QFutureWatcherBasePrivate::pendingResultsReady
          lifting,          \* the watcher is about to call setThrottled(false)
          told              \* history: how many events of each kind were posted
                            \* to the watcher since it was last attached

shared == <<parties, state, isValid, hasException, results, requests>>
owner == <<promise, destroying>>
waits == <<wait, want>>
chain == <<continuation, cleaned, attach, runs>>
watcher == <<watch, snapshot, queue, pending, lifting, told>>
vars == <<shared, owner, waits, chain, watcher>>

Flags == {"Running", "Started", "Finished", "Canceled", "Suspending", "Suspended",
          "Throttled", "Pending"}
suspendingOrSuspended == {"Suspending", "Suspended"}
Events == {"Started", "Finished", "Canceled", "Suspending", "Suspended", "Resumed",
           "ResultsReady"}

Has(flags) == state \cap flags # {}
switch_from_to(from, to) == state' = (state \ from) \cup to

AllResults == MaxResults          \* waitForResult(-1), an index never reached
UntilFinished == MaxResults + 1   \* waitForFinished()

(* QFutureInterface() of a QPromise, or that of a future returned by then(). *)
Init == /\ parties \in Meetings
        /\ state \in {{}, {"Pending"}}
        /\ isValid = FALSE /\ hasException = FALSE
        /\ results = 0 /\ requests = 0
        /\ promise = "live" /\ destroying = FALSE
        /\ wait = [w \in Waiters |-> "no"]
        /\ want = [w \in Waiters |-> UntilFinished]
        /\ continuation = FALSE /\ cleaned = FALSE
        /\ attach = "idle" /\ runs = 0
        /\ watch = "none" /\ snapshot = <<>> /\ queue = <<>>
        /\ pending = 0 /\ lifting = FALSE
        /\ told = [e \in Events |-> 0]

-----------------------------------------------------------------------------
(* Mistake: call-outs reach a watcher only when it has been brought up to  *)
(* date.                                                                   *)
Outputs_Late == watch \in {"connected", "leaving"}

(* The watcher is in outputConnections.                                    *)
Outputs == watch \in {"posting", "connected", "leaving"}

Places(event, events) == {i \in DOMAIN events : events[i] = event}
Count(event, events) == Cardinality(Places(event, events))

Post(events) == /\ queue' = queue \o events
                /\ told' = [e \in Events |-> told[e] + Count(e, events)]

(* sendCallOut(): QFutureWatcherBasePrivate::postCallOutEvent() of all but *)
(* ResultsReady.                                                           *)
SendCallOut(events) == /\ IF Outputs THEN Post(events) ELSE UNCHANGED <<queue, told>>
                       /\ UNCHANGED <<watch, snapshot, pending, lifting>>

(* postCallOutEvent() of a ResultsReady event; it throttles.               *)
Throttles == pending >= Limit
PostResultsReady == Post(<<"ResultsReady">>) /\ pending' = pending + 1

(* waitCondition.wakeAll() and pausedWaitCondition.wakeAll()               *)
WakeWaiters == wait' = [w \in Waiters |-> IF wait[w] = "asleep" THEN "awake" ELSE wait[w]]
WakePaused == promise' = IF promise = "asleep" THEN "live" ELSE promise

-----------------------------------------------------------------------------
(* The owner of the promise.                                               *)

(* Mistake: only a future that has been started is not started again.      *)
ReportStarted_OnlyStarted ==
    /\ promise = "live" /\ ~Has({"Started"})
    /\ state' = {"Started", "Running"}
    /\ isValid' = TRUE
    /\ SendCallOut(<<"Started">>)
    /\ UNCHANGED <<parties, hasException, results, requests, owner, waits, chain>>

(* start(): setState() overwrites every other flag.                        *)
ReportStarted ==
    /\ promise = "live" /\ ~Has({"Started", "Canceled", "Finished"})
    /\ state' = {"Started", "Running"}
    /\ isValid' = TRUE
    /\ SendCallOut(<<"Started">>)
    /\ UNCHANGED <<parties, hasException, results, requests, owner, waits, chain>>

(* addResult(): reportAndEmplaceResult() with reportResultsReady().        *)
AddResult ==
    /\ promise = "live" /\ ~Has({"Canceled", "Finished"})
    /\ results < MaxResults
    /\ results' = results + 1
    /\ WakeWaiters
    /\ IF Outputs
       THEN /\ PostResultsReady
            /\ state' = IF Throttles THEN state \cup {"Throttled"} ELSE state
            /\ UNCHANGED <<watch, snapshot, lifting>>
       ELSE UNCHANGED <<state, watcher>>
    /\ UNCHANGED <<parties, isValid, hasException, requests, owner, want, chain>>

(* setException(), which "must not be used after QFuture::cancel() or      *)
(* finish()": clears the results, without m_mutex, and then reports. In    *)
(* between another thread may cancel; then the exception is dropped.       *)
SetException ==
    /\ promise = "live" /\ ~hasException /\ ~Has({"Canceled", "Finished"})
    /\ results' = 0
    /\ promise' = "report"
    /\ UNCHANGED <<parties, state, isValid, hasException, requests, destroying, waits, chain, watcher>>

(* Running stays on until finish().                                        *)
ReportException ==
    /\ promise = "report" /\ promise' = "live"
    /\ IF Has({"Canceled", "Finished"})
       THEN UNCHANGED <<hasException, state, wait, watcher>>
       ELSE /\ hasException' = TRUE
            /\ switch_from_to({}, {"Canceled"})
            /\ WakeWaiters
            /\ SendCallOut(<<"Canceled">>)
    /\ UNCHANGED <<parties, isValid, results, requests, destroying, want, chain>>

(* suspendIfRequested(): sleeps once, without looking at the state again.  *)
SuspendIfRequested ==
    /\ promise = "live" /\ Has(suspendingOrSuspended) /\ ~Has({"Canceled"})
    /\ promise' = "asleep"
    /\ IF Has({"Suspended"})
       THEN UNCHANGED <<state, watcher>>
       ELSE switch_from_to({"Suspending"}, {"Suspended"}) /\ SendCallOut(<<"Suspended">>)
    /\ UNCHANGED <<parties, isValid, hasException, results, requests, destroying, waits, chain>>

WaitForResume ==
    /\ promise = "live" /\ Has(suspendingOrSuspended) /\ ~Has({"Canceled"})
    /\ promise' = "asleep"
    /\ UNCHANGED <<shared, destroying, waits, chain, watcher>>

ReportSuspended ==
    /\ promise = "live" /\ Has({"Suspending"}) /\ ~Has({"Suspended"})
    /\ switch_from_to({"Suspending"}, {"Suspended"})
    /\ SendCallOut(<<"Suspended">>)
    /\ UNCHANGED <<parties, isValid, hasException, results, requests, owner, waits, chain>>

(* finish(), which is called once: reportFinished(), and then              *)
(* runContinuation(), which starts where promise is "take".                *)
ReportFinished ==
    /\ promise = "live" /\ ~Has({"Finished"})
    /\ switch_from_to({"Running"}, {"Finished"})
    /\ WakeWaiters
    /\ SendCallOut(<<"Finished">>)
    /\ promise' = "take"
    /\ UNCHANGED <<parties, isValid, hasException, results, requests, destroying, want, chain>>

(* ~QPromise() of a promise that is finished, and of one that is not:      *)
(* cancelAndFinish().                                                      *)
Destroy ==
    /\ promise = "live" /\ ~destroying
    /\ destroying' = TRUE
    /\ IF Has({"Finished"})
       THEN promise' = "clean" /\ UNCHANGED <<state, isValid, hasException, results, requests, wait, watcher>>
       ELSE /\ switch_from_to(suspendingOrSuspended \cup {"Running"}, {"Canceled", "Finished"})
            /\ WakeWaiters
            /\ SendCallOut(IF Has({"Canceled"}) THEN <<"Finished">> ELSE <<"Canceled", "Finished">>)
            /\ isValid' = FALSE
            /\ promise' = "take"
            /\ UNCHANGED <<hasException, results, requests>>
    /\ UNCHANGED <<parties, want, chain>>

(* runContinuation(): takes the function, calls it without the mutex, puts *)
(* it back.                                                                *)
TakeContinuation ==
    /\ promise = "take"
    /\ promise' = IF continuation THEN "call" ELSE IF destroying THEN "clean" ELSE "live"
    /\ continuation' = FALSE
    /\ UNCHANGED <<shared, destroying, waits, cleaned, attach, runs, watcher>>

CallContinuation ==
    /\ promise = "call"
    /\ promise' = "restore" /\ runs' = runs + 1
    /\ UNCHANGED <<shared, destroying, waits, continuation, cleaned, attach, watcher>>

RestoreContinuation ==
    /\ promise = "restore"
    /\ promise' = IF destroying THEN "clean" ELSE "live"
    /\ continuation' = (continuation \/ ~cleaned)
    /\ UNCHANGED <<shared, destroying, waits, cleaned, attach, runs, watcher>>

(* cleanContinuation(), the end of ~QPromise()                             *)
CleanContinuation ==
    /\ promise = "clean"
    /\ promise' = "gone"
    /\ continuation' = FALSE /\ cleaned' = TRUE
    /\ UNCHANGED <<shared, destroying, waits, attach, runs, watcher>>

-----------------------------------------------------------------------------
(* then(): setContinuation()                                               *)

(* Mistake: the state is not looked at under continuationMutex.            *)
SetContinuation_NoCheck ==
    /\ attach = "idle" /\ "then" \in parties
    /\ attach' = "done" /\ continuation' = ~cleaned
    /\ UNCHANGED <<shared, owner, waits, cleaned, runs, watcher>>

SetContinuation ==
    /\ attach = "idle" /\ "then" \in parties
    /\ IF Has({"Finished"})
       THEN attach' = "call" /\ UNCHANGED continuation
       ELSE attach' = "done" /\ continuation' = ~cleaned
    /\ UNCHANGED <<shared, owner, waits, cleaned, runs, watcher>>

CallAttached ==
    /\ attach = "call"
    /\ attach' = "store" /\ runs' = runs + 1
    /\ UNCHANGED <<shared, owner, waits, continuation, cleaned, watcher>>

StoreAttached ==
    /\ attach = "store"
    /\ attach' = "done" /\ continuation' = (continuation \/ ~cleaned)
    /\ UNCHANGED <<shared, owner, waits, cleaned, runs, watcher>>

-----------------------------------------------------------------------------
(* Any thread.                                                             *)
Request == requests < MaxRequests /\ requests' = requests + 1

(* Mistake: wakes who waits for results, not who is suspended.             *)
Cancel_LeavesPaused ==
    /\ Request /\ ~Has({"Canceled"})
    /\ switch_from_to(suspendingOrSuspended, {"Canceled"})
    /\ WakeWaiters
    /\ SendCallOut(<<"Canceled">>)
    /\ isValid' = FALSE
    /\ UNCHANGED <<parties, hasException, results, owner, want, chain>>

(* cancel(CancelMode::CancelOnly)                                          *)
Cancel ==
    /\ Request /\ ~Has({"Canceled"})
    /\ switch_from_to(suspendingOrSuspended, {"Canceled"})
    /\ WakeWaiters /\ WakePaused
    /\ SendCallOut(<<"Canceled">>)
    /\ isValid' = FALSE
    /\ UNCHANGED <<parties, hasException, results, destroying, want, chain>>

(* setSuspended() and both ways of toggleSuspended()                       *)
Suspend ==
    /\ Request
    /\ switch_from_to({}, {"Suspending"})
    /\ SendCallOut(<<"Suspending">>)
    /\ UNCHANGED <<parties, isValid, hasException, results, owner, waits, chain>>

Resume ==
    /\ Request
    /\ switch_from_to(suspendingOrSuspended, {})
    /\ WakePaused
    /\ SendCallOut(<<"Resumed">>)
    /\ UNCHANGED <<parties, isValid, hasException, results, destroying, waits, chain>>

-----------------------------------------------------------------------------
(* Waiters.                                                                *)
CanReturn(index) ==
    IF index = UntilFinished
    THEN Has({"Finished"})
    ELSE ~Has({"Running", "Pending"}) \/ index < results

(* waitForFinished(), waitForResult(): the first look at the state and the *)
(* one after relock() are the same step, as there is nothing to steal. A   *)
(* call that returns at once changes nothing.                              *)
StartWait(w, index) ==
    /\ wait[w] = "no" /\ "waiters" \in parties
    /\ index = UntilFinished \/ ~hasException
    /\ want' = [want EXCEPT ![w] = index]
    /\ ~CanReturn(index)
    /\ wait' = [wait EXCEPT ![w] = "asleep"]
    /\ UNCHANGED <<shared, owner, chain, watcher>>

(* Back from waitCondition.wait(), with m_mutex.                           *)
LookAgain(w) ==
    /\ wait[w] = "awake"
    /\ IF CanReturn(want[w])
       THEN wait' = [wait EXCEPT ![w] = "no"] /\ want' = [want EXCEPT ![w] = UntilFinished]
       ELSE wait' = [wait EXCEPT ![w] = "asleep"] /\ UNCHANGED want
    /\ UNCHANGED <<shared, owner, chain, watcher>>

-----------------------------------------------------------------------------
(* The watcher, in its own thread.                                         *)

(* What is so by now, in the documented order.                             *)
Initial == (IF Has({"Started"}) THEN <<"Started">> ELSE <<>>)
           \o [i \in 1..results |-> "ResultsReady"]
           \o (CASE Has({"Suspended"}) -> <<"Suspended">>
                 [] Has({"Suspending"}) /\ ~Has({"Suspended"}) -> <<"Suspending">>
                 [] OTHER -> <<>>)
           \o (IF Has({"Canceled"}) THEN <<"Canceled">> ELSE <<>>)
           \o (IF Has({"Finished"}) THEN <<"Finished">> ELSE <<>>)

(* setFuture() with this future, up to the unlock() in                     *)
(* connectOutputInterface(). The former future, if there was one, may have *)
(* reported results after the counter was reset and before it let go.      *)
ConnectOutputInterface ==
    /\ watch = "none" /\ "watcher" \in parties
    /\ watch' = "posting" /\ snapshot' = Initial
    /\ pending' \in 0..Strays
    /\ told' = [e \in Events |-> 0]
    /\ UNCHANGED <<shared, owner, waits, chain, queue, lifting>>

(* The loop after unlock().                                                *)
PostInitial ==
    /\ watch = "posting" /\ snapshot # <<>>
    /\ IF Head(snapshot) = "ResultsReady"
       THEN /\ PostResultsReady
            /\ state' = IF Throttles THEN state \cup {"Throttled"} ELSE state
       ELSE Post(<<Head(snapshot)>>) /\ UNCHANGED <<pending, state>>
    /\ snapshot' = Tail(snapshot)
    /\ UNCHANGED <<parties, isValid, hasException, results, requests, owner, waits, chain, watch, lifting>>

Connected ==
    /\ watch = "posting" /\ snapshot = <<>>
    /\ watch' = "connected"
    /\ UNCHANGED <<shared, owner, waits, chain, snapshot, queue, pending, lifting, told>>

Deliver(event) == /\ watch = "connected" /\ ~lifting
                  /\ queue # <<>> /\ Head(queue) = event
                  /\ queue' = Tail(queue)
                  /\ UNCHANGED <<shared, owner, waits, chain, watch, snapshot, told>>

(* Mistake: an off-by-one against the test of postCallOutEvent().          *)
DeliverResultsReady_Below ==
    /\ Deliver("ResultsReady")
    /\ IF Has({"Canceled"})
       THEN UNCHANGED <<pending, lifting>>
       ELSE pending' = pending - 1 /\ lifting' = (pending < Limit)

(* Mistake: counts down what the Canceled event has counted down.          *)
DeliverResultsReady_NoCheck ==
    /\ Deliver("ResultsReady")
    /\ pending' = pending - 1 /\ lifting' = (pending <= Limit)

(* sendCallOutEvent()                                                      *)
DeliverResultsReady ==
    /\ Deliver("ResultsReady")
    /\ IF Has({"Canceled"})
       THEN UNCHANGED <<pending, lifting>>
       ELSE pending' = pending - 1 /\ lifting' = (pending <= Limit)

DeliverCanceled ==
    /\ Deliver("Canceled")
    /\ pending' = 0 /\ UNCHANGED lifting

DeliverOther ==
    /\ \E event \in Events \ {"ResultsReady", "Canceled"} : Deliver(event)
    /\ UNCHANGED <<pending, lifting>>

(* setThrottled(false)                                                     *)
Unthrottle ==
    /\ lifting
    /\ lifting' = FALSE
    /\ switch_from_to({"Throttled"}, {})
    /\ IF Has(suspendingOrSuspended) THEN UNCHANGED promise ELSE WakePaused
    /\ UNCHANGED <<parties, isValid, hasException, results, requests, destroying, waits, chain,
                   watch, snapshot, queue, pending, told>>

(* setFuture() with another future: disconnectOutputInterface(true) resets *)
(* the counter before it takes m_mutex to leave this one.                  *)
ResetPending ==
    /\ watch = "connected" /\ ~lifting
    /\ watch' = "leaving" /\ pending' = 0
    /\ UNCHANGED <<shared, owner, waits, chain, snapshot, queue, lifting, told>>

(* disconnectOutputInterface() of setFuture() or ~QFutureWatcher(), with   *)
(* removePostedEvents(). The state stays as it is, Throttled too.          *)
DisconnectOutputInterface ==
    /\ \/ watch = "leaving" /\ watch' = "none"
       \/ watch = "connected" /\ ~lifting /\ watch' = "gone"
    /\ queue' = <<>>
    /\ UNCHANGED <<shared, owner, waits, chain, snapshot, pending, lifting, told>>

-----------------------------------------------------------------------------
RunContinuation == TakeContinuation \/ CallContinuation \/ RestoreContinuation
FinishAttach == CallAttached \/ StoreAttached

Promise == \/ ReportStarted \/ AddResult \/ SetException \/ ReportException
           \/ SuspendIfRequested \/ WaitForResume \/ ReportSuspended
           \/ ReportFinished \/ Destroy \/ RunContinuation \/ CleanContinuation

Watcher == \/ ConnectOutputInterface \/ PostInitial \/ Connected
           \/ DeliverResultsReady \/ DeliverCanceled \/ DeliverOther
           \/ Unthrottle \/ ResetPending \/ DisconnectOutputInterface

Next == \/ Promise \/ Watcher
        \/ SetContinuation \/ FinishAttach
        \/ Cancel \/ Suspend \/ Resume
        \/ \E w \in Waiters : LookAgain(w) \/ \E i \in 0..UntilFinished : StartWait(w, i)

Spec == Init /\ [][Next]_vars

-----------------------------------------------------------------------------
TypeOK == /\ parties \in Meetings
          /\ state \subseteq Flags
          /\ isValid \in BOOLEAN /\ hasException \in BOOLEAN
          /\ results \in 0..MaxResults /\ requests \in 0..MaxRequests
          /\ promise \in {"live", "report", "asleep", "take", "call", "restore", "clean", "gone"}
          /\ destroying \in BOOLEAN
          /\ wait \in [Waiters -> {"no", "asleep", "awake"}]
          /\ want \in [Waiters -> 0..UntilFinished]
          /\ continuation \in BOOLEAN /\ cleaned \in BOOLEAN
          /\ attach \in {"idle", "call", "store", "done"} /\ runs \in 0..2
          /\ watch \in {"none", "posting", "connected", "leaving", "gone"}
          /\ snapshot \in Seq(Events) /\ queue \in Seq(Events)
          /\ pending \in 0..(MaxResults + Strays) /\ lifting \in BOOLEAN
          /\ told \in [Events -> Nat]

(* Nobody sleeps on once the reason is gone, whichever of cancel(), an     *)
(* exception, a result, finish() or ~QPromise() came first: the wakeAll()  *)
(* calls of all of them match the conditions of both kinds of sleepers.    *)
NobodySleepsInVain ==
    /\ promise = "asleep" => Has(suspendingOrSuspended) /\ ~Has({"Canceled"})
    /\ \A w \in Waiters : wait[w] = "asleep" =>
         IF want[w] = UntilFinished THEN ~Has({"Finished"})
         ELSE Has({"Running", "Pending"}) /\ want[w] >= results

(* connectOutputInterface() takes its list of events and enters            *)
(* outputConnections under one lock: a watcher that comes at any moment is *)
(* told once of the start, of each result, of the cancellation and of the  *)
(* end, be it by that list or by a call-out.                               *)
WatcherMissesNothing ==
    Outputs =>
      /\ \A flag \in {"Started", "Canceled", "Finished"} :
           told[flag] + Count(flag, snapshot) = IF flag \in state THEN 1 ELSE 0
      /\ results > 0 =>
           told["ResultsReady"] + Count("ResultsReady", snapshot) = results

(* setPendingResultsLimit(): "The computation will resume once the number  *)
(* of pending signals drops below the limit": there is a pending result    *)
(* whose delivery ends the throttling. Where setException() has taken the  *)
(* results away, its exception cancels the future.                         *)
ThrottleEnds ==
    "Throttled" \in state /\ ~Has({"Canceled"}) /\ promise # "report" =>
      lifting \/ Count("ResultsReady", queue \o snapshot) > 0

(* So it is while a watcher is attached: the counter goes up in the thread *)
(* that reports results and down in that of the watcher, and starts anew   *)
(* when the watcher leaves. A watcher that leaves for good leaves the      *)
(* state as it was; then the sentence above is not kept.                   *)
ThrottleIsLifted == Outputs => ThrottleEnds

(* A watcher that is attached at any moment, or again after it was set to  *)
(* another future, does not miss an event; and while it is attached, a     *)
(* computation is not throttled for good. This takes a limit above the     *)
(* results that the former future reports while the watcher leaves it.     *)
WatcherKeepsUp == WatcherMissesNothing /\ ThrottleIsLifted

(* A continuation attached while the promise is being finished is run by   *)
(* the one thread or by the other: neither may rely on the other to do so. *)
ContinuationNotLost ==
    (Has({"Finished"}) /\ attach = "done" /\ promise \notin {"take", "call"}) => runs > 0

(* The end of a future is final: no call of any thread, however late,      *)
(* makes it run again, adds results or takes the end back. (A call of      *)
(* setException() after the end is the caller's mistake: see SetException.)*)
FinishedIsFinal ==
    [][Has({"Finished"}) => /\ "Finished" \in state' /\ "Running" \notin state'
                            /\ results' = results /\ hasException' = hasException]_vars

(* qfuture.qdoc on QtFuture::Launch::Sync: the continuation "will be       *)
(* launched in the same thread that fulfills the promise" or "if it has    *)
(* already finished, the continuation will be invoked immediately, in the  *)
(* thread that executes then()": it is invoked once.                       *)
ContinuationRunsOnce == runs <= 1

(* qpromise.h, ~QPromise(): "If computation is not finished at this point, *)
(* cancel potential waits": nobody waits for a future that is finished.    *)
FinishEndsWaits == Has({"Finished"}) => \A w \in Waiters : wait[w] # "asleep"
=============================================================================
