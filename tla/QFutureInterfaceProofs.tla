------------------------ MODULE QFutureInterfaceProofs ------------------------
(***************************************************************************)
(* What QFutureInterface guarantees for any number of waiters, results and *)
(* requests: who sleeps, who runs the continuation, that the end is final, *)
(* and what a watcher is told that comes, or comes again, at any moment.   *)
(***************************************************************************)
EXTENDS QFutureInterface, FiniteSetTheorems, TLAPS

(* The part of TypeOK that these results depend on.                        *)
Typing == /\ results \in Nat
          /\ promise \in {"live", "report", "asleep", "take", "call", "restore", "clean", "gone"}
          /\ wait \in [Waiters -> {"no", "asleep", "awake"}]
          /\ want \in [Waiters -> 0..UntilFinished]
          /\ attach \in {"idle", "call", "store", "done"}
          /\ runs \in Nat

(* A finished future does not run, every place after finish() in the       *)
(* thread of the promise is that of a finished future, and no exception is *)
(* about to be reported to one.                                            *)
EndIsMarked ==
    /\ "Finished" \in state => "Running" \notin state
    /\ promise = "report" => "Finished" \notin state
    /\ promise \in {"take", "call", "restore", "clean", "gone"} => "Finished" \in state

(* Where the continuation is: with the shared state, with the thread that  *)
(* runs it, or has been run.                                               *)
ContinuationHeld ==
    /\ cleaned => promise = "gone"
    /\ attach = "store" \/ promise = "restore" => runs > 0
    /\ attach = "done" => runs > 0 \/ continuation \/ promise = "call"
    /\ attach = "done" /\ promise \in {"live", "report", "asleep"} /\ "Finished" \in state
         => runs > 0

IInv == Typing /\ EndIsMarked /\ NobodySleepsInVain /\ ContinuationHeld /\ ContinuationNotLost

LEMMA InitIInv == Init => IInv
<1>1. SUFFICES ASSUME Init PROVE IInv
  OBVIOUS
<1>2. Typing
  BY <1>1, BoundsAssumption DEF Init, Typing, UntilFinished
<1>3. EndIsMarked
  BY <1>1 DEF Init, EndIsMarked
<1>4. NobodySleepsInVain
  BY <1>1 DEF Init, NobodySleepsInVain
<1>5. ContinuationHeld /\ ContinuationNotLost
  BY <1>1 DEF Init, ContinuationHeld, ContinuationNotLost, Has
<1> QED
  BY <1>2, <1>3, <1>4, <1>5 DEF IInv

LEMMA StepTyping == Typing /\ [Next]_vars => Typing'
<1> USE DEF Typing
<1>1. SUFFICES ASSUME Typing, [Next]_vars PROVE Typing'
  OBVIOUS
<1>2. CASE Promise
  BY <1>1, <1>2, BoundsAssumption
     DEF Promise, ReportStarted, AddResult, SetException, ReportException, SuspendIfRequested,
         WaitForResume, ReportSuspended, ReportFinished, Destroy, RunContinuation, TakeContinuation,
         CallContinuation, RestoreContinuation, CleanContinuation, WakeWaiters, waits, chain, owner, shared
<1>3. CASE Watcher
  BY <1>1, <1>3
     DEF Watcher, ConnectOutputInterface, PostInitial, Connected, DeliverResultsReady, DeliverCanceled,
         DeliverOther, Deliver, Unthrottle, ResetPending, DisconnectOutputInterface, WakePaused, waits, chain, owner, shared
<1>4. CASE SetContinuation \/ FinishAttach
  BY <1>1, <1>4
     DEF SetContinuation, FinishAttach, CallAttached, StoreAttached, waits, owner, shared
<1>5. CASE Cancel \/ Suspend \/ Resume
  BY <1>1, <1>5 DEF Cancel, Suspend, Resume, WakeWaiters, WakePaused, waits, chain, owner
<1>6. ASSUME NEW w \in Waiters, LookAgain(w) PROVE Typing'
  BY <1>1, <1>6, BoundsAssumption DEF LookAgain, UntilFinished, chain, owner, shared
<1>7. ASSUME NEW w \in Waiters, NEW i \in 0..UntilFinished, StartWait(w, i) PROVE Typing'
  BY <1>1, <1>7 DEF StartWait, chain, owner, shared
<1>8. CASE UNCHANGED vars
  BY <1>1, <1>8 DEF vars, waits, chain, owner, shared
<1> QED
  BY <1>1, <1>2, <1>3, <1>4, <1>5, <1>6, <1>7, <1>8 DEF Next

LEMMA StepEndIsMarked == EndIsMarked /\ [Next]_vars => EndIsMarked'
<1> USE DEF EndIsMarked, Has, switch_from_to, suspendingOrSuspended, shared, owner
<1>1. SUFFICES ASSUME EndIsMarked, [Next]_vars PROVE EndIsMarked'
  OBVIOUS
<1>2. CASE Promise
  BY <1>1, <1>2
     DEF Promise, ReportStarted, AddResult, SetException, ReportException, SuspendIfRequested,
         WaitForResume, ReportSuspended, ReportFinished, Destroy, RunContinuation, TakeContinuation,
         CallContinuation, RestoreContinuation, CleanContinuation
<1>3. CASE Watcher
  BY <1>1, <1>3
     DEF Watcher, ConnectOutputInterface, PostInitial, Connected, DeliverResultsReady, DeliverCanceled,
         DeliverOther, Deliver, Unthrottle, ResetPending, DisconnectOutputInterface,
         WakePaused
<1>4. CASE SetContinuation \/ FinishAttach
  BY <1>1, <1>4 DEF SetContinuation, FinishAttach, CallAttached, StoreAttached
<1>5. CASE Cancel \/ Suspend \/ Resume
  BY <1>1, <1>5 DEF Cancel, Suspend, Resume, WakePaused
<1>6. ASSUME NEW w \in Waiters, LookAgain(w) \/ \E i \in 0..UntilFinished : StartWait(w, i)
      PROVE  EndIsMarked'
  BY <1>1, <1>6 DEF LookAgain, StartWait
<1>7. CASE UNCHANGED vars
  BY <1>1, <1>7 DEF vars
<1> QED
  BY <1>1, <1>2, <1>3, <1>4, <1>5, <1>6, <1>7 DEF Next

LEMMA StepContinuation ==
  Typing /\ EndIsMarked /\ ContinuationHeld /\ ContinuationNotLost /\ [Next]_vars
    => ContinuationHeld' /\ ContinuationNotLost'
<1> USE DEF Typing, EndIsMarked, ContinuationHeld, ContinuationNotLost, Has, switch_from_to,
            suspendingOrSuspended, shared, owner, chain
<1>1. SUFFICES ASSUME Typing, EndIsMarked, ContinuationHeld, ContinuationNotLost, [Next]_vars
               PROVE  ContinuationHeld' /\ ContinuationNotLost'
  OBVIOUS
<1>2. CASE Promise
  <2>1. CASE ReportStarted \/ AddResult \/ SetException \/ ReportException
    BY <1>1, <2>1 DEF ReportStarted, AddResult, SetException, ReportException
  <2>2. CASE SuspendIfRequested \/ WaitForResume \/ ReportSuspended
    BY <1>1, <2>2 DEF SuspendIfRequested, WaitForResume, ReportSuspended
  <2>3. CASE ReportFinished
    BY <1>1, <2>3 DEF ReportFinished
  <2>4. CASE Destroy
    BY <1>1, <2>4 DEF Destroy
  <2>5. CASE TakeContinuation
    BY <1>1, <2>5 DEF TakeContinuation
  <2>6. CASE CallContinuation
    BY <1>1, <2>6 DEF CallContinuation
  <2>7. CASE RestoreContinuation
    BY <1>1, <2>7 DEF RestoreContinuation
  <2>8. CASE CleanContinuation
    BY <1>1, <2>8 DEF CleanContinuation
  <2> QED
    BY <1>2, <2>1, <2>2, <2>3, <2>4, <2>5, <2>6, <2>7, <2>8 DEF Promise, RunContinuation
<1>3. CASE Watcher
  BY <1>1, <1>3
     DEF Watcher, ConnectOutputInterface, PostInitial, Connected, DeliverResultsReady, DeliverCanceled,
         DeliverOther, Deliver, Unthrottle, ResetPending, DisconnectOutputInterface,
         WakePaused
<1>4. CASE SetContinuation
  <2>1. CASE Has({"Finished"})
    BY <1>1, <1>4, <2>1 DEF SetContinuation
  <2>2. CASE ~Has({"Finished"})
    <3>1. ~cleaned
      BY <1>1, <2>2
    <3>2. continuation' = ~cleaned
      BY <1>4, <2>2 DEF SetContinuation
    <3>3. continuation'
      BY <3>1, <3>2, Zenon
    <3> QED
      BY <1>1, <1>4, <2>2, <3>3 DEF SetContinuation
  <2> QED
    BY <2>1, <2>2
<1>5. CASE FinishAttach
  BY <1>1, <1>5 DEF FinishAttach, CallAttached, StoreAttached
<1>6. CASE Cancel \/ Suspend \/ Resume
  BY <1>1, <1>6 DEF Cancel, Suspend, Resume, WakePaused
<1>7. ASSUME NEW w \in Waiters, LookAgain(w) \/ \E i \in 0..UntilFinished : StartWait(w, i)
      PROVE  ContinuationHeld' /\ ContinuationNotLost'
  BY <1>1, <1>7 DEF LookAgain, StartWait
<1>8. CASE UNCHANGED vars
  BY <1>1, <1>8 DEF vars
<1> QED
  BY <1>1, <1>2, <1>3, <1>4, <1>5, <1>6, <1>7, <1>8 DEF Next

LEMMA StepSleepers ==
  Typing /\ Typing' /\ EndIsMarked /\ NobodySleepsInVain /\ [Next]_vars => NobodySleepsInVain'
<1> USE DEF Typing, EndIsMarked, NobodySleepsInVain, Has, switch_from_to, suspendingOrSuspended,
            shared, owner, waits
<1>1. SUFFICES ASSUME Typing, Typing', EndIsMarked, NobodySleepsInVain, [Next]_vars
               PROVE  NobodySleepsInVain'
  OBVIOUS
<1>2. CASE Promise
  BY <1>1, <1>2, BoundsAssumption
     DEF Promise, ReportStarted, AddResult, SetException, ReportException, SuspendIfRequested,
         WaitForResume, ReportSuspended, ReportFinished, Destroy, RunContinuation, TakeContinuation,
         CallContinuation, RestoreContinuation, CleanContinuation,
         WakeWaiters, UntilFinished
<1>3. CASE Watcher
  BY <1>1, <1>3
     DEF Watcher, ConnectOutputInterface, PostInitial, Connected, DeliverResultsReady, DeliverCanceled,
         DeliverOther, Deliver, Unthrottle, ResetPending, DisconnectOutputInterface,
         WakePaused
<1>4. CASE SetContinuation \/ FinishAttach
  BY <1>1, <1>4 DEF SetContinuation, FinishAttach, CallAttached, StoreAttached
<1>5. CASE Cancel \/ Suspend \/ Resume
  BY <1>1, <1>5 DEF Cancel, Suspend, Resume, WakeWaiters, WakePaused
<1>6. ASSUME NEW w \in Waiters, LookAgain(w) PROVE NobodySleepsInVain'
  BY <1>1, <1>6, BoundsAssumption DEF LookAgain, CanReturn, UntilFinished
<1>7. ASSUME NEW w \in Waiters, NEW i \in 0..UntilFinished, StartWait(w, i)
      PROVE  NobodySleepsInVain'
  BY <1>1, <1>7, BoundsAssumption DEF StartWait, CanReturn, UntilFinished
<1>8. CASE UNCHANGED vars
  BY <1>1, <1>8 DEF vars
<1> QED
  BY <1>1, <1>2, <1>3, <1>4, <1>5, <1>6, <1>7, <1>8 DEF Next

LEMMA StepIInv == IInv /\ [Next]_vars => IInv'
  BY StepTyping, StepEndIsMarked, StepContinuation, StepSleepers DEF IInv

(* The inductive invariant of the shared state, in every behaviour.        *)
THEOREM FutureInvariant == Spec => []IInv
<1>1. Init => IInv
  BY InitIInv
<1>2. IInv /\ [Next]_vars => IInv'
  BY StepIInv
<1> QED
  BY <1>1, <1>2, PTL DEF Spec

(* waitForResult(), waitForFinished() and suspendIfRequested(): no thread  *)
(* sleeps on once cancel(), an exception, a result, finish() or ~QPromise()*)
(* has removed its reason to, for any number of waiters and of results.    *)
THEOREM NobodySleepsInVainHolds == Spec => []NobodySleepsInVain
<1>1. IInv => NobodySleepsInVain
  BY DEF IInv
<1> QED
  BY FutureInvariant, <1>1, PTL

(* setContinuation() against runContinuation(): a continuation attached    *)
(* while the promise is being finished is run by one of the two threads.   *)
THEOREM ContinuationNotLostHolds == Spec => []ContinuationNotLost
<1>1. IInv => ContinuationNotLost
  BY DEF IInv
<1> QED
  BY FutureInvariant, <1>1, PTL

(* reportFinished() and cancelAndFinish() against every other function: a  *)
(* finished future does not run again, and keeps its results.              *)
THEOREM FinishedIsFinalHolds == Spec => FinishedIsFinal
<1> DEFINE Final == Has({"Finished"}) =>
                      /\ "Finished" \in state' /\ "Running" \notin state'
                      /\ results' = results /\ hasException' = hasException
<1>1. IInv /\ [Next]_vars => [Final]_vars
  <2>1. SUFFICES ASSUME IInv, Next, "Finished" \in state
                 PROVE  results' = results /\ hasException' = hasException /\ "Finished" \in state'
    BY StepIInv DEF IInv, EndIsMarked, Has
  <2> USE DEF Has, switch_from_to, suspendingOrSuspended, shared
  <2>2. CASE Promise
    BY <2>1, <2>2
       DEF Promise, ReportStarted, AddResult, SetException, ReportException, SuspendIfRequested,
           WaitForResume, ReportSuspended, ReportFinished, Destroy, RunContinuation, TakeContinuation,
           CallContinuation, RestoreContinuation, CleanContinuation
  <2>3. CASE Watcher
    BY <2>1, <2>3
       DEF Watcher, ConnectOutputInterface, PostInitial, Connected, DeliverResultsReady, DeliverCanceled,
           DeliverOther, Deliver, Unthrottle, ResetPending, DisconnectOutputInterface
  <2>4. CASE SetContinuation \/ FinishAttach \/ Cancel \/ Suspend \/ Resume
    BY <2>1, <2>4 DEF SetContinuation, FinishAttach, CallAttached, StoreAttached, Cancel, Suspend, Resume
  <2>5. ASSUME NEW w \in Waiters, LookAgain(w) \/ \E i \in 0..UntilFinished : StartWait(w, i)
        PROVE  UNCHANGED shared
    BY <2>5 DEF LookAgain, StartWait
  <2> QED
    BY <2>1, <2>2, <2>3, <2>4, <2>5 DEF Next
<1> QED
  BY FutureInvariant, <1>1, PTL DEF Spec, FinishedIsFinal

-----------------------------------------------------------------------------
(* Counting the events of a sequence.                                      *)
LEMMA CountNat ==
  ASSUME NEW s \in Seq(Events), NEW e
  PROVE  IsFiniteSet(Places(e, s)) /\ Count(e, s) \in Nat
<1>1. Places(e, s) \in SUBSET (1..Len(s)) /\ Len(s) \in Nat
  BY DEF Places
<1>2. IsFiniteSet(1..Len(s))
  BY <1>1, FS_Interval
<1>3. IsFiniteSet(Places(e, s))
  BY <1>1, <1>2, FS_Subset
<1> QED
  BY <1>3, FS_CardinalityType DEF Count

LEMMA CountEmpty ==
  ASSUME NEW e
  PROVE  Count(e, <<>>) = 0
<1>1. Places(e, <<>>) = {}
  BY DEF Places
<1> QED
  BY <1>1, FS_EmptySet DEF Count

LEMMA CountOne ==
  ASSUME NEW e, NEW x
  PROVE  Count(e, <<x>>) = IF e = x THEN 1 ELSE 0
<1>1. CASE e = x
  <2>1. Places(e, <<x>>) = {1}
    BY <1>1 DEF Places
  <2>2. Cardinality({1}) = 1
    BY FS_Singleton
  <2> QED
    BY <1>1, <2>1, <2>2 DEF Count
<1>2. CASE e # x
  <2>1. Places(e, <<x>>) = {}
    BY <1>2 DEF Places
  <2> QED
    BY <1>2, <2>1, FS_EmptySet DEF Count
<1> QED
  BY <1>1, <1>2

LEMMA CountAlike ==
  ASSUME NEW e, NEW x, NEW n \in Nat, NEW s, DOMAIN s = 1..n, \A i \in 1..n : s[i] = x
  PROVE  Count(e, s) = IF e = x THEN n ELSE 0
<1>1. CASE e = x
  <2>1. Places(e, s) = 1..n
    BY <1>1 DEF Places
  <2>2. Cardinality(1..n) = n
    BY FS_Interval
  <2> QED
    BY <1>1, <2>1, <2>2 DEF Count
<1>2. CASE e # x
  <2>1. Places(e, s) = {}
    BY <1>2 DEF Places
  <2> QED
    BY <1>2, <2>1, FS_EmptySet DEF Count
<1> QED
  BY <1>1, <1>2

(* The places of the second sequence are those behind the first one.       *)
LEMMA CountConcat ==
  ASSUME NEW s \in Seq(Events), NEW t \in Seq(Events), NEW e
  PROVE  s \o t \in Seq(Events) /\ Count(e, s \o t) = Count(e, s) + Count(e, t)
<1> DEFINE shifted == {i \in (Len(s) + 1)..(Len(s) + Len(t)) : t[i - Len(s)] = e}
           f == [i \in Places(e, t) |-> i + Len(s)]
<1>1. /\ Len(s) \in Nat /\ Len(t) \in Nat /\ DOMAIN s = 1..Len(s) /\ DOMAIN t = 1..Len(t)
      /\ s \o t \in Seq(Events) /\ Len(s \o t) = Len(s) + Len(t)
  OBVIOUS
<1>2. /\ \A i \in 1..Len(s) : (s \o t)[i] = s[i]
      /\ \A i \in (Len(s) + 1)..(Len(s) + Len(t)) : (s \o t)[i] = t[i - Len(s)]
  BY <1>1
<1>3. Places(e, s \o t) = Places(e, s) \cup shifted
  <2>1. DOMAIN (s \o t) = 1..(Len(s) + Len(t))
    BY <1>1
  <2>2. ASSUME NEW i PROVE i \in Places(e, s \o t) <=> i \in Places(e, s) \cup shifted
    <3>1. i \in Places(e, s \o t) <=> i \in 1..(Len(s) + Len(t)) /\ (s \o t)[i] = e
      BY <2>1 DEF Places
    <3>2. i \in Places(e, s) <=> i \in 1..Len(s) /\ s[i] = e
      BY <1>1 DEF Places
    <3>3. i \in 1..(Len(s) + Len(t))
            <=> i \in 1..Len(s) \/ i \in (Len(s) + 1)..(Len(s) + Len(t))
      BY <1>1
    <3>4. i \in shifted <=> i \in (Len(s) + 1)..(Len(s) + Len(t)) /\ t[i - Len(s)] = e
      OBVIOUS
    <3> QED
      BY <1>2, <3>1, <3>2, <3>3, <3>4
  <2> QED
    BY <2>2
<1>4. Places(e, s) \cap shifted = {}
  BY <1>1 DEF Places
<1>5. f \in Bijection(Places(e, t), shifted)
  <2>1. \A i \in Places(e, t) : i \in 1..Len(t) /\ t[i] = e
    BY <1>1 DEF Places
  <2>2. f \in [Places(e, t) -> shifted]
    <3>1. ASSUME NEW i \in Places(e, t) PROVE i + Len(s) \in shifted
      <4>1. i \in 1..Len(t) /\ t[i] = e
        BY <2>1
      <4>2. i + Len(s) \in (Len(s) + 1)..(Len(s) + Len(t)) /\ (i + Len(s)) - Len(s) = i
        BY <1>1, <4>1
      <4> QED
        BY <4>1, <4>2
    <3> QED
      BY <3>1
  <2>3. f \in Injection(Places(e, t), shifted)
    <3>1. \A i, j \in Places(e, t) : i + Len(s) = j + Len(s) => i = j
      BY <1>1, <2>1
    <3>2. \A i, j \in Places(e, t) : f[i] = f[j] => i = j
      BY <3>1
    <3> HIDE DEF f, shifted
    <3> QED
      BY <2>2, <3>2 DEF Injection, IsInjective
  <2>4. \A k \in shifted : \E i \in Places(e, t) : f[i] = k
    <3>1. ASSUME NEW k \in shifted PROVE \E i \in Places(e, t) : f[i] = k
      <4>1. k \in (Len(s) + 1)..(Len(s) + Len(t)) /\ t[k - Len(s)] = e
        OBVIOUS
      <4>2. k - Len(s) \in 1..Len(t) /\ (k - Len(s)) + Len(s) = k
        BY <1>1, <4>1
      <4>3. k - Len(s) \in Places(e, t)
        BY <1>1, <4>1, <4>2 DEF Places
      <4> QED
        BY <4>2, <4>3
    <3> QED
      BY <3>1
  <2> HIDE DEF f, shifted
  <2> QED
    BY <2>2, <2>3, <2>4 DEF Bijection, Surjection
<1> HIDE DEF f, shifted
<1>6. IsFiniteSet(shifted) /\ Cardinality(shifted) = Count(e, t)
  <2>1. ExistsBijection(Places(e, t), shifted)
    BY <1>5 DEF ExistsBijection
  <2> QED
    BY <2>1, CountNat, FS_Bijection DEF Count
<1>7. Cardinality(Places(e, s) \cup shifted)
        = Cardinality(Places(e, s)) + Cardinality(shifted) - Cardinality({})
  BY <1>4, <1>6, CountNat, FS_Union
<1>8. Cardinality({}) = 0
  BY FS_EmptySet
<1>9. Count(e, s) \in Nat /\ Count(e, t) \in Nat
  BY CountNat
<1> QED
  BY <1>1, <1>3, <1>6, <1>7, <1>8, <1>9 DEF Count

LEMMA CountHead ==
  ASSUME NEW s \in Seq(Events), s # <<>>, NEW e
  PROVE  /\ Head(s) \in Events /\ Tail(s) \in Seq(Events)
         /\ Count(e, s) = (IF e = Head(s) THEN 1 ELSE 0) + Count(e, Tail(s))
<1>1. /\ Head(s) \in Events /\ Tail(s) \in Seq(Events) /\ <<Head(s)>> \in Seq(Events)
      /\ s = <<Head(s)>> \o Tail(s)
  OBVIOUS
<1>2. Count(e, <<Head(s)>> \o Tail(s)) = Count(e, <<Head(s)>>) + Count(e, Tail(s))
  BY <1>1, CountConcat
<1> QED
  BY <1>1, <1>2, CountOne

-----------------------------------------------------------------------------
(* The watcher.                                                            *)
Marks == {"Started", "Canceled", "Finished"}
One(b) == IF b THEN 1 ELSE 0

(* Events of a kind that the watcher has been sent or is going to be sent. *)
Sent(e) == told[e] + Count(e, snapshot)

WatcherTyping == /\ state \subseteq Flags /\ results \in 0..MaxResults
                 /\ watch \in {"none", "posting", "connected", "leaving", "gone"}
                 /\ snapshot \in Seq(Events) /\ queue \in Seq(Events)
                 /\ pending \in Nat /\ lifting \in BOOLEAN
                 /\ told \in [Events -> Nat]

(* A watcher that is not attached to this future has nothing of it.        *)
Unattached == /\ watch # "posting" => snapshot = <<>>
              /\ watch = "none" => queue = <<>> /\ ~lifting

(* Who reports an exception clears the results before anybody can see that *)
(* the future is canceled; apart from that, each result has been sent.     *)
Reported == promise = "report" \/ "Canceled" \in state
ResultsSent == Outputs /\ (results > 0 \/ ~Reported) => Sent("ResultsReady") = results

MarksSent == Outputs => \A flag \in Marks : Sent(flag) = One(flag \in state)

(* pendingResultsReady counts the result events in the queue, until the    *)
(* future is canceled or the watcher leaves, and those of the former       *)
(* future that came after the reset; it is not ahead of what was posted.   *)
PendingFits ==
    /\ pending <= told["ResultsReady"] + Strays /\ Sent("ResultsReady") <= MaxResults
    /\ watch \in {"posting", "connected"} /\ "Canceled" \notin state =>
         /\ pending >= Count("ResultsReady", queue)
         /\ pending <= Count("ResultsReady", queue) + Strays
         /\ Count("Canceled", queue) = 0

(* The last result event in the queue finds the counter at Strays + 1 or   *)
(* below: that it ends the throttling takes Strays < Limit.                *)
Throttling ==
    Strays < Limit /\ Outputs /\ "Throttled" \in state /\ ~Reported =>
      lifting \/ Count("ResultsReady", queue) + Count("ResultsReady", snapshot) > 0

(* A watcher that comes to a throttled future gets result events.          *)
ThrottledHasResults == "Throttled" \in state /\ ~Reported => results > 0

WInv == /\ WatcherTyping /\ Unattached /\ ResultsSent /\ MarksSent /\ PendingFits /\ Throttling
        /\ ThrottledHasResults
        /\ lifting => watch = "connected"

LEMMA Kinds ==
  Events = {"Started", "Finished", "Canceled", "Suspending", "Suspended", "Resumed", "ResultsReady"}
  /\ Marks \subseteq Events
  BY DEF Events, Marks

LEMMA CountsAreNumbers ==
  ASSUME WatcherTyping
  PROVE  /\ \A e \in Events : told[e] \in Nat /\ Count(e, snapshot) \in Nat
                              /\ Count(e, queue) \in Nat /\ Sent(e) \in Nat
         /\ MaxResults \in Nat /\ Strays \in Nat
<1>1. ASSUME NEW e \in Events
      PROVE  told[e] \in Nat /\ Count(e, snapshot) \in Nat /\ Count(e, queue) \in Nat
  BY CountNat DEF WatcherTyping
<1> QED
  BY <1>1, BoundsAssumption DEF Sent

(* What posting does to the queue and the history.                         *)
LEMMA Posted ==
  ASSUME WatcherTyping, NEW es \in Seq(Events), Post(es)
  PROVE  /\ queue' \in Seq(Events) /\ told' \in [Events -> Nat]
         /\ \A e \in Events : /\ told'[e] = told[e] + Count(e, es)
                              /\ Count(e, queue') = Count(e, queue) + Count(e, es)
                              /\ Count(e, es) \in Nat
<1>1. queue' = queue \o es /\ told' = [e \in Events |-> told[e] + Count(e, es)]
  BY DEF Post
<1>2. \A e \in Events : Count(e, es) \in Nat
  BY CountNat
<1>3. \A e \in Events : told[e] \in Nat
  BY DEF WatcherTyping
<1>4. queue \in Seq(Events)
  BY DEF WatcherTyping
<1>5. queue' \in Seq(Events) /\ \A e \in Events : Count(e, queue') = Count(e, queue) + Count(e, es)
  BY <1>1, <1>4, CountConcat
<1> QED
  BY <1>1, <1>2, <1>3, <1>5

(* A step that reports to the watcher by sendCallOut(), if at all: each    *)
(* mark that it sets has its event in the call-out, and the results stay.  *)
LEMMA CallOutKeeps ==
  ASSUME WInv, NEW es \in Seq(Events), SendCallOut(es), results' = results, state' \subseteq Flags,
         Count("ResultsReady", es) = 0,
         \A flag \in Marks : One(flag \in state)' = One(flag \in state) + Count(flag, es),
         "Throttled" \in state' => "Throttled" \in state,
         Reported => Reported'
  PROVE  WInv'
<1>1. WatcherTyping /\ Unattached /\ ResultsSent /\ MarksSent /\ PendingFits /\ Throttling
      /\ ThrottledHasResults /\ (lifting => watch = "connected")
  BY DEF WInv
<1>2. UNCHANGED <<watch, snapshot, pending, lifting, results>> /\ (Outputs' <=> Outputs)
      /\ (watch \in {"posting", "connected"} => Outputs)
  BY DEF SendCallOut, Outputs
<1>3. \A flag \in Marks : flag \in Events /\ Count(flag, es) \in Nat
                          /\ (flag \in state => flag \in state') /\ (flag \in state' => flag \in state \/ Count(flag, es) = 1)
                          /\ (flag \notin state' => Count(flag, es) = 0)
  BY Kinds, CountNat DEF One
<1>4. "Canceled" \in Marks /\ "ResultsReady" \in Events
  BY DEF Marks, Events
<1>7. ThrottledHasResults'
  BY <1>1, <1>2 DEF ThrottledHasResults
<1>5. CASE Outputs
  <2>1. Post(es)
    BY <1>5 DEF SendCallOut
  <2>2. /\ queue' \in Seq(Events) /\ told' \in [Events -> Nat]
        /\ \A e \in Events : /\ told'[e] = told[e] + Count(e, es)
                             /\ Count(e, queue') = Count(e, queue) + Count(e, es)
                             /\ Count(e, es) \in Nat
    BY <1>1, <2>1, Posted
  <2>3. WatcherTyping'
    BY <1>1, <1>2, <2>2 DEF WatcherTyping
  <2>4. Unattached' /\ (lifting => watch = "connected")'
    BY <1>1, <1>2, <1>5 DEF Unattached, Outputs
  <2>5. \A e \in Events : Sent(e)' = Sent(e) + Count(e, es)
    BY <1>1, <1>2, <2>2, CountsAreNumbers DEF Sent
  <2>6. MarksSent'
    BY <1>1, <1>2, <1>3, <1>5, <2>5 DEF MarksSent
  <2>7. Sent("ResultsReady")' = Sent("ResultsReady") /\ told'["ResultsReady"] = told["ResultsReady"]
    BY <1>1, <1>4, <2>2, <2>5, CountsAreNumbers
  <2>8. ResultsSent'
    BY <1>1, <1>2, <2>7 DEF ResultsSent
  <2>9. /\ Count("ResultsReady", queue') = Count("ResultsReady", queue)
        /\ "Canceled" \notin state' => Count("Canceled", queue') = Count("Canceled", queue)
    <3>1. \A e \in Events : Count(e, es) = 0 => Count(e, queue') = Count(e, queue)
      BY <1>1, <2>2, CountsAreNumbers
    <3>2. "Canceled" \notin state' => Count("Canceled", es) = 0
      BY <1>3, <1>4
    <3> QED
      BY <1>4, <3>1, <3>2, Kinds
  <2>10. PendingFits'
    BY <1>1, <1>2, <1>3, <1>4, <2>7, <2>9 DEF PendingFits
  <2>11. Throttling'
    BY <1>1, <1>2, <1>3, <1>4, <2>9 DEF Throttling
  <2> QED
    BY <1>7, <2>3, <2>4, <2>6, <2>8, <2>10, <2>11 DEF WInv
<1>6. CASE ~Outputs
  <2>1. UNCHANGED <<queue, told>>
    BY <1>6 DEF SendCallOut
  <2>2. WatcherTyping' /\ Unattached' /\ MarksSent' /\ ResultsSent' /\ (lifting => watch = "connected")'
    BY <1>1, <1>2, <1>6, <2>1 DEF WatcherTyping, Unattached, MarksSent, ResultsSent
  <2>3. PendingFits' /\ Throttling'
    BY <1>1, <1>2, <1>3, <1>4, <1>6, <2>1 DEF PendingFits, Sent, Throttling, Outputs
  <2> QED
    BY <1>7, <2>2, <2>3 DEF WInv
<1> QED
  BY <1>5, <1>6

(* A step that sends nothing to the watcher and does not touch the results.*)
LEMMA SilentKeeps ==
  ASSUME WInv, UNCHANGED watcher, results' = results, state' = state, Reported => Reported'
  PROVE  WInv'
  BY DEF WInv, watcher, WatcherTyping, Unattached, ResultsSent, MarksSent, PendingFits, Throttling,
         ThrottledHasResults, Outputs, Sent

LEMMA CallOutLists ==
  /\ \A x \in Events : <<x>> \in Seq(Events)
                       /\ \A e \in Events : Count(e, <<x>>) = One(e = x)
  /\ <<"Canceled", "Finished">> \in Seq(Events)
  /\ \A e \in Events : Count(e, <<"Canceled", "Finished">>) = One(e = "Canceled") + One(e = "Finished")
<1>1. \A x \in Events : <<x>> \in Seq(Events)
  OBVIOUS
<1>2. \A x \in Events : \A e \in Events : Count(e, <<x>>) = One(e = x)
  BY CountOne DEF One
<1>3. "Canceled" \in Events /\ "Finished" \in Events
  BY DEF Events
<1>4. <<"Canceled", "Finished">> \in Seq(Events)
  BY <1>3
<1>5. ASSUME NEW e \in Events
      PROVE  Count(e, <<"Canceled", "Finished">>) = One(e = "Canceled") + One(e = "Finished")
  <2>1. <<"Canceled", "Finished">> # <<>> /\ Head(<<"Canceled", "Finished">>) = "Canceled"
        /\ Tail(<<"Canceled", "Finished">>) = <<"Finished">>
    OBVIOUS
  <2>2. Count(e, <<"Canceled", "Finished">>) = One(e = "Canceled") + Count(e, <<"Finished">>)
    BY <1>4, <2>1, CountHead DEF One
  <2>3. Count(e, <<"Finished">>) = One(e = "Finished")
    BY <1>2, <1>3
  <2> QED
    BY <2>2, <2>3
<1> QED
  BY <1>1, <1>2, <1>4, <1>5

(* What reports one event, or the two of ~QPromise().                      *)
LEMMA ReportKeeps ==
  ASSUME WInv, NEW x \in Events \ {"ResultsReady"}, SendCallOut(<<x>>), results' = results, state' \subseteq Flags,
         \A flag \in Marks : IF flag = x THEN flag \notin state /\ flag \in state'
                                         ELSE flag \in state' <=> flag \in state,
         "Throttled" \in state' => "Throttled" \in state,
         Reported => Reported'
  PROVE  WInv'
<1>1. <<x>> \in Seq(Events) /\ \A e \in Events : Count(e, <<x>>) = One(e = x)
  BY CallOutLists
<1>2. Count("ResultsReady", <<x>>) = 0
  BY <1>1, Kinds DEF One
<1>3. \A flag \in Marks : One(flag \in state)' = One(flag \in state) + Count(flag, <<x>>)
  BY <1>1, Kinds DEF One
<1> QED
  BY <1>1, <1>2, <1>3, CallOutKeeps

LEMMA EndKeeps ==
  ASSUME WInv, SendCallOut(<<"Canceled", "Finished">>), results' = results, state' \subseteq Flags,
         {"Canceled", "Finished"} \cap state = {}, {"Canceled", "Finished"} \subseteq state',
         "Started" \in state' <=> "Started" \in state,
         "Throttled" \in state' => "Throttled" \in state
  PROVE  WInv'
<1> DEFINE es == <<"Canceled", "Finished">>
<1>1. es \in Seq(Events) /\ \A e \in Events : Count(e, es) = One(e = "Canceled") + One(e = "Finished")
  BY CallOutLists
<1>2. Count("ResultsReady", es) = 0
  <2> HIDE DEF es
  <2> QED
    BY <1>1, Kinds DEF One
<1>3. \A flag \in Marks : One(flag \in state)' = One(flag \in state) + Count(flag, es)
  <2> HIDE DEF es
  <2> QED
    BY <1>1, Kinds DEF One, Marks
<1>4. Reported'
  BY DEF Reported
<1>5. SendCallOut(es)
  OBVIOUS
<1> HIDE DEF es
<1> QED
  BY <1>1, <1>2, <1>3, <1>4, <1>5, CallOutKeeps

LEMMA PromiseReports ==
  ASSUME WInv, EndIsMarked,
               \/ ReportStarted \/ ReportException \/ SuspendIfRequested \/ ReportSuspended
               \/ ReportFinished \/ Destroy
  PROVE  WInv'
<1> USE DEF Has, switch_from_to, suspendingOrSuspended, Flags, Marks, Reported
<1>1. state \subseteq Flags
  BY DEF WInv, WatcherTyping
<1>2. \A x \in {"Started", "Canceled", "Finished", "Suspended", "Suspending", "Resumed"} :
        x \in Events \ {"ResultsReady"}
  BY DEF Events
<1>3. CASE ReportStarted
  <2>1. /\ SendCallOut(<<"Started">>) /\ results' = results /\ promise' = promise
        /\ state' = {"Started", "Running"} /\ {"Started", "Canceled", "Finished"} \cap state = {}
    BY <1>3 DEF ReportStarted, owner
  <2> QED
    BY <1>2, <2>1, ReportKeeps
<1>4. CASE ReportException /\ Has({"Canceled", "Finished"})
  <2>1. UNCHANGED watcher /\ results' = results /\ state' = state /\ "Canceled" \in state
    BY <1>4 DEF ReportException, EndIsMarked
  <2> QED
    BY <1>4, <2>1, SilentKeeps
<1>5. CASE ReportException /\ ~Has({"Canceled", "Finished"})
  <2>1. /\ SendCallOut(<<"Canceled">>) /\ results' = results
        /\ state' = state \cup {"Canceled"} /\ "Canceled" \notin state
    BY <1>5 DEF ReportException
  <2> QED
    BY <1>1, <1>2, <2>1, ReportKeeps
<1>6. CASE SuspendIfRequested /\ Has({"Suspended"})
  <2>1. UNCHANGED watcher /\ results' = results /\ state' = state /\ promise = "live"
    BY <1>6 DEF SuspendIfRequested
  <2> QED
    BY <2>1, SilentKeeps
<1>7. CASE ReportSuspended \/ (SuspendIfRequested /\ ~Has({"Suspended"}))
  <2>1. /\ SendCallOut(<<"Suspended">>) /\ results' = results /\ promise = "live"
        /\ state' = (state \ {"Suspending"}) \cup {"Suspended"}
    BY <1>7 DEF ReportSuspended, SuspendIfRequested
  <2> QED
    BY <1>1, <1>2, <2>1, ReportKeeps
<1>8. CASE ReportFinished
  <2>1. /\ SendCallOut(<<"Finished">>) /\ results' = results /\ promise = "live"
        /\ state' = (state \ {"Running"}) \cup {"Finished"} /\ "Finished" \notin state
    BY <1>8 DEF ReportFinished
  <2> QED
    BY <1>1, <1>2, <2>1, ReportKeeps
<1>9. CASE Destroy /\ Has({"Finished"})
  <2>1. UNCHANGED watcher /\ results' = results /\ state' = state /\ promise = "live"
    BY <1>9 DEF Destroy
  <2> QED
    BY <2>1, SilentKeeps
<1>10. CASE Destroy /\ ~Has({"Finished"}) /\ Has({"Canceled"})
  <2>1. /\ SendCallOut(<<"Finished">>) /\ results' = results
        /\ state' = (state \ {"Suspending", "Suspended", "Running"}) \cup {"Canceled", "Finished"}
        /\ "Finished" \notin state /\ "Canceled" \in state
    BY <1>10 DEF Destroy
  <2> QED
    BY <1>1, <1>2, <2>1, ReportKeeps
<1>11. CASE Destroy /\ ~Has({"Finished"}) /\ ~Has({"Canceled"})
  <2>1. /\ SendCallOut(<<"Canceled", "Finished">>) /\ results' = results
        /\ state' = (state \ {"Suspending", "Suspended", "Running"}) \cup {"Canceled", "Finished"}
        /\ "Finished" \notin state /\ "Canceled" \notin state
    BY <1>11 DEF Destroy
  <2>2. {"Canceled", "Finished"} \cap state = {} /\ {"Canceled", "Finished"} \subseteq state'
        /\ state' \subseteq Flags
    BY <1>1, <2>1
  <2> QED
    BY <2>1, <2>2, EndKeeps
<1> QED
  BY <1>3, <1>4, <1>5, <1>6, <1>7, <1>8, <1>9, <1>10, <1>11

LEMMA OthersReport ==
  ASSUME WInv, Cancel \/ Suspend \/ Resume
  PROVE  WInv'
<1> USE DEF Has, switch_from_to, suspendingOrSuspended, Flags, Marks, Reported
<1>1. state \subseteq Flags
  BY DEF WInv, WatcherTyping
<1>2. \A x \in {"Canceled", "Suspending", "Resumed"} : x \in Events \ {"ResultsReady"}
  BY DEF Events
<1>3. CASE Cancel
  <2>1. /\ SendCallOut(<<"Canceled">>) /\ results' = results /\ "Canceled" \notin state
        /\ state' = (state \ {"Suspending", "Suspended"}) \cup {"Canceled"}
    BY <1>3 DEF Cancel
  <2> QED
    BY <1>1, <1>2, <2>1, ReportKeeps
<1>4. CASE Suspend
  <2>1. /\ SendCallOut(<<"Suspending">>) /\ results' = results
        /\ state' = state \cup {"Suspending"} /\ promise' = promise
    BY <1>4 DEF Suspend, owner
  <2> QED
    BY <1>1, <1>2, <2>1, ReportKeeps
<1>5. CASE Resume
  <2>1. /\ SendCallOut(<<"Resumed">>) /\ results' = results
        /\ state' = state \ {"Suspending", "Suspended"}
        /\ promise = "report" => promise' = "report"
    BY <1>5 DEF Resume, WakePaused
  <2> QED
    BY <1>1, <1>2, <2>1, ReportKeeps
<1> QED
  BY <1>3, <1>4, <1>5

(* The steps in which the watcher has no part.                             *)
LEMMA WithoutWatcher ==
  ASSUME WInv, \/ WaitForResume \/ RunContinuation \/ CleanContinuation
               \/ SetContinuation \/ FinishAttach
               \/ \E w \in Waiters : LookAgain(w) \/ \E i \in 0..UntilFinished : StartWait(w, i)
               \/ UNCHANGED vars
  PROVE  WInv'
<1>1. UNCHANGED watcher /\ results' = results /\ state' = state
  BY DEF WaitForResume, RunContinuation, TakeContinuation, CallContinuation, RestoreContinuation,
         CleanContinuation, SetContinuation, FinishAttach, CallAttached, StoreAttached, LookAgain,
         StartWait, shared, vars
<1>2. promise = "report" => promise' = "report"
  BY DEF WaitForResume, RunContinuation, TakeContinuation, CallContinuation, RestoreContinuation,
         CleanContinuation, SetContinuation, FinishAttach, CallAttached, StoreAttached, LookAgain,
         StartWait, owner, vars
<1> QED
  BY <1>1, <1>2, SilentKeeps DEF Reported

(* postCallOutEvent() of a result, be it of a new one or of one that the   *)
(* watcher has still to be told of: the counter and the queue go together. *)
LEMMA ResultPosted ==
  ASSUME WInv, Outputs, PostResultsReady, state' = IF Throttles THEN state \cup {"Throttled"} ELSE state
  PROVE  /\ queue' \in Seq(Events) /\ told' \in [Events -> Nat] /\ pending' \in Nat
         /\ state' \subseteq Flags /\ \A x \in Flags \ {"Throttled"} : x \in state' <=> x \in state
         /\ \A e \in Events : /\ told'[e] = told[e] + One(e = "ResultsReady")
                              /\ Count(e, queue') = Count(e, queue) + One(e = "ResultsReady")
         /\ pending' = pending + 1
<1>1. WatcherTyping /\ pending \in Nat /\ state \subseteq Flags
  BY DEF WInv, WatcherTyping
<1>2. Post(<<"ResultsReady">>) /\ pending' = pending + 1
  BY DEF PostResultsReady
<1>3. <<"ResultsReady">> \in Seq(Events) /\ \A e \in Events : Count(e, <<"ResultsReady">>) = One(e = "ResultsReady")
  BY CallOutLists, Kinds
<1>4. /\ queue' \in Seq(Events) /\ told' \in [Events -> Nat]
      /\ \A e \in Events : /\ told'[e] = told[e] + Count(e, <<"ResultsReady">>)
                           /\ Count(e, queue') = Count(e, queue) + Count(e, <<"ResultsReady">>)
  BY <1>1, <1>2, <1>3, Posted
<1>5. state' \subseteq Flags /\ \A x \in Flags \ {"Throttled"} : x \in state' <=> x \in state
  BY <1>1 DEF Flags
<1> QED
  BY <1>1, <1>2, <1>3, <1>4, <1>5

LEMMA AddResultKeeps ==
  ASSUME WInv, AddResult
  PROVE  WInv'
<1>1. WatcherTyping /\ Unattached /\ ResultsSent /\ MarksSent /\ PendingFits /\ Throttling
      /\ (lifting => watch = "connected")
  BY DEF WInv
<1>2. /\ promise = "live" /\ promise' = "live" /\ {"Canceled", "Finished"} \cap state = {}
      /\ results' = results + 1 /\ results < MaxResults
  BY DEF AddResult, Has, owner
<1>3. results \in Nat /\ results' \in 0..MaxResults /\ results' > 0
  BY <1>1, <1>2, BoundsAssumption DEF WatcherTyping
<1>4. /\ "ResultsReady" \in Events /\ "Canceled" \in Events /\ Marks \subseteq Events
      /\ "ResultsReady" \notin Marks /\ Marks \subseteq Flags \ {"Throttled"} /\ "Canceled" \in Marks
  BY DEF Events, Marks, Flags
<1>5. CASE Outputs
  <2>1. /\ PostResultsReady /\ UNCHANGED <<watch, snapshot, lifting>>
        /\ state' = IF Throttles THEN state \cup {"Throttled"} ELSE state
    BY <1>5 DEF AddResult
  <2>2. /\ queue' \in Seq(Events) /\ told' \in [Events -> Nat] /\ pending' \in Nat
        /\ state' \subseteq Flags /\ \A x \in Flags \ {"Throttled"} : x \in state' <=> x \in state
        /\ \A e \in Events : /\ told'[e] = told[e] + One(e = "ResultsReady")
                             /\ Count(e, queue') = Count(e, queue) + One(e = "ResultsReady")
        /\ pending' = pending + 1
    BY <1>5, <2>1, ResultPosted
  <2>3. WatcherTyping' /\ (Outputs' <=> Outputs)
    BY <1>1, <1>3, <2>1, <2>2 DEF WatcherTyping, Outputs
  <2>4. Unattached' /\ (lifting => watch = "connected")'
    BY <1>1, <1>5, <2>1 DEF Unattached, Outputs
  <2>5. \A e \in Events : Sent(e)' = Sent(e) + One(e = "ResultsReady")
    BY <1>1, <2>1, <2>2, CountsAreNumbers DEF Sent, One
  <2>6. MarksSent'
    <3>1. ASSUME NEW flag \in Marks PROVE Sent(flag)' = One(flag \in state)'
      <4>1. Sent(flag)' = Sent(flag) + 0 /\ Sent(flag) \in Nat
        BY <1>1, <1>4, <2>5, CountsAreNumbers DEF One
      <4>2. Sent(flag) = One(flag \in state)
        BY <1>1, <1>5 DEF MarksSent
      <4> QED
        BY <1>4, <2>2, <4>1, <4>2 DEF One
    <3> QED
      BY <3>1 DEF MarksSent
  <2>7. Sent("ResultsReady") = results
    BY <1>1, <1>2, <1>5 DEF ResultsSent, Reported
  <2>8. Sent("ResultsReady")' = results' /\ told'["ResultsReady"] = told["ResultsReady"] + 1
    BY <1>2, <1>3, <1>4, <2>2, <2>5, <2>7 DEF One
  <2>9. ResultsSent'
    BY <2>8 DEF ResultsSent
  <2>10. /\ Count("ResultsReady", queue') = Count("ResultsReady", queue) + 1
         /\ Count("Canceled", queue') = Count("Canceled", queue)
         /\ Count("ResultsReady", queue) \in Nat /\ Count("ResultsReady", snapshot) \in Nat
         /\ told["ResultsReady"] \in Nat
    <3>1. One("ResultsReady" = "ResultsReady") = 1 /\ One("Canceled" = "ResultsReady") = 0
      BY DEF One
    <3>2. \A e \in {"ResultsReady", "Canceled"} :
            /\ Count(e, queue') = Count(e, queue) + One(e = "ResultsReady")
            /\ Count(e, queue) \in Nat /\ Count(e, snapshot) \in Nat /\ told[e] \in Nat
      BY <1>1, <1>4, <2>2, CountsAreNumbers
    <3> QED
      BY <3>1, <3>2
  <2>11. PendingFits'
    <3>1. pending' <= told'["ResultsReady"] + Strays /\ Sent("ResultsReady")' <= MaxResults
      BY <1>1, <1>3, <2>2, <2>8, <2>10, BoundsAssumption DEF PendingFits, WatcherTyping
    <3>2. watch \in {"posting", "connected"} =>
            /\ pending' >= Count("ResultsReady", queue')
            /\ pending' <= Count("ResultsReady", queue') + Strays
            /\ Count("Canceled", queue') = 0
      BY <1>1, <1>2, <2>2, <2>10, BoundsAssumption DEF PendingFits, WatcherTyping
    <3> QED
      BY <2>1, <3>1, <3>2 DEF PendingFits
  <2>12. Throttling' /\ ThrottledHasResults'
    BY <1>3, <2>1, <2>10 DEF Throttling, ThrottledHasResults
  <2> QED
    BY <2>3, <2>4, <2>6, <2>9, <2>11, <2>12 DEF WInv
<1>6. CASE ~Outputs
  <2>1. UNCHANGED watcher /\ state' = state
    BY <1>6 DEF AddResult
  <2> QED
    BY <1>1, <1>3, <1>6, <2>1 DEF WInv, watcher, WatcherTyping, Unattached, ResultsSent, MarksSent,
                                  PendingFits, Throttling, ThrottledHasResults, Outputs, Sent, Reported
<1> QED
  BY <1>5, <1>6

(* The results are cleared before the exception is reported.               *)
LEMMA SetExceptionKeeps ==
  ASSUME WInv, SetException
  PROVE  WInv'
<1>1. /\ UNCHANGED watcher /\ state' = state /\ results' = 0 /\ promise' = "report"
  BY DEF SetException
<1>2. results' \in 0..MaxResults /\ ~(results' > 0) /\ Reported'
  BY <1>1, BoundsAssumption DEF Reported
<1> QED
  BY <1>1, <1>2 DEF WInv, watcher, WatcherTyping, Unattached, ResultsSent, MarksSent,
                    PendingFits, Throttling, ThrottledHasResults, Outputs, Sent

(* What connectOutputInterface() finds.                                    *)
LEMMA InitialTells ==
  ASSUME WatcherTyping
  PROVE  /\ Initial \in Seq(Events)
         /\ Count("ResultsReady", Initial) = results
         /\ \A flag \in Marks : Count(flag, Initial) = One(flag \in state)
<1> DEFINE started == IF Has({"Started"}) THEN <<"Started">> ELSE <<>>
           ready == [i \in 1..results |-> "ResultsReady"]
           suspended == CASE Has({"Suspended"}) -> <<"Suspended">>
                          [] Has({"Suspending"}) /\ ~Has({"Suspended"}) -> <<"Suspending">>
                          [] OTHER -> <<>>
           canceled == IF Has({"Canceled"}) THEN <<"Canceled">> ELSE <<>>
           finished == IF Has({"Finished"}) THEN <<"Finished">> ELSE <<>>
<1>1. results \in Nat
  BY BoundsAssumption DEF WatcherTyping
<1>2. {"Started", "Suspended", "Suspending", "Canceled", "Finished", "ResultsReady"} \subseteq Events
      /\ <<>> \in Seq(Events) /\ \A e : Count(e, <<>>) = 0
  BY CountEmpty DEF Events
<1>3. started \in Seq(Events) /\ \A e \in Events : Count(e, started) = One(e = "Started" /\ "Started" \in state)
  BY <1>2, CallOutLists DEF One, Has
<1>4. canceled \in Seq(Events) /\ \A e \in Events : Count(e, canceled) = One(e = "Canceled" /\ "Canceled" \in state)
  BY <1>2, CallOutLists DEF One, Has
<1>5. finished \in Seq(Events) /\ \A e \in Events : Count(e, finished) = One(e = "Finished" /\ "Finished" \in state)
  BY <1>2, CallOutLists DEF One, Has
<1>6. suspended \in Seq(Events)
      /\ \A e \in Events \ {"Suspended", "Suspending"} : Count(e, suspended) = 0
  <2>1. suspended \in {<<"Suspended">>, <<"Suspending">>, <<>>}
    OBVIOUS
  <2> HIDE DEF suspended
  <2> QED
    BY <1>2, <2>1, CallOutLists DEF One
<1>7. ready \in Seq(Events) /\ \A e \in Events : Count(e, ready) = IF e = "ResultsReady" THEN results ELSE 0
  <2>1. ready \in Seq(Events)
    BY <1>1, <1>2
  <2>2. ASSUME NEW e \in Events PROVE Count(e, ready) = IF e = "ResultsReady" THEN results ELSE 0
    <3>1. DOMAIN ready = 1..results /\ \A i \in 1..results : ready[i] = "ResultsReady"
      OBVIOUS
    <3> HIDE DEF ready
    <3> QED
      BY <1>1, <3>1, CountAlike
  <2> QED
    BY <2>1, <2>2
<1>8. Initial = (((started \o ready) \o suspended) \o canceled) \o finished
  BY DEF Initial
<1> HIDE DEF started, ready, suspended, canceled, finished
<1>9. /\ Initial \in Seq(Events)
      /\ \A e \in Events : Count(e, Initial) = Count(e, started) + Count(e, ready) + Count(e, suspended)
                                                 + Count(e, canceled) + Count(e, finished)
  <2>1. /\ started \o ready \in Seq(Events)
        /\ \A e \in Events : Count(e, started \o ready) = Count(e, started) + Count(e, ready)
    BY <1>3, <1>7, CountConcat
  <2>2. /\ (started \o ready) \o suspended \in Seq(Events)
        /\ \A e \in Events : Count(e, (started \o ready) \o suspended)
                               = Count(e, started \o ready) + Count(e, suspended)
    BY <2>1, <1>6, CountConcat
  <2>3. /\ ((started \o ready) \o suspended) \o canceled \in Seq(Events)
        /\ \A e \in Events : Count(e, ((started \o ready) \o suspended) \o canceled)
                               = Count(e, (started \o ready) \o suspended) + Count(e, canceled)
    BY <2>2, <1>4, CountConcat
  <2>4. /\ Initial \in Seq(Events)
        /\ \A e \in Events : Count(e, Initial)
                               = Count(e, ((started \o ready) \o suspended) \o canceled) + Count(e, finished)
    BY <1>8, <2>3, <1>5, CountConcat
  <2> QED
    BY <2>1, <2>2, <2>3, <2>4
<1>10. Count("ResultsReady", Initial) = results
  <2>1. "ResultsReady" \in Events \ {"Suspended", "Suspending"}
    BY <1>2
  <2>2. /\ Count("ResultsReady", started) = 0 /\ Count("ResultsReady", canceled) = 0
        /\ Count("ResultsReady", finished) = 0 /\ Count("ResultsReady", suspended) = 0
        /\ Count("ResultsReady", ready) = results
    BY <1>3, <1>4, <1>5, <1>6, <1>7, <2>1 DEF One
  <2> QED
    BY <1>1, <1>9, <2>1, <2>2
<1>11. \A flag \in Marks : Count(flag, Initial) = One(flag \in state)
  <2>1. ASSUME NEW flag \in Marks PROVE Count(flag, Initial) = One(flag \in state)
    <3>1. flag \in Events \ {"Suspended", "Suspending"} /\ flag # "ResultsReady"
          /\ flag \in {"Started", "Canceled", "Finished"}
      BY <1>2 DEF Marks
    <3>2. /\ Count(flag, started) = One(flag = "Started" /\ "Started" \in state)
          /\ Count(flag, canceled) = One(flag = "Canceled" /\ "Canceled" \in state)
          /\ Count(flag, finished) = One(flag = "Finished" /\ "Finished" \in state)
          /\ Count(flag, suspended) = 0 /\ Count(flag, ready) = 0
      BY <1>3, <1>4, <1>5, <1>6, <1>7, <3>1
    <3>3. Count(flag, Initial) = Count(flag, started) + Count(flag, ready) + Count(flag, suspended)
                                   + Count(flag, canceled) + Count(flag, finished)
      BY <1>9, <3>1
    <3> QED
      BY <3>1, <3>2, <3>3 DEF One
  <2> QED
    BY <2>1
<1> QED
  BY <1>9, <1>10, <1>11

LEMMA ConnectKeeps ==
  ASSUME WInv, ConnectOutputInterface
  PROVE  WInv'
<1>1. /\ WatcherTyping /\ Unattached /\ ThrottledHasResults
      /\ MaxResults \in Nat /\ results <= MaxResults /\ results \in Nat /\ Strays \in Nat
  BY BoundsAssumption DEF WInv, WatcherTyping
<1>2. /\ watch = "none" /\ watch' = "posting" /\ snapshot' = Initial
      /\ pending' \in 0..Strays /\ told' = [e \in Events |-> 0]
      /\ UNCHANGED <<state, results, promise, queue, lifting>>
  BY DEF ConnectOutputInterface, shared, owner
<1>3. queue = <<>> /\ ~lifting /\ told' \in [Events -> Nat]
  BY <1>1, <1>2 DEF Unattached
<1>4. /\ Initial \in Seq(Events) /\ Count("ResultsReady", Initial) = results
      /\ \A flag \in Marks : Count(flag, Initial) = One(flag \in state)
  BY <1>1, InitialTells
<1>5. "ResultsReady" \in Events /\ Marks \subseteq Events
  BY DEF Events, Marks
<1>6. told'["ResultsReady"] = 0 /\ \A flag \in Marks : told'[flag] = 0 /\ One(flag \in state) \in Nat
  BY <1>2, <1>5 DEF One
<1>7. Sent("ResultsReady")' = results /\ \A flag \in Marks : Sent(flag)' = One(flag \in state)
  BY <1>1, <1>2, <1>4, <1>6 DEF Sent
<1>8. WatcherTyping' /\ Unattached' /\ (lifting => watch = "connected")'
  BY <1>1, <1>2, <1>3, <1>4 DEF WatcherTyping, Unattached
<1>9. ResultsSent' /\ MarksSent'
  BY <1>2, <1>7 DEF ResultsSent, MarksSent
<1>10. PendingFits'
  BY <1>1, <1>2, <1>3, <1>6, <1>7, CountEmpty DEF PendingFits
<1>11. ThrottledHasResults' /\ Throttling'
  <2>1. Count("ResultsReady", queue') = 0 /\ Count("ResultsReady", snapshot') = results
    BY <1>2, <1>3, <1>4, CountEmpty
  <2> QED
    BY <1>1, <1>2, <2>1 DEF Throttling, ThrottledHasResults, Reported
<1> QED
  BY <1>8, <1>9, <1>10, <1>11 DEF WInv

LEMMA PostInitialKeeps ==
  ASSUME WInv, PostInitial
  PROVE  WInv'
<1>1. WatcherTyping /\ ResultsSent /\ MarksSent /\ PendingFits /\ Throttling /\ ThrottledHasResults
      /\ (lifting => watch = "connected")
  BY DEF WInv
<1>2. /\ watch = "posting" /\ snapshot # <<>> /\ snapshot' = Tail(snapshot) /\ watch' = watch
      /\ lifting' = lifting /\ results' = results /\ promise' = promise /\ Outputs
  BY DEF PostInitial, owner, Outputs
<1> DEFINE x == Head(snapshot)
<1>3. /\ x \in Events /\ snapshot' \in Seq(Events)
      /\ \A e \in Events : Count(e, snapshot) = One(e = x) + Count(e, snapshot')
                           /\ Count(e, snapshot') \in Nat /\ One(e = x) \in Nat
  <2>1. snapshot \in Seq(Events)
    BY <1>1 DEF WatcherTyping
  <2>2. x \in Events /\ Tail(snapshot) \in Seq(Events)
    BY <1>2, <2>1
  <2>3. ASSUME NEW e \in Events
        PROVE  Count(e, snapshot) = One(e = x) + Count(e, Tail(snapshot)) /\ Count(e, Tail(snapshot)) \in Nat
    BY <1>2, <2>1, <2>2, CountHead, CountNat DEF One
  <2> QED
    BY <1>2, <2>2, <2>3 DEF One
<1>4. \/ /\ x = "ResultsReady" /\ PostResultsReady
         /\ state' = IF Throttles THEN state \cup {"Throttled"} ELSE state
      \/ x # "ResultsReady" /\ Post(<<x>>) /\ UNCHANGED <<pending, state>>
  BY DEF PostInitial
<1> HIDE DEF x
<1>5. /\ queue' \in Seq(Events) /\ told' \in [Events -> Nat]
      /\ state' \subseteq Flags /\ \A y \in Flags \ {"Throttled"} : y \in state' <=> y \in state
      /\ \A e \in Events : /\ told'[e] = told[e] + One(e = x)
                           /\ Count(e, queue') = Count(e, queue) + One(e = x)
      /\ pending' = pending + One(x = "ResultsReady") /\ pending' \in Nat
  <2>1. CASE x = "ResultsReady"
    <3>1. PostResultsReady /\ state' = IF Throttles THEN state \cup {"Throttled"} ELSE state
      BY <1>4, <2>1
    <3> QED
      BY <1>2, <2>1, <3>1, ResultPosted DEF One
  <2>2. CASE x # "ResultsReady"
    <3>1. Post(<<x>>) /\ UNCHANGED <<pending, state>> /\ pending \in Nat /\ state \subseteq Flags
      BY <1>1, <1>4, <2>2 DEF WatcherTyping
    <3>2. <<x>> \in Seq(Events) /\ \A e \in Events : Count(e, <<x>>) = One(e = x)
      BY <1>3, CallOutLists
    <3>3. /\ queue' \in Seq(Events) /\ told' \in [Events -> Nat]
          /\ \A e \in Events : /\ told'[e] = told[e] + Count(e, <<x>>)
                               /\ Count(e, queue') = Count(e, queue) + Count(e, <<x>>)
      BY <1>1, <3>1, <3>2, Posted
    <3>4. pending' = pending + One(x = "ResultsReady")
      BY <2>2, <3>1 DEF One
    <3> QED
      BY <3>1, <3>2, <3>3, <3>4
  <2> QED
    BY <2>1, <2>2
<1>6. WatcherTyping' /\ (Outputs' <=> Outputs) /\ Unattached' /\ (lifting => watch = "connected")'
  BY <1>1, <1>2, <1>3, <1>5 DEF WatcherTyping, Outputs, Unattached
<1>7. \A e \in Events : Sent(e)' = Sent(e)
  <2>1. ASSUME NEW e \in Events PROVE Sent(e)' = Sent(e)
    <3>1. /\ told'[e] = told[e] + One(e = x) /\ Count(e, snapshot) = One(e = x) + Count(e, snapshot')
          /\ told[e] \in Nat /\ Count(e, snapshot') \in Nat /\ One(e = x) \in Nat
      BY <1>1, <1>3, <1>5, CountsAreNumbers
    <3> QED
      BY <3>1 DEF Sent
  <2> QED
    BY <2>1
<1>8. /\ "ResultsReady" \in Events /\ "Canceled" \in Events /\ Marks \subseteq Events
      /\ Marks \subseteq Flags \ {"Throttled"} /\ {"Canceled", "Finished"} \subseteq Flags \ {"Throttled"}
      /\ "Canceled" \in Marks
  BY DEF Events, Marks, Flags
<1>9. ResultsSent' /\ MarksSent'
  BY <1>1, <1>2, <1>5, <1>6, <1>7, <1>8 DEF ResultsSent, MarksSent, Reported, One
<1>10. PendingFits'
  <2>1. pending' <= told'["ResultsReady"] + Strays /\ Sent("ResultsReady")' <= MaxResults
    <3>1. /\ pending <= told["ResultsReady"] + Strays /\ Sent("ResultsReady") <= MaxResults
          /\ pending \in Nat /\ told["ResultsReady"] \in Nat /\ Strays \in Nat
      BY <1>1, <1>8, CountsAreNumbers DEF PendingFits, WatcherTyping
    <3>2. /\ told'["ResultsReady"] = told["ResultsReady"] + One("ResultsReady" = x)
          /\ pending' = pending + One(x = "ResultsReady")
      BY <1>5, <1>8
    <3> QED
      BY <1>7, <1>8, <3>1, <3>2 DEF One
  <2>2. ASSUME "Canceled" \notin state'
        PROVE  /\ pending' >= Count("ResultsReady", queue')
               /\ pending' <= Count("ResultsReady", queue') + Strays
               /\ Count("Canceled", queue') = 0
    <3>1. /\ pending >= Count("ResultsReady", queue)
          /\ pending <= Count("ResultsReady", queue) + Strays /\ Count("Canceled", queue) = 0
      BY <1>1, <1>2, <1>5, <1>8, <2>2 DEF PendingFits
    <3>2. Sent("Canceled") = 0
      BY <1>1, <1>2, <1>5, <1>8, <2>2 DEF MarksSent, One
    <3>3. One("Canceled" = x) = 0
      <4>1. told["Canceled"] \in Nat /\ Sent("Canceled") = told["Canceled"] + Count("Canceled", snapshot)
        BY <1>1, <1>8, CountsAreNumbers DEF Sent
      <4> QED
        BY <1>3, <1>8, <3>2, <4>1
    <3> QED
      <4>1. /\ Count("ResultsReady", queue') = Count("ResultsReady", queue) + One(x = "ResultsReady")
            /\ pending' = pending + One(x = "ResultsReady") /\ One(x = "ResultsReady") \in {0, 1}
            /\ Count("ResultsReady", queue) \in Nat /\ pending \in Nat /\ Strays \in Nat
        BY <1>1, <1>5, <1>8, CountsAreNumbers DEF One, WatcherTyping
      <4>2. Count("Canceled", queue') = Count("Canceled", queue) + One("Canceled" = x)
        BY <1>5, <1>8
      <4> QED
        BY <3>1, <3>3, <4>1, <4>2
  <2> QED
    BY <2>1, <2>2 DEF PendingFits
<1>11. Throttling'
  <2>1. /\ Count("ResultsReady", queue') + Count("ResultsReady", snapshot')
             = Count("ResultsReady", queue) + Count("ResultsReady", snapshot)
        /\ Count("ResultsReady", snapshot') \in Nat /\ Count("ResultsReady", queue) \in Nat
    <3>1. \A e \in Events : /\ Count(e, queue') = Count(e, queue) + One(e = x)
                             /\ Count(e, snapshot) = One(e = x) + Count(e, snapshot')
                             /\ Count(e, snapshot') \in Nat /\ Count(e, queue) \in Nat /\ One(e = x) \in Nat
      BY <1>1, <1>3, <1>5, CountsAreNumbers
    <3>2. \A e \in Events : /\ Count(e, queue') + Count(e, snapshot') = Count(e, queue) + Count(e, snapshot)
                             /\ Count(e, snapshot') \in Nat /\ Count(e, queue) \in Nat
      BY <3>1
    <3> QED
      BY <1>8, <3>2
  <2>2. CASE x = "ResultsReady"
    <3>1. Count("ResultsReady", queue') = Count("ResultsReady", queue) + 1
      BY <1>5, <1>8, <2>2 DEF One
    <3> QED
      BY <2>1, <3>1 DEF Throttling
  <2>3. CASE x # "ResultsReady"
    BY <1>1, <1>2, <1>4, <1>6, <2>1, <2>3 DEF Throttling, Reported
  <2> QED
    BY <2>2, <2>3
<1>12. ThrottledHasResults'
  <2>1. CASE x = "ResultsReady" /\ ~Reported'
    <3>1. ~Reported
      BY <1>2, <1>5, <1>8, <2>1 DEF Reported
    <3>2. Sent("ResultsReady") = results
      BY <1>1, <1>2, <3>1 DEF ResultsSent
    <3>3. Count("ResultsReady", snapshot) = 1 + Count("ResultsReady", snapshot')
          /\ Count("ResultsReady", snapshot') \in Nat /\ told["ResultsReady"] \in Nat
      BY <1>1, <1>3, <1>8, <2>1, CountsAreNumbers DEF One
    <3> QED
      BY <1>2, <3>2, <3>3 DEF ThrottledHasResults, Sent
  <2>2. CASE x # "ResultsReady" \/ Reported'
    BY <1>1, <1>2, <1>4, <2>2 DEF ThrottledHasResults, Reported
  <2> QED
    BY <2>1, <2>2
<1> QED
  BY <1>6, <1>9, <1>10, <1>11, <1>12 DEF WInv

LEMMA DeliverKeeps ==
  ASSUME WInv, DeliverResultsReady \/ DeliverCanceled \/ DeliverOther
  PROVE  WInv'
<1>1. /\ WatcherTyping /\ Unattached /\ ResultsSent /\ MarksSent /\ PendingFits /\ Throttling
      /\ ThrottledHasResults
  BY DEF WInv
<1>2. PICK event \in Events : Deliver(event) /\ (event = "ResultsReady" <=> DeliverResultsReady)
                              /\ (event = "Canceled" <=> DeliverCanceled)
  BY DEF DeliverResultsReady, DeliverCanceled, DeliverOther, Deliver, Events
<1>3. /\ watch = "connected" /\ ~lifting /\ queue # <<>> /\ Head(queue) = event /\ queue' = Tail(queue)
      /\ UNCHANGED <<state, results, promise, watch, snapshot, told>> /\ Outputs
  BY <1>2 DEF Deliver, shared, owner, Outputs
<1>4. /\ queue' \in Seq(Events)
      /\ \A e \in Events : Count(e, queue) = One(e = event) + Count(e, queue') /\ Count(e, queue') \in Nat
  <2>1. queue \in Seq(Events) /\ Tail(queue) \in Seq(Events)
    BY <1>1, <1>3 DEF WatcherTyping
  <2>2. ASSUME NEW e \in Events
        PROVE  Count(e, queue) = One(e = event) + Count(e, Tail(queue)) /\ Count(e, Tail(queue)) \in Nat
    BY <1>3, <2>1, CountHead, CountNat DEF One
  <2> QED
    BY <1>3, <2>1, <2>2
<1>5. /\ "ResultsReady" \in Events /\ "Canceled" \in Events
      /\ pending \in Nat /\ told["ResultsReady"] \in Nat /\ Limit \in Nat \ {0} /\ Strays \in Nat
      /\ Count("ResultsReady", snapshot) \in Nat
  BY <1>1, Kinds, CountsAreNumbers, LimitAssumption DEF WatcherTyping
<1> DEFINE Fits == /\ pending >= Count("ResultsReady", queue)
                   /\ pending <= Count("ResultsReady", queue) + Strays
                   /\ Count("Canceled", queue) = 0
<1>6. /\ pending' \in Nat /\ lifting' \in BOOLEAN /\ pending' <= pending
      /\ "Canceled" \notin state =>
           /\ Fits'
           /\ \/ Count("ResultsReady", queue') = Count("ResultsReady", queue) /\ lifting' = lifting
              \/ Count("ResultsReady", queue) = Count("ResultsReady", queue') + 1 /\ pending > Limit
              \/ lifting'
  <2>1. "Canceled" \notin state => Fits
    BY <1>1, <1>3 DEF PendingFits
  <2>2. CASE DeliverResultsReady
    <3>1. event = "ResultsReady"
      BY <1>2, <2>2
    <3>2. Count("ResultsReady", queue) = 1 + Count("ResultsReady", queue') /\ Count("Canceled", queue) = 0 + Count("Canceled", queue')
          /\ Count("ResultsReady", queue') \in Nat /\ Count("Canceled", queue') \in Nat
      BY <1>4, <1>5, <3>1 DEF One
    <3>3. CASE "Canceled" \in state
      <4>1. UNCHANGED <<pending, lifting>>
        BY <2>2, <3>3 DEF DeliverResultsReady, Has
      <4> QED
        BY <1>1, <1>5, <3>3, <4>1 DEF WatcherTyping
    <3>4. CASE "Canceled" \notin state
      <4>1. pending' = pending - 1 /\ lifting' = (pending <= Limit)
        BY <2>2, <3>4 DEF DeliverResultsReady, Has
      <4> QED
        <5>1. lifting' \in BOOLEAN /\ (pending > Limit \/ lifting')
          <6>1. CASE pending <= Limit
            <7>1. lifting' = TRUE
              BY <4>1, <6>1, Zenon
            <7> QED
              BY <7>1
          <6>2. CASE ~(pending <= Limit)
            <7>1. (pending <= Limit) = FALSE /\ pending > Limit
              BY <1>5, <6>2
            <7>2. lifting' = FALSE
              BY <4>1, <7>1, Zenon
            <7> QED
              BY <7>1, <7>2
          <6> QED
            BY <6>1, <6>2
        <5>2. /\ pending' \in Nat /\ pending' <= pending /\ Fits'
              /\ Count("ResultsReady", queue) = Count("ResultsReady", queue') + 1
          BY <1>5, <2>1, <3>2, <3>4, <4>1
        <5> QED
          BY <5>1, <5>2
    <3> QED
      BY <3>3, <3>4
  <2>3. CASE DeliverCanceled
    <3>1. event = "Canceled" /\ pending' = 0 /\ lifting' = lifting
      BY <1>2, <2>3 DEF DeliverCanceled
    <3>2. Count("Canceled", queue) = 1 + Count("Canceled", queue') /\ Count("Canceled", queue') \in Nat
      BY <1>4, <1>5, <3>1 DEF One
    <3>3. "Canceled" \in state
      BY <2>1, <3>2
    <3> QED
      BY <1>1, <1>5, <3>1, <3>3 DEF WatcherTyping
  <2>4. CASE ~DeliverResultsReady /\ ~DeliverCanceled
    <3>1. event # "ResultsReady" /\ event # "Canceled" /\ pending' = pending /\ lifting' = lifting
      BY <1>2, <2>4 DEF DeliverOther
    <3>2. Count("ResultsReady", queue) = 0 + Count("ResultsReady", queue') /\ Count("Canceled", queue) = 0 + Count("Canceled", queue')
          /\ Count("ResultsReady", queue') \in Nat /\ Count("Canceled", queue') \in Nat
      BY <1>4, <1>5, <3>1 DEF One
    <3> QED
      <4>1. lifting' \in BOOLEAN /\ pending' \in Nat /\ pending' <= pending
        BY <1>1, <1>5, <3>1 DEF WatcherTyping
      <4>2. /\ "Canceled" \notin state => Fits'
            /\ Count("ResultsReady", queue') = Count("ResultsReady", queue)
        BY <2>1, <3>1, <3>2
      <4> QED
        BY <3>1, <4>1, <4>2
  <2> QED
    BY <2>2, <2>3, <2>4
<1>7. WatcherTyping' /\ Unattached' /\ (lifting => watch = "connected")'
  BY <1>1, <1>3, <1>4, <1>6 DEF WatcherTyping, Unattached
<1>8. ResultsSent' /\ MarksSent' /\ Sent("ResultsReady")' = Sent("ResultsReady")
  BY <1>1, <1>3 DEF ResultsSent, MarksSent, Sent, Outputs, Reported
<1>9. PendingFits'
  BY <1>1, <1>3, <1>5, <1>6, <1>8 DEF PendingFits
<1>10. Throttling' /\ ThrottledHasResults'
  <2>1. ASSUME Strays < Limit, "Throttled" \in state, ~Reported, ~lifting'
        PROVE  Count("ResultsReady", queue') + Count("ResultsReady", snapshot) > 0
    <3>1. Fits /\ "Canceled" \notin state
      BY <1>1, <1>3, <2>1 DEF PendingFits, Reported
    <3>2. Count("ResultsReady", queue) + Count("ResultsReady", snapshot) > 0
      BY <1>1, <1>3, <2>1 DEF Throttling
    <3>3. Count("ResultsReady", queue') \in Nat
      BY <1>4, <1>5
    <3>4. CASE Count("ResultsReady", queue') = Count("ResultsReady", queue)
      BY <3>2, <3>4
    <3>5. CASE Count("ResultsReady", queue) = Count("ResultsReady", queue') + 1 /\ pending > Limit
      BY <1>5, <2>1, <3>1, <3>3, <3>5
    <3> QED
      BY <1>6, <2>1, <3>1, <3>4, <3>5
  <2> QED
    BY <1>1, <1>3, <2>1 DEF Throttling, ThrottledHasResults, Reported
<1> QED
  BY <1>7, <1>8, <1>9, <1>10 DEF WInv

LEMMA WatcherKeeps ==
  ASSUME WInv, Connected \/ Unthrottle \/ ResetPending \/ DisconnectOutputInterface
  PROVE  WInv'
<1>1. WatcherTyping /\ ResultsSent /\ MarksSent /\ PendingFits /\ Throttling /\ Unattached
      /\ ThrottledHasResults
      /\ (lifting => watch = "connected")
  BY DEF WInv
<1>2. CASE Connected
  <2>1. /\ watch = "posting" /\ watch' = "connected" /\ snapshot = <<>> /\ Outputs /\ Outputs'
        /\ UNCHANGED <<state, results, promise, snapshot, queue, pending, lifting, told>>
    BY <1>2 DEF Connected, shared, owner, Outputs
  <2>2. WatcherTyping' /\ Unattached' /\ ResultsSent' /\ MarksSent'
    BY <1>1, <2>1 DEF WatcherTyping, Unattached, ResultsSent, MarksSent, Sent, Reported
  <2>3. PendingFits' /\ Throttling' /\ ThrottledHasResults'
    BY <1>1, <2>1 DEF PendingFits, Throttling, ThrottledHasResults, Sent, Reported
  <2> QED
    BY <1>1, <2>1, <2>2, <2>3 DEF WInv
<1>3. CASE Unthrottle
  <2>1. /\ lifting /\ ~lifting' /\ lifting' \in BOOLEAN /\ state' = state \ {"Throttled"} /\ results' = results
        /\ (promise = "report" => promise' = "report")
        /\ UNCHANGED <<watch, snapshot, queue, pending, told>>
    BY <1>3 DEF Unthrottle, switch_from_to, WakePaused
  <2>2. Reported => Reported'
    BY <2>1 DEF Reported
  <2>3. \A flag \in Marks : One(flag \in state)' = One(flag \in state)
    BY <2>1 DEF Marks, One
  <2>4. "Canceled" \in state' <=> "Canceled" \in state
    BY <2>1
  <2> QED
    BY <1>1, <2>1, <2>2, <2>3, <2>4 DEF WInv, WatcherTyping, Unattached, ResultsSent, MarksSent, PendingFits, Throttling,
                      ThrottledHasResults, Outputs, Sent
<1>4. CASE ResetPending
  <2>1. /\ watch = "connected" /\ watch' = "leaving" /\ pending' = 0 /\ ~lifting
        /\ UNCHANGED <<state, results, promise, snapshot, queue, lifting, told>>
    BY <1>4 DEF ResetPending, shared, owner
  <2>2. told["ResultsReady"] \in Nat /\ Strays \in Nat
    BY <1>1, Kinds, BoundsAssumption DEF WatcherTyping
  <2> QED
    BY <1>1, <2>1, <2>2 DEF WInv, WatcherTyping, Unattached, ResultsSent, MarksSent, PendingFits, Throttling,
                      ThrottledHasResults, Outputs, Sent, Reported
<1>5. CASE DisconnectOutputInterface
  <2>1. /\ watch' \in {"none", "gone"} /\ queue' = <<>> /\ ~lifting
        /\ watch \in {"leaving", "connected"}
        /\ UNCHANGED <<state, results, promise, snapshot, pending, lifting, told>>
    BY <1>1, <1>5 DEF DisconnectOutputInterface, shared, owner
  <2>2. snapshot = <<>>
    BY <1>1, <2>1 DEF Unattached
  <2> QED
    BY <1>1, <2>1, <2>2 DEF WInv, WatcherTyping, Unattached, ResultsSent, MarksSent, PendingFits, Throttling,
                      ThrottledHasResults, Outputs, Sent, Reported
<1> QED
  BY <1>2, <1>3, <1>4, <1>5

LEMMA InitWInv == Init => WInv
<1>1. SUFFICES ASSUME Init PROVE WInv
  OBVIOUS
<1>2. WatcherTyping /\ Unattached /\ (lifting => watch = "connected")
  <2>1. state \subseteq Flags /\ "Throttled" \notin state
    BY <1>1 DEF Init, Flags
  <2>2. /\ results \in 0..MaxResults /\ watch = "none" /\ pending = 0
        /\ told = [e \in Events |-> 0] /\ told \in [Events -> Nat]
    <3>1. results = 0 /\ watch = "none" /\ pending = 0 /\ told = [e \in Events |-> 0]
      BY <1>1 DEF Init
    <3> QED
      BY <3>1, BoundsAssumption
  <2>5. ~lifting /\ lifting \in BOOLEAN
    BY <1>1 DEF Init
  <2>3. snapshot = <<>> /\ queue = <<>> /\ <<>> \in Seq(Events)
    BY <1>1 DEF Init
  <2>4. snapshot \in Seq(Events) /\ queue \in Seq(Events)
    BY <2>3
  <2> QED
    BY <2>1, <2>2, <2>3, <2>4, <2>5 DEF WatcherTyping, Unattached
<1>3. ResultsSent /\ MarksSent
  BY <1>1 DEF Init, ResultsSent, MarksSent, Outputs
<1>4. told["ResultsReady"] = 0 /\ Count("ResultsReady", snapshot) = 0
  BY <1>1, Kinds, CountEmpty DEF Init
<1>5. PendingFits /\ Throttling /\ ThrottledHasResults
  BY <1>1, <1>4, BoundsAssumption DEF Init, PendingFits, Throttling, ThrottledHasResults, Outputs, Sent
<1> QED
  BY <1>2, <1>3, <1>5 DEF WInv

LEMMA StepWInv == EndIsMarked /\ WInv /\ [Next]_vars => WInv'
  BY PromiseReports, OthersReport, WithoutWatcher, AddResultKeeps, SetExceptionKeeps, ConnectKeeps,
     PostInitialKeeps, DeliverKeeps, WatcherKeeps DEF Next, Promise, Watcher

-----------------------------------------------------------------------------
(* The rest of the types. A continuation is run at most once by the thread *)
(* of the promise and at most once by the thread in then().                *)
RestTyping ==
    /\ parties \in Meetings
    /\ isValid \in BOOLEAN /\ hasException \in BOOLEAN
    /\ requests \in 0..MaxRequests /\ destroying \in BOOLEAN
    /\ continuation \in BOOLEAN /\ cleaned \in BOOLEAN

PastCall == \/ promise \in {"restore", "clean", "gone"}
            \/ promise \in {"live", "report", "asleep"} /\ "Finished" \in state
RunsFit == runs <= One(attach \in {"store", "done"}) + One(PastCall)

LEMMA StepRest == RestTyping /\ [Next]_vars => RestTyping'
<1>1. SUFFICES ASSUME RestTyping, [Next]_vars PROVE RestTyping'
  OBVIOUS
<1> USE <1>1, BoundsAssumption DEF RestTyping, shared, owner, chain, vars, Request
<1>2. CASE Promise
  BY <1>2 DEF Promise, ReportStarted, AddResult, SetException, ReportException, SuspendIfRequested,
              WaitForResume, ReportSuspended, ReportFinished, Destroy, RunContinuation, TakeContinuation,
              CallContinuation, RestoreContinuation, CleanContinuation
<1>3. CASE Watcher
  BY <1>3 DEF Watcher, ConnectOutputInterface, PostInitial, Connected, DeliverResultsReady, DeliverCanceled,
              DeliverOther, Deliver, Unthrottle, ResetPending, DisconnectOutputInterface
<1>4. CASE SetContinuation \/ FinishAttach
  BY <1>4 DEF SetContinuation, FinishAttach, CallAttached, StoreAttached
<1>5. CASE Cancel \/ Suspend \/ Resume
  <2>1. UNCHANGED <<parties, hasException, destroying, continuation, cleaned>> /\ Request
        /\ (isValid' = isValid \/ isValid' = FALSE)
    BY <1>5 DEF Cancel, Suspend, Resume
  <2>2. requests' \in 0..MaxRequests
    BY <2>1
  <2> QED
    BY <2>1, <2>2
<1>6. CASE \E w \in Waiters : LookAgain(w) \/ \E i \in 0..UntilFinished : StartWait(w, i)
  BY <1>6 DEF LookAgain, StartWait
<1>7. CASE UNCHANGED vars
  BY <1>7
<1> QED
  BY <1>2, <1>3, <1>4, <1>5, <1>6, <1>7 DEF Next

LEMMA StepRuns == Typing /\ EndIsMarked /\ RunsFit /\ [Next]_vars => RunsFit'
<1>1. SUFFICES ASSUME Typing, EndIsMarked, RunsFit, [Next]_vars PROVE RunsFit'
  OBVIOUS
<1> USE <1>1 DEF Typing, EndIsMarked, RunsFit, PastCall, One, shared, owner, chain, vars, switch_from_to,
                 Has, suspendingOrSuspended
<1>2. CASE Promise
  <2>1. CASE ReportStarted \/ AddResult \/ SetException \/ ReportException
    BY <2>1 DEF ReportStarted, AddResult, SetException, ReportException
  <2>2. CASE SuspendIfRequested \/ WaitForResume \/ ReportSuspended
    BY <2>2 DEF SuspendIfRequested, WaitForResume, ReportSuspended
  <2>3. CASE ReportFinished \/ Destroy
    BY <2>3 DEF ReportFinished, Destroy
  <2>4. CASE TakeContinuation \/ RestoreContinuation \/ CleanContinuation
    BY <2>4 DEF TakeContinuation, RestoreContinuation, CleanContinuation
  <2>5. CASE CallContinuation
    BY <2>5 DEF CallContinuation
  <2> QED
    BY <1>2, <2>1, <2>2, <2>3, <2>4, <2>5 DEF Promise, RunContinuation
<1>3. CASE Watcher
  BY <1>3 DEF Watcher, ConnectOutputInterface, PostInitial, Connected, DeliverResultsReady, DeliverCanceled,
              DeliverOther, Deliver, Unthrottle, ResetPending, DisconnectOutputInterface, WakePaused
<1>4. CASE SetContinuation \/ FinishAttach
  BY <1>4 DEF SetContinuation, FinishAttach, CallAttached, StoreAttached
<1>5. CASE Cancel \/ Suspend \/ Resume
  BY <1>5 DEF Cancel, Suspend, Resume, WakePaused
<1>6. CASE \E w \in Waiters : LookAgain(w) \/ \E i \in 0..UntilFinished : StartWait(w, i)
  BY <1>6 DEF LookAgain, StartWait
<1>7. CASE UNCHANGED vars
  BY <1>7
<1> QED
  BY <1>2, <1>3, <1>4, <1>5, <1>6, <1>7 DEF Next

AllInv == IInv /\ WInv /\ RestTyping /\ RunsFit

LEMMA InitAllInv == Init => AllInv
<1>1. Init => RestTyping
  <2>1. SUFFICES ASSUME Init PROVE RestTyping
    OBVIOUS
  <2>2. requests \in 0..MaxRequests /\ parties \in Meetings
    BY <2>1, BoundsAssumption DEF Init
  <2>3. /\ isValid \in BOOLEAN /\ hasException \in BOOLEAN /\ destroying \in BOOLEAN
        /\ continuation \in BOOLEAN /\ cleaned \in BOOLEAN
    BY <2>1 DEF Init
  <2> QED
    BY <2>2, <2>3 DEF RestTyping
<1>2. Init => RunsFit
  BY DEF Init, RunsFit, One, PastCall
<1> QED
  BY <1>1, <1>2, InitIInv, InitWInv DEF AllInv

LEMMA StepAllInv == AllInv /\ [Next]_vars => AllInv'
  BY StepIInv, StepWInv, StepRest, StepRuns DEF AllInv, IInv

(* The whole inductive invariant: the shared state and the watcher's part. *)
THEOREM WatcherInvariant == Spec => []AllInv
  BY InitAllInv, StepAllInv, PTL DEF Spec

(* The fields of the shared state and of the watcher: pendingResultsReady  *)
(* never becomes negative and exceeds the number of results by no more     *)
(* than came from the former future, and the continuation is called at     *)
(* most once by each of the two threads.                                   *)
THEOREM TypeCorrect == Spec => []TypeOK
<1>1. AllInv => TypeOK
  <2>1. SUFFICES ASSUME AllInv PROVE TypeOK
    OBVIOUS
  <2>2. Typing /\ WatcherTyping /\ PendingFits /\ RestTyping /\ RunsFit
    BY <2>1 DEF AllInv, IInv, WInv
  <2>3. runs \in 0..2
    BY <2>2 DEF Typing, RunsFit, One
  <2>4. pending \in 0..(MaxResults + Strays)
    <3>1. /\ told["ResultsReady"] \in Nat /\ Count("ResultsReady", snapshot) \in Nat
          /\ MaxResults \in Nat /\ Strays \in Nat /\ pending \in Nat
      BY <2>2, Kinds, CountsAreNumbers DEF WatcherTyping
    <3> QED
      BY <2>2, <3>1 DEF PendingFits, Sent
  <2> QED
    BY <2>2, <2>3, <2>4 DEF TypeOK, Typing, WatcherTyping, RestTyping
<1> QED
  BY WatcherInvariant, <1>1, PTL

(* connectOutputInterface(), sendCallOut() and the events they post: a     *)
(* watcher that is attached, for the first time or again, is told once of  *)
(* the start, of each result, of the cancellation and of the end, and a    *)
(* throttled computation has on its way the event whose delivery ends the  *)
(* throttling. The assumption: the counter starts below the limit.         *)
THEOREM WatcherKeepsUpHolds ==
  ASSUME Strays < Limit
  PROVE  Spec => []WatcherKeepsUp
<1>1. AllInv => WatcherKeepsUp
  <2>1. SUFFICES ASSUME AllInv PROVE WatcherMissesNothing /\ ThrottleIsLifted
    BY DEF WatcherKeepsUp
  <2>2. WatcherTyping /\ ResultsSent /\ MarksSent /\ Throttling
    BY <2>1 DEF AllInv, WInv
  <2>3. WatcherMissesNothing
    BY <2>2 DEF WatcherMissesNothing, ResultsSent, MarksSent, Sent, Marks, One
  <2>4. Count("ResultsReady", queue \o snapshot)
          = Count("ResultsReady", queue) + Count("ResultsReady", snapshot)
    BY <2>2, CountConcat DEF WatcherTyping
  <2>5. ThrottleIsLifted
    BY <2>2, <2>4 DEF ThrottleIsLifted, ThrottleEnds, Throttling, Reported, Has
  <2> QED
    BY <2>3, <2>5
<1> QED
  BY WatcherInvariant, <1>1, PTL
===============================================================================
