----------------------------- MODULE QSemaphore -----------------------------
(***************************************************************************)
(* QSemaphore on futexes: src/corelib/thread/qsemaphore.cpp.               *)
(*                                                                         *)
(* The semaphore is one word. On 64-bit Linux (futexHasWaiterCount) its    *)
(* low half holds the tokens, its high half tokens plus waiters and, in    *)
(* the top bit, futexNeedsWakeAllBit; single-token waiters sleep on the    *)
(* low half, multi-token waiters on the high half. Elsewhere there are     *)
(* only the tokens and the bit, and everybody sleeps on the whole word.    *)
(***************************************************************************)
EXTENDS Integers, FiniteSets

CONSTANTS Threads,
          Amounts,         \* the arguments n of acquire(), tryAcquire(), release()
          InitialTokens,
          MaxTokens,       \* bound: release() calls keep the tokens within it
          MaxCount,        \* 0x7fffffff, the largest value of a half
          Layouts,         \* the values of futexHasWaiterCount: one per build
          Calls            \* the acquiring calls in use, a subset of AllCalls

AllCalls == {"acquire", "tryAcquire", "timed"}   \* timed: tryAcquire(n, deadline)

ASSUME SemaphoreAssumption ==
    /\ Amounts \subseteq Nat \ {0}
    /\ {InitialTokens, MaxTokens, MaxCount} \subseteq Nat
    /\ Layouts \subseteq BOOLEAN
    /\ Calls \subseteq AllCalls

(* No overflow: a half of the word has room for all tokens and a waiter    *)
(* per thread.                                                             *)
ASSUME RoomAssumption ==
    /\ IsFiniteSet(Threads)
    /\ InitialTokens <= MaxTokens
    /\ MaxTokens + Cardinality(Threads) <= MaxCount

VARIABLES u,         \* the word
          pc,
          amount,    \* n of the call each thread is in
          call,      \* which call that is
          cur,       \* the local curValue
          expired,   \* has the deadline of the call passed?
          remaining  \* the local remainingTime is positive (timed calls)

locals == <<call, amount, cur, expired, remaining>>
vars == <<u, pc, locals>>

Labels == {"idle",
           "count",    \* a first try failed; about to add oneWaiter
           "mark",     \* top of the wait loop
           "wait",     \* about to call futexWait
           "asleep",
           "retry",    \* futexWait returned; about to load the word and try again
           "uncount",  \* timed out; about to subtract oneWaiter
           "wake"}     \* in release(), about to wake

(* wide is futexHasWaiterCount, which no step changes.                     *)
Word == [low: Nat, high: Nat, bit: BOOLEAN, wide: BOOLEAN]
NoValue == [low |-> 0, high |-> 0, bit |-> FALSE, wide |-> FALSE]

Init == /\ \E w \in Layouts : u = [low |-> InitialTokens, bit |-> FALSE, wide |-> w,
                                  high |-> IF w THEN InitialTokens ELSE 0]
        /\ pc = [t \in Threads |-> "idle"]
        /\ amount = [t \in Threads |-> 1]
        /\ call = [t \in Threads |-> "acquire"]
        /\ cur = [t \in Threads |-> NoValue]
        /\ expired = [t \in Threads |-> FALSE]
        /\ remaining = [t \in Threads |-> FALSE]

Goto(t, l) == pc' = [pc EXCEPT ![t] = l]

(* The end of a call: its local variables are gone.                        *)
Return(t) == /\ Goto(t, "idle")
             /\ call' = [call EXCEPT ![t] = "acquire"]
             /\ amount' = [amount EXCEPT ![t] = 1]
             /\ cur' = [cur EXCEPT ![t] = NoValue]
             /\ expired' = [expired EXCEPT ![t] = FALSE]
             /\ remaining' = [remaining EXCEPT ![t] = FALSE]

(* Adds n tokens (n < 0: takes them) and w waiters, both halves at once.   *)
(* The high half has 31 bits: what overflows lands in the flag bit.        *)
Add(w, n, k) ==
    IF w.wide
    THEN [w EXCEPT !.low = @ + n, !.high = (@ + n + k) % (MaxCount + 1)]
    ELSE [w EXCEPT !.low = @ + n]

OneWaiter == IF u.wide THEN 1 ELSE 0

(* Mistake: looking at the flag only.                                      *)
NeedsWake_FlagOnly(w) == w.bit

(* futexNeedsWake(): the flag is the top bit of the high half.             *)
NeedsWake(w) == w.bit \/ (w.wide /\ w.high > w.low)

(* Which part of the word a waiter for n tokens sleeps on.                 *)
OnHigh(n) == u.wide /\ n > 1
Compare(w, n) == IF OnHigh(n) THEN <<w.high, w.bit>>
                 ELSE IF u.wide THEN <<w.low>> ELSE <<w.low, w.bit>>

Sleepers(onHigh) == {t \in Threads : pc[t] = "asleep" /\ OnHigh(amount[t]) = onHigh}

(* The loop of loads and compare-and-swaps at the start of a call, up to   *)
(* the swap that succeeds or the value that shows too few tokens.          *)
(* tryAcquire(n) and an expired deadline return at once; so does any call, *)
(* without its tokens, when the waiter count is full.                      *)
TryAcquire(t, c, n) ==
    /\ pc[t] = "idle"
    /\ LET full == u.wide /\ u.high = MaxCount IN
       IF u.low >= n
       THEN u' = Add(u, -n, 0) /\ UNCHANGED <<pc, locals>>
       ELSE IF c = "tryAcquire" \/ full
       THEN UNCHANGED vars
       ELSE /\ Goto(t, "count")
            /\ call' = [call EXCEPT ![t] = c]
            /\ amount' = [amount EXCEPT ![t] = n]
            /\ cur' = [cur EXCEPT ![t] = u]
            /\ UNCHANGED <<u, expired, remaining>>

(* The deadline of a timed call passes.                                    *)
Expire(t) == /\ pc[t] \in {"count", "mark", "wait", "asleep", "retry"}
             /\ call[t] = "timed" /\ ~expired[t]
             /\ expired' = [expired EXCEPT ![t] = TRUE]
             /\ UNCHANGED <<u, pc, amount, call, cur, remaining>>

(* Counts the waiter in, in the word and in the local value, and computes  *)
(* the remaining time for the first round of the loop.                     *)
CountWaiter(t) ==
    /\ pc[t] = "count"
    /\ u' = Add(u, 0, OneWaiter)
    /\ cur' = [cur EXCEPT ![t] = Add(@, 0, OneWaiter)]
    /\ remaining' = [remaining EXCEPT ![t] = call[t] = "timed" /\ ~expired[t]]
    /\ Goto(t, "mark")
    /\ UNCHANGED <<amount, call, expired>>

(* Multi-token waiters (without a waiter count: all) ask to be woken.      *)
SetNeedsWakeAll(t) ==
    /\ pc[t] = "mark"
    /\ IF OnHigh(amount[t]) \/ ~u.wide
       THEN u' = [u EXCEPT !.bit = TRUE] /\ cur' = [cur EXCEPT ![t].bit = TRUE]
       ELSE UNCHANGED <<u, cur>>
    /\ Goto(t, "wait")
    /\ UNCHANGED <<amount, call, expired, remaining>>

(* The kernel compares and queues in one step.                             *)
FutexWait(t) ==
    /\ pc[t] = "wait"
    /\ Goto(t, IF Compare(u, amount[t]) = Compare(cur[t], amount[t])
               THEN "asleep" ELSE "retry")
    /\ cur' = [cur EXCEPT ![t] = NoValue]
    /\ UNCHANGED <<u, amount, call, expired, remaining>>

(* ETIMEDOUT, for a wait that was given a time-out.                        *)
FutexTimeout(t) ==
    /\ pc[t] = "asleep" /\ remaining[t] /\ expired[t]
    /\ Goto(t, "uncount")
    /\ UNCHANGED <<u, amount, call, cur, expired, remaining>>

SpuriousWake(t) ==
    /\ pc[t] = "asleep"
    /\ Goto(t, "retry")
    /\ UNCHANGED <<u, amount, call, cur, expired, remaining>>

(* Mistake: taking the tokens after a wake-up without looking.             *)
Retry_NoCheck(t) ==
    /\ pc[t] = "retry"
    /\ u' = Add(u, -amount[t], -OneWaiter) /\ Return(t)

(* Loads the word and the remaining time and tries again: takes the tokens *)
(* and leaves the waiter count, gives up, or goes round the loop.          *)
Retry(t) ==
    /\ pc[t] = "retry"
    /\ IF u.low >= amount[t]
       THEN u' = Add(u, -amount[t], -OneWaiter) /\ Return(t)
       ELSE /\ cur' = [cur EXCEPT ![t] = u]
            /\ remaining' = [remaining EXCEPT ![t] = call[t] = "timed" /\ ~expired[t]]
            /\ Goto(t, IF call[t] = "timed" /\ expired[t] THEN "uncount" ELSE "mark")
            /\ UNCHANGED <<u, call, amount, expired>>

(* Mistake: a timed-out waiter stays in the count.                         *)
UncountWaiter_Forgets(t) ==
    /\ pc[t] = "uncount"
    /\ Return(t)
    /\ UNCHANGED <<u>>

UncountWaiter(t) ==
    /\ pc[t] = "uncount"
    /\ u' = Add(u, 0, -OneWaiter)
    /\ Return(t)

(* release(): adds the tokens and clears the flag in one swap.             *)
Release(t, n) ==
    /\ pc[t] = "idle" /\ u.low + n <= MaxTokens
    /\ u' = [Add(u, n, 0) EXCEPT !.bit = FALSE]
    /\ IF NeedsWake(u)
       THEN Goto(t, "wake") /\ amount' = [amount EXCEPT ![t] = n]
       ELSE UNCHANGED <<pc, amount>>
    /\ UNCHANGED <<call, cur, expired, remaining>>

Wake(t, ts) ==
    /\ pc' = [x \in Threads |-> IF x \in ts THEN "retry"
                                ELSE IF x = t THEN "idle" ELSE pc[x]]
    /\ amount' = [amount EXCEPT ![t] = 1]

(* Mistake: waking at most n waiters of either kind.                       *)
FutexWake_AtMostN(t) ==
    /\ pc[t] = "wake"
    /\ \E s \in SUBSET (Sleepers(FALSE) \cup Sleepers(TRUE)) :
         Cardinality(s) <= amount[t] /\ Wake(t, s)
    /\ UNCHANGED <<u, call, cur, expired, remaining>>

(* FUTEX_WAKE_OP: n single-token waiters and, as the high half is not      *)
(* zero, all multi-token ones. Without a waiter count: everybody.          *)
FutexWake(t) ==
    /\ pc[t] = "wake"
    /\ IF u.wide
       THEN \E s \in SUBSET Sleepers(FALSE) :
              /\ s = Sleepers(FALSE) \/ Cardinality(s) = amount[t]
              /\ Cardinality(s) <= amount[t]
              /\ Wake(t, s \cup (IF u.high # 0 \/ u.bit THEN Sleepers(TRUE) ELSE {}))
       ELSE Wake(t, Sleepers(FALSE))
    /\ UNCHANGED <<u, call, cur, expired, remaining>>

Internal(t) == \/ CountWaiter(t) \/ SetNeedsWakeAll(t) \/ FutexWait(t)
               \/ Retry(t) \/ UncountWaiter(t) \/ FutexWake(t)

Next == \E t \in Threads :
          \/ \E n \in Amounts : \/ \E c \in Calls : TryAcquire(t, c, n)
                                \/ Release(t, n)
          \/ Internal(t)
          \/ Expire(t)
          \/ FutexTimeout(t)
          \/ SpuriousWake(t)

Spec == Init /\ [][Next]_vars

(* A thread inside a call keeps running, deadlines pass and the kernel     *)
(* reports them. Nobody is obliged to release anything, and no signal is.  *)
FairSpec == /\ Spec
            /\ \A t \in Threads : /\ WF_vars(Internal(t))
                                  /\ WF_vars(Expire(t))
                                  /\ WF_vars(FutexTimeout(t))

-----------------------------------------------------------------------------
TypeOK == /\ u \in Word
          /\ pc \in [Threads -> Labels]
          /\ amount \in [Threads -> Amounts \cup {1}]
          /\ call \in [Threads -> AllCalls]
          /\ cur \in [Threads -> Word]
          /\ {expired, remaining} \subseteq [Threads -> BOOLEAN]

(* Threads that are counted in the high half.                              *)
Counted == {t \in Threads : pc[t] \in {"mark", "wait", "asleep", "retry", "uncount"}}

(* The high half is the tokens plus the waiters (qsemaphore.cpp:87-90), on *)
(* every path out of the wait: success subtracts the waiter together with  *)
(* the tokens, a time-out by itself. A count that drifts below hides       *)
(* waiters from release(), one that drifts above ends in the full count.   *)
WaiterCountExact == u.wide => u.high = u.low + Cardinality(Counted)

(* Waiters that sleep for the wake-all flag find it set, or a releaser     *)
(* that saw it is about to wake them: the flag is cleared by the release   *)
(* that wakes, and by nobody else.                                         *)
MultiWaitersMarked ==
    (\E t \in Threads : pc[t] = "asleep" /\ (OnHigh(amount[t]) \/ ~u.wide))
        => u.bit \/ \E t \in Threads : pc[t] = "wake"

(* The word tells release() how many threads it has to wake, if any.       *)
WordIsExact == WaiterCountExact /\ MultiWaitersMarked

(* Threads that are about to look at the tokens in the low half again.     *)
Awake == {s \in Threads : pc[s] = "retry" /\ ~OnHigh(amount[s])}

(* Wake-ups on their way: a release() of n tokens is about to send n.      *)
WakesDue == {w \in Threads \X (1..MaxTokens) : pc[w[1]] = "wake" /\ w[2] <= amount[w[1]]}

(* No lost wake-up for those who want one token, nor for anybody in the    *)
(* layout without a waiter count: tokens that a sleeper could take are     *)
(* covered by threads that are awake for them or about to be woken,        *)
(* whoever barges in, times out or is woken for nothing in between.        *)
TokensReachSleepers ==
    \A t \in Sleepers(FALSE) : u.low >= amount[t] =>
      IF u.wide THEN u.low <= Cardinality(Awake) + Cardinality(WakesDue)
                ELSE \E s \in Threads : pc[s] = "wake"

(* acquire() "will block until enough resources are available"             *)
(* (qsemaphore.cpp:296-298): a thread does not go on sleeping on a         *)
(* semaphore that has the tokens it waits for.                             *)
EnoughTokensEndTheWait ==
    \A t \in Threads :
      (pc[t] = "asleep" /\ u.low >= amount[t]) ~> (pc[t] # "asleep" \/ u.low < amount[t])

(* tryAcquire(n, timer) "will wait until timer expires"                    *)
(* (qsemaphore.cpp:460-461): a call with a deadline comes back.            *)
TimedCallsReturn ==
    \A t \in Threads : (pc[t] = "count" /\ call[t] = "timed") ~> (pc[t] = "idle")
=============================================================================
