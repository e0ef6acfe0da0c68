--------------------------- MODULE QSemaphoreProofs ---------------------------
(***************************************************************************)
(* What release() may rely on when it reads the word of a QSemaphore, for  *)
(* any number of threads and tokens that the word has room for.            *)
(***************************************************************************)
EXTENDS QSemaphore, FiniteSetTheorems, TLAPS

(* Waiters that depend on the wake-all flag.                               *)
ByFlag(t) == OnHigh(amount[t]) \/ ~u.wide

(* The flag is in the value that such a waiter is about to wait for: the   *)
(* kernel lets it sleep only if no release() has cleared the flag since.   *)
AboutToSleep == \A t \in Threads : pc[t] = "wait" /\ ByFlag(t) => cur[t].bit = TRUE

IInv == TypeOK /\ u.low <= MaxTokens /\ WordIsExact /\ AboutToSleep

LEMMA ModSmall == ASSUME NEW m \in Nat, NEW x \in 0..m PROVE x % (m + 1) = x
  OBVIOUS

LEMMA ModNat == ASSUME NEW m \in Nat, NEW x \in Int PROVE x % (m + 1) \in Nat
  OBVIOUS

(* What adding to both halves at once does to a word.                      *)
LEMMA Added ==
  ASSUME NEW w \in Word, NEW n \in Int, NEW k \in Int, w.low + n \in Nat
  PROVE  /\ Add(w, n, k) \in Word
         /\ Add(w, n, k).low = w.low + n /\ Add(w, n, k).bit = w.bit /\ Add(w, n, k).wide = w.wide
         /\ w.wide /\ w.high + n + k \in 0..MaxCount => Add(w, n, k).high = w.high + n + k
<1>1. MaxCount \in Nat
  BY SemaphoreAssumption
<1>2. CASE w.wide
  <2>1. Add(w, n, k) = [w EXCEPT !.low = w.low + n, !.high = (w.high + n + k) % (MaxCount + 1)]
    BY <1>2 DEF Add
  <2>2. (w.high + n + k) % (MaxCount + 1) \in Nat
    BY <1>1, ModNat DEF Word
  <2>3. w.high + n + k \in 0..MaxCount => (w.high + n + k) % (MaxCount + 1) = w.high + n + k
    BY <1>1, ModSmall
  <2> QED
    BY <2>1, <2>2, <2>3 DEF Word
<1>3. CASE ~w.wide
  <2>1. Add(w, n, k) = [w EXCEPT !.low = w.low + n]
    BY <1>3 DEF Add
  <2> QED
    BY <1>3, <2>1 DEF Word
<1> QED
  BY <1>2, <1>3

LEMMA InitIInv == Init => IInv
<1>1. SUFFICES ASSUME Init PROVE IInv
  OBVIOUS
<1>2. PICK w \in Layouts : u = [low |-> InitialTokens, bit |-> FALSE, wide |-> w,
                                high |-> IF w THEN InitialTokens ELSE 0]
  BY <1>1 DEF Init
<1>3. u \in Word /\ u.low = InitialTokens /\ (u.wide => u.high = InitialTokens)
  BY <1>2, SemaphoreAssumption DEF Word
<1>4. TypeOK
  BY <1>1, <1>3 DEF Init, TypeOK, Labels, AllCalls, NoValue, Word
<1>5. Counted = {} /\ \A t \in Threads : pc[t] = "idle"
  BY <1>1 DEF Init, Counted
<1>6. WaiterCountExact
  BY <1>3, <1>5, SemaphoreAssumption, FS_EmptySet DEF WaiterCountExact
<1>7. MultiWaitersMarked /\ AboutToSleep
  BY <1>5 DEF MultiWaitersMarked, AboutToSleep
<1> QED
  BY <1>3, <1>4, <1>6, <1>7, RoomAssumption DEF IInv, WordIsExact

(* The numbers that the steps calculate with.                              *)
LEMMA Numbers ==
  ASSUME IInv
  PROVE  /\ u \in Word /\ u.low \in 0..MaxTokens
         /\ MaxTokens \in Nat /\ MaxCount \in Nat /\ MaxTokens + Cardinality(Threads) <= MaxCount
         /\ IsFiniteSet(Counted) /\ Cardinality(Counted) \in Nat
         /\ Cardinality(Counted) <= Cardinality(Threads) /\ Cardinality(Threads) \in Nat
         /\ u.wide => u.high = u.low + Cardinality(Counted)
         /\ \A t \in Threads : amount[t] \in Nat \ {0}
<1>1. Counted \subseteq Threads
  BY DEF Counted
<1>2. IsFiniteSet(Counted) /\ Cardinality(Counted) <= Cardinality(Threads)
  BY <1>1, RoomAssumption, FS_Subset
<1>3. Cardinality(Counted) \in Nat /\ Cardinality(Threads) \in Nat
  BY <1>2, RoomAssumption, FS_CardinalityType
<1>4. \A t \in Threads : amount[t] \in Nat \ {0}
  <2>1. ASSUME NEW t \in Threads PROVE amount[t] \in Nat \ {0}
    <3>1. amount[t] \in Amounts \cup {1}
      BY DEF IInv, TypeOK
    <3>2. \A n \in Amounts : n \in Nat /\ n # 0
      BY SemaphoreAssumption
    <3> QED
      BY <3>1, <3>2
  <2> QED
    BY <2>1
<1> QED
  BY <1>2, <1>3, <1>4, SemaphoreAssumption, RoomAssumption
     DEF IInv, TypeOK, Word, WordIsExact, WaiterCountExact

(* What a step does to the word as a number: it changes the tokens by n    *)
(* and the waiters by k, and as many threads are counted as before, plus k.*)
Changed(n, k) ==
    /\ u' \in Word /\ u'.low = u.low + n /\ u'.wide = u.wide /\ u'.low <= MaxTokens
    /\ u.wide => u'.high = u.high + n + k /\ Cardinality(Counted') = Cardinality(Counted) + k

LEMMA CountStaysExact ==
  ASSUME IInv, NEW n \in Int, NEW k \in Int, Changed(n, k)
  PROVE  WaiterCountExact'
  BY Numbers DEF Changed, WaiterCountExact

(* A thread that goes from one place to another.                           *)
LEMMA Moved ==
  ASSUME NEW t \in Threads, NEW l \in Labels, pc \in [Threads -> Labels], Goto(t, l)
  PROVE  /\ pc' \in [Threads -> Labels]
         /\ Counted' = IF l \in {"mark", "wait", "asleep", "retry", "uncount"}
                       THEN Counted \cup {t} ELSE Counted \ {t}
  BY DEF Goto, Counted

LEMMA Returned ==
  ASSUME TypeOK, NEW t \in Threads, Return(t), u' \in Word
  PROVE  TypeOK' /\ Counted' = Counted \ {t}
<1>1. pc' \in [Threads -> Labels] /\ Counted' = Counted \ {t}
  BY Moved DEF Return, TypeOK, Labels
<1>2. /\ amount' \in [Threads -> Amounts \cup {1}] /\ call' \in [Threads -> AllCalls]
      /\ cur' \in [Threads -> Word]
  BY DEF Return, TypeOK, AllCalls, NoValue, Word
<1>3. expired' \in [Threads -> BOOLEAN] /\ remaining' \in [Threads -> BOOLEAN]
  BY DEF Return, TypeOK
<1> QED
  BY <1>1, <1>2, <1>3 DEF TypeOK

(* TryAcquire, Release: by callers that are not counted.                   *)
LEMMA CallersAreExact ==
  ASSUME IInv, NEW t \in Threads, NEW n \in Amounts,
         (\E c \in Calls : TryAcquire(t, c, n)) \/ Release(t, n)
  PROVE  TypeOK' /\ u'.low <= MaxTokens /\ WaiterCountExact'
<1>1. n \in Nat \ {0} /\ Calls \subseteq AllCalls
  BY SemaphoreAssumption
<1>2. pc[t] = "idle" /\ t \notin Counted
  BY DEF TryAcquire, Release, Counted
<1>3. ASSUME NEW c \in Calls, TryAcquire(t, c, n), u.low >= n
      PROVE  TypeOK' /\ u'.low <= MaxTokens /\ WaiterCountExact'
  <2>1. u' = Add(u, -n, 0) /\ UNCHANGED <<pc, locals>>
    BY <1>3 DEF TryAcquire
  <2>2. /\ u' \in Word /\ u'.low = u.low + (-n) /\ u'.wide = u.wide
        /\ u.wide => u'.high = u.high + (-n) + 0
    <3>1. u.low + (-n) \in Nat /\ (u.wide => u.high + (-n) + 0 \in 0..MaxCount)
      BY <1>1, <1>3, Numbers
    <3> QED
      BY <1>1, <2>1, <3>1, Numbers, Added
  <2>3. Counted' = Counted
    BY <2>1 DEF Counted
  <2>4. Changed(-n, 0)
    BY <1>1, <2>2, <2>3, Numbers DEF Changed
  <2> QED
    BY <1>1, <2>1, <2>2, <2>4, Numbers, CountStaysExact DEF IInv, TypeOK, locals, Changed
<1>4. ASSUME NEW c \in Calls, TryAcquire(t, c, n), ~(u.low >= n)
      PROVE  TypeOK' /\ u'.low <= MaxTokens /\ WaiterCountExact'
  <2>1. CASE UNCHANGED vars
    BY <2>1 DEF IInv, TypeOK, vars, locals, WordIsExact, WaiterCountExact, Counted
  <2>2. CASE /\ Goto(t, "count") /\ call' = [call EXCEPT ![t] = c]
             /\ amount' = [amount EXCEPT ![t] = n] /\ cur' = [cur EXCEPT ![t] = u]
             /\ UNCHANGED <<u, expired, remaining>>
    <3>0. pc' \in [Threads -> Labels] /\ Counted' = Counted \ {t}
      BY <2>2, Moved DEF Labels, IInv, TypeOK
    <3>1. pc' \in [Threads -> Labels] /\ Counted' = Counted
      BY <1>2, <3>0
    <3>2. TypeOK'
      BY <1>1, <2>2, <3>1 DEF IInv, TypeOK
    <3> QED
      BY <2>2, <3>1, <3>2 DEF IInv, WordIsExact, WaiterCountExact
  <2> QED
    BY <1>4, <2>1, <2>2 DEF TryAcquire
<1>5. CASE Release(t, n)
  <2>1. /\ u' = [Add(u, n, 0) EXCEPT !.bit = FALSE] /\ u.low + n <= MaxTokens
        /\ UNCHANGED <<call, cur, expired, remaining>>
        /\ \/ Goto(t, "wake") /\ amount' = [amount EXCEPT ![t] = n]
           \/ UNCHANGED <<pc, amount>>
    BY <1>5 DEF Release
  <2>2. /\ u' \in Word /\ u'.low = u.low + n /\ u'.wide = u.wide
        /\ u.wide => u'.high = u.high + n + 0
    <3>1. u.low + n \in Nat /\ (u.wide => u.high + n + 0 \in 0..MaxCount)
      BY <1>1, <2>1, Numbers
    <3>2. /\ Add(u, n, 0) \in Word /\ Add(u, n, 0).low = u.low + n /\ Add(u, n, 0).wide = u.wide
          /\ u.wide => Add(u, n, 0).high = u.high + n + 0
      BY <1>1, <3>1, Numbers, Added
    <3> QED
      BY <2>1, <3>2 DEF Word
  <2>3. pc' \in [Threads -> Labels] /\ Counted' = Counted
    BY <1>2, <2>1, Moved DEF Labels, IInv, TypeOK, Counted
  <2>4. Changed(n, 0)
    BY <1>1, <2>1, <2>2, <2>3, Numbers DEF Changed
  <2>5. amount' \in [Threads -> Amounts \cup {1}]
    BY <2>1 DEF IInv, TypeOK
  <2>6. TypeOK'
    BY <2>1, <2>2, <2>3, <2>5 DEF IInv, TypeOK
  <2> QED
    BY <1>1, <2>4, <2>6, CountStaysExact DEF Changed
<1> QED
  BY <1>3, <1>4, <1>5

(* The steps that change the count of waiters, or take tokens after a wait.*)
LEMMA WaitersAreExact ==
  ASSUME IInv, NEW t \in Threads, CountWaiter(t) \/ Retry(t) \/ UncountWaiter(t)
  PROVE  TypeOK' /\ u'.low <= MaxTokens /\ WaiterCountExact'
<1> DEFINE one == OneWaiter
<1>1. one \in 0..1 /\ (u.wide => one = 1)
  BY DEF OneWaiter
<1>2. CASE CountWaiter(t)
  <2>1. u' = Add(u, 0, one) /\ Goto(t, "mark") /\ t \notin Counted
        /\ cur' = [cur EXCEPT ![t] = Add(cur[t], 0, one)]
        /\ remaining' = [remaining EXCEPT ![t] = call[t] = "timed" /\ ~expired[t]]
        /\ UNCHANGED <<amount, call, expired>>
    BY <1>2 DEF CountWaiter, Counted
  <2>2. Counted' = Counted \cup {t} /\ pc' \in [Threads -> Labels]
    BY <2>1, Moved DEF Labels, IInv, TypeOK
  <2>3. Cardinality(Counted') = Cardinality(Counted) + 1 /\ Cardinality(Counted') <= Cardinality(Threads)
    <3>1. Cardinality(Counted') = Cardinality(Counted) + 1
      BY <2>1, <2>2, Numbers, FS_AddElement
    <3>2. Counted \cup {t} \subseteq Threads
      BY DEF Counted
    <3> QED
      BY <2>2, <3>1, <3>2, RoomAssumption, FS_Subset
  <2>4. /\ u' \in Word /\ u'.low = u.low + 0 /\ u'.wide = u.wide
        /\ u.wide => u'.high = u.high + 0 + 1
    <3>1. u.low + 0 \in Nat /\ (u.wide => u.high + 0 + one \in 0..MaxCount)
      BY <1>1, <2>3, Numbers
    <3> HIDE DEF one
    <3> QED
      BY <1>1, <2>1, <3>1, Numbers, Added
  <2>5. Changed(0, 1)
    BY <2>3, <2>4, Numbers DEF Changed
  <2>6. cur' \in [Threads -> Word]
    <3>1. cur[t] \in Word /\ cur[t].low + 0 \in Nat
      BY DEF IInv, TypeOK, Word
    <3> HIDE DEF one
    <3>2. Add(cur[t], 0, one) \in Word
      BY <1>1, <3>1, Added
    <3> QED
      BY <2>1, <3>2 DEF IInv, TypeOK
  <2>7. remaining' \in [Threads -> BOOLEAN]
    BY <2>1 DEF IInv, TypeOK
  <2> QED
    BY <2>1, <2>2, <2>4, <2>5, <2>6, <2>7, CountStaysExact DEF IInv, TypeOK, Changed
<1>3. CASE Retry(t) /\ u.low >= amount[t]
  <2>1. u' = Add(u, -amount[t], -one) /\ Return(t) /\ t \in Counted
    BY <1>3 DEF Retry, Counted
  <2>2. amount[t] \in Nat
    BY Numbers
  <2>3. Cardinality(Counted \ {t}) = Cardinality(Counted) - 1 /\ Cardinality(Counted) >= 1
    <3>1. Cardinality(Counted \ {t}) = Cardinality(Counted) - 1 /\ IsFiniteSet(Counted \ {t})
      BY <2>1, Numbers, FS_RemoveElement
    <3>2. Cardinality(Counted \ {t}) \in Nat
      BY <3>1, FS_CardinalityType
    <3> QED
      BY <3>1, <3>2, Numbers
  <2>4. /\ u' \in Word /\ u'.low = u.low + (-amount[t]) /\ u'.wide = u.wide
        /\ u.wide => u'.high = u.high + (-amount[t]) + (-1)
    <3>1. u.low + (-amount[t]) \in Nat /\ (u.wide => u.high + (-amount[t]) + (-one) \in 0..MaxCount)
      BY <1>1, <1>3, <2>2, <2>3, Numbers
    <3> HIDE DEF one
    <3> QED
      BY <1>1, <2>1, <2>2, <3>1, Numbers, Added
  <2>5. TypeOK' /\ Counted' = Counted \ {t}
    BY <2>1, <2>4, Returned DEF IInv
  <2>6. Changed(-amount[t], -1)
    BY <2>2, <2>3, <2>4, <2>5, Numbers DEF Changed
  <2>7. -amount[t] \in Int
    BY <2>2
  <2>8. WaiterCountExact'
    BY <2>6, <2>7, CountStaysExact
  <2> QED
    BY <2>5, <2>6, <2>8 DEF Changed
<1>4. CASE Retry(t) /\ ~(u.low >= amount[t])
  <2>1. PICK l \in {"uncount", "mark"} :
          /\ Goto(t, l) /\ cur' = [cur EXCEPT ![t] = u] /\ t \in Counted
          /\ remaining' = [remaining EXCEPT ![t] = call[t] = "timed" /\ ~expired[t]]
          /\ UNCHANGED <<u, call, amount, expired>>
    BY <1>4 DEF Retry, Counted
  <2>2. pc' \in [Threads -> Labels] /\ Counted' = Counted
    BY <2>1, Moved DEF Labels, IInv, TypeOK
  <2>3. remaining' \in [Threads -> BOOLEAN]
    BY <2>1 DEF IInv, TypeOK
  <2> QED
    BY <2>1, <2>2, <2>3 DEF IInv, TypeOK, WordIsExact, WaiterCountExact
<1>5. CASE UncountWaiter(t)
  <2>1. u' = Add(u, 0, -one) /\ Return(t) /\ t \in Counted
    BY <1>5 DEF UncountWaiter, Counted
  <2>2. Cardinality(Counted \ {t}) = Cardinality(Counted) - 1 /\ Cardinality(Counted) >= 1
    <3>1. Cardinality(Counted \ {t}) = Cardinality(Counted) - 1 /\ IsFiniteSet(Counted \ {t})
      BY <2>1, Numbers, FS_RemoveElement
    <3>2. Cardinality(Counted \ {t}) \in Nat
      BY <3>1, FS_CardinalityType
    <3> QED
      BY <3>1, <3>2, Numbers
  <2>3. /\ u' \in Word /\ u'.low = u.low + 0 /\ u'.wide = u.wide
        /\ u.wide => u'.high = u.high + 0 + (-1)
    <3>1. u.low + 0 \in Nat /\ (u.wide => u.high + 0 + (-one) \in 0..MaxCount)
      BY <1>1, <2>2, Numbers
    <3> HIDE DEF one
    <3> QED
      BY <1>1, <2>1, <3>1, Numbers, Added
  <2>4. TypeOK' /\ Counted' = Counted \ {t}
    BY <2>1, <2>3, Returned DEF IInv
  <2>5. Changed(0, -1)
    BY <2>2, <2>3, <2>4, Numbers DEF Changed
  <2> QED
    BY <2>4, <2>5, CountStaysExact DEF Changed
<1> QED
  BY <1>2, <1>3, <1>4, <1>5

(* Steps that leave the numbers in the word alone, and who is counted.     *)
LEMMA OthersAreExact ==
  ASSUME IInv, NEW t \in Threads,
         \/ SetNeedsWakeAll(t) \/ FutexWait(t) \/ FutexTimeout(t) \/ SpuriousWake(t)
         \/ Expire(t) \/ FutexWake(t)
  PROVE  TypeOK' /\ u'.low <= MaxTokens /\ WaiterCountExact'
<1>1. CASE SetNeedsWakeAll(t)
  <2>1. /\ u' = u \/ u' = [u EXCEPT !.bit = TRUE]
        /\ cur' = cur \/ cur' = [cur EXCEPT ![t].bit = TRUE]
        /\ Goto(t, "wait") /\ t \in Counted /\ UNCHANGED <<amount, call, expired, remaining>>
    BY <1>1 DEF SetNeedsWakeAll, Counted
  <2>2. pc' \in [Threads -> Labels] /\ Counted' = Counted
    BY <2>1, Moved DEF Labels, IInv, TypeOK
  <2>3. u' \in Word /\ u'.low = u.low /\ u'.high = u.high /\ u'.wide = u.wide
    BY <2>1, Numbers DEF Word
  <2>4. cur' \in [Threads -> Word]
    <3>1. [cur[t] EXCEPT !.bit = TRUE] \in Word
      BY DEF IInv, TypeOK, Word
    <3>2. cur' = cur \/ cur' = [cur EXCEPT ![t] = [cur[t] EXCEPT !.bit = TRUE]]
      BY <2>1
    <3> QED
      BY <3>1, <3>2 DEF IInv, TypeOK
  <2> QED
    BY <2>1, <2>2, <2>3, <2>4 DEF IInv, TypeOK, WordIsExact, WaiterCountExact
<1>2. CASE FutexWait(t)
  <2>1. PICK l \in {"asleep", "retry"} :
          /\ Goto(t, l) /\ t \in Counted /\ cur' = [cur EXCEPT ![t] = NoValue]
          /\ UNCHANGED <<u, amount, call, expired, remaining>>
    BY <1>2 DEF FutexWait, Counted
  <2>2. pc' \in [Threads -> Labels] /\ Counted' = Counted
    BY <2>1, Moved DEF Labels, IInv, TypeOK
  <2>3. cur' \in [Threads -> Word]
    BY <2>1 DEF IInv, TypeOK, Word, NoValue
  <2> QED
    BY <2>1, <2>2, <2>3 DEF IInv, TypeOK, WordIsExact, WaiterCountExact
<1>3. CASE FutexTimeout(t) \/ SpuriousWake(t)
  <2>1. PICK l \in {"uncount", "retry"} :
          Goto(t, l) /\ t \in Counted /\ UNCHANGED <<u, amount, call, cur, expired, remaining>>
    BY <1>3 DEF FutexTimeout, SpuriousWake, Counted
  <2>2. pc' \in [Threads -> Labels] /\ Counted' = Counted
    BY <2>1, Moved DEF Labels, IInv, TypeOK
  <2> QED
    BY <2>1, <2>2 DEF IInv, TypeOK, WordIsExact, WaiterCountExact
<1>4. CASE Expire(t)
  <2>1. /\ expired' = [expired EXCEPT ![t] = TRUE]
        /\ UNCHANGED <<u, pc, amount, call, cur, remaining>>
    BY <1>4 DEF Expire
  <2>2. expired' \in [Threads -> BOOLEAN] /\ Counted' = Counted
    BY <2>1 DEF IInv, TypeOK, Counted
  <2> QED
    BY <2>1, <2>2 DEF IInv, TypeOK, WordIsExact, WaiterCountExact
<1>5. CASE FutexWake(t)
  <2>1. PICK ts \in SUBSET (Sleepers(FALSE) \cup Sleepers(TRUE)) :
          Wake(t, ts) /\ pc[t] = "wake" /\ UNCHANGED <<u, call, cur, expired, remaining>>
    BY <1>5 DEF FutexWake
  <2>2. pc' \in [Threads -> Labels] /\ Counted' = Counted
    BY <2>1 DEF Wake, Sleepers, Labels, Counted, IInv, TypeOK
  <2>3. amount' \in [Threads -> Amounts \cup {1}]
    BY <2>1 DEF Wake, IInv, TypeOK
  <2> QED
    BY <2>1, <2>2, <2>3 DEF IInv, TypeOK, WordIsExact, WaiterCountExact
<1> QED
  BY <1>1, <1>2, <1>3, <1>4, <1>5

LEMMA AddKeeps ==
  ASSUME NEW w \in Word, NEW n, NEW k
  PROVE  Add(w, n, k).bit = w.bit /\ Add(w, n, k).wide = w.wide
  BY DEF Add, Word

(* Waiters that depend on the flag, in the steps that do not wake.         *)
LEMMA FlagStays ==
  ASSUME IInv, NEW t \in Threads,
         \/ \E n \in Amounts : (\E c \in Calls : TryAcquire(t, c, n)) \/ Release(t, n)
         \/ CountWaiter(t) \/ SetNeedsWakeAll(t) \/ FutexWait(t) \/ Retry(t)
         \/ UncountWaiter(t) \/ Expire(t) \/ FutexTimeout(t) \/ SpuriousWake(t)
  PROVE  MultiWaitersMarked' /\ AboutToSleep'
<1> USE DEF AboutToSleep, MultiWaitersMarked, ByFlag, OnHigh, Goto
<1>1. /\ u \in Word /\ pc \in [Threads -> Labels] /\ cur \in [Threads -> Word]
      /\ amount \in [Threads -> Amounts \cup {1}]
      /\ AboutToSleep /\ MultiWaitersMarked
  BY DEF IInv, TypeOK, WordIsExact
<1>2. ASSUME NEW n \in Amounts, NEW c \in Calls, TryAcquire(t, c, n)
      PROVE  MultiWaitersMarked' /\ AboutToSleep'
  BY <1>1, <1>2, AddKeeps DEF TryAcquire, locals, vars
<1>3. ASSUME NEW n \in Amounts, Release(t, n) PROVE MultiWaitersMarked' /\ AboutToSleep'
  <2>1. u'.wide = u.wide /\ u'.bit = FALSE
    <3>1. Add(u, n, 0) \in Word \/ DOMAIN Add(u, n, 0) = {"low", "high", "bit", "wide"}
      BY <1>1 DEF Add, Word
    <3> QED
      BY <1>1, <1>3, <3>1, AddKeeps DEF Release, Word
  <2>2. CASE NeedsWake(u)
    BY <1>1, <1>3, <2>1, <2>2 DEF Release
  <2>3. CASE ~NeedsWake(u)
    <3>1. u.bit # TRUE
      BY <2>3 DEF NeedsWake
    <3> QED
      BY <1>1, <1>3, <2>1, <2>3, <3>1 DEF Release
  <2> QED
    BY <2>2, <2>3
<1>4. CASE CountWaiter(t) \/ UncountWaiter(t)
  BY <1>1, <1>4, AddKeeps DEF CountWaiter, UncountWaiter, Return
<1>5. CASE Retry(t)
  BY <1>1, <1>5, AddKeeps DEF Retry, Return
<1>6. CASE SetNeedsWakeAll(t)
  BY <1>1, <1>6 DEF SetNeedsWakeAll, Word
<1>7. CASE FutexWait(t)
  BY <1>1, <1>7 DEF FutexWait, Compare
<1>8. CASE Expire(t) \/ FutexTimeout(t) \/ SpuriousWake(t)
  BY <1>1, <1>8 DEF Expire, FutexTimeout, SpuriousWake
<1> QED
  BY <1>2, <1>3, <1>4, <1>5, <1>6, <1>7, <1>8

(* FUTEX_WAKE_OP wakes all those that depend on the flag, as the high half *)
(* cannot be zero while one of them is counted in it.                      *)
LEMMA FlagIsServed ==
  ASSUME IInv, NEW t \in Threads, FutexWake(t)
  PROVE  MultiWaitersMarked' /\ AboutToSleep'
<1>1. pc \in [Threads -> Labels] /\ amount \in [Threads -> Amounts \cup {1}]
      /\ u' = u /\ cur' = cur /\ pc[t] = "wake"
  BY DEF IInv, TypeOK, FutexWake
<1>2. ASSUME NEW x \in Threads, pc[x] = "asleep", ByFlag(x) PROVE pc'[x] = "retry"
  <2>1. CASE u.wide
    <3>1. x \in Sleepers(TRUE)
      BY <1>2, <2>1 DEF Sleepers, ByFlag, OnHigh
    <3>2. u.high # 0
      <4>1. x \in Counted
        BY <1>2 DEF Counted
      <4>2. Cardinality(Counted) # 0
        BY <4>1, Numbers, FS_EmptySet
      <4> QED
        BY <2>1, <4>2, Numbers
    <3> QED
      BY <1>1, <2>1, <3>1, <3>2 DEF FutexWake, Wake
  <2>2. CASE ~u.wide
    <3>1. x \in Sleepers(FALSE)
      BY <1>2, <2>2 DEF Sleepers, OnHigh
    <3> QED
      BY <1>1, <2>2, <3>1 DEF FutexWake, Wake
  <2> QED
    BY <2>1, <2>2
<1>3. \A x \in Threads : /\ pc'[x] = "asleep" => pc[x] = "asleep" /\ x # t
                         /\ pc'[x] = "wait" => pc[x] = "wait" /\ x # t
                         /\ x # t => amount'[x] = amount[x]
  <2>1. PICK ts : Wake(t, ts)
    BY DEF FutexWake
  <2> QED
    BY <1>1, <2>1 DEF Wake
<1>4. \A x \in Threads : x # t => (ByFlag(x)' <=> ByFlag(x))
  BY <1>1, <1>3 DEF ByFlag, OnHigh
<1>5. AboutToSleep'
  BY <1>1, <1>3, <1>4 DEF IInv, AboutToSleep
<1>6. \A x \in Threads : ~(pc'[x] = "asleep" /\ ByFlag(x)')
  BY <1>2, <1>3, <1>4
<1>7. MultiWaitersMarked'
  BY <1>6 DEF MultiWaitersMarked, ByFlag
<1> QED
  BY <1>5, <1>7

LEMMA StepIInv == IInv /\ [Next]_vars => IInv'
<1>1. ASSUME IInv, NEW t \in Threads, NEW n \in Amounts,
             (\E c \in Calls : TryAcquire(t, c, n)) \/ Release(t, n)
      PROVE  IInv'
  BY <1>1, CallersAreExact, FlagStays DEF IInv, WordIsExact
<1>2. ASSUME IInv, NEW t \in Threads, CountWaiter(t) \/ Retry(t) \/ UncountWaiter(t)
      PROVE  IInv'
  BY <1>2, WaitersAreExact, FlagStays DEF IInv, WordIsExact
<1>3. ASSUME IInv, NEW t \in Threads,
             SetNeedsWakeAll(t) \/ FutexWait(t) \/ FutexTimeout(t) \/ SpuriousWake(t) \/ Expire(t)
      PROVE  IInv'
  BY <1>3, OthersAreExact, FlagStays DEF IInv, WordIsExact
<1>4. ASSUME IInv, NEW t \in Threads, FutexWake(t) PROVE IInv'
  BY <1>4, OthersAreExact, FlagIsServed DEF IInv, WordIsExact
<1>5. ASSUME IInv, UNCHANGED vars PROVE IInv'
  BY <1>5 DEF IInv, TypeOK, WordIsExact, WaiterCountExact, MultiWaitersMarked, AboutToSleep,
              ByFlag, OnHigh, Counted, vars, locals
<1> QED
  BY <1>1, <1>2, <1>3, <1>4, <1>5 DEF Next, Internal

(* The word of the semaphore and what the calls keep of it: no addition to *)
(* both halves at once ever makes the low one negative.                    *)
THEOREM TypeCorrect == Spec => []TypeOK
<1>1. IInv => TypeOK
  BY DEF IInv
<1> QED
  BY InitIInv, StepIInv, <1>1, PTL DEF Spec

(* futexSemaphoreTryAcquire_loop() and release(): the high half is the     *)
(* tokens plus the waiters on every way out of the wait, and the flag is   *)
(* set while somebody sleeps who depends on it, or is about to be served.  *)
THEOREM WordIsExactHolds == Spec => []WordIsExact
<1>1. IInv => WordIsExact
  BY DEF IInv
<1> QED
  BY InitIInv, StepIInv, <1>1, PTL DEF Spec

-----------------------------------------------------------------------------
(* A thread that found too few tokens still holds the value that told it,  *)
(* and the kernel compares with that value.                                *)
CurIsShort == \A t \in Threads : pc[t] \in {"count", "mark", "wait"} => cur[t].low < amount[t]

(* A release() has added as many tokens as it is about to wake threads.    *)
WakeIsReal == \A t \in Threads : pc[t] = "wake" => amount[t] <= MaxTokens

TInv == IInv /\ CurIsShort /\ WakeIsReal /\ TokensReachSleepers

LEMMA FiniteParts ==
  /\ IsFiniteSet(Awake) /\ Cardinality(Awake) \in Nat
  /\ IsFiniteSet(WakesDue) /\ Cardinality(WakesDue) \in Nat
<1>1. Awake \in SUBSET Threads
  BY DEF Awake
<1>2. WakesDue \in SUBSET (Threads \X (1..MaxTokens))
  BY DEF WakesDue
<1>3. IsFiniteSet(1..MaxTokens)
  BY SemaphoreAssumption, FS_Interval
<1>4. IsFiniteSet(Threads \X (1..MaxTokens))
  BY <1>3, RoomAssumption, FS_Product
<1>5. IsFiniteSet(Awake) /\ IsFiniteSet(WakesDue)
  BY <1>1, <1>2, <1>4, RoomAssumption, FS_Subset
<1> QED
  BY <1>5, FS_CardinalityType

LEMMA FinitePartsNext ==
  /\ IsFiniteSet(Awake') /\ Cardinality(Awake') \in Nat
  /\ IsFiniteSet(WakesDue') /\ Cardinality(WakesDue') \in Nat
<1>1. Awake' \in SUBSET Threads
  BY DEF Awake
<1>2. WakesDue' \in SUBSET (Threads \X (1..MaxTokens))
  BY DEF WakesDue
<1>3. IsFiniteSet(1..MaxTokens)
  BY SemaphoreAssumption, FS_Interval
<1>4. IsFiniteSet(Threads \X (1..MaxTokens))
  BY <1>3, RoomAssumption, FS_Product
<1>5. IsFiniteSet(Awake') /\ IsFiniteSet(WakesDue')
  BY <1>1, <1>2, <1>4, RoomAssumption, FS_Subset
<1> QED
  BY <1>5, FS_CardinalityType

LEMMA Disjoint ==
  ASSUME NEW A, NEW B, IsFiniteSet(A), IsFiniteSet(B), A \cap B = {}
  PROVE  IsFiniteSet(A \cup B) /\ Cardinality(A \cup B) = Cardinality(A) + Cardinality(B)
<1>1. Cardinality({}) = 0
  BY FS_EmptySet
<1>2. Cardinality(A) \in Nat /\ Cardinality(B) \in Nat
  BY FS_CardinalityType
<1>3. /\ IsFiniteSet(A \cup B)
      /\ Cardinality(A \cup B) = Cardinality(A) + Cardinality(B) - Cardinality(A \cap B)
  BY FS_Union
<1>4. Cardinality(A \cup B) = Cardinality(A) + Cardinality(B) - 0
  BY <1>1, <1>3
<1> QED
  BY <1>2, <1>3, <1>4

(* The wake-ups that one release() of n tokens stands for.                 *)
LEMMA WakesOf ==
  ASSUME NEW t, NEW n \in Nat
  PROVE  IsFiniteSet({t} \X (1..n)) /\ Cardinality({t} \X (1..n)) = n
<1>1. IsFiniteSet({t}) /\ Cardinality({t}) = 1
  BY FS_Singleton
<1>2. IsFiniteSet(1..n) /\ Cardinality(1..n) = n
  BY FS_Interval
<1>3. /\ IsFiniteSet({t} \X (1..n))
      /\ Cardinality({t} \X (1..n)) = Cardinality({t}) * Cardinality(1..n)
  BY <1>1, <1>2, FS_Product
<1> QED
  BY <1>1, <1>2, <1>3

(* Steps that add no token, send no thread to sleep that could have them,  *)
(* and take nobody from those who are awake or about to wake.              *)
LEMMA NoMoreTokens ==
  ASSUME TInv, u'.wide = u.wide, u'.low \in Nat, u'.low <= u.low,
         \A x \in Threads : pc'[x] = "asleep" =>
            amount'[x] = amount[x] /\ (pc[x] = "asleep" \/ u'.low < amount[x]),
         \A x \in Threads : pc[x] \in {"wake", "retry"} => pc'[x] = pc[x] /\ amount'[x] = amount[x]
  PROVE  TokensReachSleepers'
<1>1. u.low \in Nat
  BY Numbers DEF TInv
<1>2. Cardinality(Awake) <= Cardinality(Awake')
  <2>1. Awake \subseteq Awake'
    BY DEF Awake, OnHigh
  <2> QED
    BY <2>1, FinitePartsNext, FS_Subset
<1>3. Cardinality(WakesDue) <= Cardinality(WakesDue')
  <2>1. WakesDue \subseteq WakesDue'
    BY DEF WakesDue
  <2> QED
    BY <2>1, FinitePartsNext, FS_Subset
<1>4. SUFFICES ASSUME NEW x \in Threads, pc'[x] = "asleep", ~OnHigh(amount[x])', u'.low >= amount'[x]
               PROVE  IF u'.wide THEN u'.low <= Cardinality(Awake') + Cardinality(WakesDue')
                                 ELSE \E s \in Threads : pc'[s] = "wake"
  BY DEF TokensReachSleepers, Sleepers
<1>5. amount'[x] = amount[x] /\ pc[x] = "asleep" /\ amount[x] \in Nat
  BY <1>1, <1>4, Numbers DEF TInv
<1>6. x \in Sleepers(FALSE) /\ u.low >= amount[x]
  BY <1>1, <1>4, <1>5 DEF Sleepers, OnHigh
<1>7. IF u.wide THEN u.low <= Cardinality(Awake) + Cardinality(WakesDue)
                ELSE \E s \in Threads : pc[s] = "wake"
  BY <1>6 DEF TInv, TokensReachSleepers
<1>8. CASE u.wide
  BY <1>1, <1>2, <1>3, <1>7, <1>8, FiniteParts, FinitePartsNext
<1>9. CASE ~u.wide
  BY <1>7, <1>9
<1> QED
  BY <1>8, <1>9

(* Sleepers on the low half of a word with a waiter count want one token.  *)
LEMMA OneEach ==
  ASSUME IInv, u.wide, NEW x \in Threads, ~OnHigh(amount[x])
  PROVE  amount[x] = 1
  BY Numbers DEF OnHigh

(* release(): every token it adds is covered by a wake-up that it owes, or *)
(* the word told it that nobody waits.                                     *)
LEMMA ReleaseCovers ==
  ASSUME TInv, IInv', NEW t \in Threads, NEW n \in Amounts, Release(t, n)
  PROVE  TInv'
<1>1. /\ pc[t] = "idle" /\ u.low + n <= MaxTokens /\ n \in Nat \ {0}
      /\ u' = [Add(u, n, 0) EXCEPT !.bit = FALSE] /\ cur' = cur
      /\ u.low \in Nat /\ pc \in [Threads -> Labels] /\ MaxTokens \in Nat
      /\ amount \in [Threads -> Amounts \cup {1}]
  BY Numbers, SemaphoreAssumption DEF Release, TInv, IInv, TypeOK
<1>2. u'.low = u.low + n /\ u'.wide = u.wide
  <2>1. /\ Add(u, n, 0) \in Word /\ Add(u, n, 0).low = u.low + n /\ Add(u, n, 0).wide = u.wide
    <3>1. u \in Word /\ u.low + n \in Nat /\ n \in Int
      BY <1>1, Numbers DEF TInv
    <3> QED
      BY <3>1, Added
  <2> QED
    BY <1>1, <2>1 DEF Word
<1>3. CASE NeedsWake(u)
  <2>1. pc' = [pc EXCEPT ![t] = "wake"] /\ amount' = [amount EXCEPT ![t] = n]
    BY <1>3 DEF Release, Goto
  <2>2. CurIsShort' /\ WakeIsReal'
    BY <1>1, <2>1 DEF TInv, CurIsShort, WakeIsReal
  <2>3. Awake' = Awake
    BY <1>1, <1>2, <2>1 DEF Awake, OnHigh
  <2>4. WakesDue' = WakesDue \cup ({t} \X (1..n)) /\ WakesDue \cap ({t} \X (1..n)) = {}
    <3>1. n <= MaxTokens
      BY <1>1
    <3> QED
      BY <1>1, <2>1, <3>1 DEF WakesDue
  <2>5. Cardinality(WakesDue') = Cardinality(WakesDue) + n
    <3>1. IsFiniteSet({t} \X (1..n)) /\ Cardinality({t} \X (1..n)) = n
      BY <1>1, WakesOf
    <3>2. Cardinality(WakesDue \cup ({t} \X (1..n))) = Cardinality(WakesDue) + Cardinality({t} \X (1..n))
      BY <2>4, <3>1, FiniteParts, Disjoint
    <3> QED
      BY <2>4, <3>1, <3>2
  <2>6. CASE u.wide
    <3>1. ASSUME NEW x \in Threads, pc'[x] = "asleep", ~OnHigh(amount[x])'
          PROVE  u'.low <= Cardinality(Awake') + Cardinality(WakesDue')
      <4>1. x \in Sleepers(FALSE) /\ amount[x] = 1
        <5>1. pc[x] = "asleep" /\ ~OnHigh(amount[x])
          BY <1>1, <1>2, <2>1, <3>1 DEF OnHigh
        <5> QED
          BY <2>6, <5>1, OneEach DEF Sleepers, TInv
      <4>2. u.low <= Cardinality(Awake) + Cardinality(WakesDue)
        <5>1. CASE u.low >= 1
          BY <2>6, <4>1, <5>1 DEF TInv, TokensReachSleepers
        <5>2. CASE u.low = 0
          BY <5>2, FiniteParts
        <5> QED
          BY <1>1, <5>1, <5>2
      <4> QED
        BY <1>1, <1>2, <2>3, <2>5, <4>2, FiniteParts
    <3> QED
      BY <1>2, <2>2, <2>6, <3>1 DEF TInv, TokensReachSleepers, Sleepers
  <2>7. CASE ~u.wide
    <3>1. pc'[t] = "wake"
      BY <1>1, <2>1
    <3> QED
      BY <1>2, <2>2, <2>7, <3>1 DEF TInv, TokensReachSleepers
  <2> QED
    BY <2>6, <2>7
<1>4. CASE ~NeedsWake(u)
  <2>1. pc' = pc /\ amount' = amount
    BY <1>4 DEF Release
  <2>2. CurIsShort' /\ WakeIsReal'
    BY <1>1, <2>1 DEF TInv, CurIsShort, WakeIsReal
  <2>3. ASSUME NEW x \in Threads, pc[x] = "asleep", ~OnHigh(amount[x])
        PROVE  ~u.wide /\ \E s \in Threads : pc[s] = "wake"
    <3>1. ~u.wide
      <4>1. SUFFICES ASSUME u.wide PROVE FALSE
        OBVIOUS
      <4>2. x \in Counted
        BY <2>3 DEF Counted
      <4>3. Cardinality(Counted) # 0
        BY <4>2, Numbers, FS_EmptySet DEF TInv
      <4>4. u.high > u.low
        BY <1>1, <4>1, <4>3, Numbers DEF TInv
      <4> QED
        BY <1>4, <4>1, <4>4 DEF NeedsWake
    <3>2. u.bit # TRUE
      BY <1>4 DEF NeedsWake
    <3>3. u.bit \in BOOLEAN
      BY Numbers DEF TInv, Word
    <3> QED
      BY <2>3, <3>1, <3>2, <3>3 DEF TInv, IInv, WordIsExact, MultiWaitersMarked
  <2>4. TokensReachSleepers'
    BY <1>2, <2>1, <2>3 DEF TokensReachSleepers, Sleepers, OnHigh
  <2> QED
    BY <2>2, <2>4 DEF TInv
<1> QED
  BY <1>3, <1>4

(* FUTEX_WAKE_OP: a wake-up that was due has become a thread that is awake,*)
(* unless there was nobody left to wake.                                   *)
LEMMA WakeMeets ==
  ASSUME TInv, IInv', NEW t \in Threads, FutexWake(t)
  PROVE  TInv'
<1>1. /\ pc[t] = "wake" /\ u' = u /\ cur' = cur /\ u.low \in Nat
      /\ pc \in [Threads -> Labels] /\ amount \in [Threads -> Amounts \cup {1}]
      /\ amount[t] \in Nat \ {0} /\ amount[t] <= MaxTokens /\ MaxTokens \in Nat
  BY Numbers DEF FutexWake, TInv, IInv, TypeOK, WakeIsReal
<1>2. CASE ~u.wide
  <2>1. Wake(t, Sleepers(FALSE))
    BY <1>2 DEF FutexWake
  <2>2. \A x \in Threads : pc'[x] # "asleep"
    BY <1>1, <1>2, <2>1 DEF Wake, Sleepers, OnHigh
  <2>3. CurIsShort' /\ WakeIsReal'
    BY <1>1, <2>1 DEF TInv, CurIsShort, WakeIsReal, Wake
  <2> QED
    BY <2>2, <2>3 DEF TInv, TokensReachSleepers, Sleepers
<1>3. CASE u.wide
  <2>1. PICK s \in SUBSET Sleepers(FALSE), o \in SUBSET Sleepers(TRUE) :
          /\ s = Sleepers(FALSE) \/ Cardinality(s) = amount[t]
          /\ Wake(t, s \cup o)
    BY <1>3 DEF FutexWake
  <2>2. /\ pc' = [x \in Threads |-> IF x \in s \cup o THEN "retry"
                                    ELSE IF x = t THEN "idle" ELSE pc[x]]
        /\ amount' = [amount EXCEPT ![t] = 1]
    BY <2>1 DEF Wake
  <2>3. CurIsShort' /\ WakeIsReal'
    BY <1>1, <2>2 DEF TInv, CurIsShort, WakeIsReal
  <2>4. CASE s = Sleepers(FALSE)
    <3>1. \A x \in Threads : ~(pc'[x] = "asleep" /\ ~OnHigh(amount[x])')
      BY <1>1, <2>2, <2>4 DEF Sleepers, OnHigh
    <3> QED
      BY <2>3, <3>1 DEF TInv, TokensReachSleepers, Sleepers
  <2>5. CASE s # Sleepers(FALSE) /\ Cardinality(s) = amount[t]
    <3>1. \A x \in s : x \in Threads /\ pc[x] = "asleep" /\ ~OnHigh(amount[x])
      BY <2>1 DEF Sleepers
    <3>2. \A x \in o : x \in Threads /\ pc[x] = "asleep" /\ OnHigh(amount[x])
      BY <2>1 DEF Sleepers
    <3>3. Awake' = Awake \cup s /\ Awake \cap s = {}
      BY <1>1, <2>2, <3>1, <3>2 DEF Awake, OnHigh
    <3>4. Cardinality(Awake') = Cardinality(Awake) + amount[t]
      <4>1. s \in SUBSET Threads
        BY <3>1
      <4>2. IsFiniteSet(s)
        BY <4>1, RoomAssumption, FS_Subset
      <4>3. Cardinality(Awake \cup s) = Cardinality(Awake) + Cardinality(s)
        BY <3>3, <4>2, FiniteParts, Disjoint
      <4> QED
        BY <2>5, <3>3, <4>3
    <3>5. WakesDue = WakesDue' \cup ({t} \X (1..amount[t])) /\ WakesDue' \cap ({t} \X (1..amount[t])) = {}
      <4>1. pc'[t] # "wake" /\ \A x \in Threads \ {t} : (pc'[x] = "wake" <=> pc[x] = "wake") /\ amount'[x] = amount[x]
        BY <1>1, <2>2, <3>1, <3>2
      <4> QED
        BY <1>1, <4>1 DEF WakesDue
    <3>6. Cardinality(WakesDue) = Cardinality(WakesDue') + amount[t]
      <4>1. /\ IsFiniteSet({t} \X (1..amount[t]))
            /\ Cardinality({t} \X (1..amount[t])) = amount[t]
        BY <1>1, WakesOf
      <4>2. Cardinality(WakesDue' \cup ({t} \X (1..amount[t])))
              = Cardinality(WakesDue') + Cardinality({t} \X (1..amount[t]))
        BY <3>5, <4>1, FinitePartsNext, Disjoint
      <4> QED
        BY <3>5, <4>1, <4>2
    <3>7. ASSUME NEW x \in Threads, pc'[x] = "asleep", ~OnHigh(amount[x])', u'.low >= amount'[x]
          PROVE  u'.low <= Cardinality(Awake') + Cardinality(WakesDue')
      <4>1. x \in Sleepers(FALSE) /\ u.low >= amount[x]
        BY <1>1, <2>2, <3>7 DEF Sleepers, OnHigh
      <4>2. u.low <= Cardinality(Awake) + Cardinality(WakesDue)
        BY <1>3, <4>1 DEF TInv, TokensReachSleepers
      <4> QED
        BY <1>1, <3>4, <3>6, <4>2, FiniteParts, FinitePartsNext
    <3> QED
      BY <1>1, <1>3, <2>3, <3>7 DEF TInv, TokensReachSleepers, Sleepers
  <2> QED
    BY <2>1, <2>4, <2>5
<1> QED
  BY <1>2, <1>3

(* Retry: a thread takes its tokens, and with them what stood for it, or   *)
(* leaves because there are none.                                          *)
LEMMA RetryMeets ==
  ASSUME TInv, IInv', NEW t \in Threads, Retry(t)
  PROVE  TInv'
<1>1. /\ pc[t] = "retry" /\ u \in Word /\ u.low \in Nat /\ amount[t] \in Nat \ {0}
      /\ pc \in [Threads -> Labels] /\ amount \in [Threads -> Amounts \cup {1}]
      /\ cur \in [Threads -> Word]
  BY Numbers DEF Retry, TInv, IInv, TypeOK
<1>2. CASE u.low >= amount[t]
  <2>1. /\ u' = Add(u, -amount[t], -OneWaiter)
        /\ pc' = [pc EXCEPT ![t] = "idle"] /\ amount' = [amount EXCEPT ![t] = 1]
        /\ cur' = [cur EXCEPT ![t] = NoValue]
    BY <1>2 DEF Retry, Return, Goto
  <2>2. u'.low = u.low - amount[t] /\ u'.wide = u.wide
    <3>1. u.low + (-amount[t]) \in Nat /\ -amount[t] \in Int /\ -OneWaiter \in Int
      BY <1>1, <1>2 DEF OneWaiter
    <3>2. u'.low = u.low + (-amount[t])
      BY <1>1, <2>1, <3>1, Added
    <3>3. u'.wide = u.wide
      BY <1>1, <2>1, <3>1, Added
    <3> QED
      BY <1>1, <3>2, <3>3
  <2>3. CurIsShort' /\ WakeIsReal'
    BY <1>1, <2>1 DEF TInv, CurIsShort, WakeIsReal
  <2>4. WakesDue' = WakesDue
    BY <1>1, <2>1 DEF WakesDue
  <2>5. Cardinality(Awake) <= Cardinality(Awake') + amount[t]
    <3>1. Awake' = Awake \ {t}
      BY <1>1, <2>1, <2>2 DEF Awake, OnHigh
    <3>2. /\ IsFiniteSet(Awake \ {t})
          /\ Cardinality(Awake \ {t}) = IF t \in Awake THEN Cardinality(Awake) - 1 ELSE Cardinality(Awake)
      BY FiniteParts, FS_RemoveElement
    <3> QED
      BY <1>1, <3>1, <3>2, FiniteParts, FinitePartsNext
  <2>6. ASSUME NEW x \in Threads, pc'[x] = "asleep", ~OnHigh(amount[x])', u'.low >= amount'[x]
        PROVE  IF u'.wide THEN u'.low <= Cardinality(Awake') + Cardinality(WakesDue')
                          ELSE \E s \in Threads : pc'[s] = "wake"
    <3>1. x \in Sleepers(FALSE) /\ u.low >= amount[x] /\ amount'[x] = amount[x]
      <4>1. x # t /\ amount'[x] = amount[x] /\ pc[x] = "asleep" /\ ~OnHigh(amount[x])
        BY <1>1, <2>1, <2>2, <2>6 DEF OnHigh
      <4>2. amount[x] \in Nat
        BY Numbers DEF TInv
      <4> QED
        BY <1>1, <2>2, <2>6, <4>1, <4>2 DEF Sleepers
    <3>2. IF u.wide THEN u.low <= Cardinality(Awake) + Cardinality(WakesDue)
                    ELSE \E s \in Threads : pc[s] = "wake"
      BY <3>1 DEF TInv, TokensReachSleepers
    <3>3. CASE u.wide
      BY <1>1, <2>2, <2>4, <2>5, <3>2, <3>3, FiniteParts, FinitePartsNext
    <3>4. CASE ~u.wide
      BY <1>1, <2>1, <2>2, <3>2, <3>4
    <3> QED
      BY <3>3, <3>4
  <2> QED
    BY <2>3, <2>6 DEF TInv, TokensReachSleepers, Sleepers
<1>3. CASE ~(u.low >= amount[t])
  <2>1. PICK l \in {"uncount", "mark"} :
          /\ pc' = [pc EXCEPT ![t] = l] /\ cur' = [cur EXCEPT ![t] = u]
          /\ u' = u /\ amount' = amount
    BY <1>3 DEF Retry, Goto
  <2>2. CurIsShort' /\ WakeIsReal'
    BY <1>1, <1>3, <2>1 DEF TInv, CurIsShort, WakeIsReal
  <2>3. WakesDue' = WakesDue
    BY <1>1, <2>1 DEF WakesDue
  <2>4. ASSUME NEW x \in Threads, pc'[x] = "asleep", ~OnHigh(amount[x])', u'.low >= amount'[x]
        PROVE  IF u'.wide THEN u'.low <= Cardinality(Awake') + Cardinality(WakesDue')
                          ELSE \E s \in Threads : pc'[s] = "wake"
    <3>1. x \in Sleepers(FALSE) /\ u.low >= amount[x]
      BY <1>1, <2>1, <2>4 DEF OnHigh, Sleepers
    <3>2. IF u.wide THEN u.low <= Cardinality(Awake) + Cardinality(WakesDue)
                    ELSE \E s \in Threads : pc[s] = "wake"
      BY <3>1 DEF TInv, TokensReachSleepers
    <3>3. CASE u.wide
      <4>1. amount[x] = 1
        BY <3>1, <3>3, OneEach DEF Sleepers, TInv
      <4>2. OnHigh(amount[t])
        BY <1>1, <1>3, <3>1, <3>3, <4>1 DEF OnHigh
      <4>3. Awake' = Awake
        BY <1>1, <2>1, <4>2 DEF Awake, OnHigh
      <4> QED
        BY <2>1, <2>3, <3>2, <3>3, <4>3
    <3>4. CASE ~u.wide
      BY <1>1, <2>1, <3>2, <3>4
    <3> QED
      BY <3>3, <3>4
  <2> QED
    BY <2>2, <2>4 DEF TInv, TokensReachSleepers, Sleepers
<1> QED
  BY <1>2, <1>3

(* The steps of waiters that touch neither the tokens nor who is awake.    *)
LEMMA WaitersMeet ==
  ASSUME TInv, IInv', NEW t \in Threads,
         \/ CountWaiter(t) \/ SetNeedsWakeAll(t) \/ FutexWait(t) \/ UncountWaiter(t)
         \/ Expire(t) \/ FutexTimeout(t) \/ SpuriousWake(t)
  PROVE  TInv'
<1>1. /\ u \in Word /\ u.low \in Nat /\ pc \in [Threads -> Labels] /\ cur \in [Threads -> Word]
      /\ amount \in [Threads -> Amounts \cup {1}] /\ OneWaiter \in Int
  BY Numbers DEF TInv, IInv, TypeOK, OneWaiter
<1>2. CurIsShort /\ WakeIsReal
  BY DEF TInv
<1>3. \A w \in Word : \A k \in Int : Add(w, 0, k).low = w.low /\ Add(w, 0, k).wide = w.wide
  <2>1. ASSUME NEW w \in Word, NEW k \in Int PROVE Add(w, 0, k).low = w.low /\ Add(w, 0, k).wide = w.wide
    <3>1. w.low + 0 = w.low /\ w.low \in Nat
      BY DEF Word
    <3>2. Add(w, 0, k).low = w.low + 0 /\ Add(w, 0, k).wide = w.wide
      BY <3>1, Added
    <3> QED
      BY <3>1, <3>2
  <2> QED
    BY <2>1
<1>4. CASE CountWaiter(t)
  <2>1. /\ pc[t] = "count" /\ pc' = [pc EXCEPT ![t] = "mark"] /\ amount' = amount
        /\ u' = Add(u, 0, OneWaiter) /\ cur' = [cur EXCEPT ![t] = Add(cur[t], 0, OneWaiter)]
    BY <1>4 DEF CountWaiter, Goto
  <2>2. u'.low = u.low /\ u'.wide = u.wide /\ cur'[t].low = cur[t].low
    BY <1>1, <1>3, <2>1
  <2>3. CurIsShort' /\ WakeIsReal'
    BY <1>1, <1>2, <2>1, <2>2 DEF CurIsShort, WakeIsReal
  <2>4. TokensReachSleepers'
    BY <1>1, <2>1, <2>2, NoMoreTokens
  <2> QED
    BY <2>3, <2>4 DEF TInv
<1>5. CASE UncountWaiter(t)
  <2>1. /\ pc[t] = "uncount" /\ pc' = [pc EXCEPT ![t] = "idle"] /\ amount' = [amount EXCEPT ![t] = 1]
        /\ u' = Add(u, 0, -OneWaiter) /\ cur' = [cur EXCEPT ![t] = NoValue]
    BY <1>5 DEF UncountWaiter, Return, Goto
  <2>2. u'.low = u.low /\ u'.wide = u.wide
    BY <1>1, <1>3, <2>1
  <2>3. CurIsShort' /\ WakeIsReal'
    BY <1>1, <1>2, <2>1, <2>2 DEF CurIsShort, WakeIsReal
  <2>4. TokensReachSleepers'
    BY <1>1, <2>1, <2>2, NoMoreTokens
  <2> QED
    BY <2>3, <2>4 DEF TInv
<1>6. CASE SetNeedsWakeAll(t)
  <2>1. /\ pc[t] = "mark" /\ pc' = [pc EXCEPT ![t] = "wait"] /\ amount' = amount
        /\ u' = u \/ u' = [u EXCEPT !.bit = TRUE]
        /\ cur' = cur \/ cur' = [cur EXCEPT ![t].bit = TRUE]
    BY <1>6 DEF SetNeedsWakeAll, Goto
  <2>2. u'.low = u.low /\ u'.wide = u.wide /\ \A x \in Threads : cur'[x].low = cur[x].low
    BY <1>1, <2>1 DEF Word
  <2>3. CurIsShort' /\ WakeIsReal'
    BY <1>1, <1>2, <2>1, <2>2 DEF CurIsShort, WakeIsReal
  <2>4. TokensReachSleepers'
    BY <1>1, <2>1, <2>2, NoMoreTokens
  <2> QED
    BY <2>3, <2>4 DEF TInv
<1>7. CASE FutexWait(t)
  <2>1. PICK l \in {"asleep", "retry"} :
          /\ pc[t] = "wait" /\ pc' = [pc EXCEPT ![t] = l] /\ amount' = amount /\ u' = u
          /\ cur' = [cur EXCEPT ![t] = NoValue]
          /\ l = "asleep" => Compare(u, amount[t]) = Compare(cur[t], amount[t])
    BY <1>7 DEF FutexWait, Goto
  <2>2. CurIsShort' /\ WakeIsReal'
    BY <1>1, <1>2, <2>1 DEF CurIsShort, WakeIsReal
  <2>3. cur[t].low < amount[t]
    BY <1>2, <2>1 DEF CurIsShort
  <2>4. CASE l = "asleep" /\ OnHigh(amount[t])
    <3>1. Awake' = Awake /\ WakesDue' = WakesDue
      BY <1>1, <2>1, <2>4 DEF Awake, WakesDue, OnHigh
    <3>2. \A x \in Threads : pc'[x] = "asleep" /\ ~OnHigh(amount[x])' => x \in Sleepers(FALSE)
      BY <1>1, <2>1, <2>4 DEF Sleepers, OnHigh
    <3>3. \A x \in Threads : pc[x] = "wake" => pc'[x] = "wake"
      BY <1>1, <2>1
    <3> QED
      BY <2>1, <2>2, <3>1, <3>2, <3>3 DEF TInv, TokensReachSleepers, Sleepers
  <2>5. CASE l = "asleep" /\ ~OnHigh(amount[t])
    <3>1. u.low = cur[t].low
      BY <2>1, <2>5 DEF Compare
    <3> QED
      BY <1>1, <2>1, <2>2, <2>3, <3>1, NoMoreTokens DEF TInv
  <2>6. CASE l = "retry"
    BY <1>1, <2>1, <2>2, <2>6, NoMoreTokens DEF TInv
  <2> QED
    BY <2>4, <2>5, <2>6
<1>8. CASE Expire(t)
  <2>1. UNCHANGED <<u, pc, amount, cur>>
    BY <1>8 DEF Expire
  <2>2. CurIsShort' /\ WakeIsReal'
    BY <1>2, <2>1 DEF CurIsShort, WakeIsReal
  <2> QED
    BY <1>1, <2>1, <2>2, NoMoreTokens DEF TInv
<1>9. CASE FutexTimeout(t) \/ SpuriousWake(t)
  <2>1. PICK l \in {"uncount", "retry"} :
          pc[t] = "asleep" /\ pc' = [pc EXCEPT ![t] = l] /\ UNCHANGED <<u, amount, cur>>
    BY <1>9 DEF FutexTimeout, SpuriousWake, Goto
  <2>2. CurIsShort' /\ WakeIsReal'
    BY <1>1, <1>2, <2>1 DEF CurIsShort, WakeIsReal
  <2> QED
    BY <1>1, <2>1, <2>2, NoMoreTokens DEF TInv
<1> QED
  BY <1>4, <1>5, <1>6, <1>7, <1>8, <1>9

LEMMA TryAcquireMeets ==
  ASSUME TInv, IInv', NEW t \in Threads, NEW n \in Amounts, NEW c \in Calls, TryAcquire(t, c, n)
  PROVE  TInv'
<1>1. /\ u \in Word /\ u.low \in Nat /\ pc \in [Threads -> Labels] /\ pc[t] = "idle"
      /\ amount \in [Threads -> Amounts \cup {1}] /\ cur \in [Threads -> Word] /\ n \in Nat \ {0}
  BY Numbers, SemaphoreAssumption DEF TInv, IInv, TypeOK, TryAcquire
<1>2. CurIsShort /\ WakeIsReal
  BY DEF TInv
<1>3. CASE u.low >= n
  <2>1. u' = Add(u, -n, 0) /\ UNCHANGED <<pc, amount, cur>>
    BY <1>3 DEF TryAcquire, locals
  <2>2. u'.low = u.low - n /\ u'.wide = u.wide
    <3>1. u.low + (-n) \in Nat /\ -n \in Int
      BY <1>1, <1>3
    <3>2. u'.low = u.low + (-n) /\ u'.wide = u.wide
      BY <1>1, <2>1, <3>1, Added
    <3> QED
      BY <1>1, <3>2
  <2>3. CurIsShort' /\ WakeIsReal'
    BY <1>2, <2>1 DEF CurIsShort, WakeIsReal
  <2>4. u'.low \in Nat /\ u'.low <= u.low
    BY <1>1, <1>3, <2>2
  <2> QED
    BY <1>1, <2>1, <2>2, <2>3, <2>4, NoMoreTokens DEF TInv
<1>4. CASE ~(u.low >= n)
  <2>1. CASE UNCHANGED vars
    BY <1>1, <1>2, <2>1, NoMoreTokens DEF TInv, CurIsShort, WakeIsReal, vars, locals
  <2>2. CASE /\ pc' = [pc EXCEPT ![t] = "count"] /\ amount' = [amount EXCEPT ![t] = n]
             /\ cur' = [cur EXCEPT ![t] = u] /\ u' = u
    <3>1. CurIsShort' /\ WakeIsReal'
      BY <1>1, <1>2, <1>4, <2>2 DEF CurIsShort, WakeIsReal
    <3> QED
      BY <1>1, <2>2, <3>1, NoMoreTokens DEF TInv
  <2> QED
    BY <1>4, <2>1, <2>2 DEF TryAcquire, Goto
<1> QED
  BY <1>3, <1>4

LEMMA InitTInv == Init => TInv
<1>1. SUFFICES ASSUME Init PROVE TInv
  OBVIOUS
<1>2. \A t \in Threads : pc[t] = "idle"
  BY <1>1 DEF Init
<1> QED
  BY <1>1, <1>2, InitIInv DEF TInv, CurIsShort, WakeIsReal, TokensReachSleepers, Sleepers

LEMMA StepTInv == TInv /\ [Next]_vars => TInv'
<1>1. SUFFICES ASSUME TInv, [Next]_vars PROVE TInv'
  OBVIOUS
<1>2. IInv'
  BY <1>1, StepIInv DEF TInv
<1>3. CASE UNCHANGED vars
  BY <1>1, <1>2, <1>3 DEF TInv, CurIsShort, WakeIsReal, TokensReachSleepers, Sleepers, Awake,
                          WakesDue, OnHigh, vars, locals
<1>4. CASE Next
  BY <1>1, <1>2, <1>4, TryAcquireMeets, ReleaseCovers, WaitersMeet, RetryMeets, WakeMeets
     DEF Next, Internal
<1> QED
  BY <1>1, <1>3, <1>4

(* What the wake-ups of release() rest on: the invariant of the word, and  *)
(* of those who are about to sleep or to wake somebody.                    *)
THEOREM WakeUpsInvariant == Spec => []TInv
  BY InitTInv, StepTInv, PTL DEF Spec

(* release() and the wait loop: tokens that a sleeper on the low half of   *)
(* the word could take are covered by threads that are awake for them or   *)
(* about to be woken, whoever barges in, times out or wakes for nothing.   *)
THEOREM TokensReachSleepersHolds == Spec => []TokensReachSleepers
<1>1. TInv => TokensReachSleepers
  BY DEF TInv
<1> QED
  BY WakeUpsInvariant, <1>1, PTL
==============================================================================
