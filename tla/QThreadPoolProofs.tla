--------------------------- MODULE QThreadPoolProofs ---------------------------
(***************************************************************************)
(* The books of QThreadPool, for any number of threads, runnables and      *)
(* callers, any limits and any size of a page.                             *)
(***************************************************************************)
EXTENDS QThreadPool, FiniteSetTheorems, SequenceTheorems, WellFoundedInduction, TLAPS

NoRepeat(s) == \A i, j \in DOMAIN s : s[i] = s[j] => i = j

-----------------------------------------------------------------------------
(* Lists of threads and of runnables, as the sets of what is in them.      *)

LEMMA ListFacts ==
  ASSUME NEW S, NEW s \in Seq(S)
  PROVE  /\ ToSet(s) \subseteq S
         /\ \A x : Contains(s, x) <=> x \in ToSet(s)
         /\ s = <<>> <=> ToSet(s) = {}
<1>1. DOMAIN s = 1..Len(s) /\ Len(s) \in Nat /\ \A i \in 1..Len(s) : s[i] \in S
  OBVIOUS
<1>2. ToSet(s) = {s[i] : i \in 1..Len(s)}
  BY <1>1 DEF ToSet
<1>3. \A x : Contains(s, x) <=> x \in ToSet(s)
  BY <1>2 DEF Contains
<1>4. s # <<>> => s[1] \in ToSet(s)
  BY <1>1, <1>2
<1>5. s = <<>> => ToSet(s) = {}
  BY <1>1, <1>2
<1> QED
  BY <1>1, <1>2, <1>3, <1>4, <1>5

LEMMA TailFacts ==
  ASSUME NEW S, NEW s \in Seq(S), s # <<>>, NoRepeat(s)
  PROVE  /\ Tail(s) \in Seq(S) /\ NoRepeat(Tail(s))
         /\ Head(s) \in ToSet(s) /\ ToSet(Tail(s)) = ToSet(s) \ {Head(s)}
<1>1. Len(s) \in Nat \ {0} /\ Head(s) = s[1] /\ DOMAIN s = 1..Len(s)
  OBVIOUS
<1>2. Tail(s) \in Seq(S) /\ DOMAIN Tail(s) = 1..(Len(s) - 1) /\ \A i \in 1..(Len(s) - 1) : Tail(s)[i] = s[i + 1]
  BY HeadTailProperties, <1>1
<1>3. NoRepeat(Tail(s))
  BY <1>1, <1>2 DEF NoRepeat
<1>4. ToSet(Tail(s)) \subseteq ToSet(s) \ {Head(s)}
  BY <1>1, <1>2 DEF ToSet, NoRepeat
<1>5. ASSUME NEW x \in ToSet(s) \ {Head(s)} PROVE x \in ToSet(Tail(s))
  <2>1. PICK i \in 1..Len(s) : s[i] = x
    BY <1>1 DEF ToSet
  <2>2. i # 1 /\ i - 1 \in 1..(Len(s) - 1) /\ Tail(s)[i - 1] = x
    BY <1>1, <1>2, <2>1
  <2> QED
    BY <1>2, <2>2 DEF ToSet
<1>6. Head(s) \in ToSet(s)
  BY <1>1 DEF ToSet
<1>7. ToSet(Tail(s)) = ToSet(s) \ {Head(s)}
  BY <1>4, <1>5
<1> QED
  BY <1>2, <1>3, <1>6, <1>7

LEMMA AppendFacts ==
  ASSUME NEW S, NEW s \in Seq(S), NEW x \in S
  PROVE  /\ Append(s, x) \in Seq(S) /\ Append(s, x) # <<>>
         /\ ToSet(Append(s, x)) = ToSet(s) \cup {x}
         /\ NoRepeat(s) /\ x \notin ToSet(s) => NoRepeat(Append(s, x))
<1>1. /\ Append(s, x) \in Seq(S) /\ Append(s, x) # <<>>
      /\ DOMAIN s = 1..Len(s) /\ DOMAIN Append(s, x) = 1..(Len(s) + 1) /\ Len(s) \in Nat
      /\ \A i \in 1..Len(s) : Append(s, x)[i] = s[i]
      /\ Append(s, x)[Len(s) + 1] = x
  BY AppendProperties
<1>2. ToSet(Append(s, x)) \subseteq ToSet(s) \cup {x}
  <2>1. ASSUME NEW i \in 1..(Len(s) + 1) PROVE Append(s, x)[i] \in ToSet(s) \cup {x}
    <3>1. CASE i \in 1..Len(s)
      BY <1>1, <3>1 DEF ToSet
    <3>2. CASE i = Len(s) + 1
      BY <1>1, <3>2
    <3> QED
      BY <1>1, <3>1, <3>2
  <2> QED
    BY <1>1, <2>1 DEF ToSet
<1>3. ToSet(s) \cup {x} \subseteq ToSet(Append(s, x))
  <2>1. ASSUME NEW i \in 1..Len(s) PROVE s[i] \in ToSet(Append(s, x))
    <3>1. i \in 1..(Len(s) + 1) /\ Append(s, x)[i] = s[i]
      BY <1>1
    <3> QED
      BY <1>1, <3>1 DEF ToSet
  <2>2. Len(s) + 1 \in 1..(Len(s) + 1)
    BY <1>1
  <2>3. x \in ToSet(Append(s, x))
    BY <1>1, <2>2 DEF ToSet
  <2> QED
    BY <1>1, <2>1, <2>3 DEF ToSet
<1>4. ASSUME NoRepeat(s), x \notin ToSet(s) PROVE NoRepeat(Append(s, x))
  <2>1. \A i \in 1..Len(s) : s[i] # x
    BY <1>1, <1>4 DEF ToSet
  <2> QED
    BY <1>1, <1>4, <2>1 DEF NoRepeat
<1> QED
  BY <1>1, <1>2, <1>3, <1>4

(* The list without its k-th element.                                      *)
LEMMA RemoveAtForm ==
  ASSUME NEW S, NEW s \in Seq(S), NEW k \in 1..Len(s)
  PROVE  /\ RemoveAt(s, k) \in Seq(S) /\ Len(RemoveAt(s, k)) = Len(s) - 1
         /\ \A i \in 1..(Len(s) - 1) :
              RemoveAt(s, k)[i] = IF i < k THEN s[i] ELSE s[i + 1]
<1> DEFINE a == SubSeq(s, 1, k - 1)
           b == SubSeq(s, k + 1, Len(s))
<1>1. Len(s) \in Nat /\ k \in Int /\ \A i \in 1..Len(s) : s[i] \in S
  OBVIOUS
<1>2. a \in Seq(S) /\ Len(a) = k - 1 /\ \A i \in 1..(k - 1) : a[i] = s[i]
  BY <1>1, SubSeqProperties
<1>3. b \in Seq(S) /\ Len(b) = Len(s) - k /\ \A i \in 1..(Len(s) - k) : b[i] = s[k + i]
  <2>1. \A i \in (k + 1)..Len(s) : s[i] \in S
    BY <1>1
  <2>2. /\ b \in Seq(S) /\ Len(b) = (IF k + 1 <= Len(s) THEN Len(s) - (k + 1) + 1 ELSE 0)
        /\ \A i \in 1..(Len(s) - (k + 1) + 1) : b[i] = s[(k + 1) + i - 1]
    <3>1. k + 1 \in Int /\ Len(s) \in Int
      BY <1>1
    <3> QED
      BY <2>1, <3>1, SubSeqProperties
  <2>3. /\ Len(s) - (k + 1) + 1 = Len(s) - k
        /\ (IF k + 1 <= Len(s) THEN Len(s) - (k + 1) + 1 ELSE 0) = Len(s) - k
        /\ \A i \in 1..(Len(s) - k) : (k + 1) + i - 1 = k + i
    BY <1>1
  <2> HIDE DEF b
  <2>4. \A i \in 1..(Len(s) - k) : b[i] = s[(k + 1) + i - 1]
    BY <2>2, <2>3
  <2> QED
    BY <2>2, <2>3, <2>4
<1>4. RemoveAt(s, k) = a \o b
  BY DEF RemoveAt
<1>5. /\ a \o b \in Seq(S) /\ Len(a \o b) = Len(a) + Len(b)
      /\ \A i \in 1..(Len(a) + Len(b)) : (a \o b)[i] = IF i <= Len(a) THEN a[i] ELSE b[i - Len(a)]
  BY <1>2, <1>3, ConcatProperties
<1> HIDE DEF a, b
<1>6. ASSUME NEW i \in 1..(Len(s) - 1) PROVE (a \o b)[i] = IF i < k THEN s[i] ELSE s[i + 1]
  <2>1. CASE i < k
    BY <1>1, <1>2, <1>3, <1>5, <2>1
  <2>2. CASE i >= k
    <3>1. i - (k - 1) \in 1..(Len(s) - k) /\ k + (i - (k - 1)) = i + 1
      BY <1>1, <2>2
    <3>2. (a \o b)[i] = b[i - (k - 1)]
      BY <1>1, <1>2, <1>3, <1>5, <2>2
    <3>3. b[i - (k - 1)] = s[k + (i - (k - 1))]
      BY <1>3, <3>1
    <3> QED
      BY <1>1, <2>2, <3>1, <3>2, <3>3
  <2>3. i < k \/ i >= k
    BY <1>1
  <2> QED
    BY <2>1, <2>2, <2>3
<1> QED
  BY <1>1, <1>2, <1>3, <1>4, <1>5, <1>6

LEMMA RemoveAtFacts ==
  ASSUME NEW S, NEW s \in Seq(S), NEW k \in 1..Len(s), NoRepeat(s)
  PROVE  NoRepeat(RemoveAt(s, k)) /\ ToSet(RemoveAt(s, k)) = ToSet(s) \ {s[k]}
<1> DEFINE t == RemoveAt(s, k)
<1>1. /\ t \in Seq(S) /\ DOMAIN t = 1..(Len(s) - 1)
      /\ \A i \in 1..(Len(s) - 1) : t[i] = IF i < k THEN s[i] ELSE s[i + 1]
      /\ Len(s) \in Nat /\ DOMAIN s = 1..Len(s)
  <2>1. /\ t \in Seq(S) /\ Len(t) = Len(s) - 1
        /\ \A i \in 1..(Len(s) - 1) : t[i] = IF i < k THEN s[i] ELSE s[i + 1]
    BY RemoveAtForm
  <2> HIDE DEF t
  <2> QED
    BY <2>1
<1> HIDE DEF t
<1>2. ASSUME NEW i \in 1..(Len(s) - 1)
      PROVE  \E p \in 1..Len(s) : p # k /\ t[i] = s[p] /\ p = IF i < k THEN i ELSE i + 1
  <2>1. CASE i < k
    BY <1>1, <2>1
  <2>2. CASE ~(i < k)
    <3>1. i + 1 \in 1..Len(s) /\ i + 1 # k
      BY <1>1, <2>2
    <3> QED
      BY <1>1, <2>2, <3>1
  <2> QED
    BY <2>1, <2>2
<1>3. NoRepeat(t)
  <2> SUFFICES ASSUME NEW i \in 1..(Len(s) - 1), NEW j \in 1..(Len(s) - 1), t[i] = t[j] PROVE i = j
    BY <1>1 DEF NoRepeat
  <2>1. PICK p \in 1..Len(s) : t[i] = s[p] /\ p = IF i < k THEN i ELSE i + 1
    BY <1>2
  <2>2. PICK q \in 1..Len(s) : t[j] = s[q] /\ q = IF j < k THEN j ELSE j + 1
    BY <1>2
  <2>3. p = q
    BY <1>1, <2>1, <2>2 DEF NoRepeat
  <2> QED
    BY <1>1, <2>1, <2>2, <2>3
<1>4. ASSUME NEW i \in 1..Len(s), i # k PROVE s[i] \in ToSet(t)
  <2>1. CASE i < k
    <3>1. i \in 1..(Len(s) - 1) /\ t[i] = s[i]
      BY <1>1, <2>1
    <3> QED
      BY <1>1, <3>1 DEF ToSet
  <2>2. CASE i > k
    <3>1. i - 1 \in 1..(Len(s) - 1) /\ t[i - 1] = s[i]
      BY <1>1, <2>2
    <3> QED
      BY <1>1, <3>1 DEF ToSet
  <2> QED
    BY <1>1, <1>4, <2>1, <2>2
<1>5. ToSet(s) \ {s[k]} \subseteq ToSet(t)
  BY <1>1, <1>4 DEF ToSet
<1>6. ToSet(t) \subseteq ToSet(s) \ {s[k]}
  BY <1>1, <1>2 DEF ToSet, NoRepeat
<1> QED
  BY <1>3, <1>5, <1>6 DEF t

(* removeOne() and tryTake() remove the first match.                       *)
LEMMA MinOfPositions ==
  ASSUME NEW I \in SUBSET Nat, I # {}
  PROVE  Min(I) \in I /\ \A k \in I : Min(I) <= k
<1>1. PICK x \in I : \A y \in I : <<y, x>> \notin OpToRel(<, Nat)
  BY NatLessThanWellFounded, WFMin
<1>2. \A y \in I : x <= y
  <2>1. ASSUME NEW y \in I, y < x PROVE FALSE
    <3>1. <<y, x>> \in Nat \X Nat /\ <<y, x>>[1] < <<y, x>>[2]
      BY <2>1
    <3>2. <<y, x>> \in {ss \in Nat \X Nat : ss[1] < ss[2]}
      BY <3>1
    <3>3. <<y, x>> \in OpToRel(<, Nat)
      BY <3>2, Zenon DEF OpToRel
    <3> QED
      BY <1>1, <3>3
  <2> QED
    BY <2>1
<1> QED
  BY <1>2 DEF Min

LEMMA RemoveFirstForm ==
  ASSUME NEW S, NEW s \in Seq(S), NEW x \in ToSet(s)
  PROVE  \E k \in 1..Len(s) : s[k] = x /\ RemoveFirst(s, x) = RemoveAt(s, k)
<1> DEFINE I == {i \in 1..Len(s) : s[i] = x}
<1>1. PICK i \in 1..Len(s) : s[i] = x
  BY DEF ToSet
<1>2. I \in SUBSET Nat /\ I # {}
  BY <1>1
<1>3. Min(I) \in I
  BY <1>2, MinOfPositions
<1>4. RemoveFirst(s, x) = RemoveAt(s, Min(I))
  BY <1>1, <1>2 DEF RemoveFirst, SelectInSeq
<1> QED
  BY <1>3, <1>4

LEMMA RemoveFirstFacts ==
  ASSUME NEW S, NEW s \in Seq(S), NEW x \in ToSet(s), NoRepeat(s)
  PROVE  /\ RemoveFirst(s, x) \in Seq(S) /\ NoRepeat(RemoveFirst(s, x))
         /\ ToSet(RemoveFirst(s, x)) = ToSet(s) \ {x}
<1>1. PICK k \in 1..Len(s) : s[k] = x /\ RemoveFirst(s, x) = RemoveAt(s, k)
  BY RemoveFirstForm
<1> QED
  BY <1>1, RemoveAtForm, RemoveAtFacts

(* A list without repetition has as many elements as its length.           *)
LEMMA LengthCounts ==
  ASSUME NEW S, NEW s \in Seq(S), NoRepeat(s)
  PROVE  IsFiniteSet(ToSet(s)) /\ Cardinality(ToSet(s)) = Len(s)
<1>1. Len(s) \in Nat /\ DOMAIN s = 1..Len(s) /\ s \in [1..Len(s) -> ToSet(s)]
  <2>1. Len(s) \in Nat /\ s \in [1..Len(s) -> S] /\ DOMAIN s = 1..Len(s)
    BY LenProperties
  <2> QED
    BY <2>1 DEF ToSet
<1>2. s \in Bijection(1..Len(s), ToSet(s))
  <2>1. s \in Injection(1..Len(s), ToSet(s))
    BY <1>1 DEF NoRepeat, Injection, IsInjective
  <2>2. s \in Surjection(1..Len(s), ToSet(s))
    BY <1>1 DEF ToSet, Surjection
  <2> QED
    BY <2>1, <2>2 DEF Bijection
<1>3. ExistsBijection(1..Len(s), ToSet(s))
  BY <1>2 DEF ExistsBijection
<1> QED
  BY <1>1, <1>3, FS_CountingElements, FS_NatBijection

(* The order in which reset() goes through the threads.                    *)
LEMMA SomeOrder ==
  ASSUME NEW S, IsFiniteSet(S), NEW s \in SetToSeqs(S)
  PROVE  s \in Seq(S) /\ NoRepeat(s) /\ ToSet(s) \subseteq S
<1>1. Cardinality(S) \in Nat
  BY FS_CardinalityType
<1>2. s \in [1..Cardinality(S) -> S] /\ \A i, j \in 1..Cardinality(S) : i # j => s[i] # s[j]
  BY DEF SetToSeqs
<1>3. s \in Seq(S)
  BY <1>1, <1>2, SeqDef
<1> QED
  BY <1>2, <1>3 DEF NoRepeat, ToSet

-----------------------------------------------------------------------------
(* The threads and the lists they are in.                                  *)

Waiting == ToSet(waitingThreads)
Expired == ToSet(expiredThreads)

ListTypes ==
    /\ allThreads \subseteq Workers
    /\ waitingThreads \in Seq(Workers) /\ NoRepeat(waitingThreads)
    /\ expiredThreads \in Seq(Workers) /\ NoRepeat(expiredThreads)
    /\ thread \in [Workers -> ThreadStates]
    /\ job = [w \in Workers |-> job[w]]
    /\ todo \in [Clients -> Seq(Workers)] /\ \A c \in Clients : NoRepeat(todo[c])
    /\ client \in [Clients -> ClientStates]

(* Where a thread is tells which lists it is in.                           *)
ThreadFits(w) ==
    /\ w \in Waiting => w \in allThreads /\ thread[w] \in {"asleep", "awake"}
    /\ w \in Expired => w \in allThreads /\ thread[w] \in {"leaving", "finished"}
    /\ thread[w] = "none" => w \notin allThreads /\ \A c \in Clients : w \notin ToSet(todo[c])
    /\ thread[w] = "running" => w \in allThreads
    /\ w \in allThreads /\ thread[w] = "asleep" => w \in Waiting
    /\ w \in allThreads /\ thread[w] \in {"leaving", "finished"} => w \in Expired

(* The threads that a client has to delete are its own.                    *)
TodoFits ==
    \A c \in Clients :
      /\ ToSet(todo[c]) \cap allThreads = {}
      /\ \A d \in Clients \ {c} : ToSet(todo[c]) \cap ToSet(todo[d]) = {}

(* In the loop of tryToStartMoreThreads() there is something to do.        *)
StartingMeans == starting \in BOOLEAN /\ (starting => MoreToStart)

(* reservedThreads went to its present value in steps of one.              *)
LimitsFit == /\ maxThreads \in MaxCounts /\ reserved \in Reserves
             /\ \A k \in 0..reserved : k \in Reserves

ThreadsInv == /\ ListTypes /\ TodoFits /\ \A w \in Workers : ThreadFits(w)
              /\ activeThreads = Cardinality(Running)
              /\ StartingMeans /\ LimitsFit

(* A worker that has, or may take, a runnable.                             *)
AtWork(w) == w \in allThreads \ Waiting /\ thread[w] \in {"running", "awake"}

LEMMA AllFinite ==
  ASSUME ThreadsInv
  PROVE  /\ IsFiniteSet(Running) /\ IsFiniteSet(allThreads) /\ IsFiniteSet(OnTheWay)
         /\ activeThreads \in Nat /\ Cardinality(allThreads) \in Nat
         /\ Cardinality(OnTheWay) \in Nat
         /\ activeThreads <= Cardinality(Workers) /\ Cardinality(Workers) \in Nat
<1>1. Running \in SUBSET Workers /\ allThreads \in SUBSET Workers /\ OnTheWay \in SUBSET Workers
  BY DEF ThreadsInv, ListTypes, Running, OnTheWay
<1>2. IsFiniteSet(Workers)
  BY ThreadPoolAssumption
<1> QED
  BY <1>1, <1>2, FS_Subset, FS_CardinalityType DEF ThreadsInv

(* The two counts of the pool differ by the workers on their way.          *)
LEMMA BusyCounts ==
  ASSUME ThreadsInv
  PROVE  Busy = activeThreads + Cardinality(OnTheWay) /\ Busy \in Nat
<1> DEFINE Listed == Waiting \cup Expired
<1>1. /\ IsFiniteSet(Waiting) /\ Cardinality(Waiting) = Len(waitingThreads)
      /\ IsFiniteSet(Expired) /\ Cardinality(Expired) = Len(expiredThreads)
  BY LengthCounts DEF ThreadsInv, ListTypes, Waiting, Expired
<1>2. Waiting \cap Expired = {} /\ Listed \subseteq allThreads
  <2>1. Waiting \subseteq Workers /\ Expired \subseteq Workers
    BY ListFacts DEF ThreadsInv, ListTypes, Waiting, Expired
  <2> QED
    BY <2>1 DEF ThreadsInv, ThreadFits
<1>3. Cardinality(Listed) = Len(waitingThreads) + Len(expiredThreads) /\ IsFiniteSet(Listed)
  <2>1. Cardinality(Waiting \cap Expired) = 0
    BY <1>2, FS_EmptySet
  <2>2. IsFiniteSet(Listed) /\ Cardinality(Listed) = Cardinality(Waiting) + Cardinality(Expired) - Cardinality(Waiting \cap Expired)
    BY <1>1, FS_Union
  <2>3. Cardinality(Waiting) \in Nat /\ Cardinality(Expired) \in Nat
    BY <1>1, FS_CardinalityType
  <2> HIDE DEF Listed
  <2> QED
    BY <1>1, <2>1, <2>2, <2>3
<1>4. allThreads \ Listed = Running \cup OnTheWay /\ Running \cap OnTheWay = {}
  <2>1. \A w \in allThreads : w \in Workers /\ thread[w] \in ThreadStates
                              /\ (Contains(waitingThreads, w) <=> w \in Waiting)
    BY ListFacts DEF ThreadsInv, ListTypes, Waiting
  <2> QED
    BY <2>1 DEF ThreadsInv, ThreadFits, Running, OnTheWay, ThreadStates
<1> HIDE DEF Listed
<1>5. Cardinality(allThreads \ Listed) = Cardinality(allThreads) - Cardinality(Listed)
  <2>1. Cardinality(allThreads \ Listed) = Cardinality(allThreads) - Cardinality(allThreads \cap Listed)
    BY AllFinite, FS_Difference
  <2>2. allThreads \cap Listed = Listed
    BY <1>2
  <2> QED
    BY <2>1, <2>2
<1>6. Cardinality(Running \cup OnTheWay) = Cardinality(Running) + Cardinality(OnTheWay)
  <2>1. Cardinality(Running) \in Nat /\ Cardinality(OnTheWay) \in Nat
    BY AllFinite, FS_CardinalityType
  <2>3. Cardinality(Running \cap OnTheWay) = 0
    BY <1>4, FS_EmptySet
  <2>2. Cardinality(Running \cup OnTheWay) = Cardinality(Running) + Cardinality(OnTheWay) - Cardinality(Running \cap OnTheWay)
    BY AllFinite, FS_Union
  <2> QED
    BY <2>1, <2>2, <2>3
<1>7. Len(waitingThreads) \in Nat /\ Len(expiredThreads) \in Nat
  BY DEF ThreadsInv, ListTypes
<1>8. Cardinality(allThreads) - Cardinality(Listed) = activeThreads + Cardinality(OnTheWay)
  BY <1>4, <1>5, <1>6 DEF ThreadsInv
<1>9. activeThreads \in Nat /\ Cardinality(OnTheWay) \in Nat /\ Cardinality(allThreads) \in Nat
  BY AllFinite
<1> QED
  BY <1>3, <1>7, <1>8, <1>9 DEF Busy

-----------------------------------------------------------------------------
(* What a step does to threads and lists: nothing; one thread moves; or a  *)
(* client takes all of them, or deletes one.                               *)

One(b) == IF b THEN 1 ELSE 0

Becomes(w, to, all, waits, expired) ==
    /\ thread' = [thread EXCEPT ![w] = to]
    /\ allThreads' = all /\ Waiting' = waits /\ Expired' = expired
    /\ todo' = todo
    /\ activeThreads' = activeThreads + One(to = "running") - One(thread[w] = "running")

Moves(w) ==
    \/ thread[w] = "none" /\ Becomes(w, "running", allThreads \cup {w}, Waiting, Expired)
    \/ w \in Waiting /\ Becomes(w, "awake", allThreads, Waiting \ {w}, Expired)
    \/ w \in Expired /\ Becomes(w, "running", allThreads, Waiting, Expired \ {w})
    \/ AtWork(w) /\ \/ Becomes(w, "running", allThreads, Waiting, Expired)
                    \/ Becomes(w, "leaving", allThreads, Waiting, Expired \cup {w})
                    \/ Becomes(w, "asleep", allThreads, Waiting \cup {w}, Expired)
    \/ thread[w] = "asleep" /\ Becomes(w, "awake", allThreads, Waiting, Expired)
    \/ thread[w] = "awake" /\ w \notin allThreads
       /\ Becomes(w, "leaving", allThreads, Waiting, Expired)
    \/ w \in Waiting /\ thread[w] = "awake"
       /\ Becomes(w, "leaving", allThreads, Waiting \ {w}, Expired \cup {w})
    \/ thread[w] = "leaving" /\ Becomes(w, "finished", allThreads, Waiting, Expired)

TakesAll(c) ==
    /\ Running = {}
    /\ UNCHANGED <<thread, activeThreads>>
    /\ allThreads' = {} /\ Waiting' = {} /\ Expired' = {}
    /\ \E s \in Seq(Workers) : ToSet(s) \subseteq allThreads /\ todo' = [todo EXCEPT ![c] = s]

Deletes(c, w) ==
    /\ w \in ToSet(todo[c]) /\ thread[w] = "finished"
    /\ thread' = [thread EXCEPT ![w] = "none"]
    /\ UNCHANGED <<lists, activeThreads>>
    /\ \E s \in Seq(Workers) : ToSet(s) = ToSet(todo[c]) \ {w} /\ todo' = [todo EXCEPT ![c] = s]

NothingMoves == UNCHANGED <<lists, thread, todo, activeThreads>>

(* The lists alone; the next lemmas say what the helpers do to them.       *)
ListsTyped ==
    /\ allThreads \subseteq Workers
    /\ waitingThreads \in Seq(Workers) /\ NoRepeat(waitingThreads)
    /\ expiredThreads \in Seq(Workers) /\ NoRepeat(expiredThreads)
    /\ thread \in [Workers -> ThreadStates]
    /\ job = [w \in Workers |-> job[w]]

LEMMA DispatchMoves ==
  ASSUME ThreadsInv, NEW r, NEW given, NEW recycled, Dispatch(r, given, recycled), UNCHANGED todo
  PROVE  ListsTyped' /\ \E w \in Workers : Moves(w)
<1>1. /\ allThreads \subseteq Workers
      /\ waitingThreads \in Seq(Workers) /\ NoRepeat(waitingThreads)
      /\ expiredThreads \in Seq(Workers) /\ NoRepeat(expiredThreads)
      /\ thread \in [Workers -> ThreadStates]
      /\ job = [w \in Workers |-> job[w]]
      /\ activeThreads \in Nat
      /\ \A w \in Workers : ThreadFits(w)
  BY AllFinite DEF ThreadsInv, ListTypes
<1>2. CASE waitingThreads # <<>> /\ Recycle
  <2> DEFINE w == Head(waitingThreads)
  <2>1. w \in Waiting /\ w \in Workers /\ waitingThreads' \in Seq(Workers) /\ NoRepeat(waitingThreads')
        /\ Waiting' = Waiting \ {w}
    BY <1>1, <1>2, TailFacts, ListFacts DEF Recycle, Waiting
  <2>2. thread[w] \in {"asleep", "awake"}
    BY <1>1, <2>1 DEF ThreadFits
  <2> HIDE DEF w
  <2>3. /\ thread' = [thread EXCEPT ![w] = "awake"]
        /\ UNCHANGED <<allThreads, expiredThreads, job, activeThreads>>
    BY <1>2 DEF Recycle, w
  <2>4. ListsTyped'
    BY <1>1, <2>1, <2>3 DEF ListsTyped, ThreadStates
  <2>5. Becomes(w, "awake", allThreads, Waiting \ {w}, Expired)
    BY <1>1, <2>1, <2>2, <2>3 DEF Becomes, One, Expired
  <2> QED
    BY <2>1, <2>4, <2>5 DEF Moves
<1>3. CASE expiredThreads # <<>> /\ Restart(r)
  <2> DEFINE w == Head(expiredThreads)
  <2>1. w \in Expired /\ w \in Workers /\ expiredThreads' \in Seq(Workers) /\ NoRepeat(expiredThreads')
        /\ Expired' = Expired \ {w}
    BY <1>1, <1>3, TailFacts, ListFacts DEF Restart, Expired
  <2>2. thread[w] = "finished"
    BY <1>3 DEF Restart
  <2> HIDE DEF w
  <2>3. /\ thread' = [thread EXCEPT ![w] = "running"]
        /\ job' = [job EXCEPT ![w] = r]
        /\ activeThreads' = activeThreads + 1
        /\ UNCHANGED <<allThreads, waitingThreads>>
    BY <1>3 DEF Restart, Give, w
  <2>4. ListsTyped'
    <3>1. job' = [x \in Workers |-> job'[x]]
      BY <1>1, <2>3
    <3> QED
      BY <1>1, <2>1, <2>3, <3>1 DEF ListsTyped, ThreadStates
  <2>5. Becomes(w, "running", allThreads, Waiting, Expired \ {w})
    BY <1>1, <2>1, <2>2, <2>3 DEF Becomes, One, Waiting
  <2> QED
    BY <2>1, <2>4, <2>5 DEF Moves
<1>4. CASE StartThread(r)
  <2>1. PICK w \in Workers : /\ thread[w] = "none" /\ Give(w, r)
                             /\ allThreads' = allThreads \cup {w}
                             /\ UNCHANGED <<waitingThreads, expiredThreads>>
    BY <1>4 DEF StartThread
  <2>2. ListsTyped'
    <3>1. job' = [x \in Workers |-> job'[x]]
      BY <1>1, <2>1 DEF Give
    <3> QED
      BY <1>1, <2>1, <3>1 DEF ListsTyped, ThreadStates, Give
  <2>3. Becomes(w, "running", allThreads \cup {w}, Waiting, Expired)
    BY <1>1, <2>1 DEF Becomes, One, Waiting, Expired, Give
  <2> QED
    BY <2>1, <2>2, <2>3 DEF Moves
<1> QED
  BY <1>2, <1>3, <1>4 DEF Dispatch

LEMMA GoOnMoves ==
  ASSUME ThreadsInv, NEW w \in Workers, AtWork(w), NEW active,
         active = activeThreads + One(thread[w] = "awake"), GoOn(w, active), UNCHANGED todo
  PROVE  ListsTyped' /\ Moves(w)
<1>1. /\ allThreads \subseteq Workers
      /\ waitingThreads \in Seq(Workers) /\ NoRepeat(waitingThreads)
      /\ expiredThreads \in Seq(Workers) /\ NoRepeat(expiredThreads)
      /\ thread \in [Workers -> ThreadStates]
      /\ job = [v \in Workers |-> job[v]]
      /\ activeThreads \in Nat
      /\ ThreadFits(w)
  BY AllFinite DEF ThreadsInv, ListTypes
<1>2. w \in allThreads /\ w \notin Waiting /\ w \notin Expired
  BY <1>1 DEF AtWork, ThreadFits
<1>3. /\ active = activeThreads + 1 - One(thread[w] = "running")
      /\ active - 1 = activeThreads + 0 - One(thread[w] = "running")
  BY <1>1 DEF AtWork, One
<1>4. CASE /\ thread' = [thread EXCEPT ![w] = "running"]
           /\ job' = [job EXCEPT ![w] = Head(queue[1].tasks)]
           /\ activeThreads' = active /\ UNCHANGED lists
  <2>1. Becomes(w, "running", allThreads, Waiting, Expired)
    BY <1>3, <1>4 DEF Becomes, One, lists, Waiting, Expired
  <2>2. job' = [x \in Workers |-> job'[x]]
    BY <1>1, <1>4
  <2>3. ListsTyped'
    BY <1>1, <1>4, <2>2 DEF ListsTyped, ThreadStates, lists
  <2> QED
    BY <2>1, <2>3 DEF Moves
<1>5. CASE /\ job' = [job EXCEPT ![w] = NoTask]
           /\ LET deleted == w \notin allThreads
                  expires == ~deleted /\ TooManyThreadsActive
                  waits == ~deleted /\ ~TooManyThreadsActive IN
              /\ thread' = [thread EXCEPT ![w] = IF waits THEN "asleep" ELSE "leaving"]
              /\ expiredThreads' = IF expires THEN Append(expiredThreads, w) ELSE expiredThreads
              /\ waitingThreads' = IF waits THEN Append(waitingThreads, w) ELSE waitingThreads
           /\ activeThreads' = active - 1
           /\ UNCHANGED allThreads
  <2>1. job' = [x \in Workers |-> job'[x]]
    BY <1>1, <1>5
  <2>2. CASE TooManyThreadsActive
    <3>1. /\ thread' = [thread EXCEPT ![w] = "leaving"]
          /\ expiredThreads' = Append(expiredThreads, w) /\ UNCHANGED <<waitingThreads, allThreads>>
          /\ activeThreads' = active - 1
      BY <1>2, <1>5, <2>2
    <3>2. expiredThreads' \in Seq(Workers) /\ NoRepeat(expiredThreads') /\ Expired' = Expired \cup {w}
      BY <1>1, <1>2, <3>1, AppendFacts DEF Expired
    <3>3. ListsTyped'
      BY <1>1, <2>1, <3>1, <3>2 DEF ListsTyped, ThreadStates
    <3>4. Becomes(w, "leaving", allThreads, Waiting, Expired \cup {w})
      BY <1>3, <3>1, <3>2 DEF Becomes, One, Waiting
    <3> QED
      BY <3>3, <3>4 DEF Moves
  <2>3. CASE ~TooManyThreadsActive
    <3>1. /\ thread' = [thread EXCEPT ![w] = "asleep"]
          /\ waitingThreads' = Append(waitingThreads, w) /\ UNCHANGED <<expiredThreads, allThreads>>
          /\ activeThreads' = active - 1
      BY <1>2, <1>5, <2>3
    <3>2. waitingThreads' \in Seq(Workers) /\ NoRepeat(waitingThreads') /\ Waiting' = Waiting \cup {w}
      BY <1>1, <1>2, <3>1, AppendFacts DEF Waiting
    <3>3. ListsTyped'
      BY <1>1, <2>1, <3>1, <3>2 DEF ListsTyped, ThreadStates
    <3>4. Becomes(w, "asleep", allThreads, Waiting \cup {w}, Expired)
      BY <1>3, <3>1, <3>2 DEF Becomes, One, Expired
    <3> QED
      BY <3>3, <3>4 DEF Moves
  <2> QED
    BY <2>2, <2>3
<1> QED
  BY <1>4, <1>5 DEF GoOn, RegisterThreadInactive

StepMoved == \/ NothingMoves
             \/ \E w \in Workers : Moves(w)
             \/ \E c \in Clients : TakesAll(c)
             \/ \E c \in Clients, w \in Workers : Deletes(c, w)

ClientTypes == /\ todo \in [Clients -> Seq(Workers)] /\ \A c \in Clients : NoRepeat(todo[c])
               /\ client \in [Clients -> ClientStates]

LEMMA PoolMoves ==
  ASSUME ThreadsInv, Next,
         \/ \E r \in Tasks : \/ \E p \in Priorities : Start(r, p)
                             \/ TryStart(r) \/ StartOnReservedThread(r) \/ TryTake(r)
         \/ \E m \in MaxCounts : SetMaxThreadCount(m)
         \/ ReserveThread \/ ReleaseThread \/ TryToStartMoreThreads
  PROVE  ListsTyped' /\ UNCHANGED <<todo, client>> /\ (NothingMoves \/ \E w \in Workers : Moves(w))
<1>1. ListsTyped
  BY DEF ThreadsInv, ListTypes, ListsTyped
<1>2. ASSUME UNCHANGED <<lists, workers, clients>>
      PROVE  ListsTyped' /\ UNCHANGED <<todo, client>> /\ NothingMoves
  BY <1>1, <1>2 DEF ListsTyped, NothingMoves, lists, workers, clients
<1>3. ASSUME NEW r, NEW p, NEW res, StartOrEnqueue(r, p, res), UNCHANGED clients
      PROVE  ListsTyped' /\ UNCHANGED <<todo, client>> /\ (NothingMoves \/ \E w \in Workers : Moves(w))
  BY <1>2, <1>3, DispatchMoves DEF StartOrEnqueue, clients
<1>4. ASSUME NEW r \in Tasks, NEW p \in Priorities, Start(r, p)
      PROVE  ListsTyped' /\ UNCHANGED <<todo, client>> /\ (NothingMoves \/ \E w \in Workers : Moves(w))
  BY <1>3, <1>4 DEF Start
<1>5. ASSUME NEW r \in Tasks, TryStart(r)
      PROVE  ListsTyped' /\ UNCHANGED <<todo, client>> /\ (NothingMoves \/ \E w \in Workers : Moves(w))
  BY <1>5, DispatchMoves DEF TryStart, clients
<1>6. ASSUME NEW r \in Tasks, StartOnReservedThread(r)
      PROVE  ListsTyped' /\ UNCHANGED <<todo, client>> /\ (NothingMoves \/ \E w \in Workers : Moves(w))
  BY <1>3, <1>6 DEF StartOnReservedThread
<1>7. ASSUME NEW r \in Tasks, TryTake(r)
      PROVE  ListsTyped' /\ UNCHANGED <<todo, client>> /\ NothingMoves
  BY <1>2, <1>7 DEF TryTake
<1>8. ASSUME NEW m \in MaxCounts, SetMaxThreadCount(m)
      PROVE  ListsTyped' /\ UNCHANGED <<todo, client>> /\ NothingMoves
  BY <1>2, <1>8 DEF SetMaxThreadCount
<1>9. ASSUME ReserveThread \/ ReleaseThread
      PROVE  ListsTyped' /\ UNCHANGED <<todo, client>> /\ NothingMoves
  BY <1>2, <1>9 DEF ReserveThread, ReleaseThread
<1>10. ASSUME TryToStartMoreThreads
       PROVE  ListsTyped' /\ UNCHANGED <<todo, client>> /\ \E w \in Workers : Moves(w)
  BY <1>10, DispatchMoves DEF TryToStartMoreThreads, clients
<1> QED
  BY <1>4, <1>5, <1>6, <1>7, <1>8, <1>9, <1>10

LEMMA WorkerMoves ==
  ASSUME ThreadsInv, NEW w \in Workers, Work(w) \/ ExpiryTimeout(w)
  PROVE  ListsTyped' /\ UNCHANGED todo /\ client' \in [Clients -> ClientStates] /\ Moves(w)
<1>1. /\ ListsTyped /\ client \in [Clients -> ClientStates] /\ ThreadFits(w) /\ activeThreads \in Nat
      /\ \A x : Contains(waitingThreads, x) <=> x \in Waiting
  BY AllFinite, ListFacts DEF ThreadsInv, ListTypes, ListsTyped, Waiting
<1>2. ASSUME NEW active, GoOn(w, active) PROVE client' \in [Clients -> ClientStates]
  <2>1. UNCHANGED client \/ client' = [c \in Clients |-> IF active = 1 /\ client[c] = "sleeping"
                                                      THEN "check" ELSE client[c]]
    BY <1>2 DEF GoOn, RegisterThreadInactive
  <2> QED
    BY <1>1, <2>1 DEF ClientStates
<1>3. CASE TaskDone(w)
  <2>1. AtWork(w) /\ activeThreads = activeThreads + One(thread[w] = "awake")
    BY <1>1, <1>3 DEF TaskDone, ThreadFits, AtWork, One
  <2> QED
    BY <1>2, <1>3, <2>1, GoOnMoves DEF TaskDone
<1>4. CASE Relock(w) /\ w \notin allThreads
  <2>1. /\ thread[w] = "awake" /\ thread' = [thread EXCEPT ![w] = "leaving"]
        /\ UNCHANGED <<queue, lists, job, activeThreads, client, todo>>
    BY <1>4 DEF Relock
  <2>2. Becomes(w, "leaving", allThreads, Waiting, Expired)
    BY <1>1, <2>1 DEF Becomes, One, lists, Waiting, Expired
  <2> QED
    BY <1>1, <1>4, <2>1, <2>2 DEF Moves, ListsTyped, lists, ThreadStates
<1>5. CASE Relock(w) /\ w \in allThreads /\ w \in Waiting
  <2>1. /\ thread[w] = "awake" /\ thread' = [thread EXCEPT ![w] = "leaving"]
        /\ waitingThreads' = RemoveFirst(waitingThreads, w)
        /\ expiredThreads' = Append(expiredThreads, w)
        /\ UNCHANGED <<queue, allThreads, job, activeThreads, client, todo>>
    BY <1>1, <1>5 DEF Relock
  <2>2. w \notin Expired
    BY <1>1, <2>1 DEF ThreadFits
  <2>3. waitingThreads' \in Seq(Workers) /\ NoRepeat(waitingThreads') /\ Waiting' = Waiting \ {w}
    BY <1>1, <1>5, <2>1, RemoveFirstFacts DEF ListsTyped, Waiting
  <2>4. expiredThreads' \in Seq(Workers) /\ NoRepeat(expiredThreads') /\ Expired' = Expired \cup {w}
    BY <1>1, <2>1, <2>2, AppendFacts DEF ListsTyped, Expired
  <2>5. Becomes(w, "leaving", allThreads, Waiting \ {w}, Expired \cup {w})
    BY <1>1, <2>1, <2>3, <2>4 DEF Becomes, One
  <2>6. ListsTyped'
    BY <1>1, <2>1, <2>3, <2>4 DEF ListsTyped, ThreadStates
  <2> QED
    BY <1>1, <1>5, <2>1, <2>5, <2>6 DEF Moves
<1>6. CASE Relock(w) /\ w \in allThreads /\ w \notin Waiting
  <2>1. AtWork(w) /\ activeThreads + 1 = activeThreads + One(thread[w] = "awake")
        /\ GoOn(w, activeThreads + 1) /\ UNCHANGED todo
    BY <1>1, <1>6 DEF Relock, AtWork, One
  <2> QED
    BY <1>2, <2>1, GoOnMoves
<1>7. CASE ThreadFinish(w)
  <2>1. Becomes(w, "finished", allThreads, Waiting, Expired)
    BY <1>1, <1>7 DEF ThreadFinish, Becomes, One, lists, clients, Waiting, Expired
  <2> QED
    BY <1>1, <1>7, <2>1 DEF ThreadFinish, Moves, ListsTyped, lists, clients, ThreadStates
<1>8. CASE ExpiryTimeout(w)
  <2>1. Becomes(w, "awake", allThreads, Waiting, Expired)
    BY <1>1, <1>8 DEF ExpiryTimeout, Becomes, One, lists, clients, Waiting, Expired
  <2> QED
    BY <1>1, <1>8, <2>1 DEF ExpiryTimeout, Moves, ListsTyped, lists, clients, ThreadStates
<1> QED
  BY <1>3, <1>4, <1>5, <1>6, <1>7, <1>8 DEF Work

LEMMA ClientMoves ==
  ASSUME ThreadsInv, NEW c \in Clients,
         (\E what \in {"check", "clear"} : CallClient(c, what)) \/ Wait(c) \/ WaitTimeout(c)
  PROVE  ListsTyped' /\ ClientTypes' /\ StepMoved
<1>1. /\ ListsTyped /\ ClientTypes /\ activeThreads \in Nat
  BY AllFinite DEF ThreadsInv, ListTypes, ListsTyped, ClientTypes
<1>2. ASSUME NEW to \in ClientStates, client' = [client EXCEPT ![c] = to] PROVE client' \in [Clients -> ClientStates]
  BY <1>1, <1>2 DEF ClientTypes
<1>3. ASSUME UNCHANGED <<lists, workers, todo>>, client' \in [Clients -> ClientStates]
      PROVE  ListsTyped' /\ ClientTypes' /\ StepMoved
  BY <1>1, <1>3 DEF ListsTyped, ClientTypes, StepMoved, NothingMoves, lists, workers
<1>4. ASSUME NEW what \in {"check", "clear"}, CallClient(c, what) PROVE ListsTyped' /\ ClientTypes' /\ StepMoved
  BY <1>2, <1>3, <1>4 DEF CallClient, ClientStates
<1>5. CASE WaitTimeout(c)
  BY <1>2, <1>3, <1>5 DEF WaitTimeout, ClientStates
<1>6. CASE ResetDone(c)
  BY <1>2, <1>3, <1>6 DEF ResetDone, ClientStates
<1>7. CASE Clear(c)
  <2>1. client' \in [Clients -> ClientStates]
    BY <1>1, <1>2, <1>7 DEF Clear, ClientStates, ClientTypes
  <2> QED
    BY <1>3, <1>7, <2>1 DEF Clear
<1>8. CASE WaitForDone(c) /\ ~Done
  BY <1>2, <1>3, <1>8 DEF WaitForDone, ClientStates
<1>9. CASE WaitForDone(c) /\ Done
  <2>1. /\ client' = [client EXCEPT ![c] = "reset"]
        /\ allThreads' = {} /\ waitingThreads' = <<>> /\ expiredThreads' = <<>>
        /\ UNCHANGED <<thread, job, activeThreads>>
        /\ activeThreads = 0
    BY <1>9 DEF WaitForDone, Done, workers
  <2>2. PICK s \in SetToSeqs(allThreads) : todo' = [todo EXCEPT ![c] = s]
    BY <1>9 DEF WaitForDone
  <2>3. s \in Seq(Workers) /\ NoRepeat(s) /\ ToSet(s) \subseteq allThreads
    <3>1. s \in Seq(allThreads) /\ NoRepeat(s) /\ ToSet(s) \subseteq allThreads
      BY AllFinite, SomeOrder
    <3> QED
      BY <1>1, <3>1 DEF ListsTyped
  <2>4. Running = {}
    BY <2>1, AllFinite, FS_EmptySet DEF ThreadsInv
  <2>5. Waiting' = {} /\ Expired' = {} /\ NoRepeat(<<>>)
    BY <2>1 DEF Waiting, Expired, ToSet, NoRepeat
  <2>6. ListsTyped'
    BY <1>1, <2>1, <2>5 DEF ListsTyped
  <2>7. ClientTypes'
    <3>1. client' \in [Clients -> ClientStates]
      BY <1>2, <2>1 DEF ClientStates
    <3> QED
      BY <1>1, <2>2, <2>3, <3>1 DEF ClientTypes
  <2> QED
    BY <2>1, <2>2, <2>3, <2>4, <2>5, <2>6, <2>7 DEF StepMoved, TakesAll
<1>10. CASE ResetThread(c)
  <2> DEFINE w == Head(todo[c])
             s == Tail(todo[c])
  <2>1. /\ todo[c] \in Seq(Workers) /\ todo[c] # <<>> /\ NoRepeat(todo[c])
        /\ UNCHANGED <<lists, job, activeThreads, client>>
    BY <1>1, <1>10 DEF ResetThread, ClientTypes
  <2>2. w \in Workers /\ s \in Seq(Workers) /\ NoRepeat(s) /\ w \in ToSet(todo[c]) /\ ToSet(s) = ToSet(todo[c]) \ {w}
    BY <2>1, TailFacts
  <2>3. \/ thread[w] = "asleep" /\ thread' = [thread EXCEPT ![w] = "awake"] /\ UNCHANGED todo
        \/ thread[w] = "finished" /\ thread' = [thread EXCEPT ![w] = "none"] /\ todo' = [todo EXCEPT ![c] = s]
    BY <1>10 DEF ResetThread
  <2> HIDE DEF w, s
  <2>4. ListsTyped'
    BY <1>1, <2>1, <2>2, <2>3 DEF ListsTyped, lists, ThreadStates
  <2>5. ClientTypes'
    BY <1>1, <2>1, <2>2, <2>3 DEF ClientTypes
  <2>6. CASE thread[w] = "asleep" /\ thread' = [thread EXCEPT ![w] = "awake"] /\ UNCHANGED todo
    <3>1. Becomes(w, "awake", allThreads, Waiting, Expired)
      BY <1>1, <2>1, <2>6 DEF Becomes, One, lists, Waiting, Expired
    <3> QED
      BY <2>2, <2>4, <2>5, <2>6, <3>1 DEF StepMoved, Moves
  <2>7. CASE thread[w] = "finished" /\ thread' = [thread EXCEPT ![w] = "none"] /\ todo' = [todo EXCEPT ![c] = s]
    BY <2>1, <2>2, <2>4, <2>5, <2>7 DEF StepMoved, Deletes
  <2> QED
    BY <2>3, <2>6, <2>7
<1> QED
  BY <1>4, <1>5, <1>6, <1>7, <1>8, <1>9, <1>10 DEF Wait

LEMMA EveryStepMoves == ASSUME ThreadsInv, Next PROVE ListTypes' /\ StepMoved
<1>1. ClientTypes
  BY DEF ThreadsInv, ListTypes, ClientTypes
<1>2. ASSUME ListsTyped', ClientTypes' PROVE ListTypes'
  BY <1>2 DEF ListsTyped, ClientTypes, ListTypes
<1>3. ASSUME UNCHANGED <<todo, client>> PROVE ClientTypes'
  BY <1>1, <1>3 DEF ClientTypes
<1>4. ASSUME NEW w \in Workers, Work(w) \/ ExpiryTimeout(w) PROVE ListTypes' /\ StepMoved
  BY <1>1, <1>2, <1>4, WorkerMoves DEF ClientTypes, StepMoved
<1>5. ASSUME NEW c \in Clients,
             (\E what \in {"check", "clear"} : CallClient(c, what)) \/ Wait(c) \/ WaitTimeout(c)
      PROVE  ListTypes' /\ StepMoved
  BY <1>2, <1>5, ClientMoves
<1>6. CASE \/ \E r \in Tasks : \/ \E p \in Priorities : Start(r, p)
                               \/ TryStart(r) \/ StartOnReservedThread(r) \/ TryTake(r)
           \/ \E m \in MaxCounts : SetMaxThreadCount(m)
           \/ ReserveThread \/ ReleaseThread \/ TryToStartMoreThreads
  BY <1>2, <1>3, <1>6, PoolMoves DEF StepMoved
<1> QED
  BY <1>4, <1>5, <1>6 DEF Next

-----------------------------------------------------------------------------
(* The books are right after every step.                                   *)

LEMMA FitsAfterMove ==
  ASSUME ThreadsInv, NEW w \in Workers, Moves(w), ListTypes'
  PROVE  (\A v \in Workers : ThreadFits(v))' /\ TodoFits'
<1>1. /\ thread \in [Workers -> ThreadStates] /\ thread' \in [Workers -> ThreadStates]
      /\ \A v \in Workers : ThreadFits(v)
      /\ TodoFits /\ todo' = todo /\ allThreads \subseteq Workers
  BY DEF ThreadsInv, ListTypes, Moves, Becomes
<1>2. PICK to : thread' = [thread EXCEPT ![w] = to]
  BY DEF Moves, Becomes
<1>3. \A v \in Workers \ {w} : /\ thread'[v] = thread[v]
                               /\ v \in allThreads' <=> v \in allThreads
                               /\ v \in Waiting' <=> v \in Waiting
                               /\ v \in Expired' <=> v \in Expired
  BY <1>1 DEF Moves, Becomes
<1>4. ASSUME NEW v \in Workers \ {w} PROVE ThreadFits(v)'
  <2>1. ThreadFits(v)
    BY <1>1
  <2> QED
    BY <1>1, <1>3, <2>1 DEF ThreadFits
<1>5. ThreadFits(w)'
  <2>1. ThreadFits(w) /\ ThreadStates = {"none", "running", "asleep", "awake", "leaving", "finished"}
    BY <1>1 DEF ThreadStates
  <2>2. CASE thread[w] = "none" /\ Becomes(w, "running", allThreads \cup {w}, Waiting, Expired)
    BY <1>1, <2>1, <2>2 DEF ThreadFits, Becomes
  <2>3. CASE w \in Waiting /\ Becomes(w, "awake", allThreads, Waiting \ {w}, Expired)
    BY <1>1, <2>1, <2>3 DEF ThreadFits, Becomes
  <2>4. CASE w \in Expired /\ Becomes(w, "running", allThreads, Waiting, Expired \ {w})
    BY <1>1, <2>1, <2>4 DEF ThreadFits, Becomes
  <2>5. CASE AtWork(w) /\ Becomes(w, "running", allThreads, Waiting, Expired)
    BY <1>1, <2>1, <2>5 DEF ThreadFits, Becomes, AtWork
  <2>6. CASE AtWork(w) /\ Becomes(w, "leaving", allThreads, Waiting, Expired \cup {w})
    BY <1>1, <2>1, <2>6 DEF ThreadFits, Becomes, AtWork
  <2>7. CASE AtWork(w) /\ Becomes(w, "asleep", allThreads, Waiting \cup {w}, Expired)
    BY <1>1, <2>1, <2>7 DEF ThreadFits, Becomes, AtWork
  <2>8. CASE thread[w] = "asleep" /\ Becomes(w, "awake", allThreads, Waiting, Expired)
    BY <1>1, <2>1, <2>8 DEF ThreadFits, Becomes
  <2>9. CASE thread[w] = "awake" /\ w \notin allThreads
             /\ Becomes(w, "leaving", allThreads, Waiting, Expired)
    BY <1>1, <2>1, <2>9 DEF ThreadFits, Becomes
  <2>10. CASE w \in Waiting /\ thread[w] = "awake"
              /\ Becomes(w, "leaving", allThreads, Waiting \ {w}, Expired \cup {w})
    BY <1>1, <2>1, <2>10 DEF ThreadFits, Becomes
  <2>11. CASE thread[w] = "leaving" /\ Becomes(w, "finished", allThreads, Waiting, Expired)
    BY <1>1, <2>1, <2>11 DEF ThreadFits, Becomes
  <2> QED
    BY <2>2, <2>3, <2>4, <2>5, <2>6, <2>7, <2>8, <2>9, <2>10, <2>11 DEF Moves
<1>6. TodoFits'
  <2>1. allThreads' = allThreads \/ (thread[w] = "none" /\ allThreads' = allThreads \cup {w})
    BY DEF Moves, Becomes
  <2>2. thread[w] = "none" => \A c \in Clients : w \notin ToSet(todo[c])
    BY <1>1 DEF ThreadFits
  <2> QED
    BY <1>1, <2>1, <2>2 DEF TodoFits
<1> QED
  BY <1>4, <1>5, <1>6

LEMMA FitsAfterStep ==
  ASSUME ThreadsInv, StepMoved, ListTypes'
  PROVE  (\A v \in Workers : ThreadFits(v))' /\ TodoFits'
<1>1. /\ thread \in [Workers -> ThreadStates] /\ thread' \in [Workers -> ThreadStates]
      /\ todo \in [Clients -> Seq(Workers)] /\ allThreads \subseteq Workers
      /\ \A v \in Workers : ThreadFits(v)
      /\ TodoFits
  BY DEF ThreadsInv, ListTypes
<1>2. CASE NothingMoves
  <2>1. Waiting' = Waiting /\ Expired' = Expired /\ UNCHANGED <<allThreads, thread, todo>>
    BY <1>2 DEF NothingMoves, lists, Waiting, Expired
  <2> QED
    BY <1>1, <2>1 DEF ThreadFits, TodoFits
<1>3. ASSUME NEW c \in Clients, TakesAll(c)
      PROVE  (\A v \in Workers : ThreadFits(v))' /\ TodoFits'
  <2>1. PICK s \in Seq(Workers) : ToSet(s) \subseteq allThreads /\ todo' = [todo EXCEPT ![c] = s]
    BY <1>3 DEF TakesAll
  <2>2. /\ Running = {} /\ thread' = thread
        /\ allThreads' = {} /\ Waiting' = {} /\ Expired' = {}
    BY <1>3 DEF TakesAll
  <2>3. \A d \in Clients : ToSet(todo'[d]) = IF d = c THEN ToSet(s) ELSE ToSet(todo[d])
    BY <1>1, <2>1
  <2>4. ASSUME NEW v \in Workers PROVE ThreadFits(v)'
    BY <1>1, <2>1, <2>2, <2>3 DEF ThreadFits, Running
  <2>5. TodoFits'
    BY <1>1, <2>1, <2>2, <2>3 DEF TodoFits
  <2> QED
    BY <2>4, <2>5
<1>4. ASSUME NEW c \in Clients, NEW w \in Workers, Deletes(c, w)
      PROVE  (\A v \in Workers : ThreadFits(v))' /\ TodoFits'
  <2>1. PICK s \in Seq(Workers) : ToSet(s) = ToSet(todo[c]) \ {w} /\ todo' = [todo EXCEPT ![c] = s]
    BY <1>4 DEF Deletes
  <2>2. /\ thread' = [thread EXCEPT ![w] = "none"] /\ thread[w] = "finished"
        /\ w \in ToSet(todo[c]) /\ allThreads' = allThreads /\ Waiting' = Waiting /\ Expired' = Expired
    BY <1>4 DEF Deletes, lists, Waiting, Expired
  <2>3. \A d \in Clients : ToSet(todo'[d]) = IF d = c THEN ToSet(todo[c]) \ {w} ELSE ToSet(todo[d])
    BY <1>1, <2>1
  <2>4. w \notin allThreads /\ \A d \in Clients \ {c} : w \notin ToSet(todo[d])
    BY <1>1, <2>2 DEF TodoFits
  <2>5. ASSUME NEW v \in Workers PROVE ThreadFits(v)'
    <3>1. ThreadFits(v)
      BY <1>1
    <3>2. CASE v = w
      BY <1>1, <2>2, <2>3, <2>4, <3>1, <3>2 DEF ThreadFits
    <3>3. CASE v # w
      BY <1>1, <2>2, <2>3, <3>1, <3>3 DEF ThreadFits
    <3> QED
      BY <3>2, <3>3
  <2>6. TodoFits'
    BY <1>1, <2>2, <2>3 DEF TodoFits
  <2> QED
    BY <2>5, <2>6
<1> QED
  BY <1>2, <1>3, <1>4, FitsAfterMove DEF StepMoved

LEMMA CountAfterStep ==
  ASSUME ThreadsInv, StepMoved, ListTypes'
  PROVE  activeThreads' = Cardinality(Running')
<1>1. /\ thread \in [Workers -> ThreadStates] /\ Running' = {v \in Workers : thread'[v] = "running"}
      /\ activeThreads = Cardinality(Running) /\ activeThreads \in Nat /\ IsFiniteSet(Running)
  BY AllFinite DEF ThreadsInv, ListTypes, Running
<1>2. CASE thread' = thread /\ activeThreads' = activeThreads
  <2>1. Running' = Running
    BY <1>2 DEF Running
  <2> QED
    BY <1>1, <1>2, <2>1
<1>3. ASSUME NEW w \in Workers, NEW to, thread' = [thread EXCEPT ![w] = to],
             activeThreads' = activeThreads + One(to = "running") - One(thread[w] = "running")
      PROVE  activeThreads' = Cardinality(Running')
  <2>1. Running' = IF to = "running" THEN Running \cup {w} ELSE Running \ {w}
    BY <1>1, <1>3 DEF Running
  <2>2. w \in Running <=> thread[w] = "running"
    BY DEF Running
  <2>3. /\ Cardinality(Running \cup {w}) = IF w \in Running THEN Cardinality(Running) ELSE Cardinality(Running) + 1
        /\ Cardinality(Running \ {w}) = IF w \in Running THEN Cardinality(Running) - 1 ELSE Cardinality(Running)
    BY <1>1, FS_AddElement, FS_RemoveElement
  <2>6. to = "running" => activeThreads' = IF thread[w] = "running" THEN activeThreads ELSE activeThreads + 1
    BY <1>1, <1>3 DEF One
  <2>7. to # "running" => activeThreads' = IF thread[w] = "running" THEN activeThreads - 1 ELSE activeThreads
    BY <1>1, <1>3 DEF One
  <2>4. CASE to = "running"
    <3>1. Running' = Running \cup {w}
      BY <2>1, <2>4
    <3> QED
      BY <1>1, <2>2, <2>3, <2>4, <2>6, <3>1
  <2>5. CASE to # "running"
    <3>1. Running' = Running \ {w}
      BY <2>1, <2>5
    <3> QED
      BY <1>1, <2>2, <2>3, <2>5, <2>7, <3>1
  <2> QED
    BY <2>4, <2>5
<1>4. CASE NothingMoves \/ \E c \in Clients : TakesAll(c)
  BY <1>2, <1>4 DEF NothingMoves, TakesAll
<1>5. ASSUME NEW w \in Workers, Moves(w) PROVE activeThreads' = Cardinality(Running')
  <2>1. PICK to : thread' = [thread EXCEPT ![w] = to]
                  /\ activeThreads' = activeThreads + One(to = "running") - One(thread[w] = "running")
    BY <1>5 DEF Moves, Becomes
  <2> QED
    BY <1>3, <2>1
<1>6. ASSUME NEW c \in Clients, NEW w \in Workers, Deletes(c, w) PROVE activeThreads' = Cardinality(Running')
  <2>1. /\ thread' = [thread EXCEPT ![w] = "none"] /\ thread[w] = "finished"
        /\ activeThreads' = activeThreads
    BY <1>6 DEF Deletes
  <2>2. activeThreads' = activeThreads + One("none" = "running") - One(thread[w] = "running")
    BY <1>1, <2>1 DEF One
  <2> QED
    BY <1>3, <2>1, <2>2
<1> QED
  BY <1>4, <1>5, <1>6 DEF StepMoved

(* starting is only changed by those who look whether there is more to do; *)
(* while it is set, nobody changes what they have looked at.               *)
LEMMA LimitsAfterStep ==
  ASSUME ThreadsInv, Next
  PROVE  StartingMeans' /\ LimitsFit'
<1>1. StartingMeans /\ LimitsFit /\ 0 \in Reserves /\ Reserves \subseteq Int
  BY ThreadPoolAssumption DEF ThreadsInv
<1>2. ASSUME UNCHANGED limits PROVE LimitsFit'
  BY <1>1, <1>2 DEF LimitsFit, limits
<1>3. ASSUME ~starting, UNCHANGED starting PROVE StartingMeans'
  BY <1>1, <1>3 DEF StartingMeans
<1>4. ASSUME starting' = MoreToStart' PROVE StartingMeans'
  BY <1>4 DEF StartingMeans, MoreToStart, AreAllThreadsActive
<1>5. ASSUME UNCHANGED <<queue, lists, limits, starting>> PROVE StartingMeans'
  BY <1>1, <1>5 DEF StartingMeans, MoreToStart, AreAllThreadsActive, Busy, MaxThreadCount, lists, limits
<1>6. ASSUME NEW r \in Tasks, NEW p \in Priorities, Start(r, p) PROVE StartingMeans' /\ LimitsFit'
  BY <1>2, <1>3, <1>6 DEF Start
<1>7. ASSUME NEW r \in Tasks, TryStart(r) PROVE StartingMeans' /\ LimitsFit'
  BY <1>2, <1>3, <1>7 DEF TryStart
<1>8. ASSUME NEW r \in Tasks, StartOnReservedThread(r) PROVE StartingMeans' /\ LimitsFit'
  <2>1. reserved > 0 /\ reserved' = reserved - 1 /\ UNCHANGED maxThreads /\ ~starting /\ UNCHANGED starting
    BY <1>8 DEF StartOnReservedThread
  <2>2. LimitsFit'
    BY <1>1, <2>1 DEF LimitsFit
  <2> QED
    BY <1>3, <2>1, <2>2
<1>9. ASSUME NEW r \in Tasks, TryTake(r) PROVE StartingMeans' /\ LimitsFit'
  BY <1>2, <1>3, <1>9 DEF TryTake
<1>10. ASSUME NEW m \in MaxCounts, SetMaxThreadCount(m) PROVE StartingMeans' /\ LimitsFit'
  BY <1>1, <1>4, <1>10 DEF SetMaxThreadCount, LimitsFit
<1>11. ASSUME ReserveThread PROVE StartingMeans' /\ LimitsFit'
  <2>1. reserved + 1 \in Reserves /\ reserved' = reserved + 1 /\ UNCHANGED maxThreads /\ ~starting /\ UNCHANGED starting
    BY <1>11 DEF ReserveThread
  <2>2. LimitsFit'
    BY <1>1, <2>1 DEF LimitsFit
  <2> QED
    BY <1>3, <2>1, <2>2
<1>12. ASSUME ReleaseThread PROVE StartingMeans' /\ LimitsFit'
  <2>1. reserved - 1 \in Reserves /\ reserved' = reserved - 1 /\ UNCHANGED maxThreads /\ starting' = MoreToStart'
    BY <1>12 DEF ReleaseThread
  <2>2. LimitsFit'
    BY <1>1, <2>1 DEF LimitsFit
  <2> QED
    BY <1>4, <2>1, <2>2
<1>13. ASSUME TryToStartMoreThreads PROVE StartingMeans' /\ LimitsFit'
  BY <1>2, <1>4, <1>13 DEF TryToStartMoreThreads
<1>14. ASSUME NEW w \in Workers, Work(w) \/ ExpiryTimeout(w) PROVE StartingMeans' /\ LimitsFit'
  <2>1. ASSUME TaskDone(w) \/ Relock(w) PROVE StartingMeans' /\ LimitsFit'
    BY <1>2, <1>3, <2>1 DEF TaskDone, Relock
  <2>2. ASSUME ThreadFinish(w) \/ ExpiryTimeout(w) PROVE StartingMeans' /\ LimitsFit'
    BY <1>2, <1>5, <2>2 DEF ThreadFinish, ExpiryTimeout
  <2> QED
    BY <1>14, <2>1, <2>2 DEF Work
<1>15. ASSUME NEW c \in Clients,
              (\E what \in {"check", "clear"} : CallClient(c, what)) \/ Wait(c) \/ WaitTimeout(c)
       PROVE  StartingMeans' /\ LimitsFit'
  <2>1. ASSUME WaitForDone(c) \/ Clear(c) \/ ResetDone(c) \/ WaitTimeout(c) PROVE StartingMeans' /\ LimitsFit'
    BY <1>2, <1>3, <2>1 DEF WaitForDone, Clear, ResetDone, WaitTimeout
  <2>2. ASSUME ResetThread(c) \/ \E what \in {"check", "clear"} : CallClient(c, what) PROVE StartingMeans' /\ LimitsFit'
    BY <1>2, <1>5, <2>2 DEF ResetThread, CallClient
  <2> QED
    BY <1>15, <2>1, <2>2 DEF Wait
<1> QED
  BY <1>6, <1>7, <1>8, <1>9, <1>10, <1>11, <1>12, <1>13, <1>14, <1>15 DEF Next

LEMMA StepThreadsInv == ASSUME ThreadsInv, [Next]_vars PROVE ThreadsInv'
<1>1. CASE Next
  <2>1. ListTypes' /\ StepMoved
    BY <1>1, EveryStepMoves
  <2> QED
    BY <1>1, <2>1, FitsAfterStep, CountAfterStep, LimitsAfterStep DEF ThreadsInv
<1>2. CASE UNCHANGED vars
  BY <1>2 DEF vars, lists, limits, workers, clients, ThreadsInv, ListTypes, TodoFits, ThreadFits, StartingMeans,
              LimitsFit, MoreToStart, AreAllThreadsActive, Busy, MaxThreadCount, Running, Waiting, Expired
<1> QED
  BY <1>1, <1>2

LEMMA InitThreadsInv == Init => ThreadsInv
<1>1. SUFFICES ASSUME Init PROVE ThreadsInv
  OBVIOUS
<1>2. /\ waitingThreads = <<>> /\ expiredThreads = <<>> /\ allThreads = {}
      /\ thread = [w \in Workers |-> "none"] /\ job = [w \in Workers |-> NoTask]
      /\ todo = [c \in Clients |-> <<>>] /\ client = [c \in Clients |-> "idle"]
      /\ reserved = 0 /\ activeThreads = 0 /\ starting = FALSE
  BY <1>1 DEF Init
<1>3. NoRepeat(<<>>) /\ ToSet(<<>>) = {}
  BY DEF NoRepeat, ToSet
<1>4. ListTypes
  BY <1>2, <1>3 DEF ListTypes, ThreadStates, ClientStates
<1>5. TodoFits /\ \A w \in Workers : ThreadFits(w)
  BY <1>2, <1>3 DEF TodoFits, ThreadFits, Waiting, Expired
<1>6. activeThreads = Cardinality(Running)
  <2>1. Running = {}
    BY <1>2 DEF Running
  <2> QED
    BY <1>2, <2>1, FS_EmptySet
<1>7. StartingMeans
  BY <1>2 DEF StartingMeans
<1>8. LimitsFit
  <2>1. maxThreads \in MaxCounts
    <3>1. \E m \in MaxCounts : \A n \in MaxCounts : n <= m
      BY ThreadPoolAssumption
    <3>2. maxThreads = CHOOSE m \in MaxCounts : \A n \in MaxCounts : n <= m
      BY <1>1 DEF Init
    <3> QED
      BY <3>1, <3>2
  <2> QED
    BY <1>2, <2>1, ThreadPoolAssumption DEF LimitsFit
<1> QED
  BY <1>4, <1>5, <1>6, <1>7, <1>8 DEF ThreadsInv

(* The mutex of the pool protects its lists and counts: in every state     *)
(* they describe the threads that there are.                               *)
THEOREM ThreadsInvariant == Spec => []ThreadsInv
<1>1. Init => ThreadsInv
  BY InitThreadsInv
<1>2. ThreadsInv /\ [Next]_vars => ThreadsInv'
  BY StepThreadsInv
<1> QED
  BY <1>1, <1>2, PTL DEF Spec

LEMMA ListsAndCounts == ASSUME ThreadsInv PROVE CountsAgree /\ ListsMatchThreads
<1>1. CountsAgree
  BY BusyCounts DEF CountsAgree, ThreadsInv
<1>2. /\ allThreads \subseteq Workers /\ TodoFits /\ \A w \in Workers : ThreadFits(w)
      /\ waitingThreads \in Seq(Workers) /\ expiredThreads \in Seq(Workers)
      /\ todo \in [Clients -> Seq(Workers)]
  BY DEF ThreadsInv, ListTypes
<1>3. /\ Waiting \subseteq Workers /\ Expired \subseteq Workers
      /\ \A w : Contains(waitingThreads, w) <=> w \in Waiting
      /\ \A c \in Clients, w \in Workers : Contains(todo[c], w) <=> w \in ToSet(todo[c])
  BY <1>2, ListFacts DEF Waiting, Expired
<1>4. \A c \in Clients : ToSet(todo[c]) \cap (allThreads \cup Running) = {}
  <2>1. Running \subseteq allThreads
    BY <1>2 DEF Running, ThreadFits
  <2> QED
    BY <1>2, <2>1 DEF TodoFits
<1>5. /\ \A w \in ToSet(waitingThreads) : w \in allThreads /\ thread[w] \in {"asleep", "awake"}
      /\ \A w \in ToSet(expiredThreads) : w \in allThreads /\ thread[w] \in {"leaving", "finished"}
      /\ \A w \in Workers : thread[w] = "asleep" /\ w \in allThreads => Contains(waitingThreads, w)
  BY <1>2, <1>3 DEF ThreadFits, Waiting, Expired
<1>6. \A w \in Workers : thread[w] = "none" =>
         w \notin allThreads /\ \A c \in Clients : ~Contains(todo[c], w)
  BY <1>2, <1>3 DEF ThreadFits
<1> QED
  BY <1>1, <1>4, <1>5, <1>6 DEF ListsMatchThreads

(* activeThreads and the sizes of the lists agree on who works, also for a *)
(* worker between its wake-up and its work, and every list holds what its  *)
(* users take it for, while threads expire, are recycled and are deleted.  *)
(* Nothing is assumed about priorities here.                               *)
THEOREM ListsAndCountsHold == Spec => [](CountsAgree /\ ListsMatchThreads)
<1>1. ThreadsInv => CountsAgree /\ ListsMatchThreads
  BY ListsAndCounts
<1> QED
  BY <1>1, ThreadsInvariant, PTL

-----------------------------------------------------------------------------
(* The limits.                                                             *)

LEMMA LimitNumbers ==
  ASSUME ThreadsInv
  PROVE  /\ MaxThreadCount \in Int /\ MaxThreadCount >= 1 /\ reserved \in Int
         /\ Busy \in Nat /\ activeThreads \in Nat /\ activeThreads <= Busy
<1>1. maxThreads \in Int /\ reserved \in Int
  BY ThreadPoolAssumption DEF ThreadsInv, LimitsFit
<1>2. Busy = activeThreads + Cardinality(OnTheWay) /\ activeThreads \in Nat /\ Cardinality(OnTheWay) \in Nat
  BY BusyCounts, AllFinite
<1> QED
  BY <1>1, <1>2 DEF MaxThreadCount

(* With a limit of res a thread may take on a runnable, or it is alone.    *)
Allowed(count, res) == count + res <= MaxThreadCount \/ count = 1

LEMMA RoomForOneMore ==
  ASSUME ThreadsInv, NEW res \in Int, ~AreAllThreadsActive(res)
  PROVE  Allowed(activeThreads + 1, res)
<1>1. MaxThreadCount \in Int /\ Busy \in Nat /\ activeThreads \in Nat /\ activeThreads <= Busy
  BY LimitNumbers
<1> QED
  BY <1>1 DEF AreAllThreadsActive, Allowed

LEMMA RoomForThis ==
  ASSUME ThreadsInv, NEW w \in Workers, AtWork(w), ~TooManyThreadsActive
  PROVE  Allowed(activeThreads + One(thread[w] = "awake"), reserved)
<1>1. /\ MaxThreadCount \in Int /\ Busy \in Nat /\ activeThreads \in Nat /\ reserved \in Int
      /\ Busy = activeThreads + Cardinality(OnTheWay) /\ Cardinality(OnTheWay) \in Nat
  BY LimitNumbers, BusyCounts, AllFinite
<1>2. CASE thread[w] = "awake"
  <2>1. w \in OnTheWay
    <3>1. Contains(waitingThreads, w) <=> w \in Waiting
      BY ListFacts DEF ThreadsInv, ListTypes, Waiting
    <3> QED
      BY <1>2, <3>1 DEF OnTheWay, AtWork
  <2>2. Cardinality(OnTheWay) # 0
    BY <2>1, AllFinite, FS_EmptySet
  <2> QED
    BY <1>1, <1>2, <2>2 DEF One, Allowed, TooManyThreadsActive
<1>3. CASE thread[w] = "running"
  <2>1. Cardinality(Running) # 0
    BY <1>3, AllFinite, FS_EmptySet DEF Running
  <2>2. activeThreads # 0
    BY <2>1 DEF ThreadsInv
  <2> QED
    BY <1>1, <1>3, <2>2 DEF One, Allowed, TooManyThreadsActive
<1> QED
  BY <1>2, <1>3 DEF AtWork

(* What the action property says of one step.                              *)
TakesOnWithinLimits ==
    \A w \in Workers : (job'[w] # NoTask /\ job'[w] # job[w]) =>
      \/ activeThreads' + reserved' <= MaxThreadCount'
      \/ activeThreads' = 1

LEMMA DispatchWithinLimits ==
  ASSUME ThreadsInv, NEW r, NEW given, NEW recycled, Dispatch(r, given, recycled), NEW res \in Int,
         ~AreAllThreadsActive(res), reserved' = res, UNCHANGED maxThreads
  PROVE  TakesOnWithinLimits
<1>1. job' = job \/ activeThreads' = activeThreads + 1
  BY DEF Dispatch, Recycle, Restart, StartThread, Give
<1>2. Allowed(activeThreads + 1, res) /\ MaxThreadCount' = MaxThreadCount
  BY RoomForOneMore DEF MaxThreadCount
<1> QED
  BY <1>1, <1>2 DEF TakesOnWithinLimits, Allowed

LEMMA GoOnWithinLimits ==
  ASSUME ThreadsInv, NEW w \in Workers, AtWork(w), GoOn(w, activeThreads + One(thread[w] = "awake")),
         UNCHANGED limits
  PROVE  TakesOnWithinLimits
<1>1. job = [v \in Workers |-> job[v]]
  BY DEF ThreadsInv, ListTypes
<1>2. MaxThreadCount' = MaxThreadCount /\ reserved' = reserved
  BY DEF MaxThreadCount, limits
<1>3. CASE ~TooManyThreadsActive /\ activeThreads' = activeThreads + One(thread[w] = "awake")
  BY <1>2, <1>3, RoomForThis DEF TakesOnWithinLimits, Allowed
<1>4. CASE job' = [job EXCEPT ![w] = NoTask]
  BY <1>1, <1>4 DEF TakesOnWithinLimits
<1> QED
  BY <1>3, <1>4 DEF GoOn

LEMMA StepWithinLimits == ASSUME ThreadsInv, [Next]_vars PROVE TakesOnWithinLimits
<1>1. ASSUME job' = job PROVE TakesOnWithinLimits
  BY <1>1 DEF TakesOnWithinLimits
<1>2. reserved \in Int
  BY LimitNumbers
<1>3. ASSUME NEW r, NEW p, NEW res \in Int, StartOrEnqueue(r, p, res), reserved' = res, UNCHANGED maxThreads
      PROVE  TakesOnWithinLimits
  BY <1>1, <1>3, DispatchWithinLimits DEF StartOrEnqueue, workers
<1>4. ASSUME NEW r \in Tasks, NEW p \in Priorities, Start(r, p) PROVE TakesOnWithinLimits
  BY <1>2, <1>3, <1>4 DEF Start, limits
<1>5. ASSUME NEW r \in Tasks, TryStart(r) PROVE TakesOnWithinLimits
  BY <1>2, <1>5, DispatchWithinLimits DEF TryStart, limits
<1>6. ASSUME NEW r \in Tasks, StartOnReservedThread(r) PROVE TakesOnWithinLimits
  <2>1. reserved - 1 \in Int
    BY <1>2
  <2> QED
    BY <1>3, <1>6, <2>1 DEF StartOnReservedThread
<1>7. ASSUME TryToStartMoreThreads PROVE TakesOnWithinLimits
  <2>1. ~AreAllThreadsActive(reserved)
    BY <1>7 DEF TryToStartMoreThreads, ThreadsInv, StartingMeans, MoreToStart
  <2> QED
    BY <1>2, <1>7, <2>1, DispatchWithinLimits DEF TryToStartMoreThreads, limits
<1>8. ASSUME NEW w \in Workers, Work(w) \/ ExpiryTimeout(w) PROVE TakesOnWithinLimits
  <2>1. activeThreads \in Nat /\ ThreadFits(w) /\ (Contains(waitingThreads, w) <=> w \in Waiting)
    BY AllFinite, ListFacts DEF ThreadsInv, ListTypes, Waiting
  <2>2. CASE TaskDone(w)
    <3>1. AtWork(w) /\ activeThreads + One(thread[w] = "awake") = activeThreads
      BY <2>1, <2>2 DEF TaskDone, AtWork, ThreadFits, One
    <3> QED
      BY <2>2, <3>1, GoOnWithinLimits DEF TaskDone
  <2>3. CASE Relock(w)
    <3>1. CASE w \in allThreads /\ w \notin Waiting
      <4>1. AtWork(w) /\ activeThreads + One(thread[w] = "awake") = activeThreads + 1
        BY <2>1, <2>3, <3>1 DEF Relock, AtWork, One
      <4>2. GoOn(w, activeThreads + 1) /\ UNCHANGED limits
        BY <2>1, <2>3, <3>1 DEF Relock
      <4> QED
        BY <4>1, <4>2, GoOnWithinLimits
    <3>2. CASE ~(w \in allThreads /\ w \notin Waiting)
      BY <1>1, <2>1, <2>3, <3>2 DEF Relock
    <3> QED
      BY <3>1, <3>2
  <2>4. CASE ThreadFinish(w) \/ ExpiryTimeout(w)
    BY <1>1, <2>4 DEF ThreadFinish, ExpiryTimeout
  <2> QED
    BY <1>8, <2>2, <2>3, <2>4 DEF Work
<1>9. ASSUME NEW c \in Clients,
             (\E what \in {"check", "clear"} : CallClient(c, what)) \/ Wait(c) \/ WaitTimeout(c)
      PROVE  TakesOnWithinLimits
  BY <1>1, <1>9 DEF CallClient, Wait, WaitTimeout, WaitForDone, ResetThread, ResetDone, Clear, workers
<1>10. ASSUME \/ \E r \in Tasks : TryTake(r)
              \/ \E m \in MaxCounts : SetMaxThreadCount(m)
              \/ ReserveThread \/ ReleaseThread \/ UNCHANGED vars
       PROVE  TakesOnWithinLimits
  BY <1>1, <1>10 DEF TryTake, SetMaxThreadCount, ReserveThread, ReleaseThread, vars, workers
<1> QED
  BY <1>4, <1>5, <1>6, <1>7, <1>8, <1>9, <1>10 DEF Next

(* No start(), tryStart() or setMaxThreadCount(), no reserved thread that  *)
(* is handed on, and no worker that looks for its next runnable brings the *)
(* number of busy threads past maxThreadCount(): the lists that the limit  *)
(* is checked with count a recycled thread before it counts itself.        *)
THEOREM LimitRespectedHolds == Spec => LimitRespected
<1>1. ThreadsInv /\ [Next]_vars => [TakesOnWithinLimits]_vars
  BY StepWithinLimits
<1>2. Spec => [][TakesOnWithinLimits]_vars
  BY <1>1, ThreadsInvariant, PTL DEF Spec
<1> QED
  BY <1>2 DEF LimitRespected, TakesOnWithinLimits

-----------------------------------------------------------------------------
(* Pages. Each lemma says what an operation on a sequence of pages does to *)
(* their order and to the set of the runnables in them. A page may be      *)
(* empty for a moment inside of Pop().                                     *)

Page == [priority : Int, pushed : Nat, tasks : Seq(Tasks)]

InPages(q) == UNION {ToSet(q[i].tasks) : i \in DOMAIN q}

(* No runnable is in the queue twice.                                      *)
Distinct(q) ==
    /\ \A i \in DOMAIN q : NoRepeat(q[i].tasks)
    /\ \A i, k \in DOMAIN q : i # k => ToSet(q[i].tasks) \cap ToSet(q[k].tasks) = {}

PagesOK(q) ==
    /\ q \in Seq(Page) /\ Distinct(q)
    /\ \A i \in DOMAIN q : q[i].priority >= 0
    /\ \A i, j \in DOMAIN q : i < j => q[i].priority >= q[j].priority

NoneEmpty(q) == \A i \in DOMAIN q : q[i].tasks # <<>>

LEMMA PageFacts ==
  ASSUME NEW q \in Seq(Page)
  PROVE  /\ Len(q) \in Nat /\ DOMAIN q = 1..Len(q)
         /\ \A i \in 1..Len(q) : /\ q[i] \in Page /\ q[i].tasks \in Seq(Tasks)
                                 /\ q[i].priority \in Int /\ q[i].pushed \in Nat
         /\ \A x : x \in InPages(q) <=> \E i \in 1..Len(q) : x \in ToSet(q[i].tasks)
         /\ InPages(q) \subseteq Tasks
<1>1. Len(q) \in Nat /\ DOMAIN q = 1..Len(q) /\ \A i \in 1..Len(q) : q[i] \in Page
  OBVIOUS
<1>2. \A i \in 1..Len(q) : q[i].tasks \in Seq(Tasks) /\ q[i].priority \in Int /\ q[i].pushed \in Nat
  BY <1>1 DEF Page
<1>3. \A x : x \in InPages(q) <=> \E i \in 1..Len(q) : x \in ToSet(q[i].tasks)
  BY <1>1 DEF InPages
<1>4. \A i \in 1..Len(q) : ToSet(q[i].tasks) \subseteq Tasks
  BY <1>2, ListFacts
<1> QED
  BY <1>1, <1>2, <1>3, <1>4

(* Another page in the place of page i.                                    *)
LEMMA ReplacePage ==
  ASSUME NEW q, PagesOK(q), NEW i \in 1..Len(q), NEW page \in Page,
         page.priority = q[i].priority, NoRepeat(page.tasks),
         ToSet(page.tasks) \cap InPages(q) \subseteq ToSet(q[i].tasks),
         NEW new \in Seq(Page), Len(new) = Len(q), new[i] = page,
         \A k \in 1..Len(q) : k # i => new[k] = q[k]
  PROVE  /\ PagesOK(new)
         /\ InPages(new) = (InPages(q) \ ToSet(q[i].tasks)) \cup ToSet(page.tasks)
<1>1. /\ q \in Seq(Page) /\ Len(q) \in Nat /\ DOMAIN q = 1..Len(q)
      /\ \A x : x \in InPages(q) <=> \E k \in 1..Len(q) : x \in ToSet(q[k].tasks)
  BY PageFacts DEF PagesOK
<1>2. /\ new \in Seq(Page) /\ Len(new) = Len(q) /\ DOMAIN new = 1..Len(q)
      /\ new[i] = page /\ \A k \in 1..Len(q) : k # i => new[k] = q[k]
  BY <1>1
<1>3. \A x : x \in InPages(new) <=> \E k \in 1..Len(q) : x \in ToSet(new[k].tasks)
  BY <1>2, PageFacts
<1>4. \A k \in 1..Len(q) : k # i => /\ ToSet(q[k].tasks) \cap ToSet(q[i].tasks) = {}
                                    /\ ToSet(q[k].tasks) \cap ToSet(page.tasks) = {}
  <2>1. ASSUME NEW k \in 1..Len(q), k # i
        PROVE  ToSet(q[k].tasks) \cap ToSet(q[i].tasks) = {} /\ ToSet(q[k].tasks) \cap ToSet(page.tasks) = {}
    <3>1. ToSet(q[k].tasks) \cap ToSet(q[i].tasks) = {}
      BY <1>1, <2>1 DEF PagesOK, Distinct
    <3>2. ToSet(q[k].tasks) \subseteq InPages(q)
      BY <1>1
    <3> QED
      BY <3>1, <3>2
  <2> QED
    BY <2>1
<1>5. Distinct(new)
  <2>1. ASSUME NEW k \in 1..Len(q) PROVE NoRepeat(new[k].tasks)
    BY <1>1, <1>2 DEF PagesOK, Distinct
  <2>2. ASSUME NEW k \in 1..Len(q), NEW l \in 1..Len(q), k # l
        PROVE  ToSet(new[k].tasks) \cap ToSet(new[l].tasks) = {}
    <3>1. CASE k = i
      BY <1>2, <1>4, <2>2, <3>1
    <3>2. CASE l = i
      BY <1>2, <1>4, <2>2, <3>2
    <3>3. CASE k # i /\ l # i
      BY <1>1, <1>2, <2>2, <3>3 DEF PagesOK, Distinct
    <3> QED
      BY <3>1, <3>2, <3>3
  <2> QED
    BY <1>2, <2>1, <2>2 DEF Distinct
<1>6. \A k \in 1..Len(q) : new[k].priority = q[k].priority
  BY <1>2
<1>7. PagesOK(new)
  BY <1>1, <1>2, <1>5, <1>6 DEF PagesOK
<1>8. InPages(new) = (InPages(q) \ ToSet(q[i].tasks)) \cup ToSet(page.tasks)
  <2>1. ASSUME NEW x \in InPages(new) PROVE x \in (InPages(q) \ ToSet(q[i].tasks)) \cup ToSet(page.tasks)
    <3>1. PICK k \in 1..Len(q) : x \in ToSet(new[k].tasks)
      BY <1>3
    <3> QED
      BY <1>1, <1>2, <1>4, <3>1
  <2>2. ASSUME NEW x \in InPages(q), x \notin ToSet(q[i].tasks) PROVE x \in InPages(new)
    <3>1. PICK k \in 1..Len(q) : x \in ToSet(q[k].tasks)
      BY <1>1
    <3> QED
      BY <1>2, <1>3, <2>2, <3>1
  <2>3. ToSet(page.tasks) \subseteq InPages(new)
    BY <1>2, <1>3
  <2> QED
    BY <2>1, <2>2, <2>3
<1> QED
  BY <1>2, <1>7, <1>8

(* Page i is removed.                                                      *)
LEMMA RemovePage ==
  ASSUME NEW q, PagesOK(q), NEW i \in 1..Len(q)
  PROVE  LET new == RemoveAt(q, i) IN
         /\ PagesOK(new) /\ InPages(new) = InPages(q) \ ToSet(q[i].tasks)
         /\ (\A k \in 1..Len(q) : k # i => q[k].tasks # <<>>) => NoneEmpty(new)
<1> DEFINE new == RemoveAt(q, i)
           from(k) == IF k < i THEN k ELSE k + 1
<1>1. /\ q \in Seq(Page) /\ Len(q) \in Nat /\ DOMAIN q = 1..Len(q)
      /\ \A x : x \in InPages(q) <=> \E k \in 1..Len(q) : x \in ToSet(q[k].tasks)
      /\ \A k \in 1..Len(q) : q[k] \in Page /\ q[k].priority \in Int
  BY PageFacts DEF PagesOK
<1>2. /\ new \in Seq(Page) /\ Len(new) = Len(q) - 1
      /\ \A k \in 1..(Len(q) - 1) : new[k] = q[from(k)]
  <2>1. /\ new \in Seq(Page) /\ Len(new) = Len(q) - 1
        /\ \A k \in 1..(Len(q) - 1) : new[k] = IF k < i THEN q[k] ELSE q[k + 1]
    BY <1>1, RemoveAtForm
  <2> HIDE DEF new
  <2> QED
    BY <2>1
<1> HIDE DEF new
<1>3. DOMAIN new = 1..(Len(q) - 1)
  BY <1>2
<1>4. \A k \in 1..(Len(q) - 1) : from(k) \in 1..Len(q) /\ from(k) # i
  BY <1>1
<1>5. \A k, l \in 1..(Len(q) - 1) : k < l => from(k) < from(l)
  BY <1>1
<1>6. \A k \in 1..Len(q) : k # i => \E l \in 1..(Len(q) - 1) : from(l) = k
  <2>1. ASSUME NEW k \in 1..Len(q), k # i PROVE \E l \in 1..(Len(q) - 1) : from(l) = k
    <3>1. CASE k < i
      <4>1. k \in 1..(Len(q) - 1) /\ from(k) = k
        BY <1>1, <3>1
      <4> QED
        BY <4>1
    <3>2. CASE k > i
      <4>1. k - 1 \in 1..(Len(q) - 1) /\ from(k - 1) = k
        BY <1>1, <3>2
      <4> QED
        BY <4>1
    <3> QED
      BY <1>1, <2>1, <3>1, <3>2
  <2> QED
    BY <2>1
<1> HIDE DEF from
<1>7. \A x : x \in InPages(new) <=> \E k \in 1..(Len(q) - 1) : x \in ToSet(new[k].tasks)
  <2>1. \A x : x \in InPages(new) <=> \E k \in 1..Len(new) : x \in ToSet(new[k].tasks)
    BY <1>2, PageFacts
  <2> QED
    BY <1>2, <2>1
<1>8. Distinct(new)
  <2>1. ASSUME NEW k \in 1..(Len(q) - 1) PROVE NoRepeat(new[k].tasks)
    BY <1>1, <1>2, <1>4 DEF PagesOK, Distinct
  <2>2. ASSUME NEW k \in 1..(Len(q) - 1), NEW l \in 1..(Len(q) - 1), k # l
        PROVE  ToSet(new[k].tasks) \cap ToSet(new[l].tasks) = {}
    <3>1. from(k) # from(l)
      <4>1. k < l \/ l < k
        BY <1>1, <2>2
      <4> QED
        BY <1>1, <1>4, <1>5, <4>1
    <3> QED
      BY <1>1, <1>2, <1>4, <3>1 DEF PagesOK, Distinct
  <2> QED
    BY <1>3, <2>1, <2>2 DEF Distinct
<1>9. PagesOK(new)
  <2>1. \A k \in 1..(Len(q) - 1) : new[k].priority >= 0
    BY <1>1, <1>2, <1>4 DEF PagesOK
  <2>2. ASSUME NEW k \in 1..(Len(q) - 1), NEW l \in 1..(Len(q) - 1), k < l
        PROVE  new[k].priority >= new[l].priority
    <3>1. from(k) < from(l) /\ from(k) \in 1..Len(q) /\ from(l) \in 1..Len(q)
      BY <1>4, <1>5, <2>2
    <3> QED
      BY <1>1, <1>2, <3>1 DEF PagesOK
  <2> QED
    BY <1>2, <1>3, <1>8, <2>1, <2>2 DEF PagesOK
<1>10. InPages(new) = InPages(q) \ ToSet(q[i].tasks)
  <2>1. \A k \in 1..Len(q) : k # i => ToSet(q[k].tasks) \cap ToSet(q[i].tasks) = {}
    BY <1>1 DEF PagesOK, Distinct
  <2>2. ASSUME NEW x \in InPages(new) PROVE x \in InPages(q) \ ToSet(q[i].tasks)
    <3>1. PICK k \in 1..(Len(q) - 1) : x \in ToSet(new[k].tasks)
      BY <1>7
    <3> QED
      BY <1>1, <1>2, <1>4, <2>1, <3>1
  <2>3. ASSUME NEW x \in InPages(q), x \notin ToSet(q[i].tasks) PROVE x \in InPages(new)
    <3>1. PICK k \in 1..Len(q) : x \in ToSet(q[k].tasks)
      BY <1>1
    <3>2. PICK l \in 1..(Len(q) - 1) : from(l) = k
      BY <1>6, <2>3, <3>1
    <3> QED
      BY <1>2, <1>7, <3>1, <3>2
  <2> QED
    BY <2>2, <2>3
<1>11. (\A k \in 1..Len(q) : k # i => q[k].tasks # <<>>) => NoneEmpty(new)
  BY <1>2, <1>3, <1>4 DEF NoneEmpty
<1> QED
  BY <1>9, <1>10, <1>11 DEF new

LEMMA InsertAtForm ==
  ASSUME NEW S, NEW s \in Seq(S), NEW e \in S, NEW k \in 1..(Len(s) + 1)
  PROVE  /\ InsertAt(s, k, e) \in Seq(S) /\ Len(InsertAt(s, k, e)) = Len(s) + 1
         /\ \A i \in 1..(Len(s) + 1) :
              InsertAt(s, k, e)[i] = IF i < k THEN s[i] ELSE IF i = k THEN e ELSE s[i - 1]
<1> DEFINE a == SubSeq(s, 1, k - 1)
           b == SubSeq(s, k, Len(s))
           c == a \o <<e>>
<1>1. Len(s) \in Nat /\ k \in Int /\ k - 1 \in Int /\ \A i \in 1..Len(s) : s[i] \in S
  OBVIOUS
<1>2. a \in Seq(S) /\ Len(a) = k - 1 /\ \A i \in 1..(k - 1) : a[i] = s[i]
  <2>1. \A i \in 1..(k - 1) : s[i] \in S
    BY <1>1
  <2>2. /\ a \in Seq(S) /\ Len(a) = (IF 1 <= k - 1 THEN (k - 1) - 1 + 1 ELSE 0)
        /\ \A i \in 1..((k - 1) - 1 + 1) : a[i] = s[1 + i - 1]
    BY <1>1, <2>1, SubSeqProperties
  <2>3. (IF 1 <= k - 1 THEN (k - 1) - 1 + 1 ELSE 0) = k - 1 /\ (k - 1) - 1 + 1 = k - 1
        /\ \A i \in 1..(k - 1) : 1 + i - 1 = i
    BY <1>1
  <2> HIDE DEF a
  <2>4. \A i \in 1..(k - 1) : a[i] = s[1 + i - 1]
    BY <2>2, <2>3
  <2> QED
    BY <2>2, <2>3, <2>4
<1>3. b \in Seq(S) /\ Len(b) = Len(s) - k + 1 /\ \A i \in 1..(Len(s) - k + 1) : b[i] = s[k + i - 1]
  <2>1. \A i \in k..Len(s) : s[i] \in S
    BY <1>1
  <2>2. /\ b \in Seq(S) /\ Len(b) = (IF k <= Len(s) THEN Len(s) - k + 1 ELSE 0)
        /\ \A i \in 1..(Len(s) - k + 1) : b[i] = s[k + i - 1]
    BY <1>1, <2>1, SubSeqProperties
  <2>3. (IF k <= Len(s) THEN Len(s) - k + 1 ELSE 0) = Len(s) - k + 1
    BY <1>1
  <2> HIDE DEF b
  <2> QED
    BY <2>2, <2>3
<1>4. InsertAt(s, k, e) = c \o b
  BY DEF InsertAt
<1> HIDE DEF a, b
<1>5. c \in Seq(S) /\ Len(c) = k /\ c[k] = e /\ \A i \in 1..(k - 1) : c[i] = s[i]
  <2>1. <<e>> \in Seq(S) /\ Len(<<e>>) = 1 /\ <<e>>[1] = e
    OBVIOUS
  <2>2. /\ c \in Seq(S) /\ Len(c) = Len(a) + 1
        /\ \A i \in 1..(Len(a) + 1) : c[i] = IF i <= Len(a) THEN a[i] ELSE <<e>>[i - Len(a)]
    BY <1>2, <2>1, ConcatProperties
  <2> HIDE DEF c
  <2>3. c[k] = <<e>>[k - (k - 1)] /\ k - (k - 1) = 1
    BY <1>1, <1>2, <2>2
  <2>4. \A i \in 1..(k - 1) : c[i] = a[i]
    BY <1>1, <1>2, <2>2
  <2> QED
    BY <1>1, <1>2, <2>1, <2>2, <2>3, <2>4
<1> HIDE DEF c
<1>6. /\ c \o b \in Seq(S) /\ Len(c \o b) = Len(s) + 1
      /\ \A i \in 1..(Len(s) + 1) : (c \o b)[i] = IF i <= k THEN c[i] ELSE b[i - k]
  <2>1. /\ c \o b \in Seq(S) /\ Len(c \o b) = Len(c) + Len(b)
        /\ \A i \in 1..(Len(c) + Len(b)) : (c \o b)[i] = IF i <= Len(c) THEN c[i] ELSE b[i - Len(c)]
    BY <1>3, <1>5, ConcatProperties
  <2>2. Len(c) + Len(b) = Len(s) + 1
    BY <1>1, <1>3, <1>5
  <2> QED
    BY <1>5, <2>1, <2>2
<1>7. ASSUME NEW i \in 1..(Len(s) + 1)
      PROVE  (c \o b)[i] = IF i < k THEN s[i] ELSE IF i = k THEN e ELSE s[i - 1]
  <2>1. CASE i <= k
    BY <1>1, <1>5, <1>6, <2>1
  <2>2. CASE i > k
    <3>1. i - k \in 1..(Len(s) - k + 1) /\ k + (i - k) - 1 = i - 1 /\ ~(i <= k) /\ ~(i < k) /\ i # k
      BY <1>1, <2>2
    <3>2. (c \o b)[i] = b[i - k]
      BY <1>6, <3>1
    <3>3. b[i - k] = s[k + (i - k) - 1]
      BY <1>3, <3>1
    <3> QED
      BY <3>1, <3>2, <3>3
  <2>3. i <= k \/ i > k
    BY <1>1
  <2> QED
    BY <2>1, <2>2, <2>3
<1> QED
  BY <1>4, <1>6, <1>7

(* A new page in place k.                                                  *)
LEMMA InsertPage ==
  ASSUME NEW q, PagesOK(q), NEW k \in 1..(Len(q) + 1), NEW page \in Page,
         page.priority >= 0, NoRepeat(page.tasks), ToSet(page.tasks) \cap InPages(q) = {},
         \A i \in 1..Len(q) : i < k => q[i].priority >= page.priority,
         \A i \in 1..Len(q) : i >= k => page.priority >= q[i].priority
  PROVE  LET new == InsertAt(q, k, page) IN
         /\ PagesOK(new) /\ InPages(new) = InPages(q) \cup ToSet(page.tasks)
         /\ NoneEmpty(q) /\ page.tasks # <<>> => NoneEmpty(new)
<1> DEFINE new == InsertAt(q, k, page)
           old(i) == IF i < k THEN i ELSE i - 1
<1>1. /\ q \in Seq(Page) /\ Len(q) \in Nat /\ DOMAIN q = 1..Len(q)
      /\ \A x : x \in InPages(q) <=> \E i \in 1..Len(q) : x \in ToSet(q[i].tasks)
      /\ \A i \in 1..Len(q) : q[i] \in Page /\ q[i].priority \in Int
      /\ page.priority \in Int
  BY PageFacts DEF PagesOK, Page
<1>2. /\ new \in Seq(Page) /\ Len(new) = Len(q) + 1 /\ new[k] = page
      /\ \A i \in 1..(Len(q) + 1) : i # k => new[i] = q[old(i)]
  <2>1. /\ new \in Seq(Page) /\ Len(new) = Len(q) + 1
        /\ \A i \in 1..(Len(q) + 1) :
              new[i] = IF i < k THEN q[i] ELSE IF i = k THEN page ELSE q[i - 1]
    BY <1>1, InsertAtForm
  <2> HIDE DEF new
  <2> QED
    BY <1>1, <2>1
<1> HIDE DEF new
<1>3. DOMAIN new = 1..(Len(q) + 1)
  BY <1>2
<1>4. /\ \A i \in 1..(Len(q) + 1) : i # k => old(i) \in 1..Len(q)
      /\ \A i, j \in 1..(Len(q) + 1) : i # k /\ j # k /\ i < j => old(i) < old(j)
      /\ \A i \in 1..(Len(q) + 1) : i < k => old(i) < k
      /\ \A i \in 1..(Len(q) + 1) : i > k => old(i) >= k
  BY <1>1
<1>5. \A i \in 1..Len(q) : \E j \in 1..(Len(q) + 1) : j # k /\ old(j) = i
  <2>1. ASSUME NEW i \in 1..Len(q) PROVE \E j \in 1..(Len(q) + 1) : j # k /\ old(j) = i
    <3>1. CASE i < k
      <4>1. i \in 1..(Len(q) + 1) /\ i # k /\ old(i) = i
        BY <1>1, <3>1
      <4> QED
        BY <4>1
    <3>2. CASE i >= k
      <4>1. i + 1 \in 1..(Len(q) + 1) /\ i + 1 # k /\ old(i + 1) = i
        BY <1>1, <3>2
      <4> QED
        BY <4>1
    <3> QED
      BY <1>1, <3>1, <3>2
  <2> QED
    BY <2>1
<1> HIDE DEF old
<1>6. \A x : x \in InPages(new) <=> \E i \in 1..(Len(q) + 1) : x \in ToSet(new[i].tasks)
  <2>1. \A x : x \in InPages(new) <=> \E i \in 1..Len(new) : x \in ToSet(new[i].tasks)
    BY <1>2, PageFacts
  <2> QED
    BY <1>2, <2>1
<1>7. Distinct(new)
  <2>1. ASSUME NEW i \in 1..(Len(q) + 1) PROVE NoRepeat(new[i].tasks)
    BY <1>1, <1>2, <1>4 DEF PagesOK, Distinct
  <2>2. ASSUME NEW i \in 1..(Len(q) + 1), i # k PROVE ToSet(new[i].tasks) \subseteq InPages(q)
    BY <1>1, <1>2, <1>4, <2>2
  <2>3. ASSUME NEW i \in 1..(Len(q) + 1), NEW j \in 1..(Len(q) + 1), i # j
        PROVE  ToSet(new[i].tasks) \cap ToSet(new[j].tasks) = {}
    <3>1. CASE i = k \/ j = k
      BY <1>2, <2>2, <2>3, <3>1
    <3>2. CASE i # k /\ j # k
      <4>1. i < j \/ j < i
        BY <1>1, <2>3
      <4>2. old(i) \in 1..Len(q) /\ old(j) \in 1..Len(q) /\ old(i) # old(j)
        BY <1>1, <1>4, <3>2, <4>1
      <4> QED
        BY <1>1, <1>2, <3>2, <4>2 DEF PagesOK, Distinct
    <3> QED
      BY <3>1, <3>2
  <2> QED
    BY <1>3, <2>1, <2>3 DEF Distinct
<1>8. PagesOK(new)
  <2>1. \A i \in 1..(Len(q) + 1) : new[i].priority >= 0
    BY <1>1, <1>2, <1>4 DEF PagesOK
  <2>2. ASSUME NEW i \in 1..(Len(q) + 1), NEW j \in 1..(Len(q) + 1), i < j
        PROVE  new[i].priority >= new[j].priority
    <3>1. CASE i = k
      <4>1. j # k /\ old(j) \in 1..Len(q) /\ old(j) >= k
        BY <1>1, <1>4, <2>2, <3>1
      <4> QED
        BY <1>2, <3>1, <4>1
    <3>2. CASE j = k
      <4>1. i # k /\ old(i) \in 1..Len(q) /\ old(i) < k
        BY <1>1, <1>4, <2>2, <3>2
      <4> QED
        BY <1>2, <3>2, <4>1
    <3>3. CASE i # k /\ j # k
      <4>1. old(i) < old(j) /\ old(i) \in 1..Len(q) /\ old(j) \in 1..Len(q)
        BY <1>4, <2>2, <3>3
      <4> QED
        BY <1>1, <1>2, <3>3, <4>1 DEF PagesOK
    <3> QED
      BY <3>1, <3>2, <3>3
  <2> QED
    BY <1>2, <1>3, <1>7, <2>1, <2>2 DEF PagesOK
<1>9. InPages(new) = InPages(q) \cup ToSet(page.tasks)
  <2>1. ASSUME NEW x \in InPages(new) PROVE x \in InPages(q) \cup ToSet(page.tasks)
    <3>1. PICK i \in 1..(Len(q) + 1) : x \in ToSet(new[i].tasks)
      BY <1>6
    <3> QED
      BY <1>1, <1>2, <1>4, <3>1
  <2>2. ASSUME NEW x \in InPages(q) PROVE x \in InPages(new)
    <3>1. PICK i \in 1..Len(q) : x \in ToSet(q[i].tasks)
      BY <1>1
    <3>2. PICK j \in 1..(Len(q) + 1) : j # k /\ old(j) = i
      BY <1>5
    <3> QED
      BY <1>2, <1>6, <3>1, <3>2
  <2>3. ToSet(page.tasks) \subseteq InPages(new)
    BY <1>1, <1>2, <1>6
  <2> QED
    BY <2>1, <2>2, <2>3
<1>10. NoneEmpty(q) /\ page.tasks # <<>> => NoneEmpty(new)
  BY <1>1, <1>2, <1>3, <1>4 DEF NoneEmpty
<1> QED
  BY <1>8, <1>9, <1>10 DEF new

-----------------------------------------------------------------------------
(* The operations on the queue.                                            *)

(* What an operation does to a queue, where new is what is added and gone  *)
(* what is taken away.                                                     *)
Turns(q, new, added, gone) ==
    PagesOK(new) /\ InPages(new) = (InPages(q) \ gone) \cup added

LEMMA PageForms ==
  ASSUME NEW g \in Page, NEW t, NEW n
  PROVE  /\ [g EXCEPT !.tasks = t] = [priority |-> g.priority, pushed |-> g.pushed, tasks |-> t]
         /\ [[g EXCEPT !.tasks = t] EXCEPT !.pushed = n]
              = [priority |-> g.priority, pushed |-> n, tasks |-> t]
<1>1. PICK a, b, c : g = [priority |-> a, pushed |-> b, tasks |-> c]
  BY DEF Page
<1>2. [[priority |-> a, pushed |-> b, tasks |-> c] EXCEPT !.tasks = t] = [priority |-> a, pushed |-> b, tasks |-> t]
  BY SMT
<1>3. [[priority |-> a, pushed |-> b, tasks |-> t] EXCEPT !.pushed = n] = [priority |-> a, pushed |-> n, tasks |-> t]
  BY SMT
<1>4. g.priority = a /\ g.pushed = b
  BY <1>1
<1>5. [g EXCEPT !.tasks = t] = [priority |-> a, pushed |-> b, tasks |-> t]
  BY <1>1, <1>2
<1> QED
  BY <1>3, <1>4, <1>5

LEMMA PushForm ==
  ASSUME NEW q \in Seq(Page), NEW r \in Tasks, NEW i \in 1..Len(q)
  PROVE  [q EXCEPT ![i].tasks = Append(@, r), ![i].pushed = @ + 1]
           = [q EXCEPT ![i] = [priority |-> q[i].priority, pushed |-> q[i].pushed + 1,
                               tasks |-> Append(q[i].tasks, r)]]
<1>1. q[i] \in Page
  OBVIOUS
<1>2. [[q[i] EXCEPT !.tasks = Append(@, r)] EXCEPT !.pushed = @ + 1]
        = [priority |-> q[i].priority, pushed |-> q[i].pushed + 1, tasks |-> Append(q[i].tasks, r)]
  <2>1. [[q[i] EXCEPT !.tasks = Append(@, r)] EXCEPT !.pushed = @ + 1]
          = [[q[i] EXCEPT !.tasks = Append(q[i].tasks, r)] EXCEPT !.pushed = q[i].pushed + 1]
    BY <1>1 DEF Page
  <2> QED
    BY <1>1, <2>1, PageForms
<1> DEFINE a == [q EXCEPT ![i].tasks = Append(@, r), ![i].pushed = @ + 1]
           b == [q EXCEPT ![i] = [[q[i] EXCEPT !.tasks = Append(@, r)] EXCEPT !.pushed = @ + 1]]
<1>3. a = b
  OBVIOUS
<1> QED
  BY <1>2, <1>3

LEMMA TasksForm ==
  ASSUME NEW q \in Seq(Page), NEW i \in 1..Len(q), NEW t
  PROVE  [q EXCEPT ![i].tasks = t]
           = [q EXCEPT ![i] = [priority |-> q[i].priority, pushed |-> q[i].pushed, tasks |-> t]]
<1>1. q[i] \in Page
  OBVIOUS
<1>2. [q[i] EXCEPT !.tasks = t] = [priority |-> q[i].priority, pushed |-> q[i].pushed, tasks |-> t]
  BY <1>1, PageForms
<1> QED
  BY <1>2

(* Onto a page with room, or onto a new one: where std::upper_bound finds  *)
(* its place, the pages are still in order.                                *)
LEMMA EnqueueTurns ==
  ASSUME NEW q, PagesOK(q), NEW r \in Tasks, r \notin InPages(q), NEW p \in Int, p >= 0
  PROVE  /\ Turns(q, EnqueueTask(q, r, p), {r}, {})
         /\ NoneEmpty(q) => NoneEmpty(EnqueueTask(q, r, p))
         /\ Len(q) > 0 => EnqueueTask(q, r, p) # <<>>
<1>1. /\ q \in Seq(Page) /\ Len(q) \in Nat /\ DOMAIN q = 1..Len(q)
      /\ \A i \in 1..Len(q) : /\ q[i] \in Page /\ q[i].tasks \in Seq(Tasks)
                              /\ q[i].priority \in Int /\ q[i].pushed \in Nat
      /\ \A x : x \in InPages(q) <=> \E i \in 1..Len(q) : x \in ToSet(q[i].tasks)
  BY PageFacts DEF PagesOK
<1>2. CASE PagesWithRoom(q, p) # {}
  <2> DEFINE i == Min(PagesWithRoom(q, p))
             page == [priority |-> q[i].priority, pushed |-> q[i].pushed + 1,
                      tasks |-> Append(q[i].tasks, r)]
  <2>1. i \in 1..Len(q)
    <3>1. PagesWithRoom(q, p) \in SUBSET Nat /\ PagesWithRoom(q, p) \subseteq 1..Len(q)
      BY <1>1 DEF PagesWithRoom
    <3> QED
      BY <1>2, <3>1, MinOfPositions
  <2>2. EnqueueTask(q, r, p) = [q EXCEPT ![i].tasks = Append(@, r), ![i].pushed = @ + 1]
    BY <1>2 DEF EnqueueTask
  <2> HIDE DEF i
  <2>3. EnqueueTask(q, r, p) = [q EXCEPT ![i] = page]
    BY <1>1, <2>1, <2>2, PushForm
  <2>4. /\ q[i].tasks \in Seq(Tasks) /\ r \notin ToSet(q[i].tasks) /\ NoRepeat(q[i].tasks)
        /\ ToSet(q[i].tasks) \subseteq InPages(q)
    BY <1>1, <2>1 DEF PagesOK, Distinct
  <2>5. /\ page.tasks \in Seq(Tasks) /\ page.tasks # <<>> /\ NoRepeat(page.tasks)
        /\ ToSet(page.tasks) = ToSet(q[i].tasks) \cup {r}
    BY <2>4, AppendFacts
  <2>6. page \in Page /\ page.priority = q[i].priority
    BY <1>1, <2>1, <2>5 DEF Page
  <2> HIDE DEF page
  <2>7. ToSet(page.tasks) \cap InPages(q) \subseteq ToSet(q[i].tasks)
    BY <2>5
  <2> DEFINE new == [q EXCEPT ![i] = page]
  <2>14. new = [q EXCEPT ![i] = page]
    OBVIOUS
  <2> HIDE DEF new
  <2>15. /\ new \in Seq(Page) /\ Len(new) = Len(q) /\ new[i] = page
         /\ \A k \in 1..Len(q) : k # i => new[k] = q[k]
    BY <1>1, <2>1, <2>6, <2>14, ExceptSeq
  <2>8. /\ PagesOK(new) /\ Len(new) = Len(q)
        /\ InPages(new) = (InPages(q) \ ToSet(q[i].tasks)) \cup ToSet(page.tasks)
        /\ new[i] = page /\ \A k \in 1..Len(q) : k # i => new[k] = q[k]
    <3>1. PagesOK(new) /\ InPages(new) = (InPages(q) \ ToSet(q[i].tasks)) \cup ToSet(page.tasks)
      BY <2>1, <2>5, <2>6, <2>7, <2>15, ReplacePage
    <3> QED
      BY <2>15, <3>1
  <2>9. InPages(new) = (InPages(q) \ {}) \cup {r}
    BY <2>4, <2>5, <2>8
  <2>10. DOMAIN new = 1..Len(q) /\ new \in Seq(Page)
    BY <2>8, PageFacts DEF PagesOK
  <2>11. NoneEmpty(q) => NoneEmpty(new)
    BY <1>1, <2>5, <2>8, <2>10 DEF NoneEmpty
  <2>12. Len(q) > 0 => new # <<>>
    BY <2>8, <2>10
  <2> QED
    BY <2>3, <2>8, <2>9, <2>11, <2>12 DEF Turns, new
<1>3. CASE PagesWithRoom(q, p) = {}
  <2> DEFINE I == {i \in DOMAIN q : q[i].priority < p} \cup {Len(q) + 1}
             k == NewPagePlace(q, p)
             page == [priority |-> p, pushed |-> 1, tasks |-> <<r>>]
  <2>1. I \in SUBSET Nat /\ I # {} /\ I \subseteq 1..(Len(q) + 1)
    BY <1>1
  <2>2. k \in I /\ \A j \in I : k <= j
    BY <2>1, MinOfPositions DEF NewPagePlace
  <2>3. k \in 1..(Len(q) + 1)
    BY <2>1, <2>2
  <2>4. \A i \in 1..Len(q) : i < k => q[i].priority >= p
    <3>1. ASSUME NEW i \in 1..Len(q), i < k, ~(q[i].priority >= p) PROVE FALSE
      <4>1. i \in I
        BY <1>1, <3>1
      <4> QED
        BY <1>1, <2>1, <2>2, <3>1, <4>1
    <3> QED
      BY <3>1
  <2>5. \A i \in 1..Len(q) : i >= k => p >= q[i].priority
    <3>1. ASSUME NEW i \in 1..Len(q), i >= k PROVE p >= q[i].priority
      <4>1. k \in 1..Len(q) /\ q[k].priority < p
        BY <1>1, <2>2, <3>1
      <4>2. q[k].priority >= q[i].priority
        <5>1. k = i \/ k < i
          BY <3>1, <4>1
        <5> QED
          BY <1>1, <4>1, <5>1 DEF PagesOK
      <4> QED
        BY <1>1, <4>1, <4>2
    <3> QED
      BY <3>1
  <2> HIDE DEF k, I
  <2>6. <<r>> \in Seq(Tasks) /\ ToSet(<<r>>) = {r} /\ NoRepeat(<<r>>)
    BY DEF ToSet, NoRepeat
  <2>7. page \in Page /\ page.priority = p /\ page.tasks = <<r>>
    BY <2>6 DEF Page
  <2>8. EnqueueTask(q, r, p) = InsertAt(q, k, page)
    BY <1>3 DEF EnqueueTask, k
  <2> HIDE DEF page
  <2>9. ToSet(page.tasks) \cap InPages(q) = {}
    BY <2>6, <2>7
  <2> DEFINE new == InsertAt(q, k, page)
  <2>10. /\ PagesOK(new) /\ InPages(new) = InPages(q) \cup ToSet(page.tasks)
         /\ NoneEmpty(q) /\ page.tasks # <<>> => NoneEmpty(new)
    BY <2>3, <2>4, <2>5, <2>6, <2>7, <2>9, InsertPage
  <2>11. Len(new) = Len(q) + 1
    BY <1>1, <2>3, <2>7, InsertAtForm
  <2> HIDE DEF new
  <2>12. new # <<>>
    BY <1>1, <2>11
  <2> QED
    BY <2>6, <2>7, <2>8, <2>10, <2>12 DEF Turns, new
<1> QED
  BY <1>2, <1>3

(* pop() without, and then with, the end of a page that it has emptied.    *)
Lighten(q) == [q EXCEPT ![1].tasks = Tail(@)]

Trim(q) == IF q[1].tasks = <<>> THEN RemoveAt(q, 1) ELSE q

RestNotEmpty(q) == \A i \in DOMAIN q : i # 1 => q[i].tasks # <<>>

LEMMA PopIsTrimmed == ASSUME NEW q PROVE Pop(q, 1) = Trim(Lighten(q))
  BY DEF Pop, Trim, Lighten

LEMMA LightenForm ==
  ASSUME NEW q \in Seq(Page), Len(q) > 0, q[1].tasks # <<>>
  PROVE  /\ Lighten(q) \in Seq(Page) /\ Len(Lighten(q)) = Len(q)
         /\ Lighten(q)[1] = [priority |-> q[1].priority, pushed |-> q[1].pushed, tasks |-> Tail(q[1].tasks)]
         /\ \A k \in 1..Len(q) : k # 1 => Lighten(q)[k] = q[k]
<1> DEFINE page == [priority |-> q[1].priority, pushed |-> q[1].pushed, tasks |-> Tail(q[1].tasks)]
<1>1. Len(q) \in Nat /\ 1 \in 1..Len(q) /\ q[1] \in Page /\ q[1].tasks \in Seq(Tasks) /\ DOMAIN q = 1..Len(q)
      /\ q[1].priority \in Int /\ q[1].pushed \in Nat
  BY PageFacts
<1>2. Lighten(q) = [q EXCEPT ![1].tasks = Tail(q[1].tasks)]
  BY <1>1 DEF Lighten
<1>3. Lighten(q) = [q EXCEPT ![1] = page]
  <2>1. [q[1] EXCEPT !.tasks = Tail(q[1].tasks)] = page
    BY <1>1, PageForms
  <2> QED
    BY <1>2, <2>1
<1>4. page \in Page
  BY <1>1, HeadTailProperties DEF Page
<1> HIDE DEF page
<1>5. /\ Lighten(q) \in Seq(Page) /\ Len(Lighten(q)) = Len(q)
      /\ \A k \in 1..Len(q) : Lighten(q)[k] = IF k = 1 THEN page ELSE q[k]
  BY <1>1, <1>3, <1>4, ExceptSeq
<1> QED
  BY <1>1, <1>5 DEF page

LEMMA LightenTurns ==
  ASSUME NEW q, PagesOK(q), Len(q) > 0, q[1].tasks # <<>>
  PROVE  /\ Turns(q, Lighten(q), {}, {Head(q[1].tasks)})
         /\ Head(q[1].tasks) \in Tasks /\ Head(q[1].tasks) \in InPages(q)
         /\ RestNotEmpty(q) => RestNotEmpty(Lighten(q))
<1> DEFINE page == Lighten(q)[1]
<1>1. /\ q \in Seq(Page) /\ Len(q) \in Nat /\ 1 \in 1..Len(q) /\ q[1] \in Page /\ q[1].tasks \in Seq(Tasks)
      /\ DOMAIN q = 1..Len(q)
      /\ \A x : x \in InPages(q) <=> \E i \in 1..Len(q) : x \in ToSet(q[i].tasks)
  BY PageFacts DEF PagesOK
<1>2. /\ Lighten(q) \in Seq(Page) /\ Len(Lighten(q)) = Len(q)
      /\ page.priority = q[1].priority /\ page.tasks = Tail(q[1].tasks)
      /\ \A k \in 1..Len(q) : k # 1 => Lighten(q)[k] = q[k]
  <2>1. /\ Lighten(q) \in Seq(Page) /\ Len(Lighten(q)) = Len(q)
        /\ page = [priority |-> q[1].priority, pushed |-> q[1].pushed, tasks |-> Tail(q[1].tasks)]
        /\ \A k \in 1..Len(q) : k # 1 => Lighten(q)[k] = q[k]
    BY <1>1, LightenForm
  <2> HIDE DEF page
  <2> QED
    BY <2>1
<1>3. page \in Page
  BY <1>1, <1>2
<1>4. /\ NoRepeat(page.tasks) /\ ToSet(page.tasks) = ToSet(q[1].tasks) \ {Head(q[1].tasks)}
      /\ Head(q[1].tasks) \in ToSet(q[1].tasks)
  <2>1. NoRepeat(q[1].tasks)
    BY <1>1 DEF PagesOK, Distinct
  <2> QED
    BY <1>1, <1>2, <2>1, TailFacts
<1>5. Head(q[1].tasks) \in Tasks /\ Head(q[1].tasks) \in InPages(q) /\ ToSet(q[1].tasks) \subseteq InPages(q)
  BY <1>1, <1>4, HeadTailProperties
<1> HIDE DEF page
<1>6. PagesOK(Lighten(q)) /\ InPages(Lighten(q)) = (InPages(q) \ ToSet(q[1].tasks)) \cup ToSet(page.tasks)
  <2>1. ToSet(page.tasks) \cap InPages(q) \subseteq ToSet(q[1].tasks)
    BY <1>4
  <2>2. Lighten(q)[1] = page
    BY DEF page
  <2> QED
    BY <1>1, <1>2, <1>3, <1>4, <2>1, <2>2, ReplacePage
<1>7. RestNotEmpty(q) => RestNotEmpty(Lighten(q))
  <2>1. DOMAIN Lighten(q) = 1..Len(q)
    BY <1>2
  <2> QED
    BY <1>1, <1>2, <2>1 DEF RestNotEmpty
<1> QED
  BY <1>4, <1>5, <1>6, <1>7 DEF Turns

LEMMA TrimTurns ==
  ASSUME NEW q, PagesOK(q), Len(q) > 0, RestNotEmpty(q)
  PROVE  Turns(q, Trim(q), {}, {}) /\ NoneEmpty(Trim(q))
<1>1. q \in Seq(Page) /\ Len(q) \in Nat /\ DOMAIN q = 1..Len(q) /\ 1 \in 1..Len(q)
  BY PageFacts DEF PagesOK
<1>2. CASE q[1].tasks = <<>>
  <2>1. /\ PagesOK(RemoveAt(q, 1)) /\ InPages(RemoveAt(q, 1)) = InPages(q) \ ToSet(q[1].tasks)
        /\ (\A k \in 1..Len(q) : k # 1 => q[k].tasks # <<>>) => NoneEmpty(RemoveAt(q, 1))
    BY <1>1, RemovePage
  <2>2. ToSet(q[1].tasks) = {}
    BY <1>2 DEF ToSet
  <2> QED
    BY <1>1, <1>2, <2>1, <2>2 DEF Trim, Turns, RestNotEmpty
<1>3. CASE q[1].tasks # <<>>
  BY <1>1, <1>3 DEF Trim, Turns, RestNotEmpty, NoneEmpty
<1> QED
  BY <1>2, <1>3

(* A worker takes the first runnable of the first page.                    *)
LEMMA PopTurns ==
  ASSUME NEW q, PagesOK(q), NoneEmpty(q), q # <<>>
  PROVE  /\ Turns(q, Pop(q, 1), {}, {Head(q[1].tasks)}) /\ NoneEmpty(Pop(q, 1))
         /\ Head(q[1].tasks) \in Tasks /\ Head(q[1].tasks) \in InPages(q)
<1>1. q \in Seq(Page) /\ Len(q) \in Nat /\ DOMAIN q = 1..Len(q) /\ Len(q) > 0 /\ q[1].tasks # <<>>
  <2>1. q \in Seq(Page) /\ Len(q) \in Nat /\ DOMAIN q = 1..Len(q)
    BY PageFacts DEF PagesOK
  <2>2. Len(q) > 0
    BY <2>1
  <2> QED
    BY <2>1, <2>2 DEF NoneEmpty
<1>2. RestNotEmpty(q)
  BY DEF RestNotEmpty, NoneEmpty
<1>3. /\ Turns(q, Lighten(q), {}, {Head(q[1].tasks)}) /\ RestNotEmpty(Lighten(q))
      /\ Head(q[1].tasks) \in Tasks /\ Head(q[1].tasks) \in InPages(q)
  BY <1>1, <1>2, LightenTurns
<1>4. Len(Lighten(q)) > 0
  BY <1>1, LightenForm
<1>5. Turns(Lighten(q), Trim(Lighten(q)), {}, {}) /\ NoneEmpty(Trim(Lighten(q)))
  BY <1>3, <1>4, TrimTurns DEF Turns
<1> QED
  BY <1>3, <1>5, PopIsTrimmed DEF Turns

(* With priority 0 a new page goes to the end: no page has a lower one.    *)
LEMMA EnqueueZeroForm ==
  ASSUME NEW q, PagesOK(q), NEW r \in Tasks
  PROVE  LET new == EnqueueTask(q, r, 0) IN
         /\ new \in Seq(Page)
         /\ \/ /\ PagesWithRoom(q, 0) # {} /\ Min(PagesWithRoom(q, 0)) \in 1..Len(q) /\ Len(new) = Len(q)
               /\ \A k \in 1..Len(q) :
                    new[k] = IF k = Min(PagesWithRoom(q, 0))
                             THEN [priority |-> q[k].priority, pushed |-> q[k].pushed + 1,
                                   tasks |-> Append(q[k].tasks, r)]
                             ELSE q[k]
            \/ /\ PagesWithRoom(q, 0) = {} /\ Len(new) = Len(q) + 1
               /\ new[Len(q) + 1] = [priority |-> 0, pushed |-> 1, tasks |-> <<r>>]
               /\ \A k \in 1..Len(q) : new[k] = q[k]
<1>1. /\ q \in Seq(Page) /\ Len(q) \in Nat /\ DOMAIN q = 1..Len(q)
      /\ \A i \in 1..Len(q) : /\ q[i] \in Page /\ q[i].tasks \in Seq(Tasks)
                              /\ q[i].priority \in Int /\ q[i].pushed \in Nat
  BY PageFacts DEF PagesOK
<1>2. CASE PagesWithRoom(q, 0) # {}
  <2> DEFINE i == Min(PagesWithRoom(q, 0))
             page == [priority |-> q[i].priority, pushed |-> q[i].pushed + 1,
                      tasks |-> Append(q[i].tasks, r)]
             new == EnqueueTask(q, r, 0)
  <2>1. i \in 1..Len(q)
    <3>1. PagesWithRoom(q, 0) \in SUBSET Nat /\ PagesWithRoom(q, 0) \subseteq 1..Len(q)
      BY <1>1 DEF PagesWithRoom
    <3> QED
      BY <1>2, <3>1, MinOfPositions
  <2>2. new = [q EXCEPT ![i].tasks = Append(@, r), ![i].pushed = @ + 1]
    BY <1>2 DEF EnqueueTask
  <2> HIDE DEF i, new
  <2>3. new = [q EXCEPT ![i] = page]
    BY <1>1, <2>1, <2>2, PushForm
  <2>4. page \in Page
    BY <1>1, <2>1, AppendProperties DEF Page
  <2> HIDE DEF page
  <2>5. new \in Seq(Page) /\ Len(new) = Len(q) /\ \A k \in 1..Len(q) : new[k] = IF k = i THEN page ELSE q[k]
    BY <1>1, <2>1, <2>3, <2>4, ExceptSeq
  <2>6. \A k \in 1..Len(q) : k = i => page = [priority |-> q[k].priority, pushed |-> q[k].pushed + 1,
                                               tasks |-> Append(q[k].tasks, r)]
    BY DEF page
  <2>7. \A k \in 1..Len(q) : new[k] = IF k = i THEN [priority |-> q[k].priority, pushed |-> q[k].pushed + 1,
                                                      tasks |-> Append(q[k].tasks, r)]
                                                ELSE q[k]
    BY <2>5, <2>6
  <2> QED
    BY <1>2, <2>1, <2>5, <2>7 DEF i, new
<1>3. CASE PagesWithRoom(q, 0) = {}
  <2> DEFINE page == [priority |-> 0, pushed |-> 1, tasks |-> <<r>>]
             I == {i \in DOMAIN q : q[i].priority < 0} \cup {Len(q) + 1}
             new == EnqueueTask(q, r, 0)
  <2>1. {i \in DOMAIN q : q[i].priority < 0} = {}
    BY <1>1 DEF PagesOK
  <2>2. I \in SUBSET Nat /\ I # {} /\ \A k \in I : k = Len(q) + 1
    BY <1>1, <2>1
  <2>3. NewPagePlace(q, 0) = Len(q) + 1
    <3>1. Min(I) \in I
      BY <2>2, MinOfPositions
    <3> QED
      BY <2>2, <3>1 DEF NewPagePlace
  <2>4. new = InsertAt(q, Len(q) + 1, page)
    BY <1>3, <2>3 DEF EnqueueTask
  <2>5. page \in Page
    BY DEF Page
  <2> HIDE DEF page, new
  <2>6. Len(q) + 1 \in 1..(Len(q) + 1)
    BY <1>1
  <2>7. /\ new \in Seq(Page) /\ Len(new) = Len(q) + 1
        /\ \A i \in 1..(Len(q) + 1) :
              new[i] = IF i < Len(q) + 1 THEN q[i] ELSE IF i = Len(q) + 1 THEN page ELSE q[i - 1]
    BY <1>1, <2>4, <2>5, <2>6, InsertAtForm
  <2>8. new[Len(q) + 1] = page /\ \A k \in 1..Len(q) : new[k] = q[k]
    BY <1>1, <2>6, <2>7
  <2> QED
    BY <1>3, <2>7, <2>8 DEF page, new
<1> QED
  BY <1>2, <1>3

LEMMA LightenCommutes ==
  ASSUME NEW q, PagesOK(q), Len(q) > 0, q[1].tasks # <<>>, NEW r \in Tasks
  PROVE  Lighten(EnqueueTask(q, r, 0)) = EnqueueTask(Lighten(q), r, 0)
<1> DEFINE light == Lighten(q)
           big == EnqueueTask(q, r, 0)
           a == Lighten(big)
           b == EnqueueTask(light, r, 0)
           i == Min(PagesWithRoom(q, 0))
           last == [priority |-> 0, pushed |-> 1, tasks |-> <<r>>]
           page == [priority |-> q[1].priority, pushed |-> q[1].pushed, tasks |-> Tail(q[1].tasks)]
           pushed(g) == [priority |-> g.priority, pushed |-> g.pushed + 1, tasks |-> Append(g.tasks, r)]
           popped(g) == [priority |-> g.priority, pushed |-> g.pushed, tasks |-> Tail(g.tasks)]
<1>1. /\ q \in Seq(Page) /\ Len(q) \in Nat /\ DOMAIN q = 1..Len(q) /\ 1 \in 1..Len(q)
      /\ \A k \in 1..Len(q) : q[k] \in Page /\ q[k].tasks \in Seq(Tasks)
  BY PageFacts DEF PagesOK
<1>2. /\ light \in Seq(Page) /\ Len(light) = Len(q) /\ light[1] = popped(q[1])
      /\ \A k \in 1..Len(q) : k # 1 => light[k] = q[k]
  BY <1>1, LightenForm
<1>3. PagesOK(light)
  BY LightenTurns DEF Turns
<1> HIDE DEF light
<1>4. PagesWithRoom(light, 0) = PagesWithRoom(q, 0)
  <2>1. \A k \in 1..Len(q) : light[k].priority = q[k].priority /\ light[k].pushed = q[k].pushed
    BY <1>2
  <2>2. DOMAIN light = 1..Len(q)
    BY <1>2
  <2> QED
    BY <1>1, <2>1, <2>2 DEF PagesWithRoom
<1>5. /\ big \in Seq(Page)
      /\ \/ /\ PagesWithRoom(q, 0) # {} /\ i \in 1..Len(q) /\ Len(big) = Len(q)
            /\ \A k \in 1..Len(q) : big[k] = IF k = i THEN pushed(q[k]) ELSE q[k]
         \/ /\ PagesWithRoom(q, 0) = {} /\ Len(big) = Len(q) + 1
            /\ big[Len(q) + 1] = last /\ \A k \in 1..Len(q) : big[k] = q[k]
  BY EnqueueZeroForm
<1>6. /\ b \in Seq(Page)
      /\ \/ /\ PagesWithRoom(q, 0) # {} /\ Len(b) = Len(q)
            /\ \A k \in 1..Len(q) : b[k] = IF k = i THEN pushed(light[k]) ELSE light[k]
         \/ /\ PagesWithRoom(q, 0) = {} /\ Len(b) = Len(q) + 1
            /\ b[Len(q) + 1] = last /\ \A k \in 1..Len(q) : b[k] = light[k]
  <2>1. LET new == EnqueueTask(light, r, 0) IN
         /\ new \in Seq(Page)
         /\ \/ /\ PagesWithRoom(light, 0) # {} /\ Min(PagesWithRoom(light, 0)) \in 1..Len(light) /\ Len(new) = Len(light)
               /\ \A k \in 1..Len(light) :
                    new[k] = IF k = Min(PagesWithRoom(light, 0))
                             THEN [priority |-> light[k].priority, pushed |-> light[k].pushed + 1,
                                   tasks |-> Append(light[k].tasks, r)]
                             ELSE light[k]
            \/ /\ PagesWithRoom(light, 0) = {} /\ Len(new) = Len(light) + 1
               /\ new[Len(light) + 1] = [priority |-> 0, pushed |-> 1, tasks |-> <<r>>]
               /\ \A k \in 1..Len(light) : new[k] = light[k]
    BY <1>3, EnqueueZeroForm
  <2> QED
    BY <1>2, <1>4, <2>1
<1> HIDE DEF big, i, last, b
<1>7. Append(q[1].tasks, r) # <<>> /\ Tail(Append(q[1].tasks, r)) = Append(Tail(q[1].tasks), r)
  BY <1>1, AppendProperties, HeadTailAppend
<1>8. Len(big) > 0 /\ big[1].tasks # <<>>
  <2>1. CASE 1 = i /\ Len(big) = Len(q) /\ big[1] = pushed(q[1])
    BY <1>1, <1>7, <2>1
  <2>2. CASE big[1] = q[1] /\ Len(big) \in {Len(q), Len(q) + 1}
    BY <1>1, <2>2
  <2> QED
    BY <1>1, <1>5, <2>1, <2>2
<1>9. /\ a \in Seq(Page) /\ Len(a) = Len(big) /\ a[1] = popped(big[1])
      /\ \A k \in 1..Len(big) : k # 1 => a[k] = big[k]
  BY <1>5, <1>8, LightenForm
<1> HIDE DEF a
<1>10. popped(pushed(q[1])) = pushed(popped(q[1]))
  BY <1>7
<1>11. Len(a) = Len(b) /\ \A k \in 1..Len(a) : a[k] = b[k]
  <2>1. CASE PagesWithRoom(q, 0) # {}
    <3>1. Len(a) = Len(q) /\ Len(b) = Len(q)
      BY <1>5, <1>6, <1>9, <2>1
    <3>2. a[1] = b[1]
      <4>1. CASE i = 1
        <5>1. big[1] = pushed(q[1]) /\ b[1] = pushed(light[1])
          BY <1>1, <1>5, <1>6, <2>1, <4>1
        <5> HIDE DEF pushed, popped
        <5> QED
          BY <1>2, <1>9, <1>10, <5>1
      <4>2. CASE i # 1
        <5>1. big[1] = q[1] /\ b[1] = light[1]
          BY <1>1, <1>5, <1>6, <2>1, <4>2
        <5> HIDE DEF pushed, popped
        <5> QED
          BY <1>2, <1>9, <5>1
      <4> QED
        BY <4>1, <4>2
    <3>3. ASSUME NEW k \in 1..Len(q), k # 1 PROVE a[k] = b[k]
      <4>1. a[k] = big[k] /\ light[k] = q[k]
        BY <1>2, <1>5, <1>9, <2>1, <3>3
      <4>2. b[k] = IF k = i THEN pushed(light[k]) ELSE light[k]
        BY <1>6, <2>1
      <4>3. big[k] = IF k = i THEN pushed(q[k]) ELSE q[k]
        BY <1>5, <2>1
      <4> QED
        BY <4>1, <4>2, <4>3
    <3> QED
      BY <3>1, <3>2, <3>3
  <2>2. CASE PagesWithRoom(q, 0) = {}
    <3>1. Len(a) = Len(q) + 1 /\ Len(b) = Len(q) + 1
      BY <1>5, <1>6, <1>9, <2>2
    <3>2. a[1] = b[1]
      <4>1. big[1] = q[1] /\ b[1] = light[1]
        BY <1>1, <1>5, <1>6, <2>2
      <4> HIDE DEF pushed, popped
      <4> QED
        BY <1>2, <1>9, <4>1
    <3>3. ASSUME NEW k \in 1..Len(q), k # 1 PROVE a[k] = b[k]
      <4>1. big[k] = q[k] /\ Len(big) = Len(q) + 1
        BY <1>5, <2>2
      <4>2. b[k] = light[k]
        BY <1>6, <2>2
      <4>3. light[k] = q[k]
        BY <1>2, <3>3
      <4>4. k \in 1..Len(big)
        BY <1>1, <4>1
      <4>5. a[k] = big[k]
        BY <1>9, <3>3, <4>4
      <4> QED
        BY <4>1, <4>2, <4>3, <4>5
    <3>4. a[Len(q) + 1] = b[Len(q) + 1]
      BY <1>1, <1>5, <1>6, <1>9, <2>2
    <3>5. ASSUME NEW k \in 1..(Len(q) + 1) PROVE k = 1 \/ (k \in 1..Len(q) /\ k # 1) \/ k = Len(q) + 1
      BY <1>1
    <3> QED
      BY <3>1, <3>2, <3>3, <3>4, <3>5
  <2> QED
    BY <2>1, <2>2
<1>12. a = b
  BY <1>6, <1>9, <1>11, SeqEqual
<1> QED
  BY <1>12 DEF a, b, big, light

(* tryToStartMoreThreads() passes the first runnable on through the queue: *)
(* it is put there once more, and then taken from its old place.           *)
LEMMA PassTurns ==
  ASSUME NEW q, PagesOK(q), NoneEmpty(q), q # <<>>
  PROVE  LET new == Pop(EnqueueTask(q, Head(q[1].tasks), 0), 1) IN
         Turns(q, new, {}, {}) /\ NoneEmpty(new)
<1> DEFINE r == Head(q[1].tasks)
           light == Lighten(q)
           big == EnqueueTask(light, r, 0)
<1>1. q \in Seq(Page) /\ Len(q) \in Nat /\ DOMAIN q = 1..Len(q) /\ Len(q) > 0 /\ q[1].tasks # <<>>
  <2>1. q \in Seq(Page) /\ Len(q) \in Nat /\ DOMAIN q = 1..Len(q)
    BY PageFacts DEF PagesOK
  <2>2. Len(q) > 0
    BY <2>1
  <2> QED
    BY <2>1, <2>2 DEF NoneEmpty
<1>2. RestNotEmpty(q)
  BY DEF RestNotEmpty, NoneEmpty
<1>3. /\ PagesOK(light) /\ InPages(light) = InPages(q) \ {r} /\ RestNotEmpty(light)
      /\ r \in Tasks /\ r \in InPages(q)
  BY <1>1, <1>2, LightenTurns DEF Turns
<1>4. Len(light) = Len(q)
  BY <1>1, LightenForm
<1>5. Pop(EnqueueTask(q, r, 0), 1) = Trim(big)
  BY <1>1, <1>3, PopIsTrimmed, LightenCommutes
<1> HIDE DEF r, light
<1>6. PagesOK(big) /\ InPages(big) = InPages(q)
  <2>1. Turns(light, big, {r}, {})
    BY <1>3, EnqueueTurns
  <2> QED
    BY <1>3, <2>1 DEF Turns
<1>7. Len(big) > 0 /\ RestNotEmpty(big)
  <2>1. light \in Seq(Page) /\ DOMAIN light = 1..Len(light) /\ Len(light) \in Nat
        /\ \A k \in 1..Len(light) : light[k].tasks \in Seq(Tasks)
    BY <1>3, PageFacts DEF PagesOK
  <2>7. LET new == EnqueueTask(light, r, 0) IN
         /\ new \in Seq(Page)
         /\ \/ /\ PagesWithRoom(light, 0) # {} /\ Min(PagesWithRoom(light, 0)) \in 1..Len(light) /\ Len(new) = Len(light)
               /\ \A k \in 1..Len(light) :
                    new[k] = IF k = Min(PagesWithRoom(light, 0))
                             THEN [priority |-> light[k].priority, pushed |-> light[k].pushed + 1,
                                   tasks |-> Append(light[k].tasks, r)]
                             ELSE light[k]
            \/ /\ PagesWithRoom(light, 0) = {} /\ Len(new) = Len(light) + 1
               /\ new[Len(light) + 1] = [priority |-> 0, pushed |-> 1, tasks |-> <<r>>]
               /\ \A k \in 1..Len(light) : new[k] = light[k]
    BY <1>3, EnqueueZeroForm
  <2>8. /\ big \in Seq(Page)
        /\ \/ /\ Len(big) = Len(light)
              /\ \A k \in 1..Len(light) :
                    big[k] = IF k = Min(PagesWithRoom(light, 0))
                             THEN [priority |-> light[k].priority, pushed |-> light[k].pushed + 1,
                                   tasks |-> Append(light[k].tasks, r)]
                             ELSE light[k]
           \/ /\ Len(big) = Len(light) + 1
              /\ big[Len(light) + 1] = [priority |-> 0, pushed |-> 1, tasks |-> <<r>>]
              /\ \A k \in 1..Len(light) : big[k] = light[k]
    BY <2>7
  <2> HIDE DEF big
  <2>2. /\ big \in Seq(Page)
        /\ \/ /\ Len(big) = Len(light)
              /\ \A k \in 1..Len(light) : big[k].tasks = Append(light[k].tasks, r) \/ big[k] = light[k]
           \/ /\ Len(big) = Len(light) + 1
              /\ big[Len(light) + 1].tasks = <<r>>
              /\ \A k \in 1..Len(light) : big[k] = light[k]
    <3>1. CASE /\ Len(big) = Len(light)
               /\ \A k \in 1..Len(light) :
                    big[k] = IF k = Min(PagesWithRoom(light, 0))
                             THEN [priority |-> light[k].priority, pushed |-> light[k].pushed + 1,
                                   tasks |-> Append(light[k].tasks, r)]
                             ELSE light[k]
      <4>1. ASSUME NEW k \in 1..Len(light) PROVE big[k].tasks = Append(light[k].tasks, r) \/ big[k] = light[k]
        <5> DEFINE page == [priority |-> light[k].priority, pushed |-> light[k].pushed + 1,
                            tasks |-> Append(light[k].tasks, r)]
        <5>1. page.tasks = Append(light[k].tasks, r)
          OBVIOUS
        <5>2. big[k] = page \/ big[k] = light[k]
          BY <3>1
        <5> HIDE DEF page
        <5> QED
          BY <5>1, <5>2
      <4> QED
        BY <2>8, <3>1, <4>1
    <3>2. CASE /\ Len(big) = Len(light) + 1
               /\ big[Len(light) + 1] = [priority |-> 0, pushed |-> 1, tasks |-> <<r>>]
               /\ \A k \in 1..Len(light) : big[k] = light[k]
      <4>1. big[Len(light) + 1].tasks = <<r>>
        BY <3>2
      <4> QED
        BY <2>8, <3>2, <4>1
    <3> QED
      BY <2>8, <3>1, <3>2
  <2>3. DOMAIN big = 1..Len(big) /\ <<r>> # <<>> /\ \A k \in 1..Len(light) : Append(light[k].tasks, r) # <<>>
    <3>1. \A k \in 1..Len(light) : Append(light[k].tasks, r) # <<>>
      BY <1>3, <2>1, AppendFacts
    <3>2. <<r>> # <<>>
      OBVIOUS
    <3>3. DOMAIN big = 1..Len(big)
      BY <2>2
    <3> QED
      BY <3>1, <3>2, <3>3
  <2>4. \A k \in 1..Len(light) : k # 1 => big[k].tasks # <<>>
    BY <1>3, <2>1, <2>2, <2>3 DEF RestNotEmpty
  <2>5. CASE Len(big) = Len(light)
    BY <1>1, <1>4, <2>3, <2>4, <2>5 DEF RestNotEmpty
  <2>6. CASE Len(big) = Len(light) + 1 /\ big[Len(light) + 1].tasks = <<r>>
    <3>1. ASSUME NEW k \in 1..Len(big), k # 1 PROVE big[k].tasks # <<>>
      <4>1. k \in 1..Len(light) \/ k = Len(light) + 1
        BY <2>1, <2>6
      <4> QED
        BY <2>3, <2>4, <2>6, <3>1, <4>1
    <3>2. Len(big) > 0
      BY <2>1, <2>6
    <3> QED
      BY <2>3, <3>1, <3>2 DEF RestNotEmpty
  <2> QED
    BY <2>1, <2>2, <2>5, <2>6
<1> HIDE DEF big
<1>8. Turns(big, Trim(big), {}, {}) /\ NoneEmpty(Trim(big))
  BY <1>6, <1>7, TrimTurns
<1> QED
  BY <1>5, <1>6, <1>8 DEF Turns, r

(* tryTake() takes a runnable from the middle of a page.                   *)
LEMMA TakeTurns ==
  ASSUME NEW q, PagesOK(q), NoneEmpty(q), NEW i \in 1..Len(q), NEW r, Contains(q[i].tasks, r)
  PROVE  LET rest == RemoveFirst(q[i].tasks, r)
             new == IF rest = <<>> THEN RemoveAt(q, i) ELSE [q EXCEPT ![i].tasks = rest] IN
         Turns(q, new, {}, {r}) /\ NoneEmpty(new) /\ r \in InPages(q)
<1> DEFINE rest == RemoveFirst(q[i].tasks, r)
           page == [priority |-> q[i].priority, pushed |-> q[i].pushed, tasks |-> rest]
           new == [q EXCEPT ![i].tasks = rest]
<1>1. /\ q \in Seq(Page) /\ Len(q) \in Nat /\ DOMAIN q = 1..Len(q)
      /\ q[i] \in Page /\ q[i].tasks \in Seq(Tasks) /\ q[i].priority \in Int /\ q[i].pushed \in Nat
      /\ \A x : x \in InPages(q) <=> \E k \in 1..Len(q) : x \in ToSet(q[k].tasks)
  BY PageFacts DEF PagesOK
<1>2. NoRepeat(q[i].tasks) /\ r \in ToSet(q[i].tasks)
  BY <1>1, ListFacts DEF PagesOK, Distinct
<1>3. rest \in Seq(Tasks) /\ NoRepeat(rest) /\ ToSet(rest) = ToSet(q[i].tasks) \ {r}
  BY <1>1, <1>2, RemoveFirstFacts
<1>4. r \in InPages(q)
  BY <1>1, <1>2
<1> HIDE DEF rest
<1>5. CASE rest = <<>>
  <2>1. ToSet(q[i].tasks) = {r}
    <3>1. ToSet(rest) = {}
      BY <1>5 DEF ToSet
    <3> QED
      BY <1>2, <1>3, <3>1
  <2>2. /\ PagesOK(RemoveAt(q, i)) /\ InPages(RemoveAt(q, i)) = InPages(q) \ ToSet(q[i].tasks)
        /\ NoneEmpty(RemoveAt(q, i))
    <3>1. \A k \in 1..Len(q) : k # i => q[k].tasks # <<>>
      BY <1>1 DEF NoneEmpty
    <3> QED
      BY <3>1, RemovePage
  <2> QED
    BY <1>4, <1>5, <2>1, <2>2 DEF Turns, rest
<1>6. CASE rest # <<>>
  <2>1. new = [q EXCEPT ![i] = page]
    <3>1. [q[i] EXCEPT !.tasks = rest] = page
      BY <1>1, PageForms
    <3> QED
      BY <3>1
  <2>2. page \in Page /\ page.priority = q[i].priority /\ page.tasks = rest
    BY <1>1, <1>3 DEF Page
  <2> HIDE DEF page, new
  <2>3. /\ new \in Seq(Page) /\ Len(new) = Len(q) /\ new[i] = page
        /\ \A k \in 1..Len(q) : k # i => new[k] = q[k]
    BY <1>1, <2>1, <2>2, ExceptSeq
  <2>4. NoRepeat(page.tasks) /\ ToSet(page.tasks) \cap InPages(q) \subseteq ToSet(q[i].tasks)
    BY <1>3, <2>2
  <2>5. PagesOK(new) /\ InPages(new) = (InPages(q) \ ToSet(q[i].tasks)) \cup ToSet(page.tasks)
    BY <2>2, <2>3, <2>4, ReplacePage
  <2>6. InPages(new) = (InPages(q) \ {r}) \cup {}
    <3>1. ToSet(q[i].tasks) \subseteq InPages(q)
      BY <1>1
    <3> QED
      BY <1>2, <1>3, <2>2, <2>5, <3>1
  <2>7. NoneEmpty(new)
    <3>1. DOMAIN new = 1..Len(q)
      BY <2>3
    <3> QED
      BY <1>1, <1>6, <2>2, <2>3, <3>1 DEF NoneEmpty
  <2> QED
    BY <1>4, <1>6, <2>5, <2>6, <2>7 DEF Turns, rest, new
<1> QED
  BY <1>5, <1>6

(* clear() takes the last page.                                            *)
LEMMA FrontTurns ==
  ASSUME NEW q, PagesOK(q), NoneEmpty(q), q # <<>>
  PROVE  /\ Turns(q, Front(q), {}, ToSet(Last(q).tasks)) /\ NoneEmpty(Front(q))
         /\ ToSet(Last(q).tasks) \subseteq InPages(q)
         /\ \A r : Contains(Last(q).tasks, r) <=> r \in ToSet(Last(q).tasks)
<1>1. /\ q \in Seq(Page) /\ Len(q) \in Nat /\ DOMAIN q = 1..Len(q) /\ Len(q) \in 1..Len(q)
      /\ q[Len(q)].tasks \in Seq(Tasks)
      /\ \A x : x \in InPages(q) <=> \E k \in 1..Len(q) : x \in ToSet(q[k].tasks)
  <2>1. q \in Seq(Page) /\ Len(q) \in Nat /\ DOMAIN q = 1..Len(q)
    BY PageFacts DEF PagesOK
  <2>2. Len(q) \in 1..Len(q)
    BY <2>1
  <2> QED
    BY <2>1, <2>2, PageFacts
<1>2. RemoveAt(q, Len(q)) = Front(q)
  <2>1. SubSeq(q, Len(q) + 1, Len(q)) = <<>>
    BY <1>1, SubSeqEmpty
  <2>2. SubSeq(q, 1, Len(q) - 1) \in Seq(Page)
    BY <1>1
  <2> QED
    BY <2>1, <2>2, ConcatEmptySeq DEF RemoveAt, Front
<1>3. /\ PagesOK(RemoveAt(q, Len(q))) /\ InPages(RemoveAt(q, Len(q))) = InPages(q) \ ToSet(q[Len(q)].tasks)
      /\ NoneEmpty(RemoveAt(q, Len(q)))
  <2>1. \A k \in 1..Len(q) : k # Len(q) => q[k].tasks # <<>>
    BY <1>1 DEF NoneEmpty
  <2> QED
    BY <1>1, <2>1, RemovePage
<1>4. Last(q) = q[Len(q)]
  BY DEF Last
<1>5. \A r : Contains(q[Len(q)].tasks, r) <=> r \in ToSet(q[Len(q)].tasks)
  BY <1>1, ListFacts
<1> QED
  BY <1>1, <1>2, <1>3, <1>4, <1>5 DEF Turns

-----------------------------------------------------------------------------
(* The runnables, where no priority is negative. With one that is,         *)
(* tryToStartMoreThreads() pops from another page than the one it took its *)
(* runnable from, and a runnable is lost.                                  *)

NoNegativePriority == \A p \in Priorities : p >= 0

Holds(w, r) == w \in Running /\ job[w] = r

TasksInv ==
    /\ PagesOK(queue) /\ NoneEmpty(queue)
    /\ job \in [Workers -> Tasks \cup {NoTask}] /\ task \in [Tasks -> TaskStates]
    /\ \A w \in Running : job[w] \in Tasks /\ job[w] \notin InPages(queue)
    /\ \A v, w \in Running : job[v] = job[w] => v = w
    /\ \A r \in Tasks : task[r] = "owned" <=> r \in InPages(queue) \/ \E w \in Workers : Holds(w, r)

(* Runnables come to the queue or are taken from it; nobody's job changes. *)
LEMMA QueueStep ==
  ASSUME TasksInv, NEW added, added \subseteq Tasks, NEW taken, taken \subseteq InPages(queue),
         Turns(queue, queue', added, taken), NoneEmpty(queue'),
         \A r \in added : task[r] = "new",
         task' = [r \in Tasks |-> IF r \in added THEN "owned" ELSE IF r \in taken THEN "gone" ELSE task[r]],
         job' \in [Workers -> Tasks \cup {NoTask}], Running' = Running,
         \A w \in Running : job'[w] = job[w]
  PROVE  TasksInv'
<1>1. \A r \in added : r \notin InPages(queue) /\ \A w \in Workers : ~Holds(w, r)
  BY DEF TasksInv
<1>2. \A r : r \in InPages(queue') <=> (r \in InPages(queue) /\ r \notin taken) \/ r \in added
  BY DEF Turns
<1>3. \A w \in Workers, r \in Tasks : Holds(w, r)' <=> Holds(w, r)
  BY DEF Holds
<1>4. \A w \in Running : w \in Workers
  BY DEF Running
<1>5. \A w \in Running' : job'[w] \in Tasks /\ job'[w] \notin InPages(queue')
  BY <1>1, <1>2, <1>4 DEF TasksInv, Holds
<1>6. \A v, w \in Running' : job'[v] = job'[w] => v = w
  BY DEF TasksInv
<1>7. task' \in [Tasks -> TaskStates]
  BY DEF TasksInv, TaskStates
<1>8. ASSUME NEW r \in Tasks
      PROVE  task'[r] = "owned" <=> r \in InPages(queue') \/ \E w \in Workers : Holds(w, r)'
  <2>1. r \in taken => \A w \in Workers : ~Holds(w, r)
    BY DEF TasksInv, Holds
  <2>2. task[r] = "owned" <=> r \in InPages(queue) \/ \E w \in Workers : Holds(w, r)
    BY DEF TasksInv
  <2>3. task'[r] = IF r \in added THEN "owned" ELSE IF r \in taken THEN "gone" ELSE task[r]
    OBVIOUS
  <2> QED
    BY <1>1, <1>2, <1>3, <2>1, <2>2, <2>3
<1> QED
  BY <1>5, <1>6, <1>7, <1>8 DEF TasksInv, Turns

(* Worker w gets r, from the queue or from a caller; what it ran is gone.  *)
LEMMA JobStep ==
  ASSUME TasksInv, NEW w \in Workers, NEW r \in Tasks,
         r \in InPages(queue) \/ task[r] = "new",
         Turns(queue, queue', {}, {r}), NoneEmpty(queue'),
         task' = [x \in Tasks |-> IF x = r THEN "owned" ELSE IF Holds(w, x) THEN "gone" ELSE task[x]],
         job' = [job EXCEPT ![w] = r], Running' = Running \cup {w}
  PROVE  TasksInv'
<1>1. \A v \in Workers : ~Holds(v, r)
  BY DEF TasksInv, Holds
<1>2. \A x : x \in InPages(queue') <=> x \in InPages(queue) /\ x # r
  BY DEF Turns
<1>3. \A v \in Running' : v \in Workers
  BY DEF Running
<1>4. \A v \in Workers : job'[v] = IF v = w THEN r ELSE job[v]
  BY DEF TasksInv
<1>5. \A v \in Running' : job'[v] \in Tasks /\ job'[v] \notin InPages(queue')
  BY <1>2, <1>3, <1>4 DEF TasksInv
<1>6. ASSUME NEW u \in Running', NEW v \in Running', job'[u] = job'[v] PROVE u = v
  <2>1. \A x \in Running' : x # w => x \in Running /\ job'[x] # r
    BY <1>1, <1>3, <1>4 DEF Holds
  <2> QED
    BY <1>3, <1>4, <1>6, <2>1 DEF TasksInv
<1>7. task' \in [Tasks -> TaskStates] /\ job' \in [Workers -> Tasks \cup {NoTask}]
  BY DEF TasksInv, TaskStates
<1>8. ASSUME NEW x \in Tasks
      PROVE  task'[x] = "owned" <=> x \in InPages(queue') \/ \E v \in Workers : Holds(v, x)'
  <2>1. CASE x = r
    <3>1. Holds(w, r)'
      BY <1>4 DEF Holds
    <3> QED
      BY <2>1, <3>1
  <2>2. CASE x # r /\ Holds(w, x)
    <3>1. x \notin InPages(queue)
      BY <2>2 DEF TasksInv, Holds
    <3>2. \A v \in Workers : v # w => ~Holds(v, x)
      BY <2>2 DEF TasksInv, Holds
    <3>3. \A v \in Workers : ~Holds(v, x)'
      BY <1>4, <2>2, <3>2 DEF Holds
    <3> QED
      BY <1>2, <2>2, <3>1, <3>3
  <2>3. CASE x # r /\ ~Holds(w, x)
    <3>1. \A v \in Workers : Holds(v, x)' <=> Holds(v, x)
      BY <1>4, <2>3 DEF Holds
    <3>2. task[x] = "owned" <=> x \in InPages(queue) \/ \E v \in Workers : Holds(v, x)
      BY DEF TasksInv
    <3>3. task'[x] = task[x]
      BY <2>3
    <3> QED
      BY <1>2, <2>3, <3>1, <3>2, <3>3
  <2> QED
    BY <2>1, <2>2, <2>3
<1> QED
  BY <1>5, <1>6, <1>7, <1>8 DEF TasksInv, Turns

(* Worker w goes idle; what it ran is gone.                                *)
LEMMA IdleStep ==
  ASSUME TasksInv, NEW w \in Workers, queue' = queue, job' = [job EXCEPT ![w] = NoTask],
         Running' = Running \ {w},
         task' = [x \in Tasks |-> IF Holds(w, x) THEN "gone" ELSE task[x]]
  PROVE  TasksInv'
<1>1. \A v \in Running' : v \in Workers /\ v \in Running /\ v # w /\ job'[v] = job[v]
  BY DEF Running, TasksInv
<1>2. task' \in [Tasks -> TaskStates] /\ job' \in [Workers -> Tasks \cup {NoTask}]
  BY DEF TasksInv, TaskStates
<1>3. \A x \in Tasks, v \in Workers : Holds(v, x)' <=> Holds(v, x) /\ v # w
  BY <1>1 DEF Holds
<1>4. ASSUME NEW x \in Tasks
      PROVE  task'[x] = "owned" <=> x \in InPages(queue') \/ \E v \in Workers : Holds(v, x)'
  <2>1. CASE Holds(w, x)
    <3>1. x \notin InPages(queue) /\ \A v \in Workers : v # w => ~Holds(v, x)
      BY <2>1 DEF TasksInv, Holds
    <3> QED
      BY <1>3, <2>1, <3>1
  <2>2. CASE ~Holds(w, x)
    <3>1. task[x] = "owned" <=> x \in InPages(queue) \/ \E v \in Workers : Holds(v, x)
      BY DEF TasksInv
    <3>2. \A v \in Workers : Holds(v, x)' <=> Holds(v, x)
      BY <1>3, <2>2
    <3> QED
      BY <2>2, <3>1, <3>2
  <2> QED
    BY <2>1, <2>2
<1>5. /\ \A v \in Running' : job'[v] \in Tasks /\ job'[v] \notin InPages(queue')
      /\ \A u, v \in Running' : job'[u] = job'[v] => u = v
  BY <1>1 DEF TasksInv
<1> QED
  BY <1>2, <1>4, <1>5 DEF TasksInv

-----------------------------------------------------------------------------
(* What tryStart() and a worker that looks for work do to the two kinds of *)
(* workers that the queue is about: those that run something, and those on *)
(* their way to it.                                                        *)

(* How many threads are busy, in the counts of the lists.                  *)
LEMMA ListLengths ==
  ASSUME ThreadsInv
  PROVE  /\ Len(waitingThreads) \in Nat /\ Len(expiredThreads) \in Nat
         /\ Cardinality(allThreads) \in Nat /\ IsFiniteSet(allThreads)
         /\ \A w \in Workers : Contains(waitingThreads, w) <=> w \in Waiting
  BY AllFinite, ListFacts DEF ThreadsInv, ListTypes, Waiting

LEMMA DispatchEffect ==
  ASSUME ThreadsInv, NEW r, NEW given, NEW recycled, Dispatch(r, given, recycled)
  PROVE  /\ Busy' = Busy + 1
         /\ \/ /\ queue' = recycled /\ Running' = Running /\ job' = job
               /\ \E w \in Workers \ OnTheWay : OnTheWay' = OnTheWay \cup {w}
            \/ /\ queue' = given /\ OnTheWay' = OnTheWay
               /\ \E w \in Workers \ Running : Running' = Running \cup {w} /\ job' = [job EXCEPT ![w] = r]
<1>1. /\ allThreads \subseteq Workers
      /\ waitingThreads \in Seq(Workers) /\ NoRepeat(waitingThreads)
      /\ expiredThreads \in Seq(Workers) /\ NoRepeat(expiredThreads)
      /\ thread \in [Workers -> ThreadStates]
      /\ \A w \in Workers : ThreadFits(w)
  BY DEF ThreadsInv, ListTypes
<1>2. /\ Len(waitingThreads) \in Nat /\ Len(expiredThreads) \in Nat
      /\ Cardinality(allThreads) \in Nat /\ IsFiniteSet(allThreads)
      /\ \A w \in Workers : Contains(waitingThreads, w) <=> w \in Waiting
  BY ListLengths
<1>3. CASE waitingThreads # <<>> /\ Recycle /\ queue' = recycled
  <2> DEFINE w == Head(waitingThreads)
  <2>1. w \in Waiting /\ w \in Workers /\ waitingThreads' \in Seq(Workers) /\ Waiting' = Waiting \ {w}
        /\ Len(waitingThreads') = Len(waitingThreads) - 1
    <3>1. w \in Waiting /\ w \in Workers /\ waitingThreads' \in Seq(Workers) /\ Waiting' = Waiting \ {w}
      BY <1>1, <1>3, TailFacts, ListFacts DEF Recycle, Waiting
    <3>2. Len(waitingThreads') = Len(waitingThreads) - 1
      BY <1>1, <1>3, HeadTailProperties DEF Recycle
    <3> QED
      BY <3>1, <3>2
  <2>2. \A v \in Workers : Contains(waitingThreads', v) <=> v \in Waiting /\ v # w
    BY <2>1, ListFacts DEF Waiting
  <2> HIDE DEF w
  <2>3. /\ thread' = [thread EXCEPT ![w] = "awake"]
        /\ UNCHANGED <<allThreads, expiredThreads, job, activeThreads>>
    BY <1>3 DEF Recycle, w
  <2>4. thread[w] \in {"asleep", "awake"} /\ w \in allThreads /\ w \notin OnTheWay
    BY <1>1, <1>2, <2>1 DEF ThreadFits, OnTheWay
  <2>5. Running' = Running
    BY <1>1, <2>1, <2>3, <2>4 DEF Running
  <2>6. OnTheWay' = OnTheWay \cup {w}
    BY <1>1, <1>2, <2>1, <2>2, <2>3, <2>4 DEF OnTheWay
  <2>7. Busy' = Busy + 1
    BY <1>2, <2>1, <2>3 DEF Busy
  <2> QED
    BY <1>3, <2>1, <2>3, <2>4, <2>5, <2>6, <2>7
<1>4. CASE expiredThreads # <<>> /\ Restart(r) /\ queue' = given
  <2> DEFINE w == Head(expiredThreads)
  <2>1. w \in Workers /\ Len(expiredThreads') = Len(expiredThreads) - 1
    BY <1>1, <1>4, HeadTailProperties DEF Restart
  <2>2. /\ thread[w] = "finished" /\ thread' = [thread EXCEPT ![w] = "running"]
        /\ job' = [job EXCEPT ![w] = r] /\ UNCHANGED <<allThreads, waitingThreads>>
    BY <1>4 DEF Restart, Give
  <2> HIDE DEF w
  <2>3. Running' = Running \cup {w} /\ w \notin Running
    BY <1>1, <2>1, <2>2 DEF Running
  <2>4. OnTheWay' = OnTheWay
    BY <1>1, <2>1, <2>2 DEF OnTheWay
  <2>5. Busy' = Busy + 1
    BY <1>2, <2>1, <2>2 DEF Busy
  <2> QED
    BY <1>4, <2>1, <2>2, <2>3, <2>4, <2>5
<1>5. CASE StartThread(r) /\ queue' = given
  <2>1. PICK w \in Workers : /\ thread[w] = "none" /\ Give(w, r)
                             /\ allThreads' = allThreads \cup {w}
                             /\ UNCHANGED <<waitingThreads, expiredThreads>>
    BY <1>5 DEF StartThread
  <2>2. thread' = [thread EXCEPT ![w] = "running"] /\ job' = [job EXCEPT ![w] = r]
    BY <2>1 DEF Give
  <2>3. w \notin allThreads
    BY <1>1, <2>1 DEF ThreadFits
  <2>4. Running' = Running \cup {w} /\ w \notin Running
    BY <1>1, <2>1, <2>2 DEF Running
  <2>5. OnTheWay' = OnTheWay
    BY <1>1, <2>1, <2>2 DEF OnTheWay
  <2>6. Cardinality(allThreads \cup {w}) = Cardinality(allThreads) + 1
    BY <1>2, <2>3, FS_AddElement
  <2>7. Busy' = Busy + 1
    BY <1>2, <2>1, <2>6 DEF Busy
  <2> QED
    BY <1>5, <2>2, <2>4, <2>5, <2>7
<1> QED
  BY <1>3, <1>4, <1>5 DEF Dispatch

LEMMA GoOnEffect ==
  ASSUME ThreadsInv, NEW w \in Workers, AtWork(w), NEW active, GoOn(w, active)
  PROVE  \/ /\ queue # <<>> /\ queue' = Pop(queue, 1)
            /\ job' = [job EXCEPT ![w] = Head(queue[1].tasks)]
            /\ Running' = Running \cup {w} /\ OnTheWay' = OnTheWay \ {w}
            /\ (thread[w] = "awake" => w \in OnTheWay)
            /\ Busy' = Busy
         \/ /\ TooManyThreadsActive \/ queue = <<>>
            /\ queue' = queue /\ job' = [job EXCEPT ![w] = NoTask]
            /\ Running' = Running \ {w}
            /\ Busy' = Busy - 1
<1>1. /\ allThreads \subseteq Workers
      /\ waitingThreads \in Seq(Workers) /\ expiredThreads \in Seq(Workers)
      /\ thread \in [Workers -> ThreadStates] /\ w \in allThreads /\ w \notin Waiting
  BY DEF ThreadsInv, ListTypes, AtWork
<1>2. /\ Len(waitingThreads) \in Nat /\ Len(expiredThreads) \in Nat
      /\ Cardinality(allThreads) \in Nat
      /\ (Contains(waitingThreads, w) <=> w \in Waiting)
  BY ListLengths
<1>3. CASE /\ queue # <<>>
           /\ job' = [job EXCEPT ![w] = Head(queue[1].tasks)]
           /\ queue' = Pop(queue, 1)
           /\ thread' = [thread EXCEPT ![w] = "running"]
           /\ UNCHANGED lists
  <2>1. Running' = Running \cup {w}
    BY <1>1, <1>3 DEF Running
  <2>2. OnTheWay' = OnTheWay \ {w}
    BY <1>1, <1>3 DEF OnTheWay, lists
  <2>3. thread[w] = "awake" => w \in OnTheWay
    BY <1>1, <1>2 DEF OnTheWay
  <2>4. Busy' = Busy
    BY <1>3 DEF Busy, lists
  <2> QED
    BY <1>3, <2>1, <2>2, <2>3, <2>4
<1>4. CASE /\ TooManyThreadsActive \/ queue = <<>>
           /\ job' = [job EXCEPT ![w] = NoTask]
           /\ LET deleted == w \notin allThreads
                  expires == ~deleted /\ TooManyThreadsActive
                  waits == ~deleted /\ ~TooManyThreadsActive IN
              /\ thread' = [thread EXCEPT ![w] = IF waits THEN "asleep" ELSE "leaving"]
              /\ expiredThreads' = IF expires THEN Append(expiredThreads, w) ELSE expiredThreads
              /\ waitingThreads' = IF waits THEN Append(waitingThreads, w) ELSE waitingThreads
           /\ UNCHANGED <<queue, allThreads>>
  <2>1. Running' = Running \ {w}
    BY <1>1, <1>4 DEF Running
  <2>2. Len(waitingThreads') + Len(expiredThreads') = Len(waitingThreads) + Len(expiredThreads) + 1
        /\ Len(waitingThreads') \in Nat /\ Len(expiredThreads') \in Nat
    <3>1. Len(Append(expiredThreads, w)) = Len(expiredThreads) + 1
          /\ Len(Append(waitingThreads, w)) = Len(waitingThreads) + 1
      BY <1>1, AppendProperties
    <3>2. CASE TooManyThreadsActive
      <4>1. expiredThreads' = Append(expiredThreads, w) /\ waitingThreads' = waitingThreads
        BY <1>1, <1>4, <3>2
      <4> QED
        BY <1>2, <3>1, <4>1
    <3>3. CASE ~TooManyThreadsActive
      <4>1. waitingThreads' = Append(waitingThreads, w) /\ expiredThreads' = expiredThreads
        BY <1>1, <1>4, <3>3
      <4> QED
        BY <1>2, <3>1, <4>1
    <3> QED
      BY <3>2, <3>3
  <2>3. Busy' = Busy - 1
    <3>1. allThreads' = allThreads
      BY <1>4
    <3> QED
      BY <1>2, <2>2, <3>1 DEF Busy
  <2> QED
    BY <1>4, <2>1, <2>3
<1> QED
  BY <1>3, <1>4 DEF GoOn

-----------------------------------------------------------------------------
(* Every runnable in one place.                                            *)

LEMMA Unheld ==
  ASSUME TasksInv, NEW r \in Tasks, task[r] = "new"
  PROVE  r \notin InPages(queue) /\ \A w \in Workers : ~Holds(w, r)
  BY DEF TasksInv

(* A runnable that a caller brings goes to a worker or into the queue.     *)
LEMMA StartTasks ==
  ASSUME ThreadsInv, TasksInv, NEW r \in Tasks, Accept(r), NEW p \in Int, p >= 0,
         \/ Dispatch(r, queue, EnqueueTask(queue, r, 0))
         \/ queue' = EnqueueTask(queue, r, p) /\ UNCHANGED <<lists, workers>>
  PROVE  TasksInv'
<1>1. task[r] = "new" /\ task' = [task EXCEPT ![r] = "owned"] /\ task \in [Tasks -> TaskStates]
  BY DEF Accept, TasksInv
<1>2. r \notin InPages(queue) /\ \A w \in Workers : ~Holds(w, r)
  BY <1>1, Unheld
<1>3. PagesOK(queue) /\ NoneEmpty(queue) /\ job \in [Workers -> Tasks \cup {NoTask}]
  BY DEF TasksInv
<1>4. ASSUME NEW n \in Int, n >= 0, queue' = EnqueueTask(queue, r, n), Running' = Running, job' = job
      PROVE  TasksInv'
  <2>1. Turns(queue, queue', {r}, {}) /\ NoneEmpty(queue')
    BY <1>2, <1>3, <1>4, EnqueueTurns
  <2>2. task' = [x \in Tasks |-> IF x \in {r} THEN "owned" ELSE IF x \in {} THEN "gone" ELSE task[x]]
    BY <1>1
  <2>3. \A x \in {r} : task[x] = "new"
    BY <1>1
  <2> QED
    BY <1>3, <1>4, <2>1, <2>2, <2>3, QueueStep
<1>5. ASSUME queue' = queue, NEW w \in Workers \ Running, Running' = Running \cup {w},
             job' = [job EXCEPT ![w] = r]
      PROVE  TasksInv'
  <2>1. Turns(queue, queue', {}, {r}) /\ NoneEmpty(queue')
    BY <1>2, <1>3, <1>5 DEF Turns
  <2>2. task' = [x \in Tasks |-> IF x = r THEN "owned" ELSE IF Holds(w, x) THEN "gone" ELSE task[x]]
    BY <1>1, <1>5 DEF Holds
  <2> QED
    BY <1>1, <1>5, <2>1, <2>2, JobStep
<1>6. CASE Dispatch(r, queue, EnqueueTask(queue, r, 0))
  <2>1. \/ queue' = EnqueueTask(queue, r, 0) /\ Running' = Running /\ job' = job
        \/ /\ queue' = queue
           /\ \E w \in Workers \ Running : Running' = Running \cup {w} /\ job' = [job EXCEPT ![w] = r]
    BY <1>6, DispatchEffect
  <2>2. 0 \in Int /\ 0 >= 0
    OBVIOUS
  <2> QED
    BY <1>4, <1>5, <2>1, <2>2
<1>7. CASE queue' = EnqueueTask(queue, r, p) /\ UNCHANGED <<lists, workers>>
  BY <1>4, <1>7 DEF workers, Running
<1> QED
  BY <1>6, <1>7

(* A round of tryToStartMoreThreads().                                     *)
LEMMA MoreTasks ==
  ASSUME ThreadsInv, TasksInv, TryToStartMoreThreads
  PROVE  /\ TasksInv'
         /\ Head(queue[1].tasks) \in InPages(queue)
         /\ \/ Turns(queue, queue', {}, {}) /\ \E w \in Workers \ OnTheWay : OnTheWay' = OnTheWay \cup {w}
            \/ Turns(queue, queue', {}, {Head(queue[1].tasks)}) /\ OnTheWay' = OnTheWay
<1> DEFINE r == Head(queue[1].tasks)
           again == EnqueueTask(queue, r, 0)
           moved == Len(again) > Len(queue) /\ queue[1].priority < 0
<1>1. PagesOK(queue) /\ NoneEmpty(queue) /\ queue # <<>> /\ queue \in Seq(Page)
      /\ job \in [Workers -> Tasks \cup {NoTask}] /\ task \in [Tasks -> TaskStates]
  BY DEF TasksInv, TryToStartMoreThreads, ThreadsInv, StartingMeans, MoreToStart, PagesOK
<1>2. ~moved
  <2>1. 1 \in DOMAIN queue /\ queue[1].priority \in Int
    <3>1. Len(queue) \in Nat \ {0}
      BY <1>1
    <3> QED
      BY <1>1, <3>1, PageFacts
  <2>2. queue[1].priority >= 0
    BY <1>1, <2>1 DEF PagesOK
  <2> QED
    BY <2>1, <2>2
<1>3. Dispatch(r, Pop(queue, 1), Pop(again, 1)) /\ task' = task
  <2>1. Dispatch(r, Pop(queue, 1), Pop(again, IF moved THEN 2 ELSE 1)) /\ task' = task
    BY DEF TryToStartMoreThreads
  <2> HIDE DEF r, again, moved
  <2> QED
    BY <1>2, <2>1
<1>4. /\ Turns(queue, Pop(queue, 1), {}, {r}) /\ NoneEmpty(Pop(queue, 1))
      /\ r \in Tasks /\ r \in InPages(queue)
  BY <1>1, PopTurns
<1>5. Turns(queue, Pop(again, 1), {}, {}) /\ NoneEmpty(Pop(again, 1))
  BY <1>1, PassTurns
<1>6. \/ /\ queue' = Pop(again, 1) /\ Running' = Running /\ job' = job
         /\ \E w \in Workers \ OnTheWay : OnTheWay' = OnTheWay \cup {w}
      \/ /\ queue' = Pop(queue, 1) /\ OnTheWay' = OnTheWay
         /\ \E w \in Workers \ Running : Running' = Running \cup {w} /\ job' = [job EXCEPT ![w] = r]
  <2> HIDE DEF r, again
  <2> QED
    BY <1>3, DispatchEffect
<1>7. task[r] = "owned"
  BY <1>4 DEF TasksInv
<1> HIDE DEF r, again
<1>8. ASSUME queue' = Pop(again, 1), Running' = Running, job' = job PROVE TasksInv'
  <2>1. Turns(queue, queue', {}, {}) /\ NoneEmpty(queue')
    BY <1>5, <1>8
  <2>2. task' = [x \in Tasks |-> IF x \in {} THEN "owned" ELSE IF x \in {} THEN "gone" ELSE task[x]]
    BY <1>1, <1>3
  <2> QED
    BY <1>1, <1>8, <2>1, <2>2, QueueStep
<1>9. ASSUME queue' = Pop(queue, 1), NEW w \in Workers \ Running, Running' = Running \cup {w},
             job' = [job EXCEPT ![w] = r]
      PROVE  TasksInv'
  <2>1. Turns(queue, queue', {}, {r}) /\ NoneEmpty(queue')
    BY <1>4, <1>9
  <2>2. task' = [x \in Tasks |-> IF x = r THEN "owned" ELSE IF Holds(w, x) THEN "gone" ELSE task[x]]
    BY <1>1, <1>3, <1>7, <1>9 DEF Holds
  <2> QED
    BY <1>4, <1>9, <2>1, <2>2, JobStep
<1>10. TasksInv'
  BY <1>6, <1>8, <1>9
<1>11. \/ Turns(queue, queue', {}, {}) /\ \E w \in Workers \ OnTheWay : OnTheWay' = OnTheWay \cup {w}
       \/ Turns(queue, queue', {}, {r}) /\ OnTheWay' = OnTheWay
  BY <1>4, <1>5, <1>6
<1> QED
  BY <1>4, <1>10, <1>11 DEF r

(* A worker looks for its next runnable; what it ran, if anything, is gone.*)
LEMMA GoOnTasks ==
  ASSUME ThreadsInv, TasksInv, NEW w \in Workers, AtWork(w), NEW active, GoOn(w, active),
         task' = [x \in Tasks |-> IF Holds(w, x) THEN "gone" ELSE task[x]]
  PROVE  TasksInv'
<1>1. CASE /\ queue # <<>> /\ queue' = Pop(queue, 1)
           /\ job' = [job EXCEPT ![w] = Head(queue[1].tasks)]
           /\ Running' = Running \cup {w}
  <2> DEFINE r == Head(queue[1].tasks)
  <2>1. /\ Turns(queue, queue', {}, {r}) /\ NoneEmpty(queue')
        /\ r \in Tasks /\ r \in InPages(queue)
    BY <1>1, PopTurns DEF TasksInv
  <2>2. job' = [job EXCEPT ![w] = r] /\ Running' = Running \cup {w}
    BY <1>1
  <2> HIDE DEF r
  <2>3. task[r] = "owned" /\ ~Holds(w, r)
    BY <2>1 DEF TasksInv, Holds
  <2>4. task' = [x \in Tasks |-> IF x = r THEN "owned" ELSE IF Holds(w, x) THEN "gone" ELSE task[x]]
    BY <2>1, <2>3
  <2> QED
    BY <2>1, <2>2, <2>4, JobStep
<1>2. CASE queue' = queue /\ job' = [job EXCEPT ![w] = NoTask] /\ Running' = Running \ {w}
  BY <1>2, IdleStep
<1> QED
  BY <1>1, <1>2, GoOnEffect

(* Steps in which no runnable moves.                                       *)
LEMMA NoTaskMoves ==
  ASSUME TasksInv, queue' = queue, task' = task, job' = job, Running' = Running
  PROVE  TasksInv'
<1>1. \A w \in Workers, r \in Tasks : Holds(w, r)' <=> Holds(w, r)
  BY DEF Holds
<1> QED
  BY <1>1 DEF TasksInv

LEMMA ClearTasks ==
  ASSUME TasksInv, NEW c \in Clients, Clear(c)
  PROVE  /\ TasksInv' /\ OnTheWay' = OnTheWay
         /\ \E gone \in SUBSET Tasks : Turns(queue, queue', {}, gone)
<1>1. Running' = Running /\ OnTheWay' = OnTheWay /\ job' = job
  BY DEF Clear, workers, lists, Running, OnTheWay
<1>2. CASE queue = <<>> /\ queue' = queue /\ task' = task
  <2>1. TasksInv'
    BY <1>1, <1>2, NoTaskMoves
  <2>2. Turns(queue, queue', {}, {})
    BY <1>2 DEF TasksInv, Turns
  <2> QED
    BY <1>1, <2>1, <2>2
<1>3. CASE /\ queue # <<>> /\ queue' = Front(queue)
           /\ task' = [r \in Tasks |-> IF Contains(Last(queue).tasks, r) THEN "gone" ELSE task[r]]
  <2> DEFINE gone == ToSet(Last(queue).tasks)
  <2>1. /\ Turns(queue, Front(queue), {}, gone) /\ NoneEmpty(Front(queue))
        /\ gone \subseteq InPages(queue)
        /\ \A r : Contains(Last(queue).tasks, r) <=> r \in gone
    BY <1>3, FrontTurns DEF TasksInv
  <2> HIDE DEF gone
  <2>2. Turns(queue, queue', {}, gone) /\ NoneEmpty(queue')
    BY <1>3, <2>1
  <2>3. task' = [x \in Tasks |-> IF x \in {} THEN "owned" ELSE IF x \in gone THEN "gone" ELSE task[x]]
    BY <1>3, <2>1
  <2>4. job' \in [Workers -> Tasks \cup {NoTask}] /\ \A w \in Running : job'[w] = job[w]
    BY <1>1 DEF TasksInv
  <2>5. TasksInv'
    BY <1>1, <2>1, <2>2, <2>3, <2>4, QueueStep
  <2>6. gone \in SUBSET Tasks
    <3>1. InPages(queue) \subseteq Tasks
      BY PageFacts DEF TasksInv, PagesOK
    <3> QED
      BY <2>1, <3>1
  <2> QED
    BY <1>1, <2>2, <2>5, <2>6
<1> QED
  BY <1>2, <1>3 DEF Clear

LEMMA TakeTasks ==
  ASSUME TasksInv, NEW r \in Tasks, TryTake(r)
  PROVE  TasksInv' /\ OnTheWay' = OnTheWay /\ Turns(queue, queue', {}, {r})
<1>1. Running' = Running /\ OnTheWay' = OnTheWay /\ job' = job
  BY DEF TryTake, workers, lists, Running, OnTheWay
<1>2. DOMAIN queue = 1..Len(queue) /\ PagesOK(queue) /\ NoneEmpty(queue)
  BY PageFacts DEF TasksInv, PagesOK
<1>3. PICK i \in 1..Len(queue) :
        /\ Contains(queue[i].tasks, r)
        /\ LET rest == RemoveFirst(queue[i].tasks, r) IN
           queue' = IF rest = <<>> THEN RemoveAt(queue, i) ELSE [queue EXCEPT ![i].tasks = rest]
  BY <1>2 DEF TryTake
<1>4. LET rest == RemoveFirst(queue[i].tasks, r)
          new == IF rest = <<>> THEN RemoveAt(queue, i) ELSE [queue EXCEPT ![i].tasks = rest] IN
      Turns(queue, new, {}, {r}) /\ NoneEmpty(new) /\ r \in InPages(queue)
  BY <1>2, <1>3, TakeTurns
<1>5. Turns(queue, queue', {}, {r}) /\ NoneEmpty(queue') /\ {r} \subseteq InPages(queue)
  BY <1>3, <1>4
<1>6. task' = [x \in Tasks |-> IF x \in {} THEN "owned" ELSE IF x \in {r} THEN "gone" ELSE task[x]]
  BY DEF TryTake, TasksInv
<1>7. job' \in [Workers -> Tasks \cup {NoTask}] /\ \A w \in Running : job'[w] = job[w]
  BY <1>1 DEF TasksInv
<1>8. TasksInv'
  BY <1>1, <1>5, <1>6, <1>7, QueueStep
<1> QED
  BY <1>1, <1>5, <1>8

(* A worker's own steps, where it does not look for work.                  *)
LEMMA WorkerElsewhere ==
  ASSUME ThreadsInv, NEW w \in Workers,
         \/ ThreadFinish(w) \/ ExpiryTimeout(w)
         \/ Relock(w) /\ ~(w \in allThreads /\ w \notin Waiting)
  PROVE  UNCHANGED <<queue, job, task, limits, starting>> /\ Running' = Running /\ OnTheWay' = OnTheWay
<1>1. /\ allThreads \subseteq Workers /\ thread \in [Workers -> ThreadStates]
      /\ waitingThreads \in Seq(Workers) /\ NoRepeat(waitingThreads) /\ ThreadFits(w)
  BY DEF ThreadsInv, ListTypes
<1>2. \A v \in Workers : Contains(waitingThreads, v) <=> v \in Waiting
  BY ListLengths
<1>3. CASE ThreadFinish(w)
  BY <1>1, <1>3 DEF ThreadFinish, Running, OnTheWay, lists
<1>4. CASE ExpiryTimeout(w)
  <2>1. w \in allThreads => Contains(waitingThreads, w)
    BY <1>1, <1>2, <1>4 DEF ExpiryTimeout, ThreadFits
  <2> QED
    BY <1>1, <1>4, <2>1 DEF ExpiryTimeout, Running, OnTheWay, lists
<1>5. CASE Relock(w) /\ w \notin allThreads
  BY <1>1, <1>5 DEF Relock, Running, OnTheWay, lists
<1>6. CASE Relock(w) /\ w \in allThreads /\ w \in Waiting
  <2>1. /\ waitingThreads' = RemoveFirst(waitingThreads, w)
        /\ thread[w] = "awake" /\ thread' = [thread EXCEPT ![w] = "leaving"]
        /\ UNCHANGED <<queue, allThreads, job, task, limits, starting>>
    BY <1>2, <1>6 DEF Relock
  <2>2. waitingThreads' \in Seq(Workers) /\ Waiting' = Waiting \ {w}
    BY <1>1, <1>6, <2>1, RemoveFirstFacts DEF Waiting
  <2>3. \A v \in Workers : Contains(waitingThreads', v) <=> v \in Waiting /\ v # w
    BY <2>2, ListFacts DEF Waiting
  <2>4. Running' = Running
    BY <1>1, <2>1 DEF Running
  <2>5. OnTheWay' = OnTheWay
    BY <1>1, <1>2, <1>6, <2>1, <2>3 DEF OnTheWay
  <2> QED
    BY <2>1, <2>4, <2>5
<1> QED
  BY <1>3, <1>4, <1>5, <1>6

(* Which of its ways into run() a worker is on.                            *)
LEMMA WorkerGoesOn ==
  ASSUME ThreadsInv, NEW w \in Workers,
         TaskDone(w) \/ (Relock(w) /\ w \in allThreads /\ w \notin Waiting)
  PROVE  /\ AtWork(w) /\ \E active : GoOn(w, active)
         /\ \/ TaskDone(w) /\ thread[w] = "running"
            \/ thread[w] = "awake" /\ task' = task
         /\ UNCHANGED <<limits, starting>> /\ ~starting
<1>1. ThreadFits(w) /\ (Contains(waitingThreads, w) <=> w \in Waiting)
  BY ListLengths DEF ThreadsInv
<1>2. CASE TaskDone(w)
  BY <1>1, <1>2 DEF TaskDone, AtWork, ThreadFits
<1>3. CASE Relock(w) /\ w \in allThreads /\ w \notin Waiting
  BY <1>1, <1>3 DEF Relock, AtWork
<1> QED
  BY <1>2, <1>3

LEMMA StepTasksInv ==
  ASSUME NoNegativePriority, ThreadsInv, TasksInv, [Next]_vars
  PROVE  TasksInv'
<1>1. ASSUME NEW r \in Tasks, NEW p \in Priorities, Start(r, p) PROVE TasksInv'
  <2>1. p \in Int /\ p >= 0
    BY ThreadPoolAssumption DEF NoNegativePriority
  <2> QED
    BY <1>1, <2>1, StartTasks DEF Start, StartOrEnqueue
<1>2. ASSUME NEW r \in Tasks, TryStart(r) PROVE TasksInv'
  <2>1. 0 \in Int /\ 0 >= 0
    OBVIOUS
  <2> QED
    BY <1>2, <2>1, StartTasks DEF TryStart
<1>3. ASSUME NEW r \in Tasks, StartOnReservedThread(r) PROVE TasksInv'
  <2>1. TopPriority \in Int /\ TopPriority >= 0
    BY DEF TopPriority
  <2> QED
    BY <1>3, <2>1, StartTasks DEF StartOnReservedThread, StartOrEnqueue
<1>4. ASSUME NEW r \in Tasks, TryTake(r) PROVE TasksInv'
  BY <1>4, TakeTasks
<1>5. ASSUME TryToStartMoreThreads PROVE TasksInv'
  BY <1>5, MoreTasks
<1>6. ASSUME NEW w \in Workers, Work(w) \/ ExpiryTimeout(w) PROVE TasksInv'
  <2>1. CASE TaskDone(w)
    <3>1. AtWork(w) /\ (\E active : GoOn(w, active)) /\ w \in Running
      BY <2>1, WorkerGoesOn DEF TaskDone, Running
    <3>2. task' = [x \in Tasks |-> IF Holds(w, x) THEN "gone" ELSE task[x]]
      BY <2>1, <3>1 DEF TaskDone, Holds, TasksInv
    <3> QED
      BY <3>1, <3>2, GoOnTasks
  <2>2. CASE Relock(w) /\ w \in allThreads /\ w \notin Waiting
    <3>1. AtWork(w) /\ (\E active : GoOn(w, active)) /\ thread[w] = "awake" /\ task' = task
      BY <2>2, WorkerGoesOn DEF Relock
    <3>2. task' = [x \in Tasks |-> IF Holds(w, x) THEN "gone" ELSE task[x]]
      BY <3>1 DEF Holds, Running, TasksInv
    <3> QED
      BY <3>1, <3>2, GoOnTasks
  <2>3. CASE ThreadFinish(w) \/ ExpiryTimeout(w) \/ (Relock(w) /\ ~(w \in allThreads /\ w \notin Waiting))
    BY <2>3, WorkerElsewhere, NoTaskMoves
  <2> QED
    BY <1>6, <2>1, <2>2, <2>3 DEF Work
<1>7. ASSUME NEW c \in Clients, Clear(c) PROVE TasksInv'
  BY <1>7, ClearTasks
<1>8. ASSUME NEW c \in Clients, ResetThread(c) PROVE TasksInv'
  <2>1. PICK w : thread[w] \in {"asleep", "finished"} /\ \E s \in {"awake", "none"} : thread' = [thread EXCEPT ![w] = s]
    BY <1>8 DEF ResetThread
  <2>2. Running' = Running
    BY <2>1 DEF Running, ThreadsInv, ListTypes
  <2> QED
    BY <1>8, <2>2, NoTaskMoves DEF ResetThread
<1>9. ASSUME \/ \E m \in MaxCounts : SetMaxThreadCount(m)
             \/ ReserveThread \/ ReleaseThread \/ UNCHANGED vars
             \/ \E c \in Clients : \/ \E what \in {"check", "clear"} : CallClient(c, what)
                                   \/ WaitForDone(c) \/ ResetDone(c) \/ WaitTimeout(c)
      PROVE  TasksInv'
  <2>1. UNCHANGED <<queue, task, job, thread>>
    BY <1>9 DEF SetMaxThreadCount, ReserveThread, ReleaseThread, vars, workers, CallClient,
                WaitForDone, ResetDone, WaitTimeout
  <2> QED
    BY <2>1, NoTaskMoves DEF Running
<1> QED
  BY <1>1, <1>2, <1>3, <1>4, <1>5, <1>6, <1>7, <1>8, <1>9 DEF Next, Wait

LEMMA InitTasksInv == Init => TasksInv
<1> SUFFICES ASSUME Init PROVE TasksInv
  OBVIOUS
<1>1. queue = <<>> /\ thread = [w \in Workers |-> "none"] /\ job = [w \in Workers |-> NoTask]
      /\ task = [r \in Tasks |-> "new"]
  BY DEF Init
<1>2. queue \in Seq(Page) /\ DOMAIN queue = {}
  BY <1>1
<1>3. PagesOK(queue) /\ NoneEmpty(queue) /\ InPages(queue) = {}
  BY <1>2 DEF PagesOK, NoneEmpty, Distinct, InPages
<1>4. Running = {}
  BY <1>1 DEF Running
<1>5. job \in [Workers -> Tasks \cup {NoTask}] /\ task \in [Tasks -> TaskStates] /\ \A r \in Tasks : task[r] # "owned"
  BY <1>1 DEF TaskStates
<1> QED
  BY <1>3, <1>4, <1>5 DEF TasksInv, Holds

(* The queue and the workers share out the runnables: each page holds      *)
(* runnables, none twice, in descending order of priority, no worker has   *)
(* another's or one that is still in the queue, and what the pool has      *)
(* accepted and not yet given up is with one of them.                      *)
THEOREM TasksInvariant ==
  ASSUME NoNegativePriority
  PROVE  Spec => []TasksInv
<1>1. ThreadsInv /\ TasksInv /\ [Next]_vars => TasksInv'
  BY StepTasksInv
<1> QED
  BY <1>1, InitTasksInv, ThreadsInvariant, PTL DEF Spec

LEMMA TypesFit == ASSUME ThreadsInv, TasksInv PROVE TypeOK
<1>1. \A i \in DOMAIN queue : queue[i].tasks \in Seq(Tasks)
  BY PageFacts DEF TasksInv, PagesOK
<1>2. activeThreads \in 0..Cardinality(Workers)
  BY AllFinite
<1>3. starting \in BOOLEAN /\ maxThreads \in MaxCounts /\ reserved \in Reserves
  BY DEF ThreadsInv, StartingMeans, LimitsFit
<1> QED
  BY <1>1, <1>2, <1>3 DEF TypeOK, ThreadsInv, ListTypes, TasksInv

(* Every variable of the pool keeps its type; activeThreads never counts   *)
(* more threads than there are, nor fewer than none.                       *)
THEOREM TypeCorrect ==
  ASSUME NoNegativePriority
  PROVE  Spec => []TypeOK
<1>1. ThreadsInv /\ TasksInv => TypeOK
  BY TypesFit
<1> QED
  BY <1>1, ThreadsInvariant, TasksInvariant, PTL

(* The books of the pool are right whenever its mutex is free: the pages   *)
(* are in order and none is finished, as first() and pop() assert, the two *)
(* counts of threads differ by the workers on their way to the queue, and  *)
(* the three lists fit where the threads are.                              *)
THEOREM BookkeepingHolds ==
  ASSUME NoNegativePriority
  PROVE  Spec => []Bookkeeping
<1>1. TasksInv => QueueInOrder
  BY DEF TasksInv, PagesOK, NoneEmpty, QueueInOrder
<1>2. ThreadsInv /\ TasksInv => Bookkeeping
  BY <1>1, ListsAndCounts DEF Bookkeeping
<1> QED
  BY <1>2, ThreadsInvariant, TasksInvariant, PTL

LEMMA OneOrNone ==
  ASSUME NEW S, \A x, y \in S : x = y
  PROVE  IsFiniteSet(S) /\ Cardinality(S) = IF S = {} THEN 0 ELSE 1
<1>1. CASE S = {}
  BY <1>1, FS_EmptySet
<1>2. CASE S # {}
  <2>1. PICK x : S = {x}
    BY <1>2
  <2> QED
    BY <1>2, <2>1, FS_Singleton
<1> QED
  BY <1>1, <1>2

LEMMA OnePlace == ASSUME TasksInv PROVE EveryTaskInOnePlace
<1> SUFFICES ASSUME NEW r \in Tasks PROVE Places(r) = IF task[r] = "owned" THEN 1 ELSE 0
  BY DEF EveryTaskInOnePlace
<1> DEFINE runners == {w \in Running : job[w] = r}
           spots == {at \in Positions : queue[at[1]].tasks[at[2]] = r}
<1>1. \A v, w \in runners : v = w
  BY DEF TasksInv
<1>2. /\ queue \in Seq(Page) /\ DOMAIN queue = 1..Len(queue)
      /\ \A i \in 1..Len(queue) : queue[i].tasks \in Seq(Tasks)
      /\ \A x : x \in InPages(queue) <=> \E i \in 1..Len(queue) : x \in ToSet(queue[i].tasks)
      /\ Distinct(queue)
  BY PageFacts DEF TasksInv, PagesOK
<1>3. \A at \in spots : /\ at = <<at[1], at[2]>> /\ at[1] \in DOMAIN queue /\ at[2] \in DOMAIN queue[at[1]].tasks
                        /\ queue[at[1]].tasks[at[2]] = r /\ r \in ToSet(queue[at[1]].tasks)
  BY DEF Positions, ToSet
<1>4. ASSUME NEW at \in spots, NEW also \in spots PROVE at = also
  <2>1. at[1] = also[1]
    BY <1>2, <1>3 DEF Distinct
  <2>2. at[2] = also[2]
    BY <1>2, <1>3, <2>1 DEF Distinct, NoRepeat
  <2> QED
    BY <1>3, <2>1, <2>2
<1>5. spots = {} <=> r \notin InPages(queue)
  <2>1. ASSUME r \in InPages(queue) PROVE spots # {}
    <3>1. PICK i \in 1..Len(queue) : r \in ToSet(queue[i].tasks)
      BY <1>2, <2>1
    <3>2. PICK k \in DOMAIN queue[i].tasks : queue[i].tasks[k] = r
      BY <3>1 DEF ToSet
    <3>3. <<i, k>> \in Positions
      BY <1>2, <3>1, <3>2 DEF Positions
    <3>4. <<i, k>> \in spots
      BY <3>2, <3>3
    <3> QED
      BY <3>4
  <2>2. ASSUME spots # {} PROVE r \in InPages(queue)
    BY <1>2, <1>3, <2>2
  <2> QED
    BY <2>1, <2>2
<1>6. runners = {} <=> \A w \in Workers : ~Holds(w, r)
  BY DEF Holds, Running
<1>7. runners = {} \/ spots = {}
  BY <1>5 DEF TasksInv
<1>8. task[r] = "owned" <=> runners # {} \/ spots # {}
  BY <1>5, <1>6 DEF TasksInv
<1>9. Places(r) = Cardinality(runners) + Cardinality(spots)
  BY DEF Places
<1> HIDE DEF runners, spots
<1>10. Cardinality(runners) = IF runners = {} THEN 0 ELSE 1
  BY <1>1, OneOrNone
<1>11. Cardinality(spots) = IF spots = {} THEN 0 ELSE 1
  BY <1>4, OneOrNone
<1> QED
  BY <1>7, <1>8, <1>9, <1>10, <1>11

(* Each runnable that start(), tryStart() or startOnReservedThread() has   *)
(* taken on is in exactly one place, one slot of one page or one worker,   *)
(* until it was run, taken back or cleared, and then in none: none is lost *)
(* or run twice, also where tryStart() hands it on through the queue.      *)
THEOREM EveryTaskInOnePlaceHolds ==
  ASSUME NoNegativePriority
  PROVE  Spec => []EveryTaskInOnePlace
<1>1. TasksInv => EveryTaskInOnePlace
  BY OnePlace
<1> QED
  BY <1>1, TasksInvariant, PTL

-----------------------------------------------------------------------------
(* Runnables in the queue and workers on their way to them.                *)

ServedInv ==
    /\ IsFiniteSet(InPages(queue))
    /\ \/ starting \/ AreAllThreadsActive(reserved)
       \/ Cardinality(InPages(queue)) <= Cardinality(OnTheWay)

LEMMA Counted ==
  ASSUME ThreadsInv, ServedInv
  PROVE  /\ Cardinality(InPages(queue)) \in Nat
         /\ Cardinality(OnTheWay) \in Nat /\ IsFiniteSet(OnTheWay) /\ IsFiniteSet(InPages(queue))
         /\ MaxThreadCount \in Int /\ MaxThreadCount >= 1 /\ reserved \in Int /\ Busy \in Nat
  BY AllFinite, LimitNumbers, FS_CardinalityType DEF ServedInv

(* Nothing is added to the queue, nobody turns away from it, and as many   *)
(* threads are busy under limits that are no wider.                        *)
LEMMA StillServed ==
  ASSUME ThreadsInv, ServedInv, ~starting, InPages(queue') \subseteq InPages(queue),
         OnTheWay' = OnTheWay, Busy' = Busy, UNCHANGED maxThreads,
         reserved' \in Int, reserved' >= reserved
  PROVE  ServedInv'
<1>1. /\ Cardinality(InPages(queue)) \in Nat /\ IsFiniteSet(InPages(queue))
      /\ MaxThreadCount \in Int /\ reserved \in Int /\ Busy \in Nat /\ Cardinality(OnTheWay) \in Nat
  BY Counted
<1>2. /\ IsFiniteSet(InPages(queue')) /\ Cardinality(InPages(queue')) \in Nat
      /\ Cardinality(InPages(queue')) <= Cardinality(InPages(queue))
  BY <1>1, FS_Subset, FS_CardinalityType
<1>3. MaxThreadCount' = MaxThreadCount
  BY DEF MaxThreadCount
<1>4. CASE AreAllThreadsActive(reserved)
  <2>1. AreAllThreadsActive(reserved)'
    <3>1. Busy + reserved >= MaxThreadCount /\ Busy >= 1
      BY <1>4 DEF AreAllThreadsActive
    <3>2. Busy + reserved' >= MaxThreadCount
      <4>1. \A a, b, c, d \in Int : a + b >= c /\ d >= b => a + d >= c
        OBVIOUS
      <4>2. Busy \in Int
        BY <1>1
      <4> QED
        BY <1>1, <3>1, <4>1, <4>2
    <3> QED
      BY <1>3, <3>1, <3>2 DEF AreAllThreadsActive
  <2> QED
    BY <1>2, <2>1 DEF ServedInv
<1>5. CASE Cardinality(InPages(queue)) <= Cardinality(OnTheWay)
  <2>1. Cardinality(InPages(queue')) <= Cardinality(OnTheWay')
    BY <1>1, <1>2, <1>5
  <2> QED
    BY <1>2, <2>1 DEF ServedInv
<1> QED
  BY <1>4, <1>5 DEF ServedInv

(* The queue is empty, or as many threads are busy as may be.              *)
LEMMA ServedAnyway ==
  ASSUME IsFiniteSet(InPages(queue')), ThreadsInv',
         starting' \/ queue' = <<>> \/ AreAllThreadsActive(reserved)'
  PROVE  ServedInv'
<1>1. CASE queue' = <<>>
  <2>1. InPages(queue') = {}
    BY <1>1 DEF InPages
  <2>2. Cardinality(InPages(queue')) = 0
    BY <2>1, FS_EmptySet
  <2>3. Cardinality(OnTheWay') \in Nat
    <3>1. OnTheWay' \in SUBSET Workers
      BY DEF OnTheWay, ThreadsInv, ListTypes
    <3> QED
      BY <3>1, ThreadPoolAssumption, FS_Subset, FS_CardinalityType
  <2>4. Cardinality(InPages(queue')) <= Cardinality(OnTheWay')
    BY <2>2, <2>3
  <2> QED
    BY <2>4 DEF ServedInv
<1>2. CASE starting' \/ AreAllThreadsActive(reserved)'
  BY <1>2 DEF ServedInv
<1> QED
  BY <1>1, <1>2

LEMMA FiniteAfter ==
  ASSUME ServedInv, NEW added, IsFiniteSet(added), NEW taken, Turns(queue, queue', added, taken)
  PROVE  IsFiniteSet(InPages(queue'))
<1>1. InPages(queue') = (InPages(queue) \ taken) \cup added
  BY DEF Turns
<1>2. IsFiniteSet(InPages(queue) \ taken)
  BY FS_Difference DEF ServedInv
<1> QED
  BY <1>1, <1>2, FS_Union

(* A runnable that a caller brings: a worker is woken for it, or gets it,  *)
(* or all threads are busy. A thread given back by startOnReservedThread() *)
(* is the one that it starts.                                              *)
LEMMA StartServed ==
  ASSUME ThreadsInv, TasksInv, ServedInv, ~starting, ~starting', NEW r \in Tasks, task[r] = "new",
         NEW p \in Int, p >= 0, NEW res \in Int, reserved' = res, res \in {reserved, reserved - 1},
         UNCHANGED maxThreads,
         \/ ~AreAllThreadsActive(res) /\ Dispatch(r, queue, EnqueueTask(queue, r, 0))
         \/ /\ AreAllThreadsActive(res) /\ queue' = EnqueueTask(queue, r, p)
            /\ UNCHANGED <<lists, workers>>
  PROVE  ServedInv'
<1>1. r \notin InPages(queue) /\ PagesOK(queue)
  BY Unheld DEF TasksInv
<1>2. /\ Cardinality(InPages(queue)) \in Nat
      /\ Cardinality(OnTheWay) \in Nat /\ IsFiniteSet(OnTheWay) /\ IsFiniteSet(InPages(queue))
      /\ MaxThreadCount \in Int /\ reserved \in Int /\ Busy \in Nat
  BY Counted
<1>3. MaxThreadCount' = MaxThreadCount
  BY DEF MaxThreadCount
<1>4. \A n \in Int : n >= 0 => /\ InPages(EnqueueTask(queue, r, n)) = InPages(queue) \cup {r}
                               /\ IsFiniteSet(InPages(EnqueueTask(queue, r, n)))
                               /\ Cardinality(InPages(EnqueueTask(queue, r, n))) = Cardinality(InPages(queue)) + 1
  <2>1. ASSUME NEW n \in Int, n >= 0 PROVE InPages(EnqueueTask(queue, r, n)) = InPages(queue) \cup {r}
    BY <1>1, <2>1, EnqueueTurns DEF Turns
  <2>2. /\ IsFiniteSet(InPages(queue) \cup {r})
        /\ Cardinality(InPages(queue) \cup {r}) = Cardinality(InPages(queue)) + 1
    BY <1>1, <1>2, FS_AddElement
  <2> QED
    BY <2>1, <2>2
<1>5. CASE AreAllThreadsActive(res) /\ queue' = EnqueueTask(queue, r, p) /\ UNCHANGED <<lists, workers>>
  <2>1. AreAllThreadsActive(reserved)'
    <3>1. Busy' = Busy
      BY <1>5 DEF Busy, lists
    <3> QED
      BY <1>3, <1>5, <3>1 DEF AreAllThreadsActive
  <2>2. IsFiniteSet(InPages(queue'))
    BY <1>4, <1>5
  <2> QED
    BY <2>1, <2>2 DEF ServedInv
<1>6. CASE ~AreAllThreadsActive(res) /\ Dispatch(r, queue, EnqueueTask(queue, r, 0))
  <2>1. Busy' = Busy + 1
    BY <1>6, DispatchEffect
  <2>2. IsFiniteSet(InPages(queue'))
    BY <1>2, <1>4, <1>6, DispatchEffect
  <2>3. CASE AreAllThreadsActive(reserved)
    <3>1. AreAllThreadsActive(reserved)'
      BY <1>2, <1>3, <1>6, <2>1, <2>3 DEF AreAllThreadsActive
    <3> QED
      BY <2>2, <3>1 DEF ServedInv
  <2>4. CASE Cardinality(InPages(queue)) <= Cardinality(OnTheWay)
    <3>1. ASSUME queue' = EnqueueTask(queue, r, 0), NEW w \in Workers \ OnTheWay, OnTheWay' = OnTheWay \cup {w}
          PROVE  Cardinality(InPages(queue')) <= Cardinality(OnTheWay')
      <4>1. Cardinality(OnTheWay') = Cardinality(OnTheWay) + 1
        BY <1>2, <3>1, FS_AddElement
      <4>2. Cardinality(InPages(queue')) = Cardinality(InPages(queue)) + 1
        BY <1>4, <3>1
      <4> QED
        BY <1>2, <2>4, <4>1, <4>2
    <3>2. CASE queue' = queue /\ OnTheWay' = OnTheWay
      BY <2>2, <2>4, <3>2 DEF ServedInv
    <3>3. \/ /\ queue' = EnqueueTask(queue, r, 0)
             /\ \E w \in Workers \ OnTheWay : OnTheWay' = OnTheWay \cup {w}
          \/ queue' = queue /\ OnTheWay' = OnTheWay
      BY <1>6, DispatchEffect
    <3> QED
      BY <2>2, <3>1, <3>2, <3>3 DEF ServedInv
  <2> QED
    BY <2>3, <2>4 DEF ServedInv
<1> QED
  BY <1>5, <1>6

(* A worker pops the runnable it came for, or finds that there are enough. *)
LEMMA GoOnServed ==
  ASSUME ThreadsInv, TasksInv, ServedInv, ThreadsInv', NEW w \in Workers, AtWork(w), NEW active, GoOn(w, active),
         UNCHANGED <<limits, starting>>, ~starting
  PROVE  ServedInv'
<1>1. /\ Cardinality(InPages(queue)) \in Nat
      /\ Cardinality(OnTheWay) \in Nat /\ IsFiniteSet(OnTheWay) /\ IsFiniteSet(InPages(queue))
      /\ MaxThreadCount \in Int /\ MaxThreadCount >= 1 /\ reserved \in Int /\ Busy \in Nat
  BY Counted
<1>2. MaxThreadCount' = MaxThreadCount /\ reserved' = reserved /\ maxThreads' = maxThreads
  BY DEF MaxThreadCount, limits
<1>3. ASSUME queue # <<>>, queue' = Pop(queue, 1), OnTheWay' = OnTheWay \ {w}, Busy' = Busy
      PROVE  ServedInv'
  <2> DEFINE r == Head(queue[1].tasks)
  <2>1. InPages(queue') = InPages(queue) \ {r} /\ r \in InPages(queue)
    BY <1>3, PopTurns DEF TasksInv, Turns
  <2> HIDE DEF r
  <2>2. CASE w \notin OnTheWay
    <3>1. OnTheWay' = OnTheWay /\ InPages(queue') \subseteq InPages(queue)
      BY <1>3, <2>1, <2>2
    <3>2. reserved' \in Int /\ reserved' >= reserved
      BY <1>1, <1>2
    <3> QED
      BY <1>2, <1>3, <3>1, <3>2, StillServed
  <2>3. CASE w \in OnTheWay
    <3>1. /\ IsFiniteSet(InPages(queue')) /\ Cardinality(InPages(queue')) = Cardinality(InPages(queue)) - 1
      BY <1>1, <2>1, FS_RemoveElement
    <3>2. Cardinality(OnTheWay') = Cardinality(OnTheWay) - 1
      BY <1>1, <1>3, <2>3, FS_RemoveElement
    <3>3. CASE AreAllThreadsActive(reserved)
      <4>1. AreAllThreadsActive(reserved)'
        BY <1>2, <1>3, <3>3 DEF AreAllThreadsActive
      <4> QED
        BY <3>1, <4>1 DEF ServedInv
    <3>4. CASE Cardinality(InPages(queue)) <= Cardinality(OnTheWay)
      <4>1. Cardinality(InPages(queue')) <= Cardinality(OnTheWay')
        BY <1>1, <3>1, <3>2, <3>4
      <4> QED
        BY <3>1, <4>1 DEF ServedInv
    <3> QED
      BY <3>3, <3>4 DEF ServedInv
  <2> QED
    BY <2>2, <2>3
<1>4. ASSUME TooManyThreadsActive \/ queue = <<>>, queue' = queue, Busy' = Busy - 1
      PROVE  ServedInv'
  <2>1. TooManyThreadsActive => AreAllThreadsActive(reserved)'
    BY <1>1, <1>2, <1>4 DEF TooManyThreadsActive, AreAllThreadsActive
  <2>2. IsFiniteSet(InPages(queue'))
    BY <1>1, <1>4
  <2> QED
    BY <1>4, <2>1, <2>2, ServedAnyway
<1> QED
  BY <1>3, <1>4, GoOnEffect

LEMMA StepServedInv ==
  ASSUME NoNegativePriority, ThreadsInv, TasksInv, ServedInv, ThreadsInv', [Next]_vars
  PROVE  ServedInv'
<1>1. reserved \in Int /\ reserved' \in Int /\ IsFiniteSet(InPages(queue))
  BY LimitNumbers, ThreadPoolAssumption DEF ThreadsInv, LimitsFit, ServedInv
<1>2. ASSUME NEW r \in Tasks, NEW p \in Priorities, Start(r, p) PROVE ServedInv'
  <2>1. p \in Int /\ p >= 0
    BY ThreadPoolAssumption DEF NoNegativePriority
  <2>2. /\ ~starting /\ ~starting' /\ task[r] = "new" /\ reserved' = reserved /\ UNCHANGED maxThreads
        /\ StartOrEnqueue(r, p, reserved)
    BY <1>2 DEF Start, Accept, limits
  <2> QED
    BY <1>1, <2>1, <2>2, StartServed DEF StartOrEnqueue
<1>3. ASSUME NEW r \in Tasks, TryStart(r) PROVE ServedInv'
  <2>1. 0 \in Int /\ 0 >= 0
    OBVIOUS
  <2>2. /\ ~starting /\ ~starting' /\ task[r] = "new" /\ reserved' = reserved /\ UNCHANGED maxThreads
        /\ ~AreAllThreadsActive(reserved) /\ Dispatch(r, queue, EnqueueTask(queue, r, 0))
    BY <1>3 DEF TryStart, Accept, limits
  <2> QED
    BY <1>1, <2>1, <2>2, StartServed
<1>4. ASSUME NEW r \in Tasks, StartOnReservedThread(r) PROVE ServedInv'
  <2>1. TopPriority \in Int /\ TopPriority >= 0
    BY DEF TopPriority
  <2>2. /\ ~starting /\ ~starting' /\ task[r] = "new" /\ reserved' = reserved - 1 /\ UNCHANGED maxThreads
        /\ StartOrEnqueue(r, TopPriority, reserved - 1)
    BY <1>4 DEF StartOnReservedThread, Accept
  <2>3. reserved - 1 \in Int
    BY <1>1
  <2> QED
    BY <1>1, <2>1, <2>2, <2>3, StartServed DEF StartOrEnqueue
<1>5. ASSUME TryToStartMoreThreads PROVE ServedInv'
  <2>1. \E taken : Turns(queue, queue', {}, taken)
    BY <1>5, MoreTasks
  <2>2. IsFiniteSet({})
    BY FS_EmptySet
  <2>3. IsFiniteSet(InPages(queue'))
    BY <2>1, <2>2, FiniteAfter
  <2>4. starting' \/ queue' = <<>> \/ AreAllThreadsActive(reserved)'
    BY <1>5 DEF TryToStartMoreThreads, MoreToStart
  <2> QED
    BY <2>3, <2>4, ServedAnyway
<1>6. ASSUME (\E m \in MaxCounts : SetMaxThreadCount(m)) \/ ReleaseThread PROVE ServedInv'
  <2>1. queue' = queue /\ (starting' \/ queue' = <<>> \/ AreAllThreadsActive(reserved)')
    BY <1>6 DEF SetMaxThreadCount, ReleaseThread, MoreToStart
  <2> QED
    BY <1>1, <2>1, ServedAnyway
<1>7. ASSUME ~starting, InPages(queue') \subseteq InPages(queue), OnTheWay' = OnTheWay, Busy' = Busy,
             UNCHANGED limits
      PROVE  ServedInv'
  <2>1. reserved' >= reserved /\ UNCHANGED maxThreads
    BY <1>1, <1>7 DEF limits
  <2> QED
    BY <1>1, <1>7, <2>1, StillServed
<1>8. ASSUME UNCHANGED <<queue, limits, starting>>, OnTheWay' = OnTheWay, Busy' = Busy PROVE ServedInv'
  <2>1. AreAllThreadsActive(reserved)' <=> AreAllThreadsActive(reserved)
    BY <1>8 DEF AreAllThreadsActive, MaxThreadCount, limits
  <2> QED
    BY <1>8, <2>1 DEF ServedInv
<1>9. ASSUME ReserveThread PROVE ServedInv'
  <2>1. /\ ~starting /\ UNCHANGED maxThreads /\ reserved' = reserved + 1 /\ InPages(queue') \subseteq InPages(queue)
        /\ OnTheWay' = OnTheWay /\ Busy' = Busy
    BY <1>9 DEF ReserveThread, OnTheWay, Busy, lists, workers
  <2>2. reserved' >= reserved
    BY <1>1, <2>1
  <2> QED
    BY <1>1, <2>1, <2>2, StillServed
<1>10. ASSUME NEW r \in Tasks, TryTake(r) PROVE ServedInv'
  <2>1. OnTheWay' = OnTheWay /\ InPages(queue') \subseteq InPages(queue)
    BY <1>10, TakeTasks DEF Turns
  <2>2. ~starting /\ UNCHANGED limits /\ Busy' = Busy
    BY <1>10 DEF TryTake, Busy, lists
  <2> QED
    BY <1>7, <2>1, <2>2
<1>11. ASSUME NEW w \in Workers, Work(w) \/ ExpiryTimeout(w) PROVE ServedInv'
  <2>1. CASE TaskDone(w) \/ (Relock(w) /\ w \in allThreads /\ w \notin Waiting)
    BY <2>1, WorkerGoesOn, GoOnServed
  <2>2. CASE ThreadFinish(w) \/ ExpiryTimeout(w) \/ (Relock(w) /\ ~(w \in allThreads /\ w \notin Waiting))
    <3>1. UNCHANGED <<queue, limits, starting>> /\ OnTheWay' = OnTheWay
      BY <2>2, WorkerElsewhere
    <3>2. Busy' = Busy
      <4>1. CASE ThreadFinish(w) \/ ExpiryTimeout(w)
        BY <4>1 DEF ThreadFinish, ExpiryTimeout, Busy, lists
      <4>2. CASE Relock(w) /\ w \notin allThreads
        BY <4>2 DEF Relock, Busy, lists
      <4>3. CASE Relock(w) /\ w \in allThreads /\ w \in Waiting
        <5>1. /\ waitingThreads \in Seq(Workers) /\ NoRepeat(waitingThreads)
              /\ expiredThreads \in Seq(Workers) /\ Contains(waitingThreads, w)
          BY <4>3, ListLengths DEF ThreadsInv, ListTypes
        <5>2. /\ waitingThreads' = RemoveFirst(waitingThreads, w)
              /\ expiredThreads' = Append(expiredThreads, w) /\ allThreads' = allThreads
          BY <4>3, <5>1 DEF Relock
        <5>3. PICK k \in 1..Len(waitingThreads) : waitingThreads' = RemoveAt(waitingThreads, k)
          BY <4>3, <5>1, <5>2, RemoveFirstForm DEF Waiting
        <5>4. Len(waitingThreads') = Len(waitingThreads) - 1 /\ Len(expiredThreads') = Len(expiredThreads) + 1
          BY <5>1, <5>2, <5>3, RemoveAtForm, AppendProperties
        <5>5. Len(waitingThreads) \in Nat /\ Len(expiredThreads) \in Nat /\ Cardinality(allThreads) \in Nat
          BY ListLengths
        <5> QED
          BY <5>2, <5>4, <5>5 DEF Busy
      <4> QED
        BY <2>2, <4>1, <4>2, <4>3
    <3> QED
      BY <1>8, <3>1, <3>2
  <2> QED
    BY <1>11, <2>1, <2>2 DEF Work
<1>12. ASSUME NEW c \in Clients, Clear(c) PROVE ServedInv'
  <2>1. OnTheWay' = OnTheWay /\ InPages(queue') \subseteq InPages(queue)
    BY <1>12, ClearTasks DEF Turns
  <2>2. ~starting /\ UNCHANGED limits /\ Busy' = Busy
    BY <1>12 DEF Clear, Busy, lists
  <2> QED
    BY <1>7, <2>1, <2>2
<1>13. ASSUME NEW c \in Clients, WaitForDone(c) PROVE ServedInv'
  <2>1. CASE UNCHANGED lists
    BY <1>8, <1>13, <2>1 DEF WaitForDone, workers, lists, OnTheWay, Busy
  <2>2. CASE Done
    <3>1. queue' = <<>>
      BY <1>13, <2>2 DEF WaitForDone, Done
    <3>2. queue' = queue
      BY <1>13 DEF WaitForDone
    <3> QED
      BY <1>1, <3>1, <3>2, ServedAnyway
  <2> QED
    BY <1>13, <2>1, <2>2 DEF WaitForDone
<1>14. ASSUME NEW c \in Clients, ResetThread(c) PROVE ServedInv'
  <2> DEFINE w == Head(todo[c])
  <2>1. /\ todo[c] \in Seq(Workers) /\ todo[c] # <<>> /\ NoRepeat(todo[c])
        /\ ToSet(todo[c]) \cap allThreads = {} /\ thread \in [Workers -> ThreadStates]
        /\ allThreads \subseteq Workers
    BY <1>14 DEF ResetThread, ThreadsInv, ListTypes, TodoFits
  <2>2. w \notin allThreads
    BY <2>1, TailFacts
  <2>3. \E s \in {"awake", "none"} : thread' = [thread EXCEPT ![w] = s]
    BY <1>14 DEF ResetThread
  <2>4. UNCHANGED <<queue, lists, limits, starting>>
    BY <1>14 DEF ResetThread
  <2> HIDE DEF w
  <2>5. OnTheWay' = OnTheWay
    BY <2>1, <2>2, <2>3, <2>4 DEF OnTheWay, lists
  <2>6. Busy' = Busy
    BY <2>4 DEF Busy, lists
  <2> QED
    BY <1>8, <2>4, <2>5, <2>6
<1>15. ASSUME \/ UNCHANGED vars
              \/ \E c \in Clients : \/ \E what \in {"check", "clear"} : CallClient(c, what)
                                    \/ ResetDone(c) \/ WaitTimeout(c)
       PROVE  ServedInv'
  <2>1. UNCHANGED <<queue, limits, starting, lists, thread>>
    BY <1>15 DEF vars, workers, CallClient, ResetDone, WaitTimeout
  <2>2. OnTheWay' = OnTheWay /\ Busy' = Busy
    BY <2>1 DEF OnTheWay, Busy, lists
  <2> QED
    BY <1>8, <2>1, <2>2
<1> QED
  BY <1>2, <1>3, <1>4, <1>5, <1>6, <1>9, <1>10, <1>11, <1>12, <1>13, <1>14, <1>15 DEF Next, Wait

LEMMA InitServedInv == Init => ServedInv
<1> SUFFICES ASSUME Init PROVE ServedInv
  OBVIOUS
<1>1. InPages(queue) = {} /\ OnTheWay = {}
  BY DEF Init, InPages, OnTheWay
<1>2. IsFiniteSet({}) /\ Cardinality({}) = 0
  BY FS_EmptySet
<1> QED
  BY <1>1, <1>2 DEF ServedInv

(* Runnables wait in the queue only while tryToStartMoreThreads() is at    *)
(* work, while as many threads are busy as the limits allow, or while      *)
(* workers are on their way to the queue for all of them: a thread that    *)
(* start() wakes, and one that goes idle as too many are active, leave no  *)
(* runnable behind that nobody comes for.                                  *)
THEOREM QueuedOnlyWhenBusyHolds ==
  ASSUME NoNegativePriority
  PROVE  Spec => []QueuedOnlyWhenBusy
<1>1. ThreadsInv /\ TasksInv /\ ServedInv /\ ThreadsInv' /\ [Next]_vars => ServedInv'
  BY StepServedInv
<1>2. Spec => []ServedInv
  BY <1>1, InitServedInv, ThreadsInvariant, TasksInvariant, PTL DEF Spec
<1>3. ServedInv => QueuedOnlyWhenBusy
  BY DEF ServedInv, QueuedOnlyWhenBusy, InQueue, InPages
<1> QED
  BY <1>2, <1>3, PTL
==============================================================================
