-------------------------- MODULE MoveToThreadProofs --------------------------
(***************************************************************************)
(* Events follow an object that moves, for any threads, objects and        *)
(* priorities: however many threads post to it, remove its events or walk  *)
(* their lists at that moment.                                             *)
(***************************************************************************)
EXTENDS MoveToThread, FiniteSetTheorems, SequenceTheorems, WellFoundedInduction, TLAPS

Entry == [event: 1..MaxEvents \cup {NoEvent}, receiver: Objects \cup {NoReceiver},
          type: {"normal"}, priority: Priorities, level: {0}]
List == [entries: Seq(Entry), startOffset: Nat, insertionOffset: Nat]

(* The entries that are not null.                                          *)
Live(l) == {x \in ToSet(l.entries) : x.event # NoEvent}

BothNull(l) == \A i \in 1..Size(l) :
                 l.entries[i].event = NoEvent <=> l.entries[i].receiver = NoReceiver
Once(l) == \A i, j \in 1..Size(l) :
             l.entries[i].event = l.entries[j].event /\ l.entries[i].event # NoEvent => i = j
Sorted(l) == \A i, j \in l.insertionOffset + 1 .. Size(l) :
               i < j => l.entries[i].priority >= l.entries[j].priority
Offsets(l) == /\ l.startOffset <= Size(l)
              /\ l.startOffset > 0 => l.startOffset <= l.insertionOffset
              /\ \A i \in 1..l.startOffset : l.entries[i].event = NoEvent

(* Events are numbered as they are posted.                                 *)
Before(x, y) == x.receiver = y.receiver /\ x.priority = y.priority => x.event < y.event
InOrder(l) == \A i, j \in 1..Size(l) :
                i < j /\ l.entries[i].event # NoEvent /\ l.entries[j].event # NoEvent
                  => Before(l.entries[i], l.entries[j])
SoundList(l) == l \in List /\ BothNull(l) /\ Once(l) /\ Sorted(l) /\ Offsets(l) /\ InOrder(l)

-----------------------------------------------------------------------------
(* What each thread is about, and what it holds.                           *)
Targets == Threads \cup {NoThread}
PostCalls == [kind: {"post"}, object: Objects, priority: Priorities, data: Targets]
RemoveCalls == [kind: {"remove"}, object: Objects, data: Targets]
MoveCalls == [kind: {"move"}, object: Objects, target: Threads, moved: BOOLEAN]

Typing == /\ home \in [Objects -> Threads]
          /\ mutex \in [Threads -> Targets]
          /\ canWait \in [Threads -> BOOLEAN] /\ wakeUp \in [Threads -> BOOLEAN]
          /\ at \in [Threads -> Labels]
          /\ walking \subseteq Threads
          /\ posted \in Nat /\ moves \in 0..MaxMoves
          /\ queued \subseteq 1..posted
          /\ DOMAIN list = Threads /\ DOMAIN call = Threads

CallFits(t) ==
    /\ at[t] \in {"load", "lock"} => call[t] \in PostCalls \cup RemoveCalls
    /\ at[t] = "wake" => call[t] \in PostCalls
    /\ at[t] \in {"lock", "wake"} => call[t].data \in Threads
    /\ at[t] \in {"first", "second", "move"} =>
         call[t] \in MoveCalls /\ call[t].target # t /\ home[call[t].object] = t

LocksFit(t) == /\ at[t] = "second" => mutex[Lower(t)] = t
               /\ at[t] = "move" => mutex[t] = t /\ mutex[call[t].target] = t

WalkFits(t) == /\ at[t] \in {"loop", "wait", "poll"} => t \notin walking
               /\ at[t] = "walk" => t \in walking
               /\ t \notin walking => list[t].startOffset = 0

(* Each call of postEvent() that has begun may still post.                 *)
Numbered == IsFiniteSet(Posting) /\ posted + Cardinality(Posting) <= MaxEvents

(* An event is in one list, and where its receiver is or is going.         *)
Books ==
    /\ \A e \in 1..MaxEvents : e \in queued <=> \E t \in Threads : \E x \in Live(list[t]) : x.event = e
    /\ \A s, t \in Threads : s # t =>
         \A x \in Live(list[s]), y \in Live(list[t]) : x.event # y.event
    /\ \A t \in Threads : \A x \in Live(list[t]) :
         home[x.receiver] = t \/ \E s \in Threads : Moving(s, x.receiver, t)

(* What has been moved comes before what is still to be moved.             *)
FirstFirst(t) ==
    at[t] = "move" =>
      \A x \in Live(list[call[t].target]), y \in Live(list[t]) :
        x.receiver = call[t].object /\ y.receiver = call[t].object => Before(x, y)

(* What canWait promises while a walk is going on, and after it.           *)
MayWait(t) ==
    t \in walking /\ canWait[t] =>
      \/ \E s \in Threads : at[s] = "move" /\ AboutToWake(s, t)
      \/ \A i \in Entries(t) : i <= list[t].insertionOffset
Sleepless(t) ==
    at[t] \in {"wait", "poll"} /\ Entries(t) # {} =>
      \/ at[t] = "wait" /\ ~canWait[t]
      \/ wakeUp[t] \/ \E s \in Threads : AboutToWake(s, t)

Lists == \A t \in Threads : SoundList(list[t])
Fits == \A t \in Threads : CallFits(t) /\ LocksFit(t) /\ WalkFits(t)
Order == \A t \in Threads : FirstFirst(t)
Wakes == \A t \in Threads : MayWait(t) /\ Sleepless(t)
IInv == Typing /\ Lists /\ Fits /\ Numbered /\ Books /\ Order /\ Wakes
-----------------------------------------------------------------------------
(* Keeping some entries: Only() counts through the places that are kept.   *)
LEMMA PlacesInOrder ==
  ASSUME NEW n \in Nat, NEW S \in SUBSET (1..n)
  PROVE  /\ IsFiniteSet(S) /\ Cardinality(S) \in Nat /\ Cardinality(S) <= n
         /\ \A k \in 1..Cardinality(S) : Nth(S, k) \in S /\ k <= Nth(S, k)
         /\ \A k, m \in 1..Cardinality(S) : k < m => Nth(S, k) < Nth(S, m)
         /\ \A i \in S : \E k \in 1..Cardinality(S) : Nth(S, k) = i
<1> DEFINE upTo(i) == {j \in S : j <= i}
           rank == [i \in S |-> Cardinality(upTo(i))]
<1>1. IsFiniteSet(1..n) /\ Cardinality(1..n) = n /\ \A i \in S : i \in Nat /\ i >= 1
  <2>1. \A i \in S : i \in 1..n
    OBVIOUS
  <2>2. IsFiniteSet(1..n) /\ Cardinality(1..n) = n
    BY FS_Interval
  <2> QED
    BY <2>1, <2>2
<1>2. IsFiniteSet(S) /\ Cardinality(S) \in Nat /\ Cardinality(S) <= n
  BY <1>1, FS_Subset, FS_CardinalityType
<1>3. ASSUME NEW i \in S
      PROVE  /\ IsFiniteSet(upTo(i)) /\ Cardinality(upTo(i)) \in Nat
             /\ Cardinality(upTo(i)) <= Cardinality(S) /\ Cardinality(upTo(i)) <= i
             /\ Cardinality(upTo(i)) >= 1
  <2>1. upTo(i) \in SUBSET S /\ upTo(i) \in SUBSET (1..i) /\ i \in upTo(i) /\ i \in Nat
    <3>1. i \in Nat /\ \A j \in S : j <= i => j \in 1..i
      BY <1>1
    <3>2. i <= i
      BY <3>1
    <3> QED
      BY <3>1, <3>2
  <2>2. IsFiniteSet(1..i) /\ Cardinality(1..i) = i
    BY <2>1, FS_Interval
  <2>3. IsFiniteSet(upTo(i)) /\ Cardinality(upTo(i)) <= Cardinality(S) /\ Cardinality(upTo(i)) <= i
    BY <1>2, <2>1, <2>2, FS_Subset
  <2>4. Cardinality(upTo(i)) \in Nat
    BY <2>3, FS_CardinalityType
  <2>5. Cardinality(upTo(i)) # 0
    BY <2>1, <2>3, FS_EmptySet
  <2> HIDE DEF upTo
  <2> QED
    BY <2>3, <2>4, <2>5
<1>4. ASSUME NEW i \in S, NEW j \in S, i < j
      PROVE  Cardinality(upTo(i)) < Cardinality(upTo(j))
  <2>1. upTo(i) \in SUBSET upTo(j) /\ upTo(i) # upTo(j)
    <3>1. \A x \in S : x <= i => x <= j
      BY <1>1, <1>4
    <3>2. ~(j <= i) /\ j <= j
      BY <1>1, <1>4
    <3> QED
      BY <3>1, <3>2
  <2>2. Cardinality(upTo(i)) <= Cardinality(upTo(j)) /\ Cardinality(upTo(i)) # Cardinality(upTo(j))
    BY <1>3, <2>1, FS_Subset
  <2> HIDE DEF upTo
  <2> QED
    BY <1>3, <2>2
<1>5. rank \in [S -> 1..Cardinality(S)]
  <2> HIDE DEF upTo
  <2> QED
    BY <1>2, <1>3
<1>6. rank \in Injection(S, 1..Cardinality(S))
  <2>1. \A i, j \in S : rank[i] = rank[j] => i = j
    <3>1. ASSUME NEW i \in S, NEW j \in S, rank[i] = rank[j] PROVE i = j
      <4> HIDE DEF upTo
      <4>1. ~(i < j) /\ ~(j < i)
        BY <1>3, <1>4, <3>1
      <4> QED
        BY <1>1, <4>1
    <3> QED
      BY <3>1
  <2> HIDE DEF rank
  <2> QED
    BY <1>5, <2>1 DEF Injection, IsInjective
<1>7. rank \in Surjection(S, 1..Cardinality(S))
  <2>1. IsFiniteSet(1..Cardinality(S)) /\ Cardinality(1..Cardinality(S)) = Cardinality(S)
    BY <1>2, FS_Interval
  <2> HIDE DEF rank
  <2> QED
    BY <1>6, <2>1, FS_Injection
<1>8. ASSUME NEW k \in 1..Cardinality(S)
      PROVE  Nth(S, k) \in S /\ rank[Nth(S, k)] = k
  <2>1. \E i \in S : rank[i] = k
    <3> HIDE DEF rank
    <3> QED
      BY <1>7 DEF Surjection
  <2>2. \E i \in S : Cardinality({j \in S : j <= i}) = k
    BY <2>1
  <2>3. Nth(S, k) \in S /\ Cardinality({j \in S : j <= Nth(S, k)}) = k
    BY <2>2 DEF Nth
  <2> QED
    BY <2>3
<1>9. ASSUME NEW k \in 1..Cardinality(S) PROVE k <= Nth(S, k)
  <2> HIDE DEF upTo
  <2> QED
    BY <1>3, <1>8
<1>10. ASSUME NEW k \in 1..Cardinality(S), NEW m \in 1..Cardinality(S), k < m
       PROVE  Nth(S, k) < Nth(S, m)
  <2>1. /\ Nth(S, k) \in S /\ Nth(S, m) \in S /\ Nth(S, k) \in Nat /\ Nth(S, m) \in Nat
        /\ Cardinality(upTo(Nth(S, k))) = k /\ Cardinality(upTo(Nth(S, m))) = m
    BY <1>1, <1>8
  <2> HIDE DEF upTo
  <2>2. ~(Nth(S, m) < Nth(S, k))
    <3>1. Nth(S, m) < Nth(S, k) => m < k
      BY <1>4, <2>1
    <3> QED
      BY <1>2, <1>10, <3>1
  <2>3. Nth(S, m) # Nth(S, k)
    BY <1>2, <1>10, <2>1
  <2> QED
    BY <2>1, <2>2, <2>3
<1>11. ASSUME NEW i \in S PROVE \E k \in 1..Cardinality(S) : Nth(S, k) = i
  <2>1. rank[i] \in 1..Cardinality(S)
    BY <1>5
  <2>2. Nth(S, rank[i]) \in S /\ rank[Nth(S, rank[i])] = rank[i]
    BY <1>8, <2>1
  <2> HIDE DEF rank
  <2>3. Nth(S, rank[i]) = i
    BY <1>6, <2>2 DEF Injection, IsInjective
  <2> QED
    BY <2>1, <2>3
<1> QED
  BY <1>2, <1>8, <1>9, <1>10, <1>11

LEMMA MinOfPositions ==
  ASSUME NEW I \in SUBSET Nat, I # {}
  PROVE  Min(I) \in I /\ \A k \in I : Min(I) <= k
<1>1. PICK x \in I : \A y \in I : <<y, x>> \notin OpToRel(<, Nat)
  BY NatLessThanWellFounded, WFMin
<1>2. \A y \in I : x <= y
  <2>1. ASSUME NEW y \in I, y < x PROVE FALSE
    <3>1. <<y, x>> \in Nat \X Nat /\ <<y, x>>[1] < <<y, x>>[2]
      BY <2>1
    <3>2. <<y, x>> \in {ss \in Nat \X Nat : ss[1] < ss[2]}
      BY <3>1
    <3>3. <<y, x>> \in OpToRel(<, Nat)
      BY <3>2, Zenon DEF OpToRel
    <3> QED
      BY <1>1, <3>3
  <2> QED
    BY <2>1
<1> QED
  BY <1>2 DEF Min

LEMMA InsertAtForm ==
  ASSUME NEW S, NEW s \in Seq(S), NEW e \in S, NEW k \in 1..(Len(s) + 1)
  PROVE  /\ InsertAt(s, k, e) \in Seq(S) /\ Len(InsertAt(s, k, e)) = Len(s) + 1
         /\ \A i \in 1..(Len(s) + 1) :
              InsertAt(s, k, e)[i] = IF i < k THEN s[i] ELSE IF i = k THEN e ELSE s[i - 1]
<1> DEFINE a == SubSeq(s, 1, k - 1)
           b == SubSeq(s, k, Len(s))
           c == a \o <<e>>
<1>1. Len(s) \in Nat /\ k \in Int /\ k - 1 \in Int /\ \A i \in 1..Len(s) : s[i] \in S
  OBVIOUS
<1>2. a \in Seq(S) /\ Len(a) = k - 1 /\ \A i \in 1..(k - 1) : a[i] = s[i]
  <2>1. \A i \in 1..(k - 1) : s[i] \in S
    BY <1>1
  <2>2. /\ a \in Seq(S) /\ Len(a) = (IF 1 <= k - 1 THEN (k - 1) - 1 + 1 ELSE 0)
        /\ \A i \in 1..((k - 1) - 1 + 1) : a[i] = s[1 + i - 1]
    BY <1>1, <2>1, SubSeqProperties
  <2>3. (IF 1 <= k - 1 THEN (k - 1) - 1 + 1 ELSE 0) = k - 1 /\ (k - 1) - 1 + 1 = k - 1
        /\ \A i \in 1..(k - 1) : 1 + i - 1 = i
    BY <1>1
  <2> HIDE DEF a
  <2>4. \A i \in 1..(k - 1) : a[i] = s[1 + i - 1]
    BY <2>2, <2>3
  <2> QED
    BY <2>2, <2>3, <2>4
<1>3. b \in Seq(S) /\ Len(b) = Len(s) - k + 1 /\ \A i \in 1..(Len(s) - k + 1) : b[i] = s[k + i - 1]
  <2>1. \A i \in k..Len(s) : s[i] \in S
    BY <1>1
  <2>2. /\ b \in Seq(S) /\ Len(b) = (IF k <= Len(s) THEN Len(s) - k + 1 ELSE 0)
        /\ \A i \in 1..(Len(s) - k + 1) : b[i] = s[k + i - 1]
    BY <1>1, <2>1, SubSeqProperties
  <2>3. (IF k <= Len(s) THEN Len(s) - k + 1 ELSE 0) = Len(s) - k + 1
    BY <1>1
  <2> HIDE DEF b
  <2> QED
    BY <2>2, <2>3
<1>4. InsertAt(s, k, e) = c \o b
  BY DEF InsertAt
<1> HIDE DEF a, b
<1>5. c \in Seq(S) /\ Len(c) = k /\ c[k] = e /\ \A i \in 1..(k - 1) : c[i] = s[i]
  <2>1. <<e>> \in Seq(S) /\ Len(<<e>>) = 1 /\ <<e>>[1] = e
    OBVIOUS
  <2>2. /\ c \in Seq(S) /\ Len(c) = Len(a) + 1
        /\ \A i \in 1..(Len(a) + 1) : c[i] = IF i <= Len(a) THEN a[i] ELSE <<e>>[i - Len(a)]
    BY <1>2, <2>1, ConcatProperties
  <2> HIDE DEF c
  <2>3. c[k] = <<e>>[k - (k - 1)] /\ k - (k - 1) = 1
    <3>1. k \in 1..(Len(a) + 1) /\ ~(k <= Len(a)) /\ Len(a) = k - 1 /\ k - (k - 1) = 1
      BY <1>1, <1>2
    <3> QED
      BY <2>2, <3>1
  <2>4. \A i \in 1..(k - 1) : c[i] = a[i]
    BY <1>1, <1>2, <2>2
  <2> QED
    BY <1>1, <1>2, <2>1, <2>2, <2>3, <2>4
<1> HIDE DEF c
<1>6. /\ c \o b \in Seq(S) /\ Len(c \o b) = Len(s) + 1
      /\ \A i \in 1..(Len(s) + 1) : (c \o b)[i] = IF i <= k THEN c[i] ELSE b[i - k]
  <2>1. /\ c \o b \in Seq(S) /\ Len(c \o b) = Len(c) + Len(b)
        /\ \A i \in 1..(Len(c) + Len(b)) : (c \o b)[i] = IF i <= Len(c) THEN c[i] ELSE b[i - Len(c)]
    BY <1>3, <1>5, ConcatProperties
  <2>2. Len(c) + Len(b) = Len(s) + 1
    BY <1>1, <1>3, <1>5
  <2> QED
    BY <1>5, <2>1, <2>2
<1>7. ASSUME NEW i \in 1..(Len(s) + 1)
      PROVE  (c \o b)[i] = IF i < k THEN s[i] ELSE IF i = k THEN e ELSE s[i - 1]
  <2>1. CASE i <= k
    BY <1>1, <1>5, <1>6, <2>1
  <2>2. CASE i > k
    <3>1. i - k \in 1..(Len(s) - k + 1) /\ k + (i - k) - 1 = i - 1 /\ ~(i <= k) /\ ~(i < k) /\ i # k
      BY <1>1, <2>2
    <3>2. (c \o b)[i] = b[i - k]
      BY <1>6, <3>1
    <3>3. b[i - k] = s[k + (i - k) - 1]
      BY <1>3, <3>1
    <3> QED
      BY <3>1, <3>2, <3>3
  <2>3. i <= k \/ i > k
    BY <1>1
  <2> QED
    BY <2>1, <2>2, <2>3
<1> QED
  BY <1>4, <1>6, <1>7

-----------------------------------------------------------------------------
(* What the operations on a list do to its entries.                        *)
LEMMA PrioritiesAreNumbers == \A x \in Entry : x.priority \in Int
<1>1. \A x \in Entry : x.priority \in Priorities
  BY DEF Entry
<1>2. Priorities \subseteq Int
  BY MoveAssumption
<1> QED
  BY <1>1, <1>2

LEMMA ListShape ==
  ASSUME NEW l \in List
  PROVE  /\ l = [entries |-> l.entries, startOffset |-> l.startOffset,
                 insertionOffset |-> l.insertionOffset]
         /\ l.entries \in Seq(Entry) /\ DOMAIN l.entries = 1..Size(l) /\ Size(l) \in Nat
         /\ l.startOffset \in Nat /\ l.insertionOffset \in Nat
         /\ \A i \in 1..Size(l) : l.entries[i] \in Entry /\ l.entries[i].priority \in Int
<1>1. l.entries \in Seq(Entry) /\ l.startOffset \in Nat /\ l.insertionOffset \in Nat
  BY DEF List
<1>2. l = [entries |-> l.entries, startOffset |-> l.startOffset, insertionOffset |-> l.insertionOffset]
  BY DEF List
<1>3. DOMAIN l.entries = 1..Size(l) /\ Size(l) \in Nat /\ \A i \in 1..Size(l) : l.entries[i] \in Entry
  BY <1>1, LenProperties DEF Size
<1>4. \A x \in Entry : x.priority \in Int
  BY PrioritiesAreNumbers
<1> QED
  BY <1>1, <1>2, <1>3, <1>4

LEMMA LivePlaces ==
  ASSUME NEW l \in List
  PROVE  \A x : x \in Live(l) <=> x.event # NoEvent /\ \E i \in 1..Size(l) : l.entries[i] = x
<1>1. DOMAIN l.entries = 1..Size(l)
  BY ListShape
<1>2. ToSet(l.entries) = {l.entries[i] : i \in 1..Size(l)}
  BY <1>1 DEF ToSet
<1> QED
  BY <1>2 DEF Live

LEMMA AddEventForm ==
  ASSUME NEW l \in List, NEW ev \in Entry
  PROVE  \E pos \in 1..(Size(l) + 1) :
           /\ l.insertionOffset < pos \/ pos = Size(l) + 1
           /\ AddEvent(l, ev) = [l EXCEPT !.entries = InsertAt(l.entries, pos, ev)]
           /\ \A i \in l.insertionOffset + 1 .. Size(l) :
                i < pos => l.entries[i].priority >= ev.priority
           /\ pos \in l.insertionOffset + 1 .. Size(l) => l.entries[pos].priority < ev.priority
<1> DEFINE later == {i \in l.insertionOffset + 1 .. Size(l) : l.entries[i].priority < ev.priority}
           pos == Min(later \cup {Size(l) + 1})
<1>1. Size(l) \in Nat /\ l.insertionOffset \in Nat
      /\ (\A i \in 1..Size(l) : l.entries[i].priority \in Int) /\ ev.priority \in Int
  BY ListShape, PrioritiesAreNumbers
<1>2. later \cup {Size(l) + 1} \in SUBSET Nat /\ later \cup {Size(l) + 1} # {}
  BY <1>1
<1>3. pos \in later \cup {Size(l) + 1} /\ \A k \in later \cup {Size(l) + 1} : pos <= k
  BY <1>2, MinOfPositions
<1>4. AddEvent(l, ev) = [l EXCEPT !.entries = InsertAt(l.entries, pos, ev)]
  BY DEF AddEvent
<1> HIDE DEF pos
<1>5. pos \in 1..(Size(l) + 1) /\ (l.insertionOffset < pos \/ pos = Size(l) + 1)
  BY <1>1, <1>3
<1>6. \A i \in l.insertionOffset + 1 .. Size(l) : i < pos => l.entries[i].priority >= ev.priority
  <2>1. ASSUME NEW i \in l.insertionOffset + 1 .. Size(l), i < pos
        PROVE  l.entries[i].priority >= ev.priority
    <3>1. i \in 1..Size(l) /\ i \notin later
      BY <1>1, <1>3, <1>5, <2>1
    <3>2. ~(l.entries[i].priority < ev.priority) /\ l.entries[i].priority \in Int
      BY <1>1, <3>1
    <3> QED
      BY <1>1, <3>2
  <2> QED
    BY <2>1
<1>7. pos \in l.insertionOffset + 1 .. Size(l) => l.entries[pos].priority < ev.priority
  BY <1>1, <1>3
<1> QED
  BY <1>4, <1>5, <1>6, <1>7

(* addEvent(): the list gets one entry, and stays as it was before it.     *)
LEMMA AddEventFacts ==
  ASSUME NEW l, SoundList(l), NEW ev \in Entry, ev.event # NoEvent, ev.receiver # NoReceiver,
         \A x \in Live(l) : x.event # ev.event /\ Before(x, ev)
  PROVE  LET m == AddEvent(l, ev) IN
         /\ SoundList(m) /\ Live(m) = Live(l) \cup {ev}
         /\ m.startOffset = l.startOffset /\ m.insertionOffset = l.insertionOffset
         /\ Size(m) = Size(l) + 1
         /\ \A i \in 1..Size(m) :
              \/ m.entries[i] = ev /\ (i > l.insertionOffset \/ i = Size(m))
              \/ i \in 1..Size(l) /\ m.entries[i] = l.entries[i]
              \/ i > l.insertionOffset
<1> DEFINE m == AddEvent(l, ev)
<1>1. l \in List /\ BothNull(l) /\ Once(l) /\ Sorted(l) /\ Offsets(l) /\ InOrder(l)
  BY DEF SoundList
<1>2. /\ l.entries \in Seq(Entry) /\ Size(l) \in Nat /\ Len(l.entries) = Size(l)
      /\ l.startOffset \in Nat /\ l.insertionOffset \in Nat
      /\ \A i \in 1..Size(l) : l.entries[i] \in Entry /\ l.entries[i].priority \in Int
  BY <1>1, ListShape DEF Size
<1>3. ev.priority \in Int
  BY PrioritiesAreNumbers
<1>4. PICK pos \in 1..(Size(l) + 1) :
        /\ l.insertionOffset < pos \/ pos = Size(l) + 1
        /\ m = [l EXCEPT !.entries = InsertAt(l.entries, pos, ev)]
        /\ \A i \in l.insertionOffset + 1 .. Size(l) :
             i < pos => l.entries[i].priority >= ev.priority
        /\ pos \in l.insertionOffset + 1 .. Size(l) => l.entries[pos].priority < ev.priority
  BY <1>1, AddEventForm
<1> DEFINE t == InsertAt(l.entries, pos, ev)
<1>5. /\ t \in Seq(Entry) /\ Len(t) = Size(l) + 1
      /\ \A i \in 1..(Size(l) + 1) :
           t[i] = IF i < pos THEN l.entries[i] ELSE IF i = pos THEN ev ELSE l.entries[i - 1]
  <2>1. pos \in 1..(Len(l.entries) + 1)
    BY <1>2
  <2>2. l.entries \in Seq(Entry)
    BY <1>2
  <2> DEFINE s == l.entries
  <2>3. t = InsertAt(s, pos, ev) /\ Len(s) = Size(l)
    BY <1>2
  <2> HIDE DEF s, t
  <2>4. s \in Seq(Entry) /\ pos \in 1..(Len(s) + 1)
    BY <2>1, <2>2 DEF s
  <2>5. /\ InsertAt(s, pos, ev) \in Seq(Entry) /\ Len(InsertAt(s, pos, ev)) = Len(s) + 1
        /\ \A i \in 1..(Len(s) + 1) :
             InsertAt(s, pos, ev)[i] = IF i < pos THEN s[i] ELSE IF i = pos THEN ev ELSE s[i - 1]
    <3> DEFINE S == Entry
    <3>1. s \in Seq(S) /\ ev \in S /\ pos \in 1..(Len(s) + 1)
      BY <2>4
    <3> HIDE DEF S
    <3> QED
      BY <3>1, InsertAtForm DEF S
  <2>6. /\ t \in Seq(Entry) /\ Len(t) = Size(l) + 1
        /\ \A i \in 1..(Size(l) + 1) :
             t[i] = IF i < pos THEN s[i] ELSE IF i = pos THEN ev ELSE s[i - 1]
    BY <2>3, <2>5
  <2> QED
    BY <2>6 DEF s
<1>6. /\ m.entries = t /\ m.startOffset = l.startOffset /\ m.insertionOffset = l.insertionOffset
      /\ m \in List
  BY <1>1, <1>4, <1>5 DEF List
<1> HIDE DEF m, t
<1>7. Size(m) = Size(l) + 1
  BY <1>5, <1>6 DEF Size
<1>8. /\ m.entries[pos] = ev
      /\ \A i \in 1..(pos - 1) : i \in 1..Size(l) /\ m.entries[i] = l.entries[i]
      /\ \A i \in (pos + 1)..Size(m) : i - 1 \in pos..Size(l) /\ m.entries[i] = l.entries[i - 1]
  <2>1. \A i \in 1..(pos - 1) : i \in 1..Size(l) /\ i \in 1..(Size(l) + 1) /\ i < pos
    BY <1>2
  <2>2. \A i \in (pos + 1)..Size(m) : /\ i - 1 \in pos..Size(l) /\ i \in 1..(Size(l) + 1)
                                      /\ ~(i < pos) /\ i # pos
    BY <1>2, <1>7
  <2>3. ~(pos < pos)
    BY <1>2
  <2> QED
    BY <1>5, <1>6, <2>1, <2>2, <2>3
<1>9. Live(m) = Live(l) \cup {ev}
  <2>1. ASSUME NEW x \in Live(m) PROVE x \in Live(l) \cup {ev}
    <3>1. PICK i \in 1..Size(m) : m.entries[i] = x /\ x.event # NoEvent
      BY <1>6, LivePlaces
    <3>2. i = pos \/ i \in 1..(pos - 1) \/ i \in (pos + 1)..Size(m)
      BY <1>2, <1>7, <3>1
    <3>3. x = ev \/ \E j \in 1..Size(l) : l.entries[j] = x
      <4>1. i \in (pos + 1)..Size(m) => i - 1 \in 1..Size(l)
        BY <1>2, <1>8
      <4> QED
        BY <1>8, <3>1, <3>2, <4>1
    <3> QED
      BY <1>1, <3>1, <3>3, LivePlaces
  <2>2. ASSUME NEW x \in Live(l) PROVE x \in Live(m)
    <3>1. PICK i \in 1..Size(l) : l.entries[i] = x /\ x.event # NoEvent
      BY <1>1, LivePlaces
    <3>2. i \in 1..(pos - 1) \/ i + 1 \in (pos + 1)..Size(m)
      BY <1>2, <1>7, <3>1
    <3>3. \E j \in 1..Size(m) : m.entries[j] = x
      <4>1. (i + 1) - 1 = i /\ i \in 1..Size(m) /\ i + 1 \in 1..Size(m)
        BY <1>2, <1>7
      <4>2. CASE i \in 1..(pos - 1)
        BY <1>8, <3>1, <4>1, <4>2
      <4>3. CASE i + 1 \in (pos + 1)..Size(m)
        BY <1>8, <3>1, <4>1, <4>3
      <4> QED
        BY <3>2, <4>2, <4>3
    <3> QED
      BY <1>6, <3>1, <3>3, LivePlaces
  <2>3. ev \in Live(m)
    <3>1. pos \in 1..Size(m)
      BY <1>7
    <3> QED
      BY <1>6, <1>8, <3>1, LivePlaces
  <2> QED
    BY <2>1, <2>2, <2>3
<1>10. BothNull(m)
  <2>1. ASSUME NEW i \in 1..Size(m)
        PROVE  m.entries[i].event = NoEvent <=> m.entries[i].receiver = NoReceiver
    <3>1. i = pos \/ i \in 1..(pos - 1) \/ i \in (pos + 1)..Size(m)
      BY <1>2, <1>7
    <3>2. i \in (pos + 1)..Size(m) => i - 1 \in 1..Size(l)
      BY <1>2, <1>8
    <3> QED
      BY <1>1, <1>8, <3>1, <3>2 DEF BothNull
  <2> QED
    BY <2>1 DEF BothNull
<1>11. Once(m)
  <2> DEFINE from(i) == IF i < pos THEN i ELSE i - 1
  <2>1. ASSUME NEW i \in 1..Size(m), i # pos
        PROVE  from(i) \in 1..Size(l) /\ m.entries[i] = l.entries[from(i)]
    <3>1. i \in 1..(pos - 1) \/ i \in (pos + 1)..Size(m)
      BY <1>2, <1>7, <2>1
    <3> QED
      BY <1>2, <1>7, <1>8, <2>1, <3>1
  <2>2. \A i, j \in 1..Size(m) : i # pos /\ j # pos /\ from(i) = from(j) => i = j
    BY <1>2, <1>7
  <2> HIDE DEF from
  <2>3. ASSUME NEW i \in 1..Size(m), i # pos, m.entries[i].event = ev.event PROVE FALSE
    <3>1. l.entries[from(i)] \in Live(l)
      BY <1>1, <2>1, <2>3, LivePlaces
    <3> QED
      BY <2>1, <2>3, <3>1
  <2>4. ASSUME NEW i \in 1..Size(m), NEW j \in 1..Size(m),
               m.entries[i].event = m.entries[j].event, m.entries[i].event # NoEvent
        PROVE  i = j
    <3>1. CASE i = pos \/ j = pos
      BY <1>8, <2>3, <2>4, <3>1
    <3>2. CASE i # pos /\ j # pos
      <4>1. from(i) = from(j)
        BY <1>1, <2>1, <2>4, <3>2 DEF Once
      <4> QED
        BY <2>2, <3>2, <4>1
    <3> QED
      BY <3>1, <3>2
  <2> QED
    BY <2>4 DEF Once
<1>12. Sorted(m)
  <2>1. ASSUME NEW i \in m.insertionOffset + 1 .. Size(m), NEW j \in m.insertionOffset + 1 .. Size(m), i < j
        PROVE  m.entries[i].priority >= m.entries[j].priority
    <3>1. i \in Nat /\ j \in Nat /\ i >= 1 /\ l.insertionOffset < pos
      <4>1. i \in Nat /\ j \in Nat /\ i >= 1
        BY <1>2, <1>6, <1>7
      <4>2. l.insertionOffset < pos
        BY <1>2, <1>4, <1>6, <1>7, <2>1
      <4> QED
        BY <4>1, <4>2
    <3>2. CASE j < pos
      <4>1. i \in 1..(pos - 1) /\ j \in 1..(pos - 1)
            /\ i \in l.insertionOffset + 1 .. Size(l) /\ j \in l.insertionOffset + 1 .. Size(l)
        BY <1>2, <1>6, <1>7, <2>1, <3>1, <3>2
      <4> QED
        BY <1>1, <1>8, <2>1, <4>1 DEF Sorted
    <3>3. CASE j = pos
      <4>1. i \in 1..(pos - 1) /\ i \in l.insertionOffset + 1 .. Size(l) /\ i < pos
        BY <1>2, <1>6, <1>7, <2>1, <3>1, <3>3
      <4> QED
        BY <1>4, <1>8, <3>3, <4>1
    <3>4. CASE j > pos
      <4>1. j \in (pos + 1)..Size(m) /\ j - 1 \in l.insertionOffset + 1 .. Size(l) /\ j - 1 \in 1..Size(l)
            /\ m.entries[j] = l.entries[j - 1]
        BY <1>2, <1>6, <1>7, <1>8, <2>1, <3>1, <3>4
      <4>2. CASE i < pos
        <5>2. i \in 1..(pos - 1) /\ i < j - 1 /\ i \in l.insertionOffset + 1 .. Size(l)
          BY <1>2, <1>6, <1>7, <2>1, <3>1, <3>4, <4>1, <4>2
        <5> QED
          BY <1>1, <1>8, <4>1, <5>2 DEF Sorted
      <4>3. CASE i = pos
        <5>1. pos \in l.insertionOffset + 1 .. Size(l) /\ pos \in 1..Size(l)
          BY <1>2, <1>7, <3>1, <3>4
        <5>2. l.entries[pos].priority < ev.priority /\ l.entries[pos].priority >= l.entries[j - 1].priority
          <6>1. pos < j - 1 \/ pos = j - 1
            BY <3>1, <3>4
          <6>2. l.entries[pos].priority >= l.entries[pos].priority
            BY <1>2, <5>1
          <6> QED
            BY <1>1, <1>4, <4>1, <5>1, <6>1, <6>2 DEF Sorted
        <5>3. m.entries[i] = ev /\ m.entries[j] = l.entries[j - 1]
          BY <1>8, <4>1, <4>3
        <5>4. j - 1 \in 1..Size(l)
          BY <1>2, <4>1
        <5>5. \A a, b, c \in Int : b < a /\ b >= c => a >= c
          OBVIOUS
        <5> QED
          BY <1>2, <1>3, <5>1, <5>2, <5>3, <5>4, <5>5
      <4>4. CASE i > pos
        <5>1. i \in (pos + 1)..Size(m) /\ i - 1 \in l.insertionOffset + 1 .. Size(l) /\ i - 1 < j - 1
          BY <1>2, <1>6, <1>7, <2>1, <3>1, <3>4, <4>4
        <5> QED
          BY <1>1, <1>8, <4>1, <5>1 DEF Sorted
      <4> QED
        BY <3>1, <4>2, <4>3, <4>4
    <3> QED
      BY <3>1, <3>2, <3>3, <3>4
  <2> QED
    BY <2>1 DEF Sorted
<1>13. Offsets(m)
  <2>1. l.startOffset <= Size(m)
    BY <1>1, <1>2, <1>7 DEF Offsets
  <2>2. ASSUME NEW i \in 1..l.startOffset PROVE m.entries[i].event = NoEvent
    <3>1. l.startOffset <= Size(l) /\ l.startOffset <= l.insertionOffset /\ l.entries[i].event = NoEvent
      BY <1>1, <1>2 DEF Offsets
    <3>2. i \in 1..(pos - 1)
      BY <1>2, <1>4, <3>1
    <3> QED
      BY <1>8, <3>1, <3>2
  <2> QED
    BY <1>1, <1>6, <2>1, <2>2 DEF Offsets
<1>16. InOrder(m)
  <2>1. ASSUME NEW i \in 1..Size(m), NEW j \in 1..Size(m), i < j,
               m.entries[i].event # NoEvent, m.entries[j].event # NoEvent
        PROVE  Before(m.entries[i], m.entries[j])
    <3>1. i \in Nat /\ j \in Nat /\ pos \in Nat /\ i >= 1
      BY <1>2, <1>7
    <3>2. CASE j < pos
      <4>1. i \in 1..(pos - 1) /\ j \in 1..(pos - 1)
        BY <2>1, <3>1, <3>2
      <4> QED
        BY <1>1, <1>8, <2>1, <4>1 DEF InOrder
    <3>3. CASE j = pos
      <4>1. i \in 1..(pos - 1)
        BY <2>1, <3>1, <3>3
      <4>2. m.entries[i] = l.entries[i] /\ i \in 1..Size(l) /\ m.entries[j] = ev
        BY <1>8, <3>3, <4>1
      <4>3. l.entries[i] \in Live(l)
        BY <1>1, <2>1, <4>2, LivePlaces
      <4> QED
        BY <4>2, <4>3
    <3>4. CASE j > pos
      <4>1. /\ j \in (pos + 1)..Size(m) /\ j - 1 \in pos..Size(l) /\ j - 1 \in 1..Size(l)
            /\ m.entries[j] = l.entries[j - 1]
        BY <1>2, <1>7, <1>8, <3>1, <3>4
      <4>2. CASE i < pos
        <5>1. i \in 1..(pos - 1) /\ i < j - 1
          BY <3>1, <3>4, <4>2
        <5> QED
          BY <1>1, <1>8, <2>1, <4>1, <5>1 DEF InOrder
      <4>3. CASE i = pos
        <5>1. pos \in l.insertionOffset + 1 .. Size(l) /\ j - 1 \in l.insertionOffset + 1 .. Size(l)
              /\ pos \in 1..Size(l)
          BY <1>2, <1>4, <3>1, <3>4, <4>1
        <5>2. l.entries[pos].priority < ev.priority /\ l.entries[pos].priority >= l.entries[j - 1].priority
          <6>1. pos < j - 1 \/ pos = j - 1
            BY <3>1, <3>4
          <6>2. l.entries[pos].priority >= l.entries[pos].priority
            BY <1>2, <5>1
          <6> QED
            BY <1>1, <1>4, <4>1, <5>1, <6>1, <6>2 DEF Sorted
        <5>3. \A x, y, z \in Int : x < y /\ x >= z => y # z
          OBVIOUS
        <5>4. ev.priority # l.entries[j - 1].priority
          BY <1>2, <1>3, <4>1, <5>1, <5>2, <5>3
        <5> QED
          BY <1>8, <4>1, <4>3, <5>4 DEF Before
      <4>4. CASE i > pos
        <5>1. i \in (pos + 1)..Size(m) /\ i - 1 \in 1..Size(l) /\ i - 1 < j - 1
          BY <1>2, <1>7, <2>1, <3>1, <4>4
        <5> QED
          BY <1>1, <1>8, <2>1, <4>1, <5>1 DEF InOrder
      <4> QED
        BY <3>1, <4>2, <4>3, <4>4
    <3> QED
      BY <3>1, <3>2, <3>3, <3>4
  <2> QED
    BY <2>1 DEF InOrder
<1>14. \A i \in 1..Size(m) : \/ m.entries[i] = ev /\ (i > l.insertionOffset \/ i = Size(m))
                             \/ i \in 1..Size(l) /\ m.entries[i] = l.entries[i]
                             \/ i > l.insertionOffset
  <2>1. ASSUME NEW i \in 1..Size(m)
        PROVE  \/ i = pos /\ (i > l.insertionOffset \/ i = Size(m))
               \/ i \in 1..(pos - 1) \/ i > l.insertionOffset
    BY <1>2, <1>4, <1>7
  <2> QED
    BY <1>8, <2>1
<1> QED
  BY <1>6, <1>7, <1>9, <1>10, <1>11, <1>12, <1>13, <1>14, <1>16 DEF m, SoundList

LEMMA NullEntry ==
  ASSUME NEW x \in Entry
  PROVE  /\ Null(x) \in Entry /\ Null(x).event = NoEvent /\ Null(x).receiver = NoReceiver
         /\ Null(x).type = "normal" /\ Null(x).priority = x.priority
  BY DEF Null, Entry

(* Entries that become null leave the others where they are.               *)
LEMMA Nulled ==
  ASSUME NEW l, SoundList(l), NEW m \in List, NEW P \in SUBSET (1..Size(l)),
         Size(m) = Size(l),
         m.startOffset = l.startOffset, m.insertionOffset = l.insertionOffset,
         \A i \in 1..Size(l) :
           m.entries[i] = IF i \in P THEN Null(l.entries[i]) ELSE l.entries[i]
  PROVE  /\ SoundList(m)
         /\ Live(m) = {x \in Live(l) : \A i \in P : l.entries[i] # x}
<1>1. l \in List /\ BothNull(l) /\ Once(l) /\ Sorted(l) /\ Offsets(l) /\ InOrder(l)
  BY DEF SoundList
<1>2. /\ Size(l) \in Nat /\ l.startOffset \in Nat /\ l.insertionOffset \in Nat
      /\ \A i \in 1..Size(l) : l.entries[i] \in Entry
  BY <1>1, ListShape
<1>3. \A i \in 1..Size(l) :
        /\ i \in P => m.entries[i].event = NoEvent /\ m.entries[i].receiver = NoReceiver
        /\ m.entries[i].priority = l.entries[i].priority
        /\ i \notin P => m.entries[i] = l.entries[i]
  BY <1>2, NullEntry
<1>4. BothNull(m) /\ Once(m) /\ InOrder(m)
  BY <1>1, <1>3 DEF BothNull, Once, InOrder
<1>5. Sorted(m)
  <2>1. \A i \in l.insertionOffset + 1 .. Size(l) : i \in 1..Size(l)
    BY <1>2
  <2> QED
    BY <1>1, <1>3, <2>1 DEF Sorted
<1>6. Offsets(m)
  <2>1. \A i \in 1..l.startOffset : i \in 1..Size(l)
    BY <1>1, <1>2 DEF Offsets
  <2> QED
    BY <1>1, <1>3, <2>1 DEF Offsets
<1>7. ASSUME NEW x \in Live(m) PROVE x \in Live(l) /\ \A i \in P : l.entries[i] # x
  <2>1. PICK k \in 1..Size(l) : m.entries[k] = x /\ x.event # NoEvent
    BY <1>7, LivePlaces
  <2>2. k \notin P /\ l.entries[k] = x
    BY <1>3, <2>1
  <2> QED
    <3>1. x \in Live(l)
      BY <1>1, <2>1, <2>2, LivePlaces
    <3>2. \A i \in P : l.entries[i] # x
      BY <1>1, <2>1, <2>2 DEF Once
    <3> QED
      BY <3>1, <3>2
<1>8. ASSUME NEW x \in Live(l), \A i \in P : l.entries[i] # x PROVE x \in Live(m)
  <2>1. PICK k \in 1..Size(l) : l.entries[k] = x /\ x.event # NoEvent
    BY <1>1, LivePlaces
  <2>2. m.entries[k] = x
    BY <1>3, <1>8, <2>1
  <2> QED
    BY <2>1, <2>2, LivePlaces
<1> QED
  BY <1>4, <1>5, <1>6, <1>7, <1>8 DEF SoundList

(* An event that is delivered or posted again leaves a null entry.         *)
LEMMA NullAtFacts ==
  ASSUME NEW l, SoundList(l), NEW p \in 1..Size(l)
  PROVE  LET m == NullAt(l, p) IN
         /\ SoundList(m) /\ Live(m) = Live(l) \ {l.entries[p]}
         /\ m.startOffset = l.startOffset /\ m.insertionOffset = l.insertionOffset
         /\ Size(m) = Size(l)
         /\ m.entries[p].event = NoEvent
         /\ \A i \in 1..Size(l) : i # p => m.entries[i] = l.entries[i]
<1> DEFINE m == NullAt(l, p)
<1>1. l \in List
  BY DEF SoundList
<1>2. /\ l.entries \in Seq(Entry) /\ DOMAIN l.entries = 1..Size(l) /\ Size(l) \in Nat
      /\ l.startOffset \in Nat /\ l.insertionOffset \in Nat
      /\ \A i \in 1..Size(l) : l.entries[i] \in Entry
  BY <1>1, ListShape
<1> DEFINE t == [l.entries EXCEPT ![p] = Null(l.entries[p])]
<1>3. m = [l EXCEPT !.entries = t]
  BY DEF NullAt
<1>4. Null(l.entries[p]) \in Entry /\ Null(l.entries[p]).event = NoEvent
  BY <1>2, NullEntry
<1>5. /\ t \in Seq(Entry) /\ Len(t) = Size(l) /\ t[p] = Null(l.entries[p])
      /\ \A i \in 1..Size(l) : i # p => t[i] = l.entries[i]
  <2>1. /\ t \in [1..Size(l) -> Entry] /\ t[p] = Null(l.entries[p])
        /\ \A i \in 1..Size(l) : i # p => t[i] = l.entries[i]
    BY <1>2, <1>4
  <2> HIDE DEF t
  <2>2. t \in Seq(Entry) /\ Len(t) = Size(l)
    BY <1>2, <2>1, LenProperties
  <2> QED
    BY <2>1, <2>2
<1>6. m \in List /\ m.entries = t /\ m.startOffset = l.startOffset /\ m.insertionOffset = l.insertionOffset
  BY <1>1, <1>3, <1>5 DEF List
<1> HIDE DEF m, t
<1>7. Size(m) = Size(l)
  BY <1>5, <1>6 DEF Size
<1>8. SoundList(m) /\ Live(m) = {x \in Live(l) : \A i \in {p} : l.entries[i] # x}
  <2> DEFINE P == {p}
  <2>1. P \in SUBSET (1..Size(l))
    OBVIOUS
  <2>2. \A i \in 1..Size(l) :
          m.entries[i] = IF i \in P THEN Null(l.entries[i]) ELSE l.entries[i]
    BY <1>5, <1>6
  <2> HIDE DEF P
  <2>3. SoundList(m) /\ Live(m) = {x \in Live(l) : \A i \in P : l.entries[i] # x}
    BY <1>6, <1>7, <2>1, <2>2, Nulled
  <2> QED
    BY <2>3 DEF P
<1>9. Live(m) = Live(l) \ {l.entries[p]}
  BY <1>8
<1> QED
  BY <1>4, <1>5, <1>6, <1>7, <1>8, <1>9 DEF m

(* The entries of one receiver are taken out.                              *)
LEMMA TakenOut ==
  ASSUME NEW l, SoundList(l), l.startOffset = 0, NEW r
  PROVE  LET m == RemoveEvents(l, r, FALSE) IN
         /\ SoundList(m) /\ Live(m) = {x \in Live(l) : x.receiver # r}
         /\ m.startOffset = 0 /\ m.insertionOffset = l.insertionOffset
<1> DEFINE S == {i \in 1..Size(l) : l.entries[i].receiver # r}
           t == Only(l.entries, S)
           m == RemoveEvents(l, r, FALSE)
           n == Cardinality(S)
           from(k) == Nth(S, k)
<1>0. m = [l EXCEPT !.entries = t]
  BY DEF RemoveEvents
<1>1. l \in List /\ BothNull(l) /\ Once(l) /\ Sorted(l) /\ Offsets(l) /\ InOrder(l)
  BY DEF SoundList
<1>2. /\ Size(l) \in Nat /\ l.insertionOffset \in Nat
      /\ \A i \in 1..Size(l) : l.entries[i] \in Entry
  BY <1>1, ListShape
<1>3. S \in SUBSET (1..Size(l)) /\ \A i : i \in S <=> i \in 1..Size(l) /\ l.entries[i].receiver # r
  OBVIOUS
<1>4. t = [k \in 1..n |-> l.entries[from(k)]]
  BY DEF Only
<1> HIDE DEF S
<1>5. /\ n \in Nat
      /\ \A k \in 1..n : from(k) \in S /\ k <= from(k)
      /\ \A k, j \in 1..n : k < j => from(k) < from(j)
      /\ \A i \in S : \E k \in 1..n : from(k) = i
  BY <1>2, <1>3, PlacesInOrder
<1> HIDE DEF n, from, t, m
<1>6. \A k \in 1..n : from(k) \in 1..Size(l) /\ l.entries[from(k)] \in Entry
  BY <1>2, <1>3, <1>5
<1>7. t \in Seq(Entry) /\ Len(t) = n /\ \A k \in 1..n : t[k] = l.entries[from(k)]
  <2>1. t \in [1..n -> Entry] /\ \A k \in 1..n : t[k] = l.entries[from(k)]
    BY <1>4, <1>6
  <2>2. t \in Seq(Entry) /\ Len(t) = n
    BY <1>5, <2>1, LenProperties
  <2> QED
    BY <2>1, <2>2
<1>8. m \in List /\ m.entries = t /\ m.startOffset = 0 /\ m.insertionOffset = l.insertionOffset
  BY <1>0, <1>1, <1>7 DEF List
<1>9. Size(m) = n
  BY <1>7, <1>8 DEF Size
<1>10. \A k, j \in 1..n : from(k) = from(j) => k = j
  BY <1>2, <1>5, <1>6
<1>11. BothNull(m)
  BY <1>1, <1>6, <1>7, <1>8, <1>9 DEF BothNull
<1>12. Once(m)
  BY <1>1, <1>6, <1>7, <1>8, <1>9, <1>10 DEF Once
<1>13. Sorted(m)
  <2>1. ASSUME NEW i \in l.insertionOffset + 1 .. n, NEW j \in l.insertionOffset + 1 .. n, i < j
        PROVE  t[i].priority >= t[j].priority
    <3>1. i \in 1..n /\ j \in 1..n
      BY <1>2, <1>5
    <3>2. /\ from(i) \in l.insertionOffset + 1 .. Size(l) /\ from(j) \in l.insertionOffset + 1 .. Size(l)
          /\ from(i) < from(j)
      BY <1>2, <1>5, <1>6, <2>1, <3>1
    <3> QED
      BY <1>1, <1>7, <3>1, <3>2 DEF Sorted
  <2> QED
    BY <1>8, <1>9, <2>1 DEF Sorted
<1>14. Offsets(m) /\ InOrder(m)
  <2>1. Offsets(m)
    BY <1>5, <1>8, <1>9 DEF Offsets
  <2>2. InOrder(m)
    BY <1>1, <1>5, <1>6, <1>7, <1>8, <1>9 DEF InOrder
  <2> QED
    BY <2>1, <2>2
<1>15. ASSUME NEW x \in Live(m) PROVE x \in Live(l) /\ x.receiver # r
  <2>1. PICK k \in 1..n : t[k] = x /\ x.event # NoEvent
    BY <1>8, <1>9, LivePlaces
  <2>2. l.entries[from(k)] = x /\ from(k) \in 1..Size(l) /\ x.receiver # r
    BY <1>3, <1>5, <1>7, <2>1
  <2> QED
    BY <1>1, <2>1, <2>2, LivePlaces
<1>16. ASSUME NEW x \in Live(l), x.receiver # r PROVE x \in Live(m)
  <2>1. PICK i \in 1..Size(l) : l.entries[i] = x /\ x.event # NoEvent
    BY <1>1, LivePlaces
  <2>2. PICK k \in 1..n : from(k) = i
    BY <1>3, <1>5, <1>16, <2>1
  <2>3. t[k] = x
    BY <1>7, <2>1, <2>2
  <2> QED
    BY <1>8, <1>9, <2>1, <2>3, LivePlaces
<1>17. Live(m) = {x \in Live(l) : x.receiver # r}
  BY <1>15, <1>16
<1> QED
  BY <1>8, <1>11, <1>12, <1>13, <1>14, <1>17 DEF SoundList, m

(* removePostedEvents(): no entry of the receiver is left; entries that    *)
(* somebody may walk stay in their places.                                 *)
LEMMA RemoveFacts ==
  ASSUME NEW l, SoundList(l), NEW r, r # NoReceiver
  PROVE  LET m == RemoveEvents(l, r, TRUE) IN
         /\ SoundList(m) /\ Live(m) = {x \in Live(l) : x.receiver # r}
         /\ m.startOffset = l.startOffset /\ m.insertionOffset = l.insertionOffset
<1> DEFINE t == [i \in 1..Size(l) |-> IF l.entries[i].receiver = r THEN Null(l.entries[i])
                                                                   ELSE l.entries[i]]
           m == RemoveEvents(l, r, TRUE)
           P == {i \in 1..Size(l) : l.entries[i].receiver = r}
<1>1. m = [l EXCEPT !.entries = t]
  BY DEF RemoveEvents
<1>2. l \in List
  BY DEF SoundList
<1>3. /\ Size(l) \in Nat /\ l.startOffset \in Nat /\ l.insertionOffset \in Nat
      /\ \A i \in 1..Size(l) : l.entries[i] \in Entry
  BY <1>2, ListShape
<1>4. t \in [1..Size(l) -> Entry]
  BY <1>3, NullEntry
<1>5. \A i \in 1..Size(l) : t[i] = IF i \in P THEN Null(l.entries[i]) ELSE l.entries[i]
  OBVIOUS
<1>6. \A i \in 1..Size(l) : i \in P => t[i].event = NoEvent
  BY <1>3, NullEntry
<1> HIDE DEF t
<1>7. t \in Seq(Entry) /\ Len(t) = Size(l)
  BY <1>3, <1>4, LenProperties
<1>8. m \in List /\ m.entries = t /\ m.startOffset = l.startOffset /\ m.insertionOffset = l.insertionOffset
  BY <1>1, <1>2, <1>7 DEF List
<1> HIDE DEF m
<1>9. Size(m) = Size(l)
  BY <1>7, <1>8 DEF Size
<1>10. P \in SUBSET (1..Size(l))
  OBVIOUS
<1>11. SoundList(m) /\ Live(m) = {x \in Live(l) : \A i \in P : l.entries[i] # x}
  <2> HIDE DEF P
  <2> QED
    BY <1>5, <1>8, <1>9, <1>10, Nulled
<1>12. Live(m) = {x \in Live(l) : x.receiver # r}
  <2>1. ASSUME NEW x \in Live(l) PROVE (\A i \in P : l.entries[i] # x) <=> x.receiver # r
    <3>1. PICK i \in 1..Size(l) : l.entries[i] = x
      BY <1>2, LivePlaces
    <3> QED
      BY <3>1
  <2> QED
    BY <1>11, <2>1
<1> QED
  BY <1>8, <1>11, <1>12 DEF m

LEMMA RemoveWalked ==
  ASSUME NEW l, SoundList(l), NEW r
  PROVE  LET m == RemoveEvents(l, r, TRUE) IN
         Size(m) = Size(l) /\ \A i \in 1..Size(m) : m.entries[i].event # NoEvent
                                                     => m.entries[i] = l.entries[i]
<1> DEFINE t == [i \in 1..Size(l) |-> IF l.entries[i].receiver = r THEN Null(l.entries[i])
                                                                   ELSE l.entries[i]]
           m == RemoveEvents(l, r, TRUE)
<1>1. m = [l EXCEPT !.entries = t] /\ l \in List
  BY DEF RemoveEvents, SoundList
<1>2. Size(l) \in Nat /\ \A i \in 1..Size(l) : l.entries[i] \in Entry
  BY <1>1, ListShape
<1>3. t \in [1..Size(l) -> Entry]
  BY <1>2, NullEntry
<1>4. \A i \in 1..Size(l) : t[i].event # NoEvent => t[i] = l.entries[i]
  BY <1>2, NullEntry
<1> HIDE DEF t
<1>5. t \in Seq(Entry) /\ Len(t) = Size(l)
  BY <1>2, <1>3, LenProperties
<1>6. m.entries = t
  BY <1>1 DEF List
<1> HIDE DEF m
<1>7. Size(m) = Size(l)
  BY <1>5, <1>6 DEF Size
<1> QED
  BY <1>4, <1>6, <1>7 DEF m

(* The end of a walk over everything.                                      *)
LEMMA EraseFacts ==
  ASSUME NEW l, SoundList(l)
  PROVE  /\ SoundList(EraseSent(l)) /\ Live(EraseSent(l)) = Live(l)
         /\ EraseSent(l).startOffset = 0
<1> DEFINE n == Size(l) - l.startOffset
           t == SubSeq(l.entries, l.startOffset + 1, Size(l))
           m == EraseSent(l)
<1>1. l \in List /\ BothNull(l) /\ Once(l) /\ Sorted(l) /\ Offsets(l) /\ InOrder(l)
  BY DEF SoundList
<1>2. /\ Size(l) \in Nat /\ l.startOffset \in Nat /\ l.insertionOffset \in Nat
      /\ l.entries \in Seq(Entry)
      /\ \A i \in 1..Size(l) : l.entries[i] \in Entry
  BY <1>1, ListShape
<1>3. /\ n \in Nat /\ l.startOffset <= Size(l)
      /\ l.startOffset > 0 => l.startOffset <= l.insertionOffset
      /\ \A i \in 1..l.startOffset : l.entries[i].event = NoEvent
  BY <1>1, <1>2 DEF Offsets
<1>4. t \in Seq(Entry) /\ Len(t) = n /\ \A i \in 1..n : t[i] = l.entries[l.startOffset + i]
  <2>1. \A i \in (l.startOffset + 1)..Size(l) : l.entries[i] \in Entry
    BY <1>2
  <2>2. l.startOffset + 1 \in Int /\ Size(l) \in Int
    BY <1>2
  <2>3. /\ t \in Seq(Entry)
        /\ Len(t) = (IF l.startOffset + 1 <= Size(l) THEN Size(l) - (l.startOffset + 1) + 1 ELSE 0)
        /\ \A i \in 1..(Size(l) - (l.startOffset + 1) + 1) : t[i] = l.entries[(l.startOffset + 1) + i - 1]
    BY <2>1, <2>2, SubSeqProperties
  <2> HIDE DEF t
  <2>4. /\ (IF l.startOffset + 1 <= Size(l) THEN Size(l) - (l.startOffset + 1) + 1 ELSE 0) = n
        /\ Size(l) - (l.startOffset + 1) + 1 = n
        /\ \A i \in 1..n : (l.startOffset + 1) + i - 1 = l.startOffset + i
    <3>1. \A a, b \in Nat : b <= a => /\ (IF b + 1 <= a THEN a - (b + 1) + 1 ELSE 0) = a - b
                                     /\ a - (b + 1) + 1 = a - b
                                     /\ \A i \in 1..(a - b) : (b + 1) + i - 1 = b + i
      OBVIOUS
    <3> QED
      BY <1>2, <1>3, <3>1
  <2> HIDE DEF n
  <2> QED
    BY <2>3, <2>4
<1>5. /\ m = [entries |-> t, insertionOffset |-> l.insertionOffset - l.startOffset, startOffset |-> 0]
      /\ l.insertionOffset - l.startOffset \in Nat
  <2>1. l.insertionOffset - l.startOffset \in Nat
    BY <1>2, <1>3
  <2> QED
    BY <2>1 DEF EraseSent
<1> HIDE DEF t
<1>6. /\ m \in List /\ m.entries = t /\ m.startOffset = 0
      /\ m.insertionOffset = l.insertionOffset - l.startOffset
  BY <1>4, <1>5 DEF List
<1> HIDE DEF m
<1>7. Size(m) = n
  BY <1>4, <1>6 DEF Size
<1>8. \A i \in 1..n : l.startOffset + i \in 1..Size(l) /\ m.entries[i] = l.entries[l.startOffset + i]
  BY <1>2, <1>3, <1>4, <1>6
<1>9. \A i \in 1..Size(l) : l.entries[i].event # NoEvent =>
        i - l.startOffset \in 1..n /\ l.startOffset + (i - l.startOffset) = i
  <2>1. ASSUME NEW i \in 1..Size(l), l.entries[i].event # NoEvent
        PROVE  i - l.startOffset \in 1..n /\ l.startOffset + (i - l.startOffset) = i
    <3>1. i \notin 1..l.startOffset
      BY <1>3, <2>1
    <3> QED
      BY <1>2, <1>3, <3>1
  <2> QED
    BY <2>1
<1>10. Live(m) = Live(l)
  <2>1. ASSUME NEW x \in Live(m) PROVE x \in Live(l)
    <3>1. PICK i \in 1..n : m.entries[i] = x /\ x.event # NoEvent
      BY <1>6, <1>7, LivePlaces
    <3> QED
      BY <1>1, <1>8, <3>1, LivePlaces
  <2>2. ASSUME NEW x \in Live(l) PROVE x \in Live(m)
    <3>1. PICK i \in 1..Size(l) : l.entries[i] = x /\ x.event # NoEvent
      BY <1>1, LivePlaces
    <3>2. i - l.startOffset \in 1..n /\ m.entries[i - l.startOffset] = x
      BY <1>8, <1>9, <3>1
    <3> QED
      BY <1>6, <1>7, <3>1, <3>2, LivePlaces
  <2> QED
    BY <2>1, <2>2
<1>11. BothNull(m)
  BY <1>1, <1>7, <1>8 DEF BothNull
<1>12. Once(m)
  <2>1. \A i, j \in 1..n : l.startOffset + i = l.startOffset + j => i = j
    BY <1>2, <1>3
  <2> QED
    BY <1>1, <1>7, <1>8, <2>1 DEF Once
<1>13. Sorted(m)
  <2>1. ASSUME NEW i \in m.insertionOffset + 1 .. Size(m), NEW j \in m.insertionOffset + 1 .. Size(m), i < j
        PROVE  m.entries[i].priority >= m.entries[j].priority
    <3>1. i \in 1..n /\ j \in 1..n
      BY <1>2, <1>3, <1>5, <1>6, <1>7
    <3>2. /\ l.startOffset + i \in l.insertionOffset + 1 .. Size(l)
          /\ l.startOffset + j \in l.insertionOffset + 1 .. Size(l)
          /\ l.startOffset + i < l.startOffset + j
      <4>1. \A a, b, c \in Int : \A k \in (b - a) + 1 .. (c - a) : a + k \in b + 1 .. c
        OBVIOUS
      <4>2. \A a, k, q \in Int : k < q => a + k < a + q
        OBVIOUS
      <4> QED
        <5>1. /\ l.startOffset \in Int /\ l.insertionOffset \in Int /\ Size(l) \in Int
              /\ i \in Int /\ j \in Int
          BY <1>2, <1>3, <3>1
        <5>2. /\ i \in (l.insertionOffset - l.startOffset) + 1 .. (Size(l) - l.startOffset)
              /\ j \in (l.insertionOffset - l.startOffset) + 1 .. (Size(l) - l.startOffset)
          BY <1>6, <1>7
        <5> QED
          BY <2>1, <4>1, <4>2, <5>1, <5>2
    <3>3. l.entries[l.startOffset + i].priority >= l.entries[l.startOffset + j].priority
      BY <1>1, <3>2 DEF Sorted
    <3> QED
      BY <1>8, <3>1, <3>3
  <2> QED
    BY <2>1 DEF Sorted
<1>14. Offsets(m) /\ InOrder(m)
  <2>1. Offsets(m)
    BY <1>3, <1>6, <1>7 DEF Offsets
  <2>2. \A i, j \in 1..n : i < j => l.startOffset + i < l.startOffset + j
    BY <1>2, <1>3
  <2>3. InOrder(m)
    BY <1>1, <1>7, <1>8, <2>2 DEF InOrder
  <2> QED
    BY <2>1, <2>3
<1> QED
  BY <1>6, <1>10, <1>11, <1>12, <1>13, <1>14 DEF m, SoundList

(* A walk begins: what is posted from now on goes behind all that is there.*)
LEMMA BeginFacts ==
  ASSUME NEW l, SoundList(l)
  PROVE  LET m == [l EXCEPT !.insertionOffset = Size(l)] IN
         /\ SoundList(m) /\ Live(m) = Live(l) /\ m.entries = l.entries
         /\ m.startOffset = l.startOffset /\ m.insertionOffset = Size(l) /\ Size(m) = Size(l)
<1> DEFINE m == [l EXCEPT !.insertionOffset = Size(l)]
<1>1. l \in List /\ BothNull(l) /\ Once(l) /\ Offsets(l) /\ InOrder(l)
  BY DEF SoundList
<1>2. Size(l) \in Nat /\ l.startOffset \in Nat
  BY <1>1, ListShape
<1>3. /\ m \in List /\ m.entries = l.entries /\ m.startOffset = l.startOffset
      /\ m.insertionOffset = Size(l)
  BY <1>1, <1>2 DEF List
<1> HIDE DEF m
<1>4. Size(m) = Size(l) /\ Live(m) = Live(l)
  BY <1>3 DEF Size, Live
<1>5. BothNull(m) /\ Once(m) /\ InOrder(m)
  BY <1>1, <1>3, <1>4 DEF BothNull, Once, InOrder
<1>6. Sorted(m)
  BY <1>2, <1>3, <1>4 DEF Sorted
<1>7. Offsets(m)
  BY <1>1, <1>2, <1>3, <1>4 DEF Offsets
<1> QED
  BY <1>3, <1>4, <1>5, <1>6, <1>7 DEF SoundList, m

(* A walk over everything passes an entry that is null.                    *)
LEMMA StartFacts ==
  ASSUME NEW l, SoundList(l), l.startOffset < Size(l), l.startOffset < l.insertionOffset,
         l.entries[l.startOffset + 1].event = NoEvent
  PROVE  LET m == [l EXCEPT !.startOffset = l.startOffset + 1] IN
         /\ SoundList(m) /\ Live(m) = Live(l) /\ m.entries = l.entries
         /\ m.startOffset = l.startOffset + 1 /\ m.insertionOffset = l.insertionOffset
         /\ Size(m) = Size(l)
<1> DEFINE m == [l EXCEPT !.startOffset = l.startOffset + 1]
<1>1. l \in List /\ BothNull(l) /\ Once(l) /\ Sorted(l) /\ Offsets(l) /\ InOrder(l)
  BY DEF SoundList
<1>2. Size(l) \in Nat /\ l.startOffset \in Nat /\ l.insertionOffset \in Nat
  BY <1>1, ListShape
<1>3. /\ m \in List /\ m.entries = l.entries /\ m.startOffset = l.startOffset + 1
      /\ m.insertionOffset = l.insertionOffset
  BY <1>1, <1>2 DEF List
<1> HIDE DEF m
<1>4. Size(m) = Size(l) /\ Live(m) = Live(l)
  BY <1>3 DEF Size, Live
<1>5. BothNull(m) /\ Once(m) /\ InOrder(m)
  BY <1>1, <1>3, <1>4 DEF BothNull, Once, InOrder
<1>6. Sorted(m)
  BY <1>1, <1>3, <1>4 DEF Sorted
<1>7. Offsets(m)
  <2>1. \A i \in 1..(l.startOffset + 1) : i \in 1..l.startOffset \/ i = l.startOffset + 1
    BY <1>2
  <2>2. l.startOffset + 1 <= Size(l) /\ l.startOffset + 1 <= l.insertionOffset
    BY <1>2
  <2> QED
    BY <1>1, <1>3, <1>4, <2>1, <2>2 DEF Offsets
<1> QED
  BY <1>3, <1>4, <1>5, <1>6, <1>7 DEF SoundList, m

(* A walk over everything passes the entry that it has delivered.          *)
LEMMA DeliverFacts ==
  ASSUME NEW l, SoundList(l), l.startOffset < Size(l), l.startOffset < l.insertionOffset
  PROVE  LET m == [NullAt(l, l.startOffset + 1) EXCEPT !.startOffset = @ + 1] IN
         /\ SoundList(m) /\ Live(m) = Live(l) \ {l.entries[l.startOffset + 1]}
         /\ m.insertionOffset = l.insertionOffset /\ Size(m) = Size(l)
         /\ \A i \in 1..Size(l) : m.entries[i].event # NoEvent => m.entries[i] = l.entries[i]
<1> DEFINE p == l.startOffset + 1
           k == NullAt(l, p)
           m == [k EXCEPT !.startOffset = k.startOffset + 1]
<1>1. l \in List
  BY DEF SoundList
<1>2. p \in 1..Size(l)
  BY <1>1, ListShape
<1>3. /\ SoundList(k) /\ Live(k) = Live(l) \ {l.entries[p]}
      /\ k.startOffset = l.startOffset /\ k.insertionOffset = l.insertionOffset
      /\ Size(k) = Size(l) /\ k.entries[p].event = NoEvent
      /\ \A i \in 1..Size(l) : i # p => k.entries[i] = l.entries[i]
  BY <1>2, NullAtFacts
<1> HIDE DEF k
<1>4. p = k.startOffset + 1
  BY <1>3
<1>5. /\ SoundList(m) /\ Live(m) = Live(k) /\ m.entries = k.entries
      /\ m.startOffset = k.startOffset + 1 /\ m.insertionOffset = k.insertionOffset
      /\ Size(m) = Size(k)
  BY <1>3, <1>4, StartFacts
<1>6. \A i \in 1..Size(l) : m.entries[i].event # NoEvent => m.entries[i] = l.entries[i]
  BY <1>3, <1>5
<1> HIDE DEF m, p
<1> QED
  BY <1>3, <1>5, <1>6 DEF k, m, p

LEMMA EmptyIsSound == SoundList(EmptyList) /\ Live(EmptyList) = {} /\ EmptyList.startOffset = 0
<1>1. EmptyList \in List /\ Size(EmptyList) = 0
  BY EmptySeq DEF EmptyList, List, Size
<1>2. Live(EmptyList) = {}
  BY <1>1, LivePlaces
<1>3. EmptyList.startOffset = 0 /\ EmptyList.insertionOffset = 0
  BY DEF EmptyList
<1>4. BothNull(EmptyList) /\ Once(EmptyList) /\ Sorted(EmptyList) /\ Offsets(EmptyList)
      /\ InOrder(EmptyList)
  BY <1>1, <1>3 DEF BothNull, Once, Sorted, Offsets, InOrder
<1> QED
  BY <1>1, <1>2, <1>3, <1>4 DEF SoundList

-----------------------------------------------------------------------------
(* What is in the lists.                                                   *)
LEMMA LiveEntry ==
  ASSUME NEW l, SoundList(l), NEW x \in Live(l)
  PROVE  /\ x \in Entry /\ x.event \in 1..MaxEvents /\ x.receiver \in Objects
         /\ x.event # NoEvent /\ x.priority \in Int
         /\ \E i \in 1..Size(l) : l.entries[i] = x
<1>1. l \in List /\ BothNull(l)
  BY DEF SoundList
<1>2. PICK i \in 1..Size(l) : l.entries[i] = x /\ x.event # NoEvent
  BY <1>1, LivePlaces
<1>3. x \in Entry /\ x.priority \in Int
  BY <1>1, <1>2, ListShape
<1>4. x.receiver # NoReceiver
  BY <1>1, <1>2 DEF BothNull
<1> QED
  BY <1>2, <1>3, <1>4 DEF Entry

LEMMA PlaceIsLive ==
  ASSUME NEW l, SoundList(l), NEW i \in 1..Size(l), l.entries[i].event # NoEvent
  PROVE  l.entries[i] \in Live(l)
<1>1. l \in List
  BY DEF SoundList
<1> QED
  BY <1>1, LivePlaces

LEMMA ReceiverIsLive ==
  ASSUME NEW l, SoundList(l), NEW i \in 1..Size(l), l.entries[i].receiver \in Objects
  PROVE  l.entries[i].event # NoEvent /\ l.entries[i] \in Live(l)
<1>1. BothNull(l)
  BY DEF SoundList
<1>2. l.entries[i].event # NoEvent
  BY <1>1, MoveAssumption DEF BothNull
<1> QED
  BY <1>2, PlaceIsLive

LEMMA SameEventSameEntry ==
  ASSUME NEW l, SoundList(l), NEW x \in Live(l), NEW y \in Live(l), x.event = y.event
  PROVE  x = y
<1>1. /\ x.event # NoEvent
      /\ \E i \in 1..Size(l) : l.entries[i] = x
      /\ \E j \in 1..Size(l) : l.entries[j] = y
  BY LiveEntry
<1> QED
  BY <1>1 DEF SoundList, Once

LEMMA NoEntries ==
  ASSUME NEW t \in Threads, SoundList(list[t])
  PROVE  Entries(t) = {} <=> Live(list[t]) = {}
<1>1. \A i \in Entries(t) : list[t].entries[i] \in Live(list[t])
  BY PlaceIsLive DEF Entries
<1>2. \A x \in Live(list[t]) : \E i \in 1..Size(list[t]) : list[t].entries[i] = x /\ x.event # NoEvent
  BY LiveEntry
<1> QED
  BY <1>1, <1>2 DEF Entries

-----------------------------------------------------------------------------
(* A step is one of a single thread.                                       *)
Begins(u) == \E o \in Objects : \/ \E p \in Priorities : StartPost(u, o, p)
                                \/ StartRemove(u, o)
                                \/ \E target \in Threads : StartMove(u, o, target)
Loops(u) == BeginWalk(u) \/ Deliver(u) \/ EndWalk(u) \/ ReadCanWait(u) \/ Return(u)
StepOf(u) == Begins(u) \/ EndUserCode(u) \/ InCall(u) \/ Loops(u)

LEMMA NextIsAStep == Next => \E u \in Threads : StepOf(u)
  BY DEF Next, StepOf, Begins, Loops

(* What the other threads do, hold and move stays as it is; a thread that  *)
(* has a mutex has the list.                                               *)
Undisturbed(u) ==
  /\ \A s \in Threads \ {u} : at'[s] = at[s] /\ call'[s] = call[s] /\ (s \in walking' <=> s \in walking)
  /\ \A x \in Threads, s \in Threads \ {u} : mutex[x] = s => mutex'[x] = s /\ list'[x] = list[x]
  /\ \A o \in Objects : home[o] # u => home'[o] = home[o]

LEMMA CallShape ==
  ASSUME NEW t \in Threads, CallFits(t)
  PROVE  /\ at[t] \in {"load", "lock"} =>
              /\ call[t].kind \in {"post", "remove"} /\ call[t].object \in Objects
              /\ call[t].kind = "post" => call[t].priority \in Priorities
         /\ at[t] \in {"lock", "wake"} => Seen(t) \in Threads
         /\ at[t] \in {"first", "second", "move"} =>
              /\ call[t].object \in Objects /\ call[t].target \in Threads /\ call[t].moved \in BOOLEAN
              /\ call[t].kind = "move" /\ call[t].target # t /\ home[call[t].object] = t
  BY DEF CallFits, PostCalls, RemoveCalls, MoveCalls, Seen

LEMMA StepUndisturbed ==
  ASSUME IInv, NEW u \in Threads, StepOf(u) PROVE Undisturbed(u)
<1> USE DEF Undisturbed, Goto
<1>0. /\ Typing /\ CallFits(u) /\ LocksFit(u)
      /\ NoThread \notin Threads
  BY MoveAssumption DEF IInv, Fits
<1>1. CASE Begins(u)
  BY <1>0, <1>1 DEF Begins, StartPost, StartRemove, StartMove, Typing
<1>2. CASE EndUserCode(u) \/ Load(u) \/ Follow(u) \/ WakeDispatcher(u) \/ ReadCanWait(u) \/ Return(u)
  BY <1>0, <1>2 DEF EndUserCode, Load, Follow, WakeDispatcher, ReadCanWait, Return, Typing
<1>3. CASE Post(u)
  <2>1. Seen(u) \in Threads /\ mutex[Seen(u)] = NoThread
    BY <1>0, <1>3, CallShape DEF Post, CanLock
  <2> QED
    BY <1>0, <1>3, <2>1 DEF Post, Typing
<1>4. CASE RemovePosted(u)
  <2>1. Seen(u) \in Threads /\ mutex[Seen(u)] = NoThread
    BY <1>0, <1>4, CallShape DEF RemovePosted, CanLock
  <2> QED
    BY <1>0, <1>4, <2>1 DEF RemovePosted, Typing
<1>5. CASE LockFirst(u)
  BY <1>0, <1>5 DEF LockFirst, Typing
<1>6. CASE LockSecond(u)
  BY <1>0, <1>6 DEF LockSecond, Typing
<1>7. CASE MoveEvent(u)
  <2>1. at[u] = "move" /\ mutex[u] = u /\ mutex[call[u].target] = u
    BY <1>0, <1>7 DEF MoveEvent, LocksFit
  <2> QED
    BY <1>0, <1>7, <2>1 DEF MoveEvent, Typing
<1>8. CASE Move(u)
  <2>1. /\ at[u] = "move" /\ mutex[u] = u /\ mutex[call[u].target] = u
        /\ home[call[u].object] = u
    BY <1>0, <1>8, CallShape DEF Move, LocksFit
  <2> QED
    BY <1>0, <1>8, <2>1 DEF Move, Typing
<1>9. CASE BeginWalk(u)
  BY <1>0, <1>9 DEF BeginWalk, Typing
<1>10. CASE Deliver(u)
  BY <1>0, <1>10 DEF Deliver, Typing
<1>11. CASE EndWalk(u)
  BY <1>0, <1>11 DEF EndWalk, Typing
<1> QED
  BY <1>1, <1>2, <1>3, <1>4, <1>5, <1>6, <1>7, <1>8, <1>9, <1>10, <1>11 DEF StepOf, InCall, Loops

-----------------------------------------------------------------------------
(* What has to be looked at: the thread that makes the step.               *)
LEMMA FitsStep ==
  ASSUME IInv, NEW u \in Threads, Undisturbed(u), CallFits(u)', LocksFit(u)', WalkFits(u)',
         \A s \in Threads \ {u} : list'[s].startOffset = list[s].startOffset
  PROVE  Fits'
<1>1. ASSUME NEW s \in Threads, s # u PROVE (CallFits(s) /\ LocksFit(s) /\ WalkFits(s))'
  <2>1. CallFits(s) /\ LocksFit(s) /\ WalkFits(s)
    BY DEF IInv, Fits
  <2>2. /\ at'[s] = at[s] /\ call'[s] = call[s] /\ (s \in walking' <=> s \in walking)
        /\ list'[s].startOffset = list[s].startOffset
        /\ \A x \in Threads : mutex[x] = s => mutex'[x] = s
        /\ \A o \in Objects : home[o] # u => home'[o] = home[o]
    BY <1>1 DEF Undisturbed
  <2>3. CallFits(s)'
    BY <1>1, <2>1, <2>2, CallShape DEF CallFits
  <2>4. LocksFit(s)'
    <3>1. Lower(s)' = Lower(s)
      BY <2>2 DEF Lower
    <3>2. at[s] = "second" => Lower(s) \in Threads
      <4>1. at[s] = "second" => mutex[Lower(s)] = s
        BY <2>1 DEF LocksFit
      <4>2. at[s] = "second" => call[s].target \in Threads
        BY <2>1, CallShape
      <4>3. \A a, b \in Threads : Min({a, b}) \in Threads
        <5>1. ASSUME NEW a \in Threads, NEW b \in Threads PROVE Min({a, b}) \in Threads
          <6> DEFINE I == {a, b}
          <6>1. I \in SUBSET Nat /\ I # {}
            BY MoveAssumption
          <6>2. Min(I) \in I
            BY <6>1, MinOfPositions
          <6> QED
            BY <6>2
        <5> QED
          BY <5>1
      <4> QED
        BY <4>2, <4>3 DEF Lower
    <3>3. at[s] = "move" => s \in Threads /\ call[s].target \in Threads
      BY <2>1, CallShape
    <3> QED
      BY <2>1, <2>2, <3>1, <3>2, <3>3 DEF LocksFit
  <2>5. WalkFits(s)'
    BY <2>1, <2>2 DEF WalkFits
  <2> QED
    BY <2>3, <2>4, <2>5
<1> QED
  BY <1>1 DEF Fits

LEMMA OrderStep ==
  ASSUME IInv, NEW u \in Threads, Undisturbed(u), FirstFirst(u)' PROVE Order'
<1>1. ASSUME NEW s \in Threads, s # u PROVE FirstFirst(s)'
  <2>1. FirstFirst(s) /\ CallFits(s) /\ LocksFit(s)
    BY DEF IInv, Order, Fits
  <2>2. /\ at'[s] = at[s] /\ call'[s] = call[s]
        /\ \A x \in Threads : mutex[x] = s => list'[x] = list[x]
    BY <1>1 DEF Undisturbed
  <2>3. at[s] = "move" => list'[s] = list[s] /\ list'[call[s].target] = list[call[s].target]
    BY <2>1, <2>2, CallShape DEF LocksFit
  <2> QED
    BY <2>1, <2>2, <2>3 DEF FirstFirst, Live
<1> QED
  BY <1>1 DEF Order

(* Who moves an object goes on with it, whatever the others do.            *)
LEMMA MovingStep ==
  ASSUME IInv, NEW u \in Threads, Undisturbed(u), NEW s \in Threads, s # u,
         NEW o \in Objects, NEW t \in Threads, Moving(s, o, t)
  PROVE  Moving(s, o, t)'
  BY DEF Moving, Undisturbed

LEMMA WakingStep ==
  ASSUME NEW u \in Threads, Undisturbed(u), NEW s \in Threads, s # u, NEW t \in Threads
  PROVE  AboutToWake(s, t)' <=> AboutToWake(s, t)
  BY DEF Undisturbed, AboutToWake, Seen

(* A thread whose list gets nothing new, and that is told no less.         *)
LEMMA MayWaitStep ==
  ASSUME IInv, NEW u \in Threads, Undisturbed(u), NEW t \in Threads,
         t \in walking' => t \in walking, canWait'[t] => canWait[t],
         at[u] = "move" /\ AboutToWake(u, t) => (at[u] = "move" /\ AboutToWake(u, t))',
         \A i \in Entries(t)' : i \in Entries(t),
         list'[t].insertionOffset = list[t].insertionOffset
  PROVE  MayWait(t)'
<1>1. MayWait(t)
  BY DEF IInv, Wakes
<1>2. SUFFICES ASSUME t \in walking, canWait[t],
                      ~(\E s \in Threads : at[s] = "move" /\ AboutToWake(s, t))'
               PROVE  \A i \in Entries(t)' : i <= list'[t].insertionOffset
  BY DEF MayWait
<1>3. ASSUME NEW s \in Threads, at[s] = "move", AboutToWake(s, t) PROVE FALSE
  <2>1. CASE s = u
    BY <1>2, <1>3, <2>1
  <2>2. CASE s # u
    <3>1. AboutToWake(s, t)' /\ at'[s] = "move"
      BY <1>3, <2>2, WakingStep DEF Undisturbed
    <3> QED
      BY <1>2, <3>1
  <2> QED
    BY <2>1, <2>2
<1>4. \A i \in Entries(t) : i <= list[t].insertionOffset
  BY <1>1, <1>2, <1>3 DEF MayWait
<1> QED
  BY <1>4

LEMMA SleeplessStep ==
  ASSUME IInv, NEW u \in Threads, Undisturbed(u), NEW t \in Threads, t # u,
         canWait'[t] => canWait[t], wakeUp[t] => wakeUp'[t],
         AboutToWake(u, t) => AboutToWake(u, t)' \/ wakeUp'[t],
         Entries(t)' # {} => Entries(t) # {}
  PROVE  Sleepless(t)'
<1>1. Sleepless(t) /\ at'[t] = at[t]
  BY DEF IInv, Wakes, Undisturbed
<1>2. SUFFICES ASSUME at[t] \in {"wait", "poll"}, Entries(t) # {},
                      ~(at[t] = "wait" /\ ~canWait'[t]), ~wakeUp'[t]
               PROVE  \E s \in Threads : AboutToWake(s, t)'
  BY <1>1 DEF Sleepless
<1>3. PICK s \in Threads : AboutToWake(s, t)
  BY <1>1, <1>2 DEF Sleepless
<1>4. CASE s = u
  BY <1>2, <1>3, <1>4
<1>5. CASE s # u
  BY <1>3, <1>5, WakingStep
<1> QED
  BY <1>4, <1>5

(* Where an event is, and that it is there alone.                          *)
LEMMA EventInOnePlace ==
  ASSUME IInv, NEW s \in Threads, NEW t \in Threads,
         NEW x \in Live(list[s]), NEW y \in Live(list[t]), x.event = y.event
  PROVE  s = t /\ x = y
<1>1. SoundList(list[s]) /\ SoundList(list[t])
  BY DEF IInv, Lists
<1>2. s = t
  BY DEF IInv, Books
<1> QED
  BY <1>1, <1>2, SameEventSameEntry

LEMMA InListIsQueued ==
  ASSUME IInv, NEW t \in Threads, NEW x \in Live(list[t])
  PROVE  /\ x \in Entry /\ x.event \in queued /\ x.event \in 1..posted /\ x.event \in 1..MaxEvents
         /\ x.receiver \in Objects /\ x.event # NoEvent
<1>1. SoundList(list[t])
  BY DEF IInv, Lists
<1>2. x \in Entry /\ x.event \in 1..MaxEvents /\ x.receiver \in Objects /\ x.event # NoEvent
  BY <1>1, LiveEntry
<1>3. x.event \in queued
  BY <1>2 DEF IInv, Books
<1> QED
  BY <1>2, <1>3 DEF IInv, Typing

(* Steps that add nothing to a list, and move no object.                   *)
LEMMA BooksStep ==
  ASSUME IInv, NEW u \in Threads, Undisturbed(u), UNCHANGED home,
         \A o \in Objects, t \in Threads : Moving(u, o, t) => Moving(u, o, t)',
         \A t \in Threads : Live(list'[t]) \subseteq Live(list[t]),
         \A t \in Threads : \A x \in Live(list[t]) : x \in Live(list'[t]) <=> x.event \in queued',
         queued' \subseteq queued
  PROVE  Books'
<1>1. ASSUME NEW e \in 1..MaxEvents
      PROVE  e \in queued' <=> \E t \in Threads : \E x \in Live(list'[t]) : x.event = e
  <2>1. ASSUME e \in queued' PROVE \E t \in Threads : \E x \in Live(list'[t]) : x.event = e
    <3>1. PICK t \in Threads : \E x \in Live(list[t]) : x.event = e
      BY <2>1 DEF IInv, Books
    <3>2. PICK x \in Live(list[t]) : x.event = e
      BY <3>1
    <3> QED
      BY <2>1, <3>2
  <2>2. ASSUME NEW t \in Threads, NEW x \in Live(list'[t]), x.event = e PROVE e \in queued'
    BY <2>2
  <2> QED
    BY <2>1, <2>2
<1>2. \A s, t \in Threads : s # t =>
        \A x \in Live(list'[s]), y \in Live(list'[t]) : x.event # y.event
  BY DEF IInv, Books
<1>3. ASSUME NEW t \in Threads, NEW x \in Live(list'[t])
      PROVE  home'[x.receiver] = t \/ \E s \in Threads : Moving(s, x.receiver, t)'
  <2>1. x \in Live(list[t]) /\ x.receiver \in Objects
    BY InListIsQueued
  <2>2. home[x.receiver] = t \/ \E s \in Threads : Moving(s, x.receiver, t)
    BY <2>1 DEF IInv, Books
  <2>3. ASSUME NEW s \in Threads, Moving(s, x.receiver, t) PROVE Moving(s, x.receiver, t)'
    BY <2>1, <2>3, MovingStep
  <2> QED
    BY <2>2, <2>3
<1> QED
  BY <1>1, <1>2, <1>3 DEF Books

-----------------------------------------------------------------------------
(* How many may still post.                                                *)
IsPosting(t) == at[t] \in {"load", "lock"} /\ call[t].kind = "post"

LEMMA PostingStep ==
  ASSUME NEW u \in Threads, Undisturbed(u)
  PROVE  /\ IsPosting(u) /\ ~IsPosting(u)' => Posting' = Posting \ {u} /\ u \in Posting
         /\ ~IsPosting(u) /\ IsPosting(u)' => Posting' = Posting \cup {u} /\ u \notin Posting
         /\ (IsPosting(u)' <=> IsPosting(u)) => Posting' = Posting
<1>1. \A s \in Threads \ {u} : s \in Posting' <=> s \in Posting
  BY DEF Undisturbed, Posting
<1>2. (u \in Posting <=> IsPosting(u)) /\ (u \in Posting' <=> IsPosting(u)')
  BY DEF Posting, IsPosting
<1>3. (\A s \in Posting : s \in Threads) /\ (\A s \in Posting' : s \in Threads)
  BY DEF Posting
<1> QED
  BY <1>1, <1>2, <1>3

(* No call of postEvent() begins or ends.                                  *)
LEMMA NumberedStep ==
  ASSUME IInv, NEW u \in Threads, Undisturbed(u), (IsPosting(u)' <=> IsPosting(u)), UNCHANGED posted
  PROVE  Numbered'
  BY PostingStep DEF IInv, Numbered

LEMMA RoomForOne ==
  ASSUME IInv, NEW u \in Threads, IsPosting(u)
  PROVE  /\ posted + 1 \in 1..MaxEvents
         /\ IsFiniteSet(Posting \ {u}) /\ (posted + 1) + Cardinality(Posting \ {u}) <= MaxEvents
<1>1. IsFiniteSet(Posting) /\ posted + Cardinality(Posting) <= MaxEvents /\ posted \in Nat
  BY DEF IInv, Numbered, Typing
<1>2. u \in Posting
  BY DEF Posting, IsPosting
<1>3. IsFiniteSet(Posting \ {u}) /\ Cardinality(Posting \ {u}) = Cardinality(Posting) - 1
  BY <1>1, <1>2, FS_RemoveElement
<1>4. Cardinality(Posting \ {u}) \in Nat /\ Cardinality(Posting) \in Nat /\ MaxEvents \in Nat
  BY <1>1, <1>3, FS_CardinalityType, MoveAssumption
<1> QED
  BY <1>1, <1>3, <1>4

-----------------------------------------------------------------------------
(* Steps that touch no list.                                               *)
LEMMA QuietStep ==
  ASSUME IInv, NEW u \in Threads, Undisturbed(u),
         UNCHANGED <<home, list, queued, walking, canWait>>, at[u] # "move",
         Typing', Numbered', CallFits(u)', LocksFit(u)', WalkFits(u)', FirstFirst(u)', Sleepless(u)',
         \A t \in Threads \ {u} : /\ wakeUp[t] => wakeUp'[t]
                                  /\ AboutToWake(u, t) => AboutToWake(u, t)' \/ wakeUp'[t]
  PROVE  IInv'
<1>1. Lists'
  <2>1. Lists /\ list' = list
    BY DEF IInv
  <2> QED
    BY <2>1 DEF Lists, SoundList, BothNull, Once, Sorted, Offsets, InOrder, Size
<1>2. Fits'
  BY FitsStep
<1>3. Order'
  BY OrderStep
<1>4. Books'
  <2>1. \A o \in Objects, t \in Threads : Moving(u, o, t) => Moving(u, o, t)'
    BY DEF Moving
  <2>2. \A t \in Threads : Live(list'[t]) = Live(list[t]) /\ \A x \in Live(list[t]) : x.event \in queued
    BY InListIsQueued
  <2> QED
    BY <2>1, <2>2, BooksStep
<1>5. Wakes'
  <2>1. ASSUME NEW t \in Threads PROVE MayWait(t)'
    <3>1. Entries(t)' = Entries(t)
      BY DEF Entries, Size
    <3> QED
      BY <3>1, MayWaitStep
  <2>2. ASSUME NEW t \in Threads, t # u PROVE Sleepless(t)'
    <3>1. Entries(t)' = Entries(t)
      BY DEF Entries, Size
    <3> QED
      BY <2>2, <3>1, SleeplessStep
  <2> QED
    BY <2>1, <2>2 DEF Wakes
<1> QED
  BY <1>1, <1>2, <1>3, <1>4, <1>5 DEF IInv

LEMMA BeginsStep == ASSUME IInv, NEW u \in Threads, Begins(u) PROVE IInv'
<1>0. Typing /\ Numbered /\ WalkFits(u) /\ Undisturbed(u)
  BY StepUndisturbed DEF IInv, Fits, StepOf
<1>1. /\ UNCHANGED <<home, list, mutex, canWait, wakeUp, walking, posted, queued>>
      /\ at[u] = "user" /\ at' = [at EXCEPT ![u] = at'[u]] /\ at'[u] \in {"load", "first"}
      /\ \E c \in PostCalls \cup RemoveCalls \cup MoveCalls : call' = [call EXCEPT ![u] = c]
  <2>1. CASE \E o \in Objects, p \in Priorities : StartPost(u, o, p)
    <3>1. PICK o \in Objects, p \in Priorities : StartPost(u, o, p)
      BY <2>1
    <3>2. PostCall(o, p) \in PostCalls
      BY DEF PostCall, PostCalls, Targets
    <3> QED
      BY <1>0, <3>1, <3>2 DEF StartPost, Goto, Typing
  <2>2. CASE \E o \in Objects : StartRemove(u, o)
    <3>1. PICK o \in Objects : StartRemove(u, o)
      BY <2>2
    <3>2. RemoveCall(o) \in RemoveCalls
      BY DEF RemoveCall, RemoveCalls, Targets
    <3> QED
      BY <1>0, <3>1, <3>2 DEF StartRemove, Goto, Typing
  <2>3. CASE \E o \in Objects, target \in Threads : StartMove(u, o, target)
    <3>1. PICK o \in Objects, target \in Threads : StartMove(u, o, target)
      BY <2>3
    <3>2. MoveCall(o, target) \in MoveCalls
      BY DEF MoveCall, MoveCalls
    <3> QED
      BY <1>0, <3>1, <3>2 DEF StartMove, Goto, Typing
  <2> QED
    BY <2>1, <2>2, <2>3 DEF Begins
<1>2. CallFits(u)'
  <2>1. CASE \E o \in Objects, p \in Priorities : StartPost(u, o, p)
    <3>1. PICK o \in Objects, p \in Priorities : StartPost(u, o, p)
      BY <2>1
    <3>2. at'[u] = "load" /\ call'[u] = PostCall(o, p)
      BY <1>0, <3>1 DEF StartPost, Goto, Typing
    <3> QED
      BY <3>2 DEF CallFits, PostCall, PostCalls, Targets
  <2>2. CASE \E o \in Objects : StartRemove(u, o)
    <3>1. PICK o \in Objects : StartRemove(u, o)
      BY <2>2
    <3>2. at'[u] = "load" /\ call'[u] = RemoveCall(o)
      BY <1>0, <3>1 DEF StartRemove, Goto, Typing
    <3> QED
      BY <3>2 DEF CallFits, RemoveCall, RemoveCalls, Targets
  <2>3. CASE \E o \in Objects, target \in Threads : StartMove(u, o, target)
    <3>1. PICK o \in Objects, target \in Threads : StartMove(u, o, target)
      BY <2>3
    <3>2. at'[u] = "first" /\ call'[u] = MoveCall(o, target) /\ home'[o] = u /\ target # u
      BY <1>0, <3>1 DEF StartMove, Goto, Typing
    <3> QED
      BY <3>2 DEF CallFits, MoveCall, MoveCalls
  <2> QED
    BY <2>1, <2>2, <2>3 DEF Begins
<1>3. LocksFit(u)' /\ WalkFits(u)' /\ FirstFirst(u)' /\ Sleepless(u)'
  BY <1>0, <1>1 DEF LocksFit, WalkFits, FirstFirst, Sleepless
<1>4. Typing'
  <2>1. moves' \in 0..MaxMoves
    BY <1>0, MoveAssumption DEF Begins, StartPost, StartRemove, StartMove, Typing
  <2> QED
    BY <1>0, <1>1, <2>1 DEF Typing, Labels
<1>5. Numbered'
  <2>1. CASE \E o \in Objects, p \in Priorities : StartPost(u, o, p)
    <3>1. PICK o \in Objects, p \in Priorities : StartPost(u, o, p)
      BY <2>1
    <3>2. ~IsPosting(u) /\ IsPosting(u)' /\ posted + Cardinality(Posting) < MaxEvents
      BY <1>0, <3>1 DEF StartPost, Goto, Typing, IsPosting, PostCall
    <3>3. Posting' = Posting \cup {u} /\ u \notin Posting
      BY <1>0, <3>2, PostingStep
    <3>4. IsFiniteSet(Posting') /\ Cardinality(Posting') = Cardinality(Posting) + 1
      BY <1>0, <3>3, FS_AddElement DEF Numbered
    <3>5. Cardinality(Posting) \in Nat /\ posted \in Nat /\ MaxEvents \in Nat
      BY <1>0, FS_CardinalityType, MoveAssumption DEF Numbered, Typing
    <3> QED
      BY <1>1, <3>2, <3>4, <3>5 DEF Numbered
  <2>2. CASE \E o \in Objects : StartRemove(u, o) \/ \E target \in Threads : StartMove(u, o, target)
    <3>1. PICK o \in Objects : StartRemove(u, o) \/ \E target \in Threads : StartMove(u, o, target)
      BY <2>2
    <3>2. ~IsPosting(u) /\ ~IsPosting(u)'
      BY <1>0, <3>1 DEF StartRemove, StartMove, Goto, Typing, IsPosting, RemoveCall, MoveCall
    <3> QED
      BY <1>0, <1>1, <3>2, NumberedStep
  <2> QED
    BY <2>1, <2>2 DEF Begins
<1>6. \A t \in Threads : ~AboutToWake(u, t)
  BY <1>1 DEF AboutToWake
<1> QED
  BY <1>0, <1>1, <1>2, <1>3, <1>4, <1>5, <1>6, QuietStep

(* Into a walk, or into the event loop.                                    *)
LEMMA EndUserCodeStep == ASSUME IInv, NEW u \in Threads, EndUserCode(u) PROVE IInv'
<1>0. Typing /\ Numbered /\ WalkFits(u) /\ CallFits(u) /\ Undisturbed(u)
  BY StepUndisturbed DEF IInv, Fits, StepOf
<1>1. /\ UNCHANGED <<home, list, mutex, canWait, wakeUp, walking, posted, moves, queued, call>>
      /\ at[u] = "user" /\ at' = [at EXCEPT ![u] = at'[u]] /\ at'[u] \in {"walk", "loop"}
      /\ at'[u] = "walk" <=> u \in walking
  BY <1>0 DEF EndUserCode, Goto, Typing
<1>2. CallFits(u)' /\ LocksFit(u)' /\ WalkFits(u)' /\ FirstFirst(u)' /\ Sleepless(u)'
  BY <1>0, <1>1 DEF CallFits, LocksFit, WalkFits, FirstFirst, Sleepless
<1>3. Typing'
  BY <1>0, <1>1 DEF Typing, Labels
<1>4. Numbered'
  BY <1>0, <1>1, NumberedStep DEF IsPosting
<1>5. \A t \in Threads : ~AboutToWake(u, t)
  BY <1>1 DEF AboutToWake
<1> QED
  BY <1>0, <1>1, <1>2, <1>3, <1>4, <1>5, QuietStep

(* lockThreadPostEventList() up to the look under the mutex.               *)
LEMMA LoadStep == ASSUME IInv, NEW u \in Threads, Load(u) \/ Follow(u) PROVE IInv'
<1>0. Typing /\ Numbered /\ WalkFits(u) /\ CallFits(u) /\ Undisturbed(u)
  BY StepUndisturbed DEF IInv, Fits, StepOf, InCall
<1>1. /\ UNCHANGED <<home, list, mutex, canWait, wakeUp, walking, posted, moves, queued>>
      /\ at[u] \in {"load", "lock"} /\ at' = [at EXCEPT ![u] = at'[u]] /\ at'[u] \in {"load", "lock"}
  BY <1>0 DEF Load, Follow, CanLock, Goto, Typing
<1>2. /\ call[u] \in PostCalls \cup RemoveCalls /\ home[call[u].object] \in Threads
      /\ DOMAIN call' = Threads
      /\ call'[u] \in PostCalls \cup RemoveCalls /\ (at'[u] = "lock" => call'[u].data \in Threads)
      /\ call'[u].kind = call[u].kind
  <2>1. call[u] \in PostCalls \cup RemoveCalls /\ home[call[u].object] \in Threads
    BY <1>0, <1>1, CallShape DEF CallFits, Typing
  <2>2. CASE Load(u)
    <3>1. /\ call' = [call EXCEPT ![u] = [call[u] EXCEPT !.data = home[call[u].object]]]
      BY <1>0, <2>2 DEF Load, Typing
    <3>2. call'[u] = [call[u] EXCEPT !.data = home[call[u].object]] /\ DOMAIN call' = Threads
      BY <1>0, <3>1 DEF Typing
    <3> QED
      BY <2>1, <3>2 DEF PostCalls, RemoveCalls, Targets
  <2>3. CASE Follow(u)
    BY <1>0, <2>1, <2>3 DEF Follow, Goto, Typing
  <2> QED
    BY <2>1, <2>2, <2>3
<1>3. CallFits(u)' /\ LocksFit(u)' /\ WalkFits(u)' /\ FirstFirst(u)' /\ Sleepless(u)'
  BY <1>0, <1>1, <1>2 DEF CallFits, LocksFit, WalkFits, FirstFirst, Sleepless
<1>4. Typing'
  BY <1>0, <1>1, <1>2 DEF Typing, Labels
<1>5. Numbered'
  BY <1>0, <1>1, <1>2, NumberedStep DEF IsPosting
<1>6. \A t \in Threads : ~AboutToWake(u, t)
  BY <1>1 DEF AboutToWake
<1> QED
  BY <1>0, <1>1, <1>3, <1>4, <1>5, <1>6, QuietStep

LEMMA WakeDispatcherStep == ASSUME IInv, NEW u \in Threads, WakeDispatcher(u) PROVE IInv'
<1>0. Typing /\ Numbered /\ WalkFits(u) /\ CallFits(u) /\ Undisturbed(u) /\ Seen(u) \in Threads
  BY StepUndisturbed, CallShape DEF IInv, Fits, StepOf, InCall, WakeDispatcher
<1>1. /\ UNCHANGED <<home, list, mutex, canWait, walking, posted, moves, queued>>
      /\ at[u] = "wake" /\ at' = [at EXCEPT ![u] = "user"] /\ call' = [call EXCEPT ![u] = NoCall]
      /\ wakeUp' = [wakeUp EXCEPT ![Seen(u)] = TRUE]
  BY DEF WakeDispatcher, Goto
<1>2. CallFits(u)' /\ LocksFit(u)' /\ WalkFits(u)' /\ FirstFirst(u)' /\ Sleepless(u)'
  BY <1>0, <1>1 DEF CallFits, LocksFit, WalkFits, FirstFirst, Sleepless, Typing
<1>3. Typing'
  BY <1>0, <1>1 DEF Typing, Labels
<1>4. Numbered'
  <2>1. ~IsPosting(u) /\ ~IsPosting(u)'
    BY <1>0, <1>1 DEF IsPosting, Typing
  <2> QED
    BY <1>0, <1>1, <2>1, NumberedStep
<1>5. \A t \in Threads : /\ wakeUp[t] => wakeUp'[t]
                         /\ AboutToWake(u, t) => wakeUp'[t]
  BY <1>0, <1>1 DEF AboutToWake, Typing
<1> QED
  BY <1>0, <1>1, <1>2, <1>3, <1>4, <1>5, QuietStep

LEMMA LockFirstStep == ASSUME IInv, NEW u \in Threads, LockFirst(u) PROVE IInv'
<1>0. Typing /\ Numbered /\ WalkFits(u) /\ CallFits(u) /\ Undisturbed(u)
  BY StepUndisturbed DEF IInv, Fits, StepOf, InCall
<1>1. /\ UNCHANGED <<home, list, canWait, wakeUp, walking, posted, moves, queued, call>>
      /\ at[u] = "first" /\ at' = [at EXCEPT ![u] = "second"]
      /\ mutex' = [mutex EXCEPT ![Lower(u)] = u]
  BY DEF LockFirst, Goto
<1>2. Lower(u) \in Threads /\ Lower(u)' = Lower(u)
  <2>1. call[u].target \in Threads
    BY <1>0, <1>1, CallShape
  <2>2. Lower(u) \in {u, call[u].target}
    <3> DEFINE I == {u, call[u].target}
    <3>1. I \in SUBSET Nat /\ I # {}
      BY <2>1, MoveAssumption
    <3>2. Min(I) \in I
      BY <3>1, MinOfPositions
    <3> QED
      BY <3>2 DEF Lower
  <2> QED
    BY <1>1, <2>1, <2>2 DEF Lower
<1>3. CallFits(u)' /\ LocksFit(u)' /\ WalkFits(u)' /\ FirstFirst(u)' /\ Sleepless(u)'
  BY <1>0, <1>1, <1>2 DEF CallFits, LocksFit, WalkFits, FirstFirst, Sleepless, Typing
<1>4. Typing'
  BY <1>0, <1>1 DEF Typing, Labels, Targets
<1>5. Numbered'
  <2>1. ~IsPosting(u) /\ ~IsPosting(u)'
    BY <1>0, <1>1 DEF IsPosting, Typing
  <2> QED
    BY <1>0, <1>1, <2>1, NumberedStep
<1>6. \A t \in Threads : ~AboutToWake(u, t)
  BY <1>1 DEF AboutToWake
<1> QED
  BY <1>0, <1>1, <1>3, <1>4, <1>5, <1>6, QuietStep

LEMMA LowerAndHigher ==
  ASSUME NEW u \in Threads, call[u].target \in Threads
  PROVE  \/ Lower(u) = u /\ Higher(u) = call[u].target
         \/ Lower(u) = call[u].target /\ Higher(u) = u
<1>1. \A a, b \in Nat : a <= b => Min({a, b}) = a /\ Max({a, b}) = b
  <2>1. ASSUME NEW a \in Nat, NEW b \in Nat, a <= b PROVE Min({a, b}) = a /\ Max({a, b}) = b
    <3>1. \A x \in {a, b} : (\A y \in {a, b} : x <= y) <=> x = a
      BY <2>1
    <3>2. \A x \in {a, b} : (\A y \in {a, b} : x >= y) <=> x = b
      BY <2>1
    <3>3. Min({a, b}) = a
      BY <3>1 DEF Min
    <3>4. Max({a, b}) = b
      BY <3>2 DEF Max
    <3> QED
      BY <3>3, <3>4
  <2> QED
    BY <2>1
<1>2. u \in Nat /\ call[u].target \in Nat
  BY MoveAssumption
<1>3. {u, call[u].target} = {call[u].target, u}
  OBVIOUS
<1>4. u <= call[u].target \/ call[u].target <= u
  BY <1>2
<1> QED
  BY <1>1, <1>2, <1>3, <1>4 DEF Lower, Higher

(* With both mutexes, and nothing moved yet.                               *)
LEMMA LockSecondStep == ASSUME IInv, NEW u \in Threads, LockSecond(u) PROVE IInv'
<1>0. Typing /\ Numbered /\ WalkFits(u) /\ CallFits(u) /\ LocksFit(u) /\ Undisturbed(u) /\ Books
  BY StepUndisturbed DEF IInv, Fits, StepOf, InCall
<1>1. /\ UNCHANGED <<home, list, canWait, wakeUp, walking, posted, moves, queued, call>>
      /\ at[u] = "second" /\ at' = [at EXCEPT ![u] = "move"]
  BY DEF LockSecond, Goto
<1>2. /\ call[u].target \in Threads /\ call[u].target # u /\ home[call[u].object] = u
      /\ call[u].object \in Objects
  BY <1>0, <1>1, CallShape
<1>3. mutex[Lower(u)] = u /\ mutex' = [mutex EXCEPT ![Higher(u)] = u]
  BY <1>0, <1>1 DEF LockSecond, LocksFit
<1>4. mutex'[u] = u /\ mutex'[call[u].target] = u /\ mutex' \in [Threads -> Targets]
  BY <1>0, <1>2, <1>3, LowerAndHigher DEF Typing, Targets
<1>5. CallFits(u)' /\ LocksFit(u)' /\ WalkFits(u)' /\ Sleepless(u)'
  BY <1>0, <1>1, <1>4 DEF CallFits, LocksFit, WalkFits, Sleepless, Typing
<1>6. FirstFirst(u)'
  <2>1. ASSUME NEW x \in Live(list[call[u].target]), x.receiver = call[u].object PROVE FALSE
    <3>1. home[call[u].object] = call[u].target
          \/ \E s \in Threads : Moving(s, call[u].object, call[u].target)
      BY <1>0, <1>2, <2>1 DEF Books
    <3> QED
      BY <1>1, <1>2, <3>1 DEF Moving
  <2> QED
    BY <1>1, <2>1 DEF FirstFirst, Live
<1>7. Typing'
  BY <1>0, <1>1, <1>4 DEF Typing, Labels
<1>8. Numbered'
  <2>1. ~IsPosting(u) /\ ~IsPosting(u)'
    BY <1>0, <1>1 DEF IsPosting, Typing
  <2> QED
    BY <1>0, <1>1, <2>1, NumberedStep
<1>9. \A t \in Threads : ~AboutToWake(u, t)
  BY <1>1 DEF AboutToWake
<1> QED
  BY <1>0, <1>1, <1>5, <1>6, <1>7, <1>8, <1>9, QuietStep

(* The dispatcher.                                                         *)
LEMMA DispatcherStep == ASSUME IInv, NEW u \in Threads, ReadCanWait(u) \/ Return(u) PROVE IInv'
<1>0. Typing /\ Numbered /\ WalkFits(u) /\ CallFits(u) /\ Undisturbed(u) /\ Sleepless(u)
  BY StepUndisturbed DEF IInv, Fits, StepOf, Loops, Wakes
<1>1. /\ UNCHANGED <<home, list, canWait, mutex, walking, posted, moves, queued, call>>
      /\ at[u] \in {"wait", "poll"} /\ at' = [at EXCEPT ![u] = at'[u]]
      /\ at'[u] \in {"poll", "loop"}
      /\ wakeUp' = [wakeUp EXCEPT ![u] = wakeUp'[u]]
  BY <1>0 DEF ReadCanWait, Return, Goto, Typing
<1>2. wakeUp'[u] \in BOOLEAN
  BY <1>0 DEF ReadCanWait, Return, Typing
<1>3. Sleepless(u)'
  <2>1. CASE at'[u] = "poll"
    <3>1. at[u] = "wait" /\ canWait[u] /\ wakeUp'[u] = wakeUp[u]
      BY <1>0, <2>1 DEF ReadCanWait, Return, Goto, Typing
    <3>2. Entries(u) # {} => wakeUp[u] \/ \E s \in Threads : AboutToWake(s, u)
      BY <1>0, <3>1 DEF Sleepless
    <3>3. \A s \in Threads : AboutToWake(s, u) => AboutToWake(s, u)'
      <4>1. ~AboutToWake(u, u)
        BY <3>1 DEF AboutToWake
      <4> QED
        BY <1>0, <4>1, WakingStep
    <3>4. Entries(u)' = Entries(u)
      BY <1>1 DEF Entries, Size
    <3> QED
      BY <3>1, <3>2, <3>3, <3>4 DEF Sleepless
  <2>2. CASE at'[u] = "loop"
    BY <2>2 DEF Sleepless
  <2> QED
    BY <1>1, <2>1, <2>2
<1>4. CallFits(u)' /\ LocksFit(u)' /\ WalkFits(u)' /\ FirstFirst(u)'
  BY <1>0, <1>1 DEF CallFits, LocksFit, WalkFits, FirstFirst
<1>5. Typing'
  BY <1>0, <1>1, <1>2 DEF Typing, Labels
<1>6. Numbered'
  <2>1. ~IsPosting(u) /\ ~IsPosting(u)'
    BY <1>0, <1>1 DEF IsPosting, Typing
  <2> QED
    BY <1>0, <1>1, <2>1, NumberedStep
<1>7. \A t \in Threads \ {u} : /\ wakeUp[t] => wakeUp'[t]
                               /\ ~AboutToWake(u, t)
  BY <1>0, <1>1 DEF AboutToWake, Typing
<1> QED
  BY <1>0, <1>1, <1>3, <1>4, <1>5, <1>6, <1>7, QuietStep

(* The end of moveToThread(): nothing is left behind.                      *)
LEMMA MoveStep == ASSUME IInv, NEW u \in Threads, Move(u) PROVE IInv'
<1> DEFINE o == call[u].object
           g == call[u].target
<1>0. /\ Typing /\ Lists /\ Numbered /\ Books
      /\ WalkFits(u) /\ CallFits(u) /\ LocksFit(u) /\ Undisturbed(u)
  BY StepUndisturbed DEF IInv, Fits, StepOf, InCall
<1>1. /\ UNCHANGED <<list, walking, posted, moves, queued>>
      /\ at[u] = "move" /\ at' = [at EXCEPT ![u] = "user"] /\ ToMove(u) = {}
      /\ home' = [home EXCEPT ![o] = g] /\ call' = [call EXCEPT ![u] = NoCall]
      /\ canWait' = [canWait EXCEPT ![g] = canWait[g] /\ ~call[u].moved]
      /\ wakeUp' = [wakeUp EXCEPT ![g] = wakeUp[g] \/ call[u].moved]
      /\ mutex' = [mutex EXCEPT ![u] = NoThread, ![g] = NoThread]
  BY <1>0 DEF Move, Goto, Typing
<1>2. /\ o \in Objects /\ g \in Threads /\ g # u /\ home[o] = u /\ call[u].moved \in BOOLEAN
      /\ call[u].kind = "move"
  BY <1>0, <1>1, CallShape
<1> HIDE DEF o, g
<1>3. CallFits(u)' /\ LocksFit(u)' /\ WalkFits(u)' /\ FirstFirst(u)' /\ Sleepless(u)'
  BY <1>0, <1>1 DEF CallFits, LocksFit, WalkFits, FirstFirst, Sleepless, Typing
<1>4. Typing'
  <2>1. canWait' \in [Threads -> BOOLEAN] /\ wakeUp' \in [Threads -> BOOLEAN]
    BY <1>0, <1>1, <1>2 DEF Typing
  <2>2. home' \in [Objects -> Threads] /\ mutex' \in [Threads -> Targets] /\ at' \in [Threads -> Labels]
    BY <1>0, <1>1, <1>2 DEF Typing, Targets, Labels
  <2> QED
    BY <1>0, <1>1, <2>1, <2>2 DEF Typing
<1>5. Numbered'
  <2>1. ~IsPosting(u) /\ ~IsPosting(u)'
    BY <1>0, <1>1, <1>2 DEF IsPosting, Typing
  <2> QED
    BY <1>0, <1>1, <2>1, NumberedStep
<1>6. Lists'
  BY <1>0, <1>1 DEF Lists, SoundList, BothNull, Once, Sorted, Offsets, InOrder, Size
<1>7. Fits' /\ Order'
  BY <1>0, <1>1, <1>3, FitsStep, OrderStep
<1>8. Books'
  <2>1. ASSUME NEW t \in Threads, NEW x \in Live(list[t])
        PROVE  home'[x.receiver] = t \/ \E s \in Threads : Moving(s, x.receiver, t)'
    <3> DEFINE r == x.receiver
    <3>1. r \in Objects /\ SoundList(list[t])
      BY <1>0, InListIsQueued DEF Lists
    <3>2. home[r] = t \/ \E s \in Threads : Moving(s, r, t)
      BY <1>0 DEF Books
    <3>3. CASE r = o
      <4>1. t # u
        <5>1. SUFFICES ASSUME t = u PROVE FALSE
          OBVIOUS
        <5>2. PICK i \in 1..Size(list[u]) : list[u].entries[i] = x
          BY <3>1, <5>1, LiveEntry
        <5>3. i \in ToMove(u)
          BY <3>3, <5>2 DEF ToMove, o
        <5> QED
          BY <1>1, <5>3
      <4>2. t = g
        BY <1>2, <3>2, <3>3, <4>1 DEF Moving, g
      <4> QED
        BY <1>0, <1>1, <1>2, <3>3, <4>2 DEF Typing
    <3>4. CASE r # o
      <4>1. home'[r] = home[r]
        BY <1>0, <1>1, <3>1, <3>4 DEF Typing
      <4>2. ASSUME NEW s \in Threads, Moving(s, r, t) PROVE Moving(s, r, t)'
        <5>1. s # u
          BY <3>4, <4>2 DEF Moving, o
        <5> HIDE DEF r
        <5> QED
          BY <1>0, <3>1, <4>2, <5>1, MovingStep
      <4> QED
        BY <3>2, <4>1, <4>2
    <3> QED
      BY <3>3, <3>4
  <2>2. \A t \in Threads : Live(list'[t]) = Live(list[t])
    BY <1>1
  <2> QED
    BY <1>0, <1>1, <2>1, <2>2 DEF Books
<1>9. Wakes'
  <2>1. \A t \in Threads : /\ canWait'[t] => canWait[t]
                           /\ wakeUp[t] => wakeUp'[t]
                           /\ Entries(t)' = Entries(t)
    BY <1>0, <1>1, <1>2 DEF Typing, Entries, Size
  <2>2. \A t \in Threads : AboutToWake(u, t) => t = g /\ wakeUp'[g] /\ ~canWait'[g]
    BY <1>0, <1>1, <1>2 DEF AboutToWake, Typing, g
  <2>3. ASSUME NEW t \in Threads PROVE MayWait(t)'
    <3>1. CASE AboutToWake(u, t)
      BY <2>2, <3>1 DEF MayWait
    <3>2. CASE ~AboutToWake(u, t)
      <4>1. t \in walking' => t \in walking
        BY <1>1
      <4>2. list'[t].insertionOffset = list[t].insertionOffset
        BY <1>1
      <4> QED
        BY <1>0, <2>1, <3>2, <4>1, <4>2, MayWaitStep
    <3> QED
      BY <3>1, <3>2
  <2>4. ASSUME NEW t \in Threads, t # u PROVE Sleepless(t)'
    BY <1>0, <2>1, <2>2, <2>4, SleeplessStep
  <2> QED
    BY <1>3, <2>3, <2>4 DEF Wakes
<1> QED
  BY <1>4, <1>5, <1>6, <1>7, <1>8, <1>9 DEF IInv

LEMMA InitIInv == Init => IInv
<1> SUFFICES ASSUME Init PROVE IInv
  OBVIOUS
<1>1. /\ Typing
      /\ \A t \in Threads : /\ list[t] = EmptyList /\ at[t] = "user" /\ t \notin walking
                            /\ SoundList(list[t]) /\ Live(list[t]) = {} /\ list[t].startOffset = 0
      /\ posted = 0 /\ queued = {}
  <2>1. Typing
    BY MoveAssumption DEF Init, Typing, Targets, Labels
  <2>2. \A t \in Threads : list[t] = EmptyList /\ at[t] = "user" /\ t \notin walking
    BY DEF Init
  <2> QED
    BY <2>1, <2>2, EmptyIsSound DEF Init
<1>2. Lists /\ Fits /\ Order /\ Wakes
  BY <1>1 DEF Lists, Fits, CallFits, LocksFit, WalkFits, Order, FirstFirst, Wakes, MayWait, Sleepless
<1>3. Numbered
  <2>1. Posting = {}
    BY <1>1 DEF Posting
  <2> QED
    BY <1>1, <2>1, FS_EmptySet, MoveAssumption DEF Numbered
<1>4. Books
  BY <1>1 DEF Books
<1> QED
  BY <1>1, <1>2, <1>3, <1>4 DEF IInv

(* An entry of the walk: what is taken out of the list is not queued.      *)
LEMMA DeliverStep == ASSUME IInv, NEW u \in Threads, Deliver(u) PROVE IInv'
<1> DEFINE l == list[u]
           m == [NullAt(l, l.startOffset + 1) EXCEPT !.startOffset = @ + 1]
           here == l.entries[l.startOffset + 1]
<1>0. /\ Typing /\ Lists /\ Numbered /\ Books /\ SoundList(l)
      /\ WalkFits(u) /\ CallFits(u) /\ LocksFit(u) /\ Undisturbed(u)
  BY StepUndisturbed DEF IInv, Fits, Lists, StepOf, Loops
<1>1. /\ UNCHANGED <<home, mutex, canWait, wakeUp, call, walking, posted, moves>>
      /\ at[u] = "walk" /\ at' = [at EXCEPT ![u] = at'[u]] /\ at'[u] \in {"walk", "user"}
      /\ ~AtEnd(u) /\ list' = [list EXCEPT ![u] = m] /\ queued' = queued \ {here.event}
  <2>1. /\ UNCHANGED <<home, mutex, canWait, wakeUp, call, walking, posted, moves>>
        /\ at[u] = "walk" /\ ~AtEnd(u) /\ queued' = queued \ {here.event}
        /\ list' = [list EXCEPT ![u] = m]
        /\ Goto(u, IF Here(u).event = NoEvent THEN "walk" ELSE "user")
    BY DEF Deliver, Here
  <2>2. at' = [at EXCEPT ![u] = at'[u]] /\ at'[u] \in {"walk", "user"}
    BY <1>0, <2>1 DEF Goto, Typing
  <2> QED
    BY <2>1, <2>2
<1>2. l.startOffset < Size(l) /\ l.startOffset < l.insertionOffset /\ l.startOffset + 1 \in 1..Size(l)
  <2>1. l.startOffset \in Nat /\ l.insertionOffset \in Nat /\ Size(l) \in Nat
    BY <1>0 DEF SoundList, List, Size
  <2> QED
    BY <1>1, <2>1 DEF AtEnd
<1>3. /\ SoundList(m) /\ Live(m) = Live(l) \ {here}
      /\ m.insertionOffset = l.insertionOffset /\ Size(m) = Size(l)
      /\ \A i \in 1..Size(l) : m.entries[i].event # NoEvent => m.entries[i] = l.entries[i]
  BY <1>0, <1>2, DeliverFacts
<1> HIDE DEF m
<1>4. /\ list'[u] = m /\ \A t \in Threads : t # u => list'[t] = list[t]
      /\ DOMAIN list' = Threads
  BY <1>0, <1>1 DEF Typing
<1>5. CallFits(u)' /\ LocksFit(u)' /\ WalkFits(u)' /\ FirstFirst(u)' /\ Sleepless(u)'
  BY <1>0, <1>1 DEF CallFits, LocksFit, WalkFits, FirstFirst, Sleepless, Typing
<1>6. Typing'
  <2>1. at' \in [Threads -> Labels] /\ queued' \subseteq 1..posted
    <3>1. at' \in [Threads -> Labels]
      BY <1>0, <1>1 DEF Typing, Labels
    <3> HIDE DEF here
    <3> QED
      BY <1>0, <1>1, <3>1 DEF Typing
  <2> QED
    BY <1>0, <1>1, <1>4, <2>1 DEF Typing
<1>7. Numbered'
  <2>1. ~IsPosting(u) /\ ~IsPosting(u)'
    BY <1>0, <1>1 DEF IsPosting, Typing
  <2> QED
    BY <1>0, <1>1, <2>1, NumberedStep
<1>8. Lists'
  <2>1. ASSUME NEW t \in Threads PROVE SoundList(list'[t])
    <3>1. SoundList(list[t])
      BY <1>0 DEF Lists
    <3> QED
      BY <1>3, <1>4, <3>1
  <2>2. ASSUME NEW t \in Threads PROVE SoundList(list[t])'
    BY <2>1 DEF SoundList, BothNull, Once, Sorted, Offsets, InOrder, Size
  <2> QED
    BY <2>2 DEF Lists
<1>9. Fits' /\ Order'
  BY <1>0, <1>4, <1>5, FitsStep, OrderStep
<1>10. Books'
  <2>1. ASSUME NEW t \in Threads, NEW x \in Live(list[t])
        PROVE  x \in Live(list'[t]) <=> x.event \in queued'
    <3>1. x.event \in queued /\ x.event # NoEvent
      BY InListIsQueued
    <3>2. here.event # NoEvent => here \in Live(l)
      BY <1>0, <1>2, PlaceIsLive
    <3>3. x.event = here.event => t = u /\ x = here
      BY <3>1, <3>2, EventInOnePlace
    <3>4. x \in Live(list'[t]) <=> ~(t = u /\ x = here)
      BY <1>3, <1>4
    <3> HIDE DEF here
    <3> QED
      BY <1>1, <3>1, <3>3, <3>4
  <2>2. \A t \in Threads : Live(list'[t]) \subseteq Live(list[t])
    BY <1>3, <1>4
  <2>3. \A r \in Objects, t \in Threads : Moving(u, r, t) => Moving(u, r, t)'
    BY <1>1 DEF Moving
  <2> QED
    BY <1>0, <1>1, <2>1, <2>2, <2>3, BooksStep
<1>11. Wakes'
  <2>1. ASSUME NEW t \in Threads PROVE \A i \in Entries(t)' : i \in Entries(t)
    BY <1>3, <1>4 DEF Entries, Size
  <2>2. ASSUME NEW t \in Threads PROVE list'[t].insertionOffset = list[t].insertionOffset
    BY <1>3, <1>4
  <2>3. \A t \in Threads : ~AboutToWake(u, t)
    BY <1>1 DEF AboutToWake
  <2>4. ASSUME NEW t \in Threads PROVE MayWait(t)'
    BY <1>0, <1>1, <2>1, <2>2, <2>3, MayWaitStep
  <2>5. ASSUME NEW t \in Threads, t # u PROVE Sleepless(t)'
    BY <1>0, <1>1, <2>1, <2>3, <2>5, SleeplessStep
  <2> QED
    BY <1>5, <2>4, <2>5 DEF Wakes
<1> QED
  BY <1>6, <1>7, <1>8, <1>9, <1>10, <1>11 DEF IInv

(* The beginning of a walk: what is in the list now is what it has to see. *)
LEMMA BeginWalkStep == ASSUME IInv, NEW u \in Threads, BeginWalk(u) PROVE IInv'
<1> DEFINE l == list[u]
           m == [l EXCEPT !.insertionOffset = Size(l)]
<1>0. /\ Typing /\ Lists /\ Numbered /\ Books /\ SoundList(l)
      /\ WalkFits(u) /\ CallFits(u) /\ LocksFit(u) /\ Undisturbed(u)
  BY StepUndisturbed DEF IInv, Fits, Lists, StepOf, Loops
<1>1. /\ UNCHANGED <<home, mutex, wakeUp, call, posted, moves, queued>>
      /\ at[u] = "loop" /\ at' = [at EXCEPT ![u] = at'[u]] /\ canWait' = [canWait EXCEPT ![u] = TRUE]
      /\ \/ Size(l) = 0 /\ at'[u] = "wait" /\ UNCHANGED <<list, walking>>
         \/ at'[u] = "walk" /\ walking' = walking \cup {u} /\ list' = [list EXCEPT ![u] = m]
  BY <1>0 DEF BeginWalk, Goto, Typing
<1>2. /\ SoundList(m) /\ Live(m) = Live(l) /\ m.entries = l.entries
      /\ m.startOffset = l.startOffset /\ m.insertionOffset = Size(l) /\ Size(m) = Size(l)
  BY <1>0, BeginFacts
<1> HIDE DEF m
<1>3. /\ list'[u] \in {l, m} /\ \A t \in Threads : t # u => list'[t] = list[t]
      /\ DOMAIN list' = Threads
  BY <1>0, <1>1 DEF Typing
<1>4. /\ at'[u] \in {"wait", "walk"}
      /\ at'[u] = "wait" => u \notin walking' /\ Size(l) = 0 /\ list'[u] = l
      /\ at'[u] = "walk" => u \in walking' /\ list'[u] = m
  BY <1>0, <1>1 DEF WalkFits, Typing
<1>5. CallFits(u)' /\ LocksFit(u)' /\ FirstFirst(u)'
  BY <1>4 DEF CallFits, LocksFit, FirstFirst
<1>6. WalkFits(u)' /\ Sleepless(u)'
  <2>1. list'[u].startOffset = 0
    BY <1>0, <1>1, <1>2, <1>3 DEF WalkFits
  <2>2. at'[u] = "wait" => Entries(u)' = {}
    BY <1>4 DEF Entries, Size
  <2> QED
    BY <1>4, <2>1, <2>2 DEF WalkFits, Sleepless
<1>7. Typing'
  BY <1>0, <1>1, <1>3 DEF Typing, Labels
<1>8. Numbered'
  <2>1. ~IsPosting(u) /\ ~IsPosting(u)'
    BY <1>1, <1>4 DEF IsPosting
  <2> QED
    BY <1>0, <1>1, <2>1, NumberedStep
<1>9. Lists'
  <2>1. ASSUME NEW t \in Threads PROVE SoundList(list'[t])
    <3>1. SoundList(list[t])
      BY <1>0 DEF Lists
    <3> QED
      BY <1>2, <1>3, <3>1
  <2>2. ASSUME NEW t \in Threads PROVE SoundList(list[t])'
    BY <2>1 DEF SoundList, BothNull, Once, Sorted, Offsets, InOrder, Size
  <2> QED
    BY <2>2 DEF Lists
<1>10. Fits' /\ Order'
  BY <1>0, <1>3, <1>5, <1>6, FitsStep, OrderStep
<1>11. Books'
  <2>1. \A t \in Threads : Live(list'[t]) = Live(list[t])
    BY <1>2, <1>3
  <2>2. \A t \in Threads : \A x \in Live(list[t]) : x.event \in queued
    BY InListIsQueued
  <2>3. \A r \in Objects, t \in Threads : Moving(u, r, t) => Moving(u, r, t)'
    BY <1>1 DEF Moving
  <2> QED
    BY <1>0, <1>1, <2>1, <2>2, <2>3, BooksStep
<1>12. Wakes'
  <2>1. \A t \in Threads : ~AboutToWake(u, t)
    BY <1>1 DEF AboutToWake
  <2>2. ASSUME NEW t \in Threads, t # u
        PROVE  /\ canWait'[t] = canWait[t] /\ Entries(t)' = Entries(t)
               /\ t \in walking' => t \in walking
               /\ list'[t].insertionOffset = list[t].insertionOffset
    BY <1>0, <1>1, <1>3, <2>2 DEF Typing, Entries, Size
  <2>3. MayWait(u)'
    <3>1. CASE at'[u] = "wait"
      BY <1>4, <3>1 DEF MayWait
    <3>2. CASE at'[u] = "walk"
      <4>1. list'[u] = m /\ Size(l) \in Nat
        BY <1>0, <1>4, <3>2 DEF SoundList, List, Size
      <4>2. \A i \in Entries(u)' : i <= list'[u].insertionOffset
        BY <1>2, <4>1 DEF Entries, Size
      <4> QED
        BY <4>2 DEF MayWait
    <3> QED
      BY <1>4, <3>1, <3>2
  <2>4. ASSUME NEW t \in Threads, t # u PROVE MayWait(t)' /\ Sleepless(t)'
    BY <1>0, <1>1, <2>1, <2>2, <2>4, MayWaitStep, SleeplessStep
  <2> QED
    BY <1>6, <2>3, <2>4 DEF Wakes
<1> QED
  BY <1>7, <1>8, <1>9, <1>10, <1>11, <1>12 DEF IInv

(* The end of a walk: everything has been seen, or the thread is told.     *)
LEMMA EndWalkStep == ASSUME IInv, NEW u \in Threads, EndWalk(u) PROVE IInv'
<1> DEFINE l == list[u]
           m == EraseSent(l)
<1>0. /\ Typing /\ Lists /\ Numbered /\ Books /\ SoundList(l) /\ MayWait(u)
      /\ WalkFits(u) /\ CallFits(u) /\ LocksFit(u) /\ Undisturbed(u)
  BY StepUndisturbed DEF IInv, Fits, Lists, Wakes, StepOf, Loops
<1>1. /\ UNCHANGED <<home, mutex, canWait, call, posted, moves, queued>>
      /\ at[u] = "walk" /\ at' = [at EXCEPT ![u] = "wait"] /\ AtEnd(u)
      /\ list' = [list EXCEPT ![u] = m] /\ walking' = walking \ {u}
      /\ wakeUp' = [wakeUp EXCEPT ![u] = wakeUp[u] \/ ~canWait[u]]
  BY <1>0 DEF EndWalk, Goto, Typing
<1>2. SoundList(m) /\ Live(m) = Live(l) /\ m.startOffset = 0
  BY <1>0, EraseFacts
<1> HIDE DEF m
<1>3. /\ list'[u] = m /\ \A t \in Threads : t # u => list'[t] = list[t]
      /\ DOMAIN list' = Threads
  BY <1>0, <1>1 DEF Typing
<1>4. at'[u] = "wait" /\ u \notin walking'
  BY <1>0, <1>1 DEF Typing
<1>5. CallFits(u)' /\ LocksFit(u)' /\ FirstFirst(u)' /\ WalkFits(u)'
  BY <1>2, <1>3, <1>4 DEF CallFits, LocksFit, FirstFirst, WalkFits
<1>6. Typing'
  BY <1>0, <1>1, <1>3 DEF Typing, Labels
<1>7. Numbered'
  <2>1. ~IsPosting(u) /\ ~IsPosting(u)'
    BY <1>1, <1>4 DEF IsPosting
  <2> QED
    BY <1>0, <1>1, <2>1, NumberedStep
<1>8. Lists'
  <2>1. ASSUME NEW t \in Threads PROVE SoundList(list'[t])
    <3>1. SoundList(list[t])
      BY <1>0 DEF Lists
    <3> QED
      BY <1>2, <1>3, <3>1
  <2>2. ASSUME NEW t \in Threads PROVE SoundList(list[t])'
    BY <2>1 DEF SoundList, BothNull, Once, Sorted, Offsets, InOrder, Size
  <2> QED
    BY <2>2 DEF Lists
<1>9. Fits' /\ Order'
  BY <1>0, <1>3, <1>5, FitsStep, OrderStep
<1>10. Books'
  <2>1. \A t \in Threads : Live(list'[t]) = Live(list[t])
    BY <1>2, <1>3
  <2>2. \A t \in Threads : \A x \in Live(list[t]) : x.event \in queued
    BY InListIsQueued
  <2>3. \A r \in Objects, t \in Threads : Moving(u, r, t) => Moving(u, r, t)'
    BY <1>1 DEF Moving
  <2> QED
    BY <1>0, <1>1, <2>1, <2>2, <2>3, BooksStep
<1>11. \A t \in Threads : ~AboutToWake(u, t)
  BY <1>1 DEF AboutToWake
<1>12. Sleepless(u)'
  <2>1. SUFFICES ASSUME canWait[u], Entries(u)' # {}, \A s \in Threads : ~AboutToWake(s, u)'
                 PROVE  FALSE
    BY <1>1, <1>4 DEF Sleepless
  <2>2. \A s \in Threads : ~AboutToWake(s, u)
    BY <1>0, <1>11, <2>1, WakingStep
  <2>3. \A i \in Entries(u) : i <= l.insertionOffset
    BY <1>0, <1>1, <2>1, <2>2 DEF MayWait, WalkFits
  <2>4. Entries(u) # {}
    <3>1. PICK i \in 1..Size(m) : m.entries[i].event # NoEvent
      BY <1>3, <2>1 DEF Entries, Size
    <3>2. m.entries[i] \in Live(l)
      BY <1>2, <3>1, PlaceIsLive
    <3> QED
      BY <1>0, <3>2, NoEntries
  <2>5. PICK i \in Entries(u) : TRUE
    BY <2>4
  <2>6. i \in 1..Size(l) /\ l.entries[i].event # NoEvent /\ i <= l.insertionOffset
    BY <2>3, <2>5 DEF Entries
  <2>7. l.startOffset \in Nat /\ l.insertionOffset \in Nat /\ Size(l) \in Nat
        /\ \A k \in 1..l.startOffset : l.entries[k].event = NoEvent
    BY <1>0 DEF SoundList, List, Size, Offsets
  <2>8. i \in 1..l.startOffset
    BY <1>1, <2>6, <2>7 DEF AtEnd
  <2> QED
    BY <2>6, <2>7, <2>8
<1>13. Wakes'
  <2>1. ASSUME NEW t \in Threads, t # u
        PROVE  /\ canWait'[t] = canWait[t] /\ Entries(t)' = Entries(t) /\ wakeUp'[t] = wakeUp[t]
               /\ t \in walking' => t \in walking
               /\ list'[t].insertionOffset = list[t].insertionOffset
    BY <1>0, <1>1, <1>3, <2>1 DEF Typing, Entries, Size
  <2>2. MayWait(u)'
    BY <1>4 DEF MayWait
  <2>3. ASSUME NEW t \in Threads, t # u PROVE MayWait(t)' /\ Sleepless(t)'
    BY <1>0, <1>11, <2>1, <2>3, MayWaitStep, SleeplessStep
  <2> QED
    BY <1>12, <2>2, <2>3 DEF Wakes
<1> QED
  BY <1>6, <1>7, <1>8, <1>9, <1>10, <1>13 DEF IInv

(* removePostedEvents(): the events of the object, and no others.          *)
LEMMA RemovePostedStep == ASSUME IInv, NEW u \in Threads, RemovePosted(u) PROVE IInv'
<1>0. /\ Typing /\ Lists /\ Numbered /\ Books /\ Fits
      /\ WalkFits(u) /\ CallFits(u) /\ LocksFit(u) /\ Undisturbed(u)
  BY StepUndisturbed DEF IInv, Fits, StepOf, InCall
<1>2. PICK s \in Threads, o \in Objects : s = Seen(u) /\ o = call[u].object /\ o # NoReceiver
  BY <1>0, CallShape, MoveAssumption DEF RemovePosted, CanLock
<1>14. PICK b \in BOOLEAN : (s \in walking => b) /\ list' = [list EXCEPT ![s] = RemoveEvents(@, o, b)]
  <2>1. PICK b \in Recursion(s) : list' = [list EXCEPT ![s] = RemoveEvents(@, o, b)]
    BY <1>2 DEF RemovePosted
  <2>2. b \in BOOLEAN /\ (s \in walking => b)
    <3> DEFINE walks == s \in walking
               about == at[s] = "loop" \/ s \in walking
    <3>1. b = about \/ b = walks
      BY <2>1 DEF Recursion
    <3>2. about \in BOOLEAN /\ walks \in BOOLEAN /\ (s \in walking => about /\ walks)
      OBVIOUS
    <3> HIDE DEF about, walks
    <3> QED
      BY <3>1, <3>2
  <2> QED
    BY <2>1, <2>2
<1> DEFINE l == list[s]
           m == RemoveEvents(l, o, b)
<1>1. /\ UNCHANGED <<home, mutex, canWait, wakeUp, walking, posted, moves>>
      /\ at[u] = "lock" /\ at' = [at EXCEPT ![u] = "user"] /\ call' = [call EXCEPT ![u] = NoCall]
      /\ call[u].kind = "remove" /\ home[o] = s
      /\ list' = [list EXCEPT ![s] = m] /\ queued' = queued \ EventsOf(o)
  BY <1>2, <1>14 DEF RemovePosted, CanLock, StillThere, Goto
<1>3. /\ SoundList(l) /\ SoundList(m) /\ Live(m) = {x \in Live(l) : x.receiver # o}
      /\ m.startOffset = l.startOffset /\ m.insertionOffset = l.insertionOffset
  <2>1. SoundList(l) /\ (s \notin walking => l.startOffset = 0)
    BY <1>0, <1>2 DEF Lists, Fits, WalkFits
  <2>2. PICK k : k = l
    OBVIOUS
  <2> HIDE DEF l
  <2>3. SoundList(k) /\ (s \notin walking => k.startOffset = 0)
    BY <2>1, <2>2
  <2>6. o # NoReceiver
    BY <1>2
  <2>4. CASE b = TRUE
    <3> DEFINE n == RemoveEvents(k, o, TRUE)
    <3>1. /\ SoundList(n) /\ Live(n) = {x \in Live(k) : x.receiver # o}
          /\ n.startOffset = k.startOffset /\ n.insertionOffset = k.insertionOffset
      BY <2>3, <2>6, RemoveFacts
    <3>2. m = n
      BY <2>2, <2>4
    <3> HIDE DEF m, n
    <3> QED
      BY <2>2, <2>3, <3>1, <3>2
  <2>5. CASE b = FALSE
    <3> DEFINE n == RemoveEvents(k, o, FALSE)
    <3>3. s \notin walking
      BY <1>14, <2>5
    <3>1. /\ SoundList(n) /\ Live(n) = {x \in Live(k) : x.receiver # o}
          /\ n.startOffset = 0 /\ n.insertionOffset = k.insertionOffset
      BY <2>3, <3>3, TakenOut
    <3>2. m = n
      BY <2>2, <2>5
    <3> HIDE DEF m, n
    <3> QED
      BY <2>2, <2>3, <3>1, <3>2, <3>3
  <2> QED
    BY <1>14, <2>4, <2>5
<1>4. /\ list'[s] = m /\ \A t \in Threads : t # s => list'[t] = list[t]
      /\ DOMAIN list' = Threads
  BY <1>0, <1>1, <1>2 DEF Typing
<1>5. \A t \in Threads : /\ list'[t].startOffset = list[t].startOffset
                         /\ list'[t].insertionOffset = list[t].insertionOffset
                         /\ Live(list'[t]) \subseteq Live(list[t])
  BY <1>3, <1>4
<1>6. s \in walking => \A i \in Entries(s)' : i \in Entries(s)
  <2>1. ASSUME s \in walking
        PROVE  Size(m) = Size(l) /\ \A i \in 1..Size(m) : m.entries[i].event # NoEvent
                                                          => m.entries[i] = l.entries[i]
    <3>1. b = TRUE
      BY <1>14, <2>1
    <3>2. m = RemoveEvents(l, o, TRUE)
      BY <3>1
    <3> HIDE DEF m, l
    <3> QED
      BY <1>3, <3>2, RemoveWalked
  <2> HIDE DEF m
  <2> QED
    BY <1>4, <2>1 DEF Entries, Size
<1> HIDE DEF m
<1>7. CallFits(u)' /\ LocksFit(u)' /\ WalkFits(u)' /\ FirstFirst(u)' /\ Sleepless(u)'
  <2>1. at'[u] = "user" /\ list'[u].startOffset = list[u].startOffset
    BY <1>0, <1>1, <1>5 DEF Typing
  <2> QED
    BY <1>0, <1>1, <2>1 DEF CallFits, LocksFit, WalkFits, FirstFirst, Sleepless
<1>8. Typing'
  BY <1>0, <1>1, <1>4 DEF Typing, Labels
<1>9. Numbered'
  <2>1. ~IsPosting(u) /\ ~IsPosting(u)'
    BY <1>0, <1>1 DEF IsPosting, Typing
  <2> QED
    BY <1>0, <1>1, <2>1, NumberedStep
<1>10. Lists'
  <2>1. ASSUME NEW t \in Threads PROVE SoundList(list'[t])
    <3>1. SoundList(list[t])
      BY <1>0 DEF Lists
    <3> QED
      BY <1>3, <1>4, <3>1
  <2>2. ASSUME NEW t \in Threads PROVE SoundList(list[t])'
    BY <2>1 DEF SoundList, BothNull, Once, Sorted, Offsets, InOrder, Size
  <2> QED
    BY <2>2 DEF Lists
<1>11. Fits' /\ Order'
  BY <1>0, <1>5, <1>7, FitsStep, OrderStep
<1>12. Books'
  <2>1. ASSUME NEW t \in Threads, NEW x \in Live(list[t])
        PROVE  x.event \in EventsOf(o) <=> t = s /\ x.receiver = o
    <3>1. ASSUME x.event \in EventsOf(o) PROVE t = s /\ x.receiver = o
      <4>1. PICK i \in 1..Size(l) : l.entries[i].receiver = o /\ l.entries[i].event = x.event
        BY <1>1, <3>1 DEF EventsOf
      <4>2. l.entries[i] \in Live(l)
        BY <1>2, <1>3, <4>1, ReceiverIsLive
      <4>3. PICK y \in Live(list[s]) : y.event = x.event /\ y.receiver = o
        BY <4>1, <4>2
      <4> QED
        BY <4>3, EventInOnePlace
    <3>2. ASSUME t = s, x.receiver = o PROVE x.event \in EventsOf(o)
      <4>1. \E i \in 1..Size(l) : l.entries[i] = x
        BY <1>3, <3>2, LiveEntry
      <4> QED
        BY <1>1, <3>2, <4>1 DEF EventsOf
    <3> QED
      BY <3>1, <3>2
  <2>2. ASSUME NEW t \in Threads, NEW x \in Live(list[t])
        PROVE  x \in Live(list'[t]) <=> x.event \in queued'
    <3>1. x.event \in queued
      BY InListIsQueued
    <3>2. x \in Live(list'[t]) <=> ~(t = s /\ x.receiver = o)
      BY <1>3, <1>4
    <3> HIDE DEF l
    <3> QED
      BY <1>1, <2>1, <3>1, <3>2
  <2>3. \A r \in Objects, t \in Threads : Moving(u, r, t) => Moving(u, r, t)'
    BY <1>1 DEF Moving
  <2> QED
    BY <1>0, <1>1, <1>5, <2>2, <2>3, BooksStep
<1>13. Wakes'
  <2>1. \A t \in Threads : ~AboutToWake(u, t)
    BY <1>1 DEF AboutToWake
  <2>2. ASSUME NEW t \in Threads PROVE MayWait(t)'
    <3>1. CASE t \in walking
      <4>1. \A i \in Entries(t)' : i \in Entries(t)
        <5>1. CASE t = s
          BY <1>6, <3>1, <5>1
        <5>2. CASE t # s
          BY <1>4, <5>2 DEF Entries, Size
        <5> QED
          BY <5>1, <5>2
      <4> QED
        BY <1>0, <1>1, <1>5, <2>1, <4>1, MayWaitStep
    <3>2. CASE t \notin walking
      BY <1>1, <3>2 DEF MayWait
    <3> QED
      BY <3>1, <3>2
  <2>3. ASSUME NEW t \in Threads, t # u PROVE Sleepless(t)'
    <3>1. ASSUME Entries(t)' # {} PROVE Entries(t) # {}
      <4>1. PICK i \in 1..Size(list'[t]) : list'[t].entries[i].event # NoEvent
        BY <3>1 DEF Entries, Size
      <4>2. SoundList(list'[t]) /\ SoundList(list[t])
        BY <1>0, <1>3, <1>4 DEF Lists
      <4>3. list'[t].entries[i] \in Live(list[t])
        BY <1>5, <4>1, <4>2, PlaceIsLive
      <4> QED
        BY <4>2, <4>3, NoEntries
    <3> QED
      BY <1>0, <1>1, <2>1, <2>3, <3>1, SleeplessStep
  <2> QED
    BY <1>7, <2>2, <2>3 DEF Wakes
<1> QED
  BY <1>8, <1>9, <1>10, <1>11, <1>12, <1>13 DEF IInv

(* postEvent(): the list is that of the receiver, and its thread is about  *)
(* to be woken.                                                            *)
LEMMA PostStep == ASSUME IInv, NEW u \in Threads, Post(u) PROVE IInv'
<1>0. /\ Typing /\ Lists /\ Numbered /\ Books
      /\ WalkFits(u) /\ CallFits(u) /\ LocksFit(u) /\ Undisturbed(u)
  BY StepUndisturbed DEF IInv, Fits, StepOf, InCall
<1>1. /\ at[u] = "lock" /\ call[u].kind = "post" /\ Seen(u) \in Threads /\ call[u].object \in Objects
      /\ call[u].priority \in Priorities /\ home[call[u].object] = Seen(u)
      /\ call[u] \in PostCalls
  <2>1. at[u] = "lock" /\ call[u].kind = "post" /\ home[call[u].object] = Seen(u)
    BY DEF Post, CanLock, StillThere
  <2> QED
    BY <1>0, <2>1, CallShape DEF CallFits, PostCalls, RemoveCalls
<1>2. PICK s \in Threads, o \in Objects, p \in Priorities, n \in Nat :
        s = Seen(u) /\ o = call[u].object /\ p = call[u].priority /\ n = posted
  BY <1>0, <1>1 DEF Typing
<1>3. PICK l : l = list[s]
  OBVIOUS
<1> DEFINE ev == [event |-> n + 1, receiver |-> o, type |-> "normal", priority |-> p, level |-> 0]
           m == AddEvent(l, ev)
<1>4. /\ UNCHANGED <<home, mutex, wakeUp, call, walking, moves>>
      /\ at' = [at EXCEPT ![u] = "wake"] /\ canWait' = [canWait EXCEPT ![s] = FALSE]
      /\ list' = [list EXCEPT ![s] = m] /\ posted' = n + 1 /\ queued' = queued \cup {n + 1}
      /\ home[o] = s
  BY <1>1, <1>2, <1>3 DEF Post, Goto
<1>5. /\ n + 1 \in 1..MaxEvents /\ ev.event = n + 1 /\ ev.receiver = o /\ ev.event # NoEvent
      /\ ev \in Entry /\ ev.receiver # NoReceiver
  <2>1. n + 1 \in 1..MaxEvents
    BY <1>1, <1>2, RoomForOne DEF IsPosting
  <2> QED
    BY <2>1, MoveAssumption DEF Entry
<1>6. \A t \in Threads : \A x \in Live(list[t]) : x.event \in Nat /\ x.event < n + 1 /\ x.event # n + 1
  <2>1. ASSUME NEW t \in Threads, NEW x \in Live(list[t])
        PROVE  x.event \in Nat /\ x.event < n + 1 /\ x.event # n + 1
    <3>1. x.event \in 1..n
      BY <1>2, InListIsQueued
    <3> QED
      BY <3>1
  <2> QED
    BY <2>1
<1> HIDE DEF ev
<1>7. /\ SoundList(m) /\ Live(m) = Live(l) \cup {ev}
      /\ m.startOffset = l.startOffset /\ m.insertionOffset = l.insertionOffset
  <2>1. SoundList(l)
    BY <1>0, <1>3 DEF Lists
  <2>2. \A x \in Live(l) : x.event # ev.event /\ Before(x, ev)
    BY <1>5, <1>6, <1>3 DEF Before
  <2> QED
    BY <1>5, <2>1, <2>2, AddEventFacts
<1> HIDE DEF m
<1>8. /\ list'[s] = m /\ list[s] = l /\ \A t \in Threads : t # s => list'[t] = list[t]
      /\ DOMAIN list' = Threads
  BY <1>0, <1>4, <1>3 DEF Typing
<1>9. at'[u] = "wake" /\ Seen(u)' = s
  BY <1>0, <1>2, <1>4 DEF Typing, Seen
<1>10. \A t \in Threads : /\ list'[t].startOffset = list[t].startOffset
                         /\ list'[t].insertionOffset = list[t].insertionOffset
  BY <1>7, <1>8
<1>11. CallFits(u)' /\ LocksFit(u)' /\ WalkFits(u)' /\ FirstFirst(u)' /\ Sleepless(u)'
  <2>1. CallFits(u)'
    BY <1>1, <1>2, <1>4, <1>9 DEF CallFits, Seen
  <2>2. LocksFit(u)' /\ FirstFirst(u)' /\ Sleepless(u)'
    BY <1>9 DEF LocksFit, FirstFirst, Sleepless
  <2>3. WalkFits(u)'
    BY <1>0, <1>4, <1>9, <1>10 DEF WalkFits
  <2> QED
    BY <2>1, <2>2, <2>3
<1>12. Typing'
  <2>1. queued' \subseteq 1..posted'
    BY <1>0, <1>2, <1>4 DEF Typing
  <2> QED
    BY <1>0, <1>4, <1>8, <2>1 DEF Typing, Labels
<1>13. Numbered'
  <2>1. IsPosting(u) /\ ~IsPosting(u)'
    BY <1>1, <1>9 DEF IsPosting
  <2>2. Posting' = Posting \ {u}
    BY <1>0, <2>1, PostingStep
  <2> QED
    BY <1>2, <1>4, <2>1, <2>2, RoomForOne DEF Numbered
<1>14. Lists'
  <2>1. ASSUME NEW t \in Threads PROVE SoundList(list'[t])
    <3>1. SoundList(list[t])
      BY <1>0 DEF Lists
    <3> QED
      BY <1>7, <1>8, <3>1
  <2>2. ASSUME NEW t \in Threads PROVE SoundList(list[t])'
    BY <2>1 DEF SoundList, BothNull, Once, Sorted, Offsets, InOrder, Size
  <2> QED
    BY <2>2 DEF Lists
<1>15. Fits' /\ Order'
  BY <1>0, <1>10, <1>11, FitsStep, OrderStep
<1>16. Books'
  <2>1. ASSUME NEW t \in Threads, NEW x
        PROVE  x \in Live(list'[t]) <=> x \in Live(list[t]) \/ (t = s /\ x = ev)
    BY <1>7, <1>8
  <2>2. ASSUME NEW e \in 1..MaxEvents
        PROVE  e \in queued' <=> \E t \in Threads : \E x \in Live(list'[t]) : x.event = e
    <3>1. e \in queued <=> \E t \in Threads : \E x \in Live(list[t]) : x.event = e
      BY <1>0 DEF Books
    <3>2. e = n + 1 <=> ev.event = e
      BY <1>5
    <3> QED
      BY <1>4, <2>1, <3>1, <3>2
  <2>3. ASSUME NEW a \in Threads, NEW b \in Threads, a # b,
               NEW x \in Live(list'[a]), NEW y \in Live(list'[b])
        PROVE  x.event # y.event
    <3>1. x \in Live(list[a]) /\ y \in Live(list[b]) => x.event # y.event
      BY <1>0, <2>3 DEF Books
    <3> QED
      BY <1>5, <1>6, <2>1, <2>3, <3>1
  <2>4. ASSUME NEW t \in Threads, NEW x \in Live(list'[t])
        PROVE  home'[x.receiver] = t \/ \E w \in Threads : Moving(w, x.receiver, t)'
    <3>1. CASE x \in Live(list[t])
      <4>1. x.receiver \in Objects
        BY <3>1, InListIsQueued
      <4>2. home[x.receiver] = t \/ \E w \in Threads : Moving(w, x.receiver, t)
        BY <1>0, <3>1 DEF Books
      <4>3. ASSUME NEW w \in Threads, Moving(w, x.receiver, t) PROVE Moving(w, x.receiver, t)'
        <5>1. w # u
          BY <1>1, <4>3 DEF Moving
        <5> QED
          BY <1>0, <4>1, <4>3, <5>1, MovingStep
      <4> QED
        BY <1>4, <4>2, <4>3
    <3>2. CASE t = s /\ x = ev
      BY <1>4, <1>5, <3>2
    <3> QED
      BY <2>1, <3>1, <3>2
  <2> QED
    BY <2>2, <2>3, <2>4 DEF Books
<1>17. Wakes'
  <2>1. \A t \in Threads : ~AboutToWake(u, t)
    BY <1>1 DEF AboutToWake
  <2>2. /\ ~canWait'[s] /\ AboutToWake(u, s)'
        /\ \A t \in Threads : t # s => canWait'[t] = canWait[t]
    BY <1>0, <1>4, <1>9 DEF Typing, AboutToWake
  <2>3. ASSUME NEW t \in Threads PROVE MayWait(t)'
    <3>1. CASE t = s
      BY <2>2, <3>1 DEF MayWait
    <3>2. CASE t # s
      <4>1. Entries(t)' = Entries(t)
        BY <1>8, <3>2 DEF Entries, Size
      <4> QED
        BY <1>0, <1>4, <1>10, <2>1, <2>2, <3>2, <4>1, MayWaitStep
    <3> QED
      BY <3>1, <3>2
  <2>4. ASSUME NEW t \in Threads, t # u PROVE Sleepless(t)'
    <3>1. CASE t = s
      BY <2>2, <3>1 DEF Sleepless
    <3>2. CASE t # s
      <4>1. Entries(t)' = Entries(t)
        BY <1>8, <3>2 DEF Entries, Size
      <4> QED
        BY <1>0, <1>4, <2>1, <2>2, <2>4, <3>2, <4>1, SleeplessStep
    <3> QED
      BY <3>1, <3>2
  <2> QED
    BY <1>11, <2>3, <2>4 DEF Wakes
<1> QED
  BY <1>12, <1>13, <1>14, <1>15, <1>16, <1>17 DEF IInv

(* An event moves: behind those moved before it, which were posted before. *)
LEMMA MoveEventStep == ASSUME IInv, NEW u \in Threads, MoveEvent(u) PROVE IInv'
<1>0. /\ Typing /\ Lists /\ Numbered /\ Books /\ FirstFirst(u)
      /\ WalkFits(u) /\ CallFits(u) /\ LocksFit(u) /\ Undisturbed(u)
  BY StepUndisturbed DEF IInv, Fits, Order, StepOf, InCall
<1>1. /\ at[u] = "move" /\ call[u].object \in Objects /\ call[u].target \in Threads
      /\ call[u].target # u /\ home[call[u].object] = u /\ call[u].kind = "move"
      /\ call[u] \in MoveCalls /\ ToMove(u) # {}
  BY <1>0, CallShape DEF MoveEvent, CallFits
<1>2. PICK g \in Threads, o \in Objects : g = call[u].target /\ o = call[u].object
  BY <1>1
<1>3. PICK k : k = list[u]
  OBVIOUS
<1>4. PICK h : h = list[g]
  OBVIOUS
<1>5. PICK q \in 1..Size(k) : /\ q = Min(ToMove(u)) /\ k.entries[q].receiver = o
                              /\ \A i \in 1..Size(k) : k.entries[i].receiver = o => q <= i
  <2> DEFINE I == ToMove(u)
  <2>1. I = {i \in 1..Size(k) : k.entries[i].receiver = o}
    BY <1>2, <1>3 DEF ToMove
  <2>2. I \in SUBSET Nat /\ I # {}
    BY <1>1, <2>1
  <2> HIDE DEF I
  <2>3. Min(I) \in I /\ \A i \in I : Min(I) <= i
    BY <2>2, MinOfPositions
  <2> QED
    BY <2>1, <2>3 DEF I
<1>6. PICK x : x = k.entries[q]
  OBVIOUS
<1>7. SoundList(k) /\ SoundList(h)
  BY <1>0, <1>3, <1>4 DEF Lists
<1>8. x \in Live(k) /\ x.receiver = o /\ x \in Entry /\ x.event # NoEvent /\ x.receiver # NoReceiver
  <2>1. x \in Live(k) /\ x.receiver = o /\ x.event # NoEvent
    BY <1>5, <1>6, <1>7, ReceiverIsLive
  <2> QED
    BY <1>7, <2>1, LiveEntry, MoveAssumption
<1> DEFINE mh == AddEvent(h, x)
           mk == NullAt(k, q)
<1>9. /\ UNCHANGED <<home, mutex, canWait, wakeUp, at, walking, posted, moves, queued>>
      /\ call' = [call EXCEPT ![u] = [call[u] EXCEPT !.moved = TRUE]]
      /\ list'[g] = mh /\ list'[u] = mk /\ \A t \in Threads : t # g /\ t # u => list'[t] = list[t]
      /\ DOMAIN list' = Threads
  <2>1. /\ UNCHANGED <<home, mutex, canWait, wakeUp, at, walking, posted, moves, queued>>
        /\ call' = [call EXCEPT ![u] = [call[u] EXCEPT !.moved = TRUE]]
    BY <1>0 DEF MoveEvent, Typing
  <2>2. list' = [list EXCEPT ![g] = mh, ![u] = mk]
    BY <1>1, <1>2, <1>3, <1>4, <1>5, <1>6 DEF MoveEvent
  <2> HIDE DEF mh, mk
  <2> QED
    BY <1>0, <1>1, <1>2, <2>1, <2>2 DEF Typing
<1>10. /\ SoundList(mh) /\ Live(mh) = Live(h) \cup {x}
       /\ mh.startOffset = h.startOffset /\ mh.insertionOffset = h.insertionOffset
  <2>1. ASSUME NEW y \in Live(h) PROVE y.event # x.event /\ Before(y, x)
    <3>1. y.event # x.event
      BY <1>0, <1>1, <1>2, <1>3, <1>4, <1>8 DEF Books
    <3>2. Before(y, x)
      <4>1. y.receiver = o => Before(y, x)
        BY <1>0, <1>1, <1>2, <1>3, <1>4, <1>8 DEF FirstFirst
      <4> QED
        BY <1>8, <4>1 DEF Before
    <3> QED
      BY <3>1, <3>2
  <2> QED
    BY <1>7, <1>8, <2>1, AddEventFacts
<1>11. /\ SoundList(mk) /\ Live(mk) = Live(k) \ {x}
       /\ mk.startOffset = k.startOffset /\ mk.insertionOffset = k.insertionOffset
       /\ Size(mk) = Size(k) /\ mk.entries[q].event = NoEvent
       /\ \A i \in 1..Size(k) : i # q => mk.entries[i] = k.entries[i]
  BY <1>6, <1>7, NullAtFacts
<1> HIDE DEF mh, mk
<1>12. /\ call'[u].moved = TRUE /\ call'[u].object = o /\ call'[u].target = g
       /\ call'[u] \in MoveCalls /\ DOMAIN call' = Threads
  <2>1. call'[u] = [call[u] EXCEPT !.moved = TRUE] /\ DOMAIN call' = Threads
    BY <1>0, <1>9 DEF Typing
  <2> QED
    BY <1>1, <1>2, <2>1 DEF MoveCalls
<1>13. \A t \in Threads : /\ list'[t].startOffset = list[t].startOffset
                          /\ list'[t].insertionOffset = list[t].insertionOffset
  BY <1>3, <1>4, <1>9, <1>10, <1>11
<1>14. FirstFirst(u)'
  <2>1. ASSUME NEW y \in Live(mh), NEW z \in Live(mk), y.receiver = o, z.receiver = o PROVE Before(y, z)
    <3>1. z \in Live(k) /\ z # x
      BY <1>11
    <3>2. CASE y \in Live(h)
      BY <1>0, <1>1, <1>2, <1>3, <1>4, <2>1, <3>1, <3>2 DEF FirstFirst
    <3>3. CASE y = x
      <4>1. PICK i \in 1..Size(k) : k.entries[i] = z
        BY <1>7, <3>1, LiveEntry
      <4>2. z.event # NoEvent
        BY <1>7, <3>1, LiveEntry
      <4>3. q < i
        <5>1. q <= i /\ q # i
          BY <1>5, <1>6, <2>1, <3>1, <4>1
        <5>2. q \in Int /\ i \in Int
          BY <1>5
        <5> QED
          BY <5>1, <5>2
      <4> QED
        BY <1>5, <1>6, <1>7, <1>8, <3>3, <4>1, <4>2, <4>3 DEF SoundList, InOrder
    <3> QED
      BY <1>10, <3>2, <3>3
  <2> QED
    BY <1>9, <1>12, <2>1 DEF FirstFirst, Live
<1>15. CallFits(u)' /\ LocksFit(u)' /\ WalkFits(u)' /\ Sleepless(u)'
  <2>1. CallFits(u)'
    BY <1>1, <1>2, <1>9, <1>12 DEF CallFits
  <2>2. LocksFit(u)'
    BY <1>0, <1>1, <1>2, <1>9, <1>12 DEF LocksFit
  <2>3. WalkFits(u)' /\ Sleepless(u)'
    BY <1>0, <1>1, <1>9, <1>13 DEF WalkFits, Sleepless
  <2> QED
    BY <2>1, <2>2, <2>3
<1>16. Typing'
  BY <1>0, <1>9, <1>12 DEF Typing
<1>17. Numbered'
  <2>1. ~IsPosting(u) /\ ~IsPosting(u)'
    BY <1>1, <1>9 DEF IsPosting
  <2> QED
    BY <1>0, <1>9, <2>1, NumberedStep
<1>18. Lists'
  <2>1. ASSUME NEW t \in Threads PROVE SoundList(list'[t])
    <3>1. SoundList(list[t])
      BY <1>0 DEF Lists
    <3> QED
      BY <1>9, <1>10, <1>11, <3>1
  <2>2. ASSUME NEW t \in Threads PROVE SoundList(list[t])'
    BY <2>1 DEF SoundList, BothNull, Once, Sorted, Offsets, InOrder, Size
  <2> QED
    BY <2>2 DEF Lists
<1>19. Fits' /\ Order'
  BY <1>0, <1>13, <1>14, <1>15, FitsStep, OrderStep
<1>20. Books'
  <2>1. ASSUME NEW t \in Threads, NEW y
        PROVE  y \in Live(list'[t]) <=> \/ y \in Live(list[t]) /\ ~(t = u /\ y = x)
                                        \/ t = g /\ y = x
    BY <1>1, <1>2, <1>3, <1>4, <1>9, <1>10, <1>11
  <2>2. x \in Live(list[u]) /\ g # u
    BY <1>1, <1>2, <1>3, <1>8
  <2>3. ASSUME NEW e \in 1..MaxEvents
        PROVE  e \in queued' <=> \E t \in Threads : \E y \in Live(list'[t]) : y.event = e
    <3>1. e \in queued <=> \E t \in Threads : \E y \in Live(list[t]) : y.event = e
      BY <1>0 DEF Books
    <3>2. (\E t \in Threads : \E y \in Live(list'[t]) : y.event = e)
            <=> \E t \in Threads : \E y \in Live(list[t]) : y.event = e
      BY <2>1, <2>2
    <3> QED
      BY <1>9, <3>1, <3>2
  <2>4. ASSUME NEW a \in Threads, NEW b \in Threads, a # b,
               NEW y \in Live(list'[a]), NEW z \in Live(list'[b]), y.event = z.event
        PROVE  FALSE
    <3>1. PICK c \in Threads : y \in Live(list[c]) /\ (c = a \/ (a = g /\ c = u /\ y = x))
      BY <2>1, <2>2
    <3>2. PICK d \in Threads : z \in Live(list[d]) /\ (d = b \/ (b = g /\ d = u /\ z = x))
      BY <2>1, <2>2
    <3>3. c = d /\ y = z
      BY <2>4, <3>1, <3>2, EventInOnePlace
    <3> QED
      BY <2>1, <2>2, <2>4, <3>1, <3>2, <3>3
  <2>5. ASSUME NEW t \in Threads, NEW y \in Live(list'[t])
        PROVE  home'[y.receiver] = t \/ \E w \in Threads : Moving(w, y.receiver, t)'
    <3>1. \A r \in Objects, a \in Threads : Moving(u, r, a) => Moving(u, r, a)'
      BY <1>2, <1>9, <1>12 DEF Moving
    <3>2. CASE y \in Live(list[t])
      <4>1. y.receiver \in Objects
        BY <3>2, InListIsQueued
      <4>2. home[y.receiver] = t \/ \E w \in Threads : Moving(w, y.receiver, t)
        BY <1>0, <3>2 DEF Books
      <4>3. ASSUME NEW w \in Threads, Moving(w, y.receiver, t) PROVE Moving(w, y.receiver, t)'
        BY <1>0, <3>1, <4>1, <4>3, MovingStep
      <4> QED
        BY <1>9, <4>2, <4>3
    <3>3. CASE t = g /\ y = x
      <4>1. Moving(u, o, g)
        BY <1>0, <1>1, <1>2 DEF Moving, LocksFit
      <4> QED
        BY <1>8, <3>1, <3>3, <4>1
    <3> QED
      BY <2>1, <3>2, <3>3
  <2> QED
    BY <2>3, <2>4, <2>5 DEF Books
<1>21. Wakes'
  <2>1. AboutToWake(u, g)' /\ at'[u] = "move"
    BY <1>1, <1>9, <1>12 DEF AboutToWake
  <2>2. \A t \in Threads : t # g => ~AboutToWake(u, t)
    BY <1>1, <1>2 DEF AboutToWake
  <2>3. ASSUME NEW t \in Threads, t # g
        PROVE  \A i \in Entries(t)' : i \in Entries(t)
    <3>1. CASE t = u
      BY <1>3, <1>9, <1>11, <3>1 DEF Entries, Size
    <3>2. CASE t # u
      BY <1>9, <2>3, <3>2 DEF Entries, Size
    <3> QED
      BY <3>1, <3>2
  <2>4. ASSUME NEW t \in Threads PROVE MayWait(t)'
    <3>1. CASE t = g
      BY <2>1, <3>1 DEF MayWait
    <3>2. CASE t # g
      BY <1>0, <1>9, <1>13, <2>2, <2>3, <3>2, MayWaitStep
    <3> QED
      BY <3>1, <3>2
  <2>5. ASSUME NEW t \in Threads, t # u PROVE Sleepless(t)'
    <3>1. CASE t = g
      BY <2>1, <3>1 DEF Sleepless
    <3>2. CASE t # g
      <4>1. Entries(t)' # {} => Entries(t) # {}
        BY <2>3, <3>2
      <4> QED
        BY <1>0, <1>9, <2>2, <2>5, <3>2, <4>1, SleeplessStep
    <3> QED
      BY <3>1, <3>2
  <2> QED
    BY <1>15, <2>4, <2>5 DEF Wakes
<1> QED
  BY <1>16, <1>17, <1>18, <1>19, <1>20, <1>21 DEF IInv

LEMMA StepIInv == IInv /\ [Next]_vars => IInv'
<1> SUFFICES ASSUME IInv, [Next]_vars PROVE IInv'
  OBVIOUS
<1>1. CASE Next
  <2>1. PICK u \in Threads : StepOf(u)
    BY <1>1, NextIsAStep
  <2>2. CASE Begins(u) \/ EndUserCode(u)
    BY <2>2, BeginsStep, EndUserCodeStep
  <2>3. CASE InCall(u)
    BY <2>3, LoadStep, PostStep, WakeDispatcherStep, RemovePostedStep, LockFirstStep,
       LockSecondStep, MoveEventStep, MoveStep DEF InCall
  <2>4. CASE Loops(u)
    BY <2>4, BeginWalkStep, DeliverStep, EndWalkStep, DispatcherStep DEF Loops
  <2> QED
    BY <2>1, <2>2, <2>3, <2>4 DEF StepOf
<1>2. CASE UNCHANGED vars
  <2>1. Typing' /\ Numbered'
    BY <1>2 DEF vars, IInv, Typing, Numbered, Posting
  <2>2. Lists'
    <3>1. Lists /\ list' = list
      BY <1>2 DEF vars, IInv
    <3> QED
      BY <3>1 DEF Lists, SoundList, BothNull, Once, Sorted, Offsets, InOrder, Size
  <2>3. Fits' /\ Order'
    <3>1. \A t \in Threads : (Lower(t))' = Lower(t)
      BY <1>2 DEF vars, Lower
    <3>2. ASSUME NEW t \in Threads PROVE CallFits(t)' /\ LocksFit(t)' /\ WalkFits(t)' /\ FirstFirst(t)'
      <4>1. CallFits(t) /\ LocksFit(t) /\ WalkFits(t) /\ FirstFirst(t)
        BY DEF IInv, Fits, Order
      <4>2. CallFits(t)' /\ WalkFits(t)' /\ FirstFirst(t)'
        BY <1>2, <4>1 DEF vars, CallFits, WalkFits, FirstFirst, Live
      <4>3. LocksFit(t)'
        BY <1>2, <3>1, <4>1 DEF vars, LocksFit
      <4> QED
        BY <4>2, <4>3
    <3> QED
      BY <3>2 DEF Fits, Order
  <2>4. Books'
    BY <1>2 DEF vars, IInv, Books, Live, Moving
  <2>5. Wakes'
    BY <1>2 DEF vars, IInv, Wakes, MayWait, Sleepless, Entries, Size, AboutToWake, Seen
  <2> QED
    BY <2>1, <2>2, <2>3, <2>4, <2>5 DEF IInv
<1> QED
  BY <1>1, <1>2

(* What the three properties rest on: what lists, calls and mutexes agree  *)
(* on, in every state.                                                     *)
THEOREM MoveInvariant == Spec => []IInv
<1>1. Init => IInv
  BY InitIInv
<1>2. IInv /\ [Next]_vars => IInv'
  BY StepIInv
<1> QED
  BY <1>1, <1>2, PTL DEF Spec

(* The types and bounds: the numbers of the events stay within MaxEvents,  *)
(* and no walk is past the end of its list.                                *)
THEOREM TypeCorrect == Spec => []TypeOK
<1>1. ASSUME IInv PROVE TypeOK
  <2>1. Typing /\ Lists /\ IsFiniteSet(Posting) /\ posted + Cardinality(Posting) <= MaxEvents
    BY <1>1 DEF IInv, Numbered
  <2>2. posted \in 0..MaxEvents
    BY <2>1, FS_CardinalityType, MoveAssumption DEF Typing
  <2>3. queued \subseteq 1..MaxEvents
    BY <2>1, <2>2, MoveAssumption DEF Typing
  <2>4. \A t \in Threads : list[t].startOffset \in 0..Size(list[t])
    <3>1. ASSUME NEW t \in Threads PROVE list[t].startOffset \in 0..Size(list[t])
      <4>1. list[t] \in List /\ list[t].startOffset <= Size(list[t])
        BY <2>1 DEF Lists, SoundList, Offsets
      <4> QED
        BY <4>1 DEF List, Size
    <3> QED
      BY <3>1
  <2> QED
    BY <2>1, <2>2, <2>3, <2>4 DEF Typing, Targets, TypeOK
<1>2. IInv => TypeOK
  BY <1>1
<1> QED
  BY <1>2, MoveInvariant, PTL

(* Events follow the object: setThreadData_helper() and                    *)
(* lockThreadPostEventList() leave none behind, lose none, double none and *)
(* put none before an earlier one.                                         *)
THEOREM EventsFollowHolds == Spec => []EventsFollow
<1>1. ASSUME IInv PROVE EventsFollow
  <2>1. \A t \in Threads : SoundList(list[t])
    BY <1>1 DEF IInv, Lists
  <2>2. ASSUME NEW t \in Threads, NEW i \in Entries(t)
        PROVE  /\ i \in 1..Size(list[t]) /\ list[t].entries[i].event # NoEvent
               /\ list[t].entries[i] \in Live(list[t])
    BY <2>1, <2>2, PlaceIsLive DEF Entries
  <2>3. ASSUME NEW t \in Threads, NEW i \in Entries(t)
        PROVE  \/ home[list[t].entries[i].receiver] = t
               \/ \E s \in Threads : Moving(s, list[t].entries[i].receiver, t)
    BY <1>1, <2>2 DEF IInv, Books
  <2>4. ASSUME NEW e \in queued
        PROVE  \E t \in Threads : \E i \in Entries(t) :
                 /\ list[t].entries[i].event = e
                 /\ \A s \in Threads : \A j \in Entries(s) :
                      list[s].entries[j].event = e => s = t /\ j = i
    <3>1. e \in 1..MaxEvents
      <4>1. posted + Cardinality(Posting) <= MaxEvents /\ Cardinality(Posting) \in Nat
            /\ posted \in Nat /\ e \in 1..posted
        BY <1>1, FS_CardinalityType DEF IInv, Numbered, Typing
      <4> QED
        BY <4>1, MoveAssumption
    <3>2. PICK t \in Threads : \E x \in Live(list[t]) : x.event = e
      BY <1>1, <3>1 DEF IInv, Books
    <3>3. PICK i \in 1..Size(list[t]) : list[t].entries[i].event = e /\ e # NoEvent
      BY <2>1, <3>2, LiveEntry
    <3>4. i \in Entries(t)
      BY <3>3 DEF Entries
    <3>5. ASSUME NEW s \in Threads, NEW j \in Entries(s), list[s].entries[j].event = e
          PROVE  s = t /\ j = i
      <4>1. PICK x \in Live(list[t]) : x = list[t].entries[i]
        BY <2>2, <3>4
      <4>2. PICK y \in Live(list[s]) : y = list[s].entries[j]
        BY <2>2, <3>5
      <4>3. s = t
        BY <1>1, <3>3, <3>5, <4>1, <4>2, EventInOnePlace
      <4> QED
        BY <2>1, <2>2, <3>3, <3>5, <4>3 DEF SoundList, Once
    <3> QED
      BY <3>3, <3>4, <3>5
  <2>5. ASSUME NEW t \in Threads, NEW i \in Entries(t), NEW j \in Entries(t), i < j,
               list[t].entries[i].receiver = list[t].entries[j].receiver,
               list[t].entries[i].priority = list[t].entries[j].priority
        PROVE  list[t].entries[i].event < list[t].entries[j].event
    BY <2>1, <2>2, <2>5 DEF SoundList, InOrder, Before
  <2> QED
    BY <2>3, <2>4, <2>5 DEF EventsFollow
<1>2. IInv => EventsFollow
  BY <1>1
<1> QED
  BY <1>2, MoveInvariant, PTL

(* No thread sleeps in poll() on events that moved in with an object, or   *)
(* that were posted to it on the way.                                      *)
THEOREM NoSleepOnMovedHolds == Spec => []NoSleepOnMoved
<1>1. IInv => NoSleepOnMoved
  BY DEF IInv, Wakes, Sleepless, NoSleepOnMoved
<1> QED
  BY <1>1, MoveInvariant, PTL
==============================================================================
