--------------------------- MODULE QEventLoopProofs ---------------------------
(***************************************************************************)
(* What the event list, the loops and the dispatcher of a thread guarantee *)
(* for any finite set of events, any receivers, threads and loops, however *)
(* deep the calls nest.                                                    *)
(***************************************************************************)
EXTENDS QEventLoop, FiniteSetTheorems, SequenceTheorems, WellFoundedInduction, TLAPS

Types == {"normal", "delete"}
Entry == [event: Events \cup {NoEvent}, receiver: Receivers \cup {NoReceiver},
          type: Types, priority: Priorities \cup {0}, level: Nat]
List == [entries: Seq(Entry), startOffset: Nat, insertionOffset: Nat]

LoopFrames == [frame: {"loop"}, loop: Loops]
RoundFrames == [frame: {"round"}, at: {"start", "send", "sent", "decide", "poll", "check"},
                waits: BOOLEAN]
WalkFrames == [frame: {"walk"}, receiver: Receivers \cup {NoReceiver},
               type: {"any", "delete"}, i: Nat]
HandlerFrames == [frame: {"handler"}, event: Events, receiver: Receivers, type: Types]
StackFrame == LoopFrames \cup RoundFrames \cup WalkFrames \cup HandlerFrames

Typing == /\ list \in List /\ stack \in Seq(StackFrame)
          /\ canWait \in BOOLEAN
          /\ postedEvents \in [Receivers -> Nat]
          /\ deleteLaterCalled \subseteq Receivers /\ alive \subseteq Receivers
          /\ exit \subseteq Loops
          /\ interrupt \in BOOLEAN /\ wakeUps \in BOOLEAN /\ pipe \in BOOLEAN
          /\ poster \in [Posters -> PosterStates]
          /\ fate \in [Events -> Fates]
          /\ postedIn \in [Events -> Events \cup {NoEvent}]

(* Who may have called whom; a round with something above it is inside of *)
(* sendPostedEvents().                                                     *)
MayCall(below, above) ==
    /\ above.frame = "loop" => below.frame = "handler"
    /\ above.frame = "round" => below.frame \in {"loop", "handler"}
    /\ above.frame = "walk" => below.frame \in {"round", "handler"}
    /\ above.frame = "handler" => below.frame = "walk"
    /\ below.frame = "round" => below.at = "sent"
    /\ below.frame = "handler" => below.type = "normal"
Nested(s) == /\ s # <<>> => s[1].frame # "handler"
             /\ \A i \in 2..Len(s) : MayCall(s[i - 1], s[i])
SoundStack(s) == s \in Seq(StackFrame) /\ Nested(s)

-----------------------------------------------------------------------------
(* The entries that are not null.                                          *)
Live(l) == {x \in ToSet(l.entries) : x.event # NoEvent}

BothNull(l) == \A i \in 1..Size(l) :
                 l.entries[i].event = NoEvent <=> l.entries[i].receiver = NoReceiver
Once(l) == \A i, j \in 1..Size(l) :
             l.entries[i].event = l.entries[j].event /\ l.entries[i].event # NoEvent => i = j
Sorted(l) == \A i, j \in l.insertionOffset + 1 .. Size(l) :
               i < j => l.entries[i].priority >= l.entries[j].priority
Offsets(l) == /\ l.startOffset <= Size(l)
              /\ l.startOffset > 0 => l.startOffset <= l.insertionOffset
              /\ \A i \in 1..l.startOffset : l.entries[i].event = NoEvent
SoundList(l) == l \in List /\ BothNull(l) /\ Once(l) /\ Sorted(l) /\ Offsets(l)

For(r, l) == {x \in Live(l) : x.receiver = r}

(* The counts and the history agree with the list.                         *)
Books ==
    /\ \A r \in Receivers : IsFiniteSet(For(r, list)) /\ postedEvents[r] = Cardinality(For(r, list))
    /\ \A e \in Events : fate[e] = "posted" <=> \E x \in Live(list) : x.event = e
    /\ \A r \in Receivers \ alive : For(r, list) = {}

(* A handler runs for an event that has left the list.                     *)
HandledGone == \A i \in DOMAIN stack : stack[i].frame = "handler" => fate[stack[i].event] = "gone"

(* startOffset is the progress of a walk over everything.                  *)
IsWalkOfAll(f) == f.frame = "walk" /\ f.receiver = NoReceiver /\ f.type = "any"
StartIsWalked == list.startOffset > 0 => \E i \in DOMAIN stack : IsWalkOfAll(stack[i])

LInv == Typing /\ Nested(stack) /\ SoundList(list) /\ Books /\ HandledGone /\ StartIsWalked

-----------------------------------------------------------------------------
(* wakeUps stays 1 from the write to the pipe until it has been read.      *)
PipeInv ==
    /\ PipeMatchesWakeUps
    /\ wakeUps => pipe \/ RoundAt("check") \/ \E t \in Posters : poster[t] = "write"
    /\ RoundAt("check") => ~pipe /\ \A t \in Posters : poster[t] # "write"

Deliverable(p) == p \in 1..Size(list) /\ list.entries[p].event # NoEvent
                                      /\ list.entries[p].type = "normal"

(* The innermost walk is yet to come to the entry p.                       *)
PositionOf(f) == IF IsWalkOfAll(f) THEN list.startOffset ELSE f.i
WillReach(i, p) == /\ i \in DOMAIN stack /\ stack[i].frame = "walk"
                   /\ \A j \in DOMAIN stack : j > i => stack[j].frame # "walk"
                   /\ PositionOf(stack[i]) < p /\ p <= list.insertionOffset

(* What canWait promises while a walk is going on, when it has ended, and  *)
(* after a round has read it.                                              *)
MayWait == canWait => \A p \in 1..Size(list) : Deliverable(p) => \E i \in DOMAIN stack : WillReach(i, p)
Left == \E x \in Live(list) : x.type = "normal"
SentAll == RoundAt("sent") /\ canWait => ~Left
SleepInv == (RoundAt("decide") \/ RoundAt("poll")) /\ Top.waits /\ Left
              => pipe \/ \E t \in Posters : poster[t] \in {"wake", "write"}

(* The level at the place h of the stack.                                  *)
LevelAt(h) == Cardinality({i \in 1..h : stack[i].frame \in {"loop", "handler"}})
LevelsFit ==
    \A x \in Live(list), h \in Frames("handler") :
      x.type = "delete" /\ stack[h].event = postedIn[x.event] => x.level = LevelAt(h)
-----------------------------------------------------------------------------
(* Keeping some entries: Only() counts through the places that are kept.   *)
LEMMA PlacesInOrder ==
  ASSUME NEW n \in Nat, NEW S \in SUBSET (1..n)
  PROVE  /\ IsFiniteSet(S) /\ Cardinality(S) \in Nat /\ Cardinality(S) <= n
         /\ \A k \in 1..Cardinality(S) : Nth(S, k) \in S /\ k <= Nth(S, k)
         /\ \A k, m \in 1..Cardinality(S) : k < m => Nth(S, k) < Nth(S, m)
         /\ \A i \in S : \E k \in 1..Cardinality(S) : Nth(S, k) = i
<1> DEFINE upTo(i) == {j \in S : j <= i}
           rank == [i \in S |-> Cardinality(upTo(i))]
<1>1. IsFiniteSet(1..n) /\ Cardinality(1..n) = n /\ \A i \in S : i \in Nat /\ i >= 1
  <2>1. \A i \in S : i \in 1..n
    OBVIOUS
  <2>2. IsFiniteSet(1..n) /\ Cardinality(1..n) = n
    BY FS_Interval
  <2> QED
    BY <2>1, <2>2
<1>2. IsFiniteSet(S) /\ Cardinality(S) \in Nat /\ Cardinality(S) <= n
  BY <1>1, FS_Subset, FS_CardinalityType
<1>3. ASSUME NEW i \in S
      PROVE  /\ IsFiniteSet(upTo(i)) /\ Cardinality(upTo(i)) \in Nat
             /\ Cardinality(upTo(i)) <= Cardinality(S) /\ Cardinality(upTo(i)) <= i
             /\ Cardinality(upTo(i)) >= 1
  <2>1. upTo(i) \in SUBSET S /\ upTo(i) \in SUBSET (1..i) /\ i \in upTo(i) /\ i \in Nat
    <3>1. i \in Nat /\ \A j \in S : j <= i => j \in 1..i
      BY <1>1
    <3>2. i <= i
      BY <3>1
    <3> QED
      BY <3>1, <3>2
  <2>2. IsFiniteSet(1..i) /\ Cardinality(1..i) = i
    BY <2>1, FS_Interval
  <2>3. IsFiniteSet(upTo(i)) /\ Cardinality(upTo(i)) <= Cardinality(S) /\ Cardinality(upTo(i)) <= i
    BY <1>2, <2>1, <2>2, FS_Subset
  <2>4. Cardinality(upTo(i)) \in Nat
    BY <2>3, FS_CardinalityType
  <2>5. Cardinality(upTo(i)) # 0
    BY <2>1, <2>3, FS_EmptySet
  <2> HIDE DEF upTo
  <2> QED
    BY <2>3, <2>4, <2>5
<1>4. ASSUME NEW i \in S, NEW j \in S, i < j
      PROVE  Cardinality(upTo(i)) < Cardinality(upTo(j))
  <2>1. upTo(i) \in SUBSET upTo(j) /\ upTo(i) # upTo(j)
    <3>1. \A x \in S : x <= i => x <= j
      BY <1>1, <1>4
    <3>2. ~(j <= i) /\ j <= j
      BY <1>1, <1>4
    <3> QED
      BY <3>1, <3>2
  <2>2. Cardinality(upTo(i)) <= Cardinality(upTo(j)) /\ Cardinality(upTo(i)) # Cardinality(upTo(j))
    BY <1>3, <2>1, FS_Subset
  <2> HIDE DEF upTo
  <2> QED
    BY <1>3, <2>2
<1>5. rank \in [S -> 1..Cardinality(S)]
  <2> HIDE DEF upTo
  <2> QED
    BY <1>2, <1>3
<1>6. rank \in Injection(S, 1..Cardinality(S))
  <2>1. \A i, j \in S : rank[i] = rank[j] => i = j
    <3>1. ASSUME NEW i \in S, NEW j \in S, rank[i] = rank[j] PROVE i = j
      <4> HIDE DEF upTo
      <4>1. ~(i < j) /\ ~(j < i)
        BY <1>3, <1>4, <3>1
      <4> QED
        BY <1>1, <4>1
    <3> QED
      BY <3>1
  <2> HIDE DEF rank
  <2> QED
    BY <1>5, <2>1 DEF Injection, IsInjective
<1>7. rank \in Surjection(S, 1..Cardinality(S))
  <2>1. IsFiniteSet(1..Cardinality(S)) /\ Cardinality(1..Cardinality(S)) = Cardinality(S)
    BY <1>2, FS_Interval
  <2> HIDE DEF rank
  <2> QED
    BY <1>6, <2>1, FS_Injection
<1>8. ASSUME NEW k \in 1..Cardinality(S)
      PROVE  Nth(S, k) \in S /\ rank[Nth(S, k)] = k
  <2>1. \E i \in S : rank[i] = k
    <3> HIDE DEF rank
    <3> QED
      BY <1>7 DEF Surjection
  <2>2. \E i \in S : Cardinality({j \in S : j <= i}) = k
    BY <2>1
  <2>3. Nth(S, k) \in S /\ Cardinality({j \in S : j <= Nth(S, k)}) = k
    BY <2>2 DEF Nth
  <2> QED
    BY <2>3
<1>9. ASSUME NEW k \in 1..Cardinality(S) PROVE k <= Nth(S, k)
  <2> HIDE DEF upTo
  <2> QED
    BY <1>3, <1>8
<1>10. ASSUME NEW k \in 1..Cardinality(S), NEW m \in 1..Cardinality(S), k < m
       PROVE  Nth(S, k) < Nth(S, m)
  <2>1. /\ Nth(S, k) \in S /\ Nth(S, m) \in S /\ Nth(S, k) \in Nat /\ Nth(S, m) \in Nat
        /\ Cardinality(upTo(Nth(S, k))) = k /\ Cardinality(upTo(Nth(S, m))) = m
    BY <1>1, <1>8
  <2> HIDE DEF upTo
  <2>2. ~(Nth(S, m) < Nth(S, k))
    <3>1. Nth(S, m) < Nth(S, k) => m < k
      BY <1>4, <2>1
    <3> QED
      BY <1>2, <1>10, <3>1
  <2>3. Nth(S, m) # Nth(S, k)
    BY <1>2, <1>10, <2>1
  <2> QED
    BY <2>1, <2>2, <2>3
<1>11. ASSUME NEW i \in S PROVE \E k \in 1..Cardinality(S) : Nth(S, k) = i
  <2>1. rank[i] \in 1..Cardinality(S)
    BY <1>5
  <2>2. Nth(S, rank[i]) \in S /\ rank[Nth(S, rank[i])] = rank[i]
    BY <1>8, <2>1
  <2> HIDE DEF rank
  <2>3. Nth(S, rank[i]) = i
    BY <1>6, <2>2 DEF Injection, IsInjective
  <2> QED
    BY <2>1, <2>3
<1> QED
  BY <1>2, <1>8, <1>9, <1>10, <1>11

LEMMA MinOfPositions ==
  ASSUME NEW I \in SUBSET Nat, I # {}
  PROVE  Min(I) \in I /\ \A k \in I : Min(I) <= k
<1>1. PICK x \in I : \A y \in I : <<y, x>> \notin OpToRel(<, Nat)
  BY NatLessThanWellFounded, WFMin
<1>2. \A y \in I : x <= y
  <2>1. ASSUME NEW y \in I, y < x PROVE FALSE
    <3>1. <<y, x>> \in Nat \X Nat /\ <<y, x>>[1] < <<y, x>>[2]
      BY <2>1
    <3>2. <<y, x>> \in {ss \in Nat \X Nat : ss[1] < ss[2]}
      BY <3>1
    <3>3. <<y, x>> \in OpToRel(<, Nat)
      BY <3>2, Zenon DEF OpToRel
    <3> QED
      BY <1>1, <3>3
  <2> QED
    BY <2>1
<1> QED
  BY <1>2 DEF Min

LEMMA InsertAtForm ==
  ASSUME NEW S, NEW s \in Seq(S), NEW e \in S, NEW k \in 1..(Len(s) + 1)
  PROVE  /\ InsertAt(s, k, e) \in Seq(S) /\ Len(InsertAt(s, k, e)) = Len(s) + 1
         /\ \A i \in 1..(Len(s) + 1) :
              InsertAt(s, k, e)[i] = IF i < k THEN s[i] ELSE IF i = k THEN e ELSE s[i - 1]
<1> DEFINE a == SubSeq(s, 1, k - 1)
           b == SubSeq(s, k, Len(s))
           c == a \o <<e>>
<1>1. Len(s) \in Nat /\ k \in Int /\ k - 1 \in Int /\ \A i \in 1..Len(s) : s[i] \in S
  OBVIOUS
<1>2. a \in Seq(S) /\ Len(a) = k - 1 /\ \A i \in 1..(k - 1) : a[i] = s[i]
  <2>1. \A i \in 1..(k - 1) : s[i] \in S
    BY <1>1
  <2>2. /\ a \in Seq(S) /\ Len(a) = (IF 1 <= k - 1 THEN (k - 1) - 1 + 1 ELSE 0)
        /\ \A i \in 1..((k - 1) - 1 + 1) : a[i] = s[1 + i - 1]
    BY <1>1, <2>1, SubSeqProperties
  <2>3. (IF 1 <= k - 1 THEN (k - 1) - 1 + 1 ELSE 0) = k - 1 /\ (k - 1) - 1 + 1 = k - 1
        /\ \A i \in 1..(k - 1) : 1 + i - 1 = i
    BY <1>1
  <2> HIDE DEF a
  <2>4. \A i \in 1..(k - 1) : a[i] = s[1 + i - 1]
    BY <2>2, <2>3
  <2> QED
    BY <2>2, <2>3, <2>4
<1>3. b \in Seq(S) /\ Len(b) = Len(s) - k + 1 /\ \A i \in 1..(Len(s) - k + 1) : b[i] = s[k + i - 1]
  <2>1. \A i \in k..Len(s) : s[i] \in S
    BY <1>1
  <2>2. /\ b \in Seq(S) /\ Len(b) = (IF k <= Len(s) THEN Len(s) - k + 1 ELSE 0)
        /\ \A i \in 1..(Len(s) - k + 1) : b[i] = s[k + i - 1]
    BY <1>1, <2>1, SubSeqProperties
  <2>3. (IF k <= Len(s) THEN Len(s) - k + 1 ELSE 0) = Len(s) - k + 1
    BY <1>1
  <2> HIDE DEF b
  <2> QED
    BY <2>2, <2>3
<1>4. InsertAt(s, k, e) = c \o b
  BY DEF InsertAt
<1> HIDE DEF a, b
<1>5. c \in Seq(S) /\ Len(c) = k /\ c[k] = e /\ \A i \in 1..(k - 1) : c[i] = s[i]
  <2>1. <<e>> \in Seq(S) /\ Len(<<e>>) = 1 /\ <<e>>[1] = e
    OBVIOUS
  <2>2. /\ c \in Seq(S) /\ Len(c) = Len(a) + 1
        /\ \A i \in 1..(Len(a) + 1) : c[i] = IF i <= Len(a) THEN a[i] ELSE <<e>>[i - Len(a)]
    BY <1>2, <2>1, ConcatProperties
  <2> HIDE DEF c
  <2>3. c[k] = <<e>>[k - (k - 1)] /\ k - (k - 1) = 1
    <3>1. k \in 1..(Len(a) + 1) /\ ~(k <= Len(a)) /\ Len(a) = k - 1 /\ k - (k - 1) = 1
      BY <1>1, <1>2
    <3> QED
      BY <2>2, <3>1
  <2>4. \A i \in 1..(k - 1) : c[i] = a[i]
    BY <1>1, <1>2, <2>2
  <2> QED
    BY <1>1, <1>2, <2>1, <2>2, <2>3, <2>4
<1> HIDE DEF c
<1>6. /\ c \o b \in Seq(S) /\ Len(c \o b) = Len(s) + 1
      /\ \A i \in 1..(Len(s) + 1) : (c \o b)[i] = IF i <= k THEN c[i] ELSE b[i - k]
  <2>1. /\ c \o b \in Seq(S) /\ Len(c \o b) = Len(c) + Len(b)
        /\ \A i \in 1..(Len(c) + Len(b)) : (c \o b)[i] = IF i <= Len(c) THEN c[i] ELSE b[i - Len(c)]
    BY <1>3, <1>5, ConcatProperties
  <2>2. Len(c) + Len(b) = Len(s) + 1
    BY <1>1, <1>3, <1>5
  <2> QED
    BY <1>5, <2>1, <2>2
<1>7. ASSUME NEW i \in 1..(Len(s) + 1)
      PROVE  (c \o b)[i] = IF i < k THEN s[i] ELSE IF i = k THEN e ELSE s[i - 1]
  <2>1. CASE i <= k
    BY <1>1, <1>5, <1>6, <2>1
  <2>2. CASE i > k
    <3>1. i - k \in 1..(Len(s) - k + 1) /\ k + (i - k) - 1 = i - 1 /\ ~(i <= k) /\ ~(i < k) /\ i # k
      BY <1>1, <2>2
    <3>2. (c \o b)[i] = b[i - k]
      BY <1>6, <3>1
    <3>3. b[i - k] = s[k + (i - k) - 1]
      BY <1>3, <3>1
    <3> QED
      BY <3>1, <3>2, <3>3
  <2>3. i <= k \/ i > k
    BY <1>1
  <2> QED
    BY <2>1, <2>2, <2>3
<1> QED
  BY <1>4, <1>6, <1>7

-----------------------------------------------------------------------------
(* What the operations on a list do to its entries.                        *)
LEMMA PrioritiesAreNumbers == \A x \in Entry : x.priority \in Int
<1>1. \A x \in Entry : x.priority \in Priorities \cup {0}
  BY DEF Entry
<1>2. Priorities \subseteq Int
  BY EventLoopAssumption
<1>3. \A p \in Priorities \cup {0} : p \in Int
  BY <1>2
<1> QED
  BY <1>1, <1>3

LEMMA ListShape ==
  ASSUME NEW l \in List
  PROVE  /\ l = [entries |-> l.entries, startOffset |-> l.startOffset,
                 insertionOffset |-> l.insertionOffset]
         /\ l.entries \in Seq(Entry) /\ DOMAIN l.entries = 1..Size(l) /\ Size(l) \in Nat
         /\ l.startOffset \in Nat /\ l.insertionOffset \in Nat
         /\ \A i \in 1..Size(l) : l.entries[i] \in Entry /\ l.entries[i].priority \in Int
<1>1. l.entries \in Seq(Entry) /\ l.startOffset \in Nat /\ l.insertionOffset \in Nat
  BY DEF List
<1>2. l = [entries |-> l.entries, startOffset |-> l.startOffset, insertionOffset |-> l.insertionOffset]
  BY DEF List
<1>3. DOMAIN l.entries = 1..Size(l) /\ Size(l) \in Nat /\ \A i \in 1..Size(l) : l.entries[i] \in Entry
  BY <1>1, LenProperties DEF Size
<1>4. \A x \in Entry : x.priority \in Int
  BY PrioritiesAreNumbers
<1> QED
  BY <1>1, <1>2, <1>3, <1>4

LEMMA LivePlaces ==
  ASSUME NEW l \in List
  PROVE  \A x : x \in Live(l) <=> x.event # NoEvent /\ \E i \in 1..Size(l) : l.entries[i] = x
<1>1. DOMAIN l.entries = 1..Size(l)
  BY ListShape
<1>2. ToSet(l.entries) = {l.entries[i] : i \in 1..Size(l)}
  BY <1>1 DEF ToSet
<1> QED
  BY <1>2 DEF Live

LEMMA AddEventForm ==
  ASSUME NEW l \in List, NEW ev \in Entry
  PROVE  \E at \in 1..(Size(l) + 1) :
           /\ l.insertionOffset < at \/ at = Size(l) + 1
           /\ AddEvent(l, ev) = [l EXCEPT !.entries = InsertAt(l.entries, at, ev)]
           /\ \A i \in l.insertionOffset + 1 .. Size(l) :
                i < at => l.entries[i].priority >= ev.priority
           /\ at \in l.insertionOffset + 1 .. Size(l) => l.entries[at].priority < ev.priority
<1> DEFINE later == {i \in l.insertionOffset + 1 .. Size(l) : l.entries[i].priority < ev.priority}
           at == Min(later \cup {Size(l) + 1})
<1>1. Size(l) \in Nat /\ l.insertionOffset \in Nat
      /\ (\A i \in 1..Size(l) : l.entries[i].priority \in Int) /\ ev.priority \in Int
  BY ListShape, PrioritiesAreNumbers
<1>2. later \cup {Size(l) + 1} \in SUBSET Nat /\ later \cup {Size(l) + 1} # {}
  BY <1>1
<1>3. at \in later \cup {Size(l) + 1} /\ \A k \in later \cup {Size(l) + 1} : at <= k
  BY <1>2, MinOfPositions
<1>4. AddEvent(l, ev) = [l EXCEPT !.entries = InsertAt(l.entries, at, ev)]
  BY DEF AddEvent
<1> HIDE DEF at
<1>5. at \in 1..(Size(l) + 1) /\ (l.insertionOffset < at \/ at = Size(l) + 1)
  BY <1>1, <1>3
<1>6. \A i \in l.insertionOffset + 1 .. Size(l) : i < at => l.entries[i].priority >= ev.priority
  <2>1. ASSUME NEW i \in l.insertionOffset + 1 .. Size(l), i < at
        PROVE  l.entries[i].priority >= ev.priority
    <3>1. i \in 1..Size(l) /\ i \notin later
      BY <1>1, <1>3, <1>5, <2>1
    <3>2. ~(l.entries[i].priority < ev.priority) /\ l.entries[i].priority \in Int
      BY <1>1, <3>1
    <3> QED
      BY <1>1, <3>2
  <2> QED
    BY <2>1
<1>7. at \in l.insertionOffset + 1 .. Size(l) => l.entries[at].priority < ev.priority
  BY <1>1, <1>3
<1> QED
  BY <1>4, <1>5, <1>6, <1>7

(* addEvent(): the list gets one entry, and stays as it was before it.     *)
LEMMA AddEventFacts ==
  ASSUME NEW l, SoundList(l), NEW ev \in Entry, ev.event # NoEvent, ev.receiver # NoReceiver,
         \A x \in Live(l) : x.event # ev.event
  PROVE  LET m == AddEvent(l, ev) IN
         /\ SoundList(m) /\ Live(m) = Live(l) \cup {ev}
         /\ m.startOffset = l.startOffset /\ m.insertionOffset = l.insertionOffset
         /\ Size(m) = Size(l) + 1
         /\ \A i \in 1..Size(m) :
              \/ m.entries[i] = ev /\ (i > l.insertionOffset \/ i = Size(m))
              \/ i \in 1..Size(l) /\ m.entries[i] = l.entries[i]
              \/ i > l.insertionOffset
         /\ m # l
<1> DEFINE m == AddEvent(l, ev)
<1>1. l \in List /\ BothNull(l) /\ Once(l) /\ Sorted(l) /\ Offsets(l)
  BY DEF SoundList
<1>2. /\ l.entries \in Seq(Entry) /\ Size(l) \in Nat /\ Len(l.entries) = Size(l)
      /\ l.startOffset \in Nat /\ l.insertionOffset \in Nat
      /\ \A i \in 1..Size(l) : l.entries[i] \in Entry /\ l.entries[i].priority \in Int
  BY <1>1, ListShape DEF Size
<1>3. ev.priority \in Int
  BY PrioritiesAreNumbers
<1>4. PICK at \in 1..(Size(l) + 1) :
        /\ l.insertionOffset < at \/ at = Size(l) + 1
        /\ m = [l EXCEPT !.entries = InsertAt(l.entries, at, ev)]
        /\ \A i \in l.insertionOffset + 1 .. Size(l) :
             i < at => l.entries[i].priority >= ev.priority
        /\ at \in l.insertionOffset + 1 .. Size(l) => l.entries[at].priority < ev.priority
  BY <1>1, AddEventForm
<1> DEFINE t == InsertAt(l.entries, at, ev)
<1>5. /\ t \in Seq(Entry) /\ Len(t) = Size(l) + 1
      /\ \A i \in 1..(Size(l) + 1) :
           t[i] = IF i < at THEN l.entries[i] ELSE IF i = at THEN ev ELSE l.entries[i - 1]
  <2>1. at \in 1..(Len(l.entries) + 1)
    BY <1>2
  <2>2. l.entries \in Seq(Entry)
    BY <1>2
  <2> DEFINE s == l.entries
  <2>3. t = InsertAt(s, at, ev) /\ Len(s) = Size(l)
    BY <1>2
  <2> HIDE DEF s, t
  <2>4. s \in Seq(Entry) /\ at \in 1..(Len(s) + 1)
    BY <2>1, <2>2 DEF s
  <2>5. /\ InsertAt(s, at, ev) \in Seq(Entry) /\ Len(InsertAt(s, at, ev)) = Len(s) + 1
        /\ \A i \in 1..(Len(s) + 1) :
             InsertAt(s, at, ev)[i] = IF i < at THEN s[i] ELSE IF i = at THEN ev ELSE s[i - 1]
    BY <2>4, InsertAtForm
  <2>6. /\ t \in Seq(Entry) /\ Len(t) = Size(l) + 1
        /\ \A i \in 1..(Size(l) + 1) :
             t[i] = IF i < at THEN s[i] ELSE IF i = at THEN ev ELSE s[i - 1]
    BY <2>3, <2>5
  <2> QED
    BY <2>6 DEF s
<1>6. /\ m.entries = t /\ m.startOffset = l.startOffset /\ m.insertionOffset = l.insertionOffset
      /\ m \in List
  BY <1>1, <1>4, <1>5 DEF List
<1> HIDE DEF m, t
<1>7. Size(m) = Size(l) + 1
  BY <1>5, <1>6 DEF Size
<1>8. /\ m.entries[at] = ev
      /\ \A i \in 1..(at - 1) : i \in 1..Size(l) /\ m.entries[i] = l.entries[i]
      /\ \A i \in (at + 1)..Size(m) : i - 1 \in at..Size(l) /\ m.entries[i] = l.entries[i - 1]
  <2>1. \A i \in 1..(at - 1) : i \in 1..Size(l) /\ i \in 1..(Size(l) + 1) /\ i < at
    BY <1>2
  <2>2. \A i \in (at + 1)..Size(m) : /\ i - 1 \in at..Size(l) /\ i \in 1..(Size(l) + 1)
                                      /\ ~(i < at) /\ i # at
    BY <1>2, <1>7
  <2>3. ~(at < at)
    BY <1>2
  <2> QED
    BY <1>5, <1>6, <2>1, <2>2, <2>3
<1>9. Live(m) = Live(l) \cup {ev}
  <2>1. ASSUME NEW x \in Live(m) PROVE x \in Live(l) \cup {ev}
    <3>1. PICK i \in 1..Size(m) : m.entries[i] = x /\ x.event # NoEvent
      BY <1>6, LivePlaces
    <3>2. i = at \/ i \in 1..(at - 1) \/ i \in (at + 1)..Size(m)
      BY <1>2, <1>7, <3>1
    <3>3. x = ev \/ \E j \in 1..Size(l) : l.entries[j] = x
      BY <1>2, <1>8, <3>1, <3>2
    <3> QED
      BY <1>1, <3>1, <3>3, LivePlaces
  <2>2. ASSUME NEW x \in Live(l) PROVE x \in Live(m)
    <3>1. PICK i \in 1..Size(l) : l.entries[i] = x /\ x.event # NoEvent
      BY <1>1, LivePlaces
    <3>2. i \in 1..(at - 1) \/ i + 1 \in (at + 1)..Size(m)
      BY <1>2, <1>7, <3>1
    <3>3. \E j \in 1..Size(m) : m.entries[j] = x
      <4>1. (i + 1) - 1 = i /\ i \in 1..Size(m) /\ i + 1 \in 1..Size(m)
        BY <1>2, <1>7
      <4>2. CASE i \in 1..(at - 1)
        BY <1>8, <3>1, <4>1, <4>2
      <4>3. CASE i + 1 \in (at + 1)..Size(m)
        BY <1>8, <3>1, <4>1, <4>3
      <4> QED
        BY <3>2, <4>2, <4>3
    <3> QED
      BY <1>6, <3>1, <3>3, LivePlaces
  <2>3. ev \in Live(m)
    <3>1. at \in 1..Size(m)
      BY <1>7
    <3> QED
      BY <1>6, <1>8, <3>1, LivePlaces
  <2> QED
    BY <2>1, <2>2, <2>3
<1>10. BothNull(m)
  <2>1. ASSUME NEW i \in 1..Size(m)
        PROVE  m.entries[i].event = NoEvent <=> m.entries[i].receiver = NoReceiver
    <3>1. i = at \/ i \in 1..(at - 1) \/ i \in (at + 1)..Size(m)
      BY <1>2, <1>7
    <3>2. i \in (at + 1)..Size(m) => i - 1 \in 1..Size(l)
      BY <1>2, <1>8
    <3> QED
      BY <1>1, <1>8, <3>1, <3>2 DEF BothNull
  <2> QED
    BY <2>1 DEF BothNull
<1>11. Once(m)
  <2> DEFINE from(i) == IF i < at THEN i ELSE i - 1
  <2>1. ASSUME NEW i \in 1..Size(m), i # at
        PROVE  from(i) \in 1..Size(l) /\ m.entries[i] = l.entries[from(i)]
    <3>1. i \in 1..(at - 1) \/ i \in (at + 1)..Size(m)
      BY <1>2, <1>7, <2>1
    <3> QED
      BY <1>2, <1>7, <1>8, <2>1, <3>1
  <2>2. \A i, j \in 1..Size(m) : i # at /\ j # at /\ from(i) = from(j) => i = j
    BY <1>2, <1>7
  <2> HIDE DEF from
  <2>3. ASSUME NEW i \in 1..Size(m), i # at, m.entries[i].event = ev.event PROVE FALSE
    <3>1. l.entries[from(i)] \in Live(l)
      BY <1>1, <2>1, <2>3, LivePlaces
    <3> QED
      BY <2>1, <2>3, <3>1
  <2>4. ASSUME NEW i \in 1..Size(m), NEW j \in 1..Size(m),
               m.entries[i].event = m.entries[j].event, m.entries[i].event # NoEvent
        PROVE  i = j
    <3>1. CASE i = at \/ j = at
      BY <1>8, <2>3, <2>4, <3>1
    <3>2. CASE i # at /\ j # at
      <4>1. from(i) = from(j)
        BY <1>1, <2>1, <2>4, <3>2 DEF Once
      <4> QED
        BY <2>2, <3>2, <4>1
    <3> QED
      BY <3>1, <3>2
  <2> QED
    BY <2>4 DEF Once
<1>12. Sorted(m)
  <2>1. ASSUME NEW i \in m.insertionOffset + 1 .. Size(m), NEW j \in m.insertionOffset + 1 .. Size(m), i < j
        PROVE  m.entries[i].priority >= m.entries[j].priority
    <3>1. i \in Nat /\ j \in Nat /\ i >= 1 /\ l.insertionOffset < at
      <4>1. i \in Nat /\ j \in Nat /\ i >= 1
        BY <1>2, <1>6, <1>7
      <4>2. l.insertionOffset < at
        BY <1>2, <1>4, <1>6, <1>7, <2>1
      <4> QED
        BY <4>1, <4>2
    <3>2. CASE j < at
      <4>1. i \in 1..(at - 1) /\ j \in 1..(at - 1)
            /\ i \in l.insertionOffset + 1 .. Size(l) /\ j \in l.insertionOffset + 1 .. Size(l)
        BY <1>2, <1>6, <1>7, <2>1, <3>1, <3>2
      <4> QED
        BY <1>1, <1>8, <2>1, <4>1 DEF Sorted
    <3>3. CASE j = at
      <4>1. i \in 1..(at - 1) /\ i \in l.insertionOffset + 1 .. Size(l) /\ i < at
        BY <1>2, <1>6, <1>7, <2>1, <3>1, <3>3
      <4> QED
        BY <1>4, <1>8, <3>3, <4>1
    <3>4. CASE j > at
      <4>1. j \in (at + 1)..Size(m) /\ j - 1 \in l.insertionOffset + 1 .. Size(l) /\ j - 1 \in 1..Size(l)
            /\ m.entries[j] = l.entries[j - 1]
        BY <1>2, <1>6, <1>7, <1>8, <2>1, <3>1, <3>4
      <4>2. CASE i < at
        <5>2. i \in 1..(at - 1) /\ i < j - 1 /\ i \in l.insertionOffset + 1 .. Size(l)
          BY <1>2, <1>6, <1>7, <2>1, <3>1, <3>4, <4>1, <4>2
        <5> QED
          BY <1>1, <1>8, <4>1, <5>2 DEF Sorted
      <4>3. CASE i = at
        <5>1. at \in l.insertionOffset + 1 .. Size(l) /\ at \in 1..Size(l)
          BY <1>2, <1>7, <3>1, <3>4
        <5>2. l.entries[at].priority < ev.priority /\ l.entries[at].priority >= l.entries[j - 1].priority
          <6>1. at < j - 1 \/ at = j - 1
            BY <3>1, <3>4
          <6>2. l.entries[at].priority >= l.entries[at].priority
            BY <1>2, <5>1
          <6> QED
            BY <1>1, <1>4, <4>1, <5>1, <6>1, <6>2 DEF Sorted
        <5>3. m.entries[i] = ev /\ m.entries[j] = l.entries[j - 1]
          BY <1>8, <4>1, <4>3
        <5>4. j - 1 \in 1..Size(l)
          BY <1>2, <4>1
        <5>5. \A a, b, c \in Int : b < a /\ b >= c => a >= c
          OBVIOUS
        <5> QED
          BY <1>2, <1>3, <5>1, <5>2, <5>3, <5>4, <5>5
      <4>4. CASE i > at
        <5>1. i \in (at + 1)..Size(m) /\ i - 1 \in l.insertionOffset + 1 .. Size(l) /\ i - 1 < j - 1
          BY <1>2, <1>6, <1>7, <2>1, <3>1, <3>4, <4>4
        <5> QED
          BY <1>1, <1>8, <4>1, <5>1 DEF Sorted
      <4> QED
        BY <3>1, <4>2, <4>3, <4>4
    <3> QED
      BY <3>1, <3>2, <3>3, <3>4
  <2> QED
    BY <2>1 DEF Sorted
<1>13. Offsets(m)
  <2>1. l.startOffset <= Size(m)
    BY <1>1, <1>2, <1>7 DEF Offsets
  <2>2. ASSUME NEW i \in 1..l.startOffset PROVE m.entries[i].event = NoEvent
    <3>1. l.startOffset <= Size(l) /\ l.startOffset <= l.insertionOffset /\ l.entries[i].event = NoEvent
      BY <1>1, <1>2 DEF Offsets
    <3>2. i \in 1..(at - 1)
      BY <1>2, <1>4, <3>1
    <3> QED
      BY <1>8, <3>1, <3>2
  <2> QED
    BY <1>1, <1>6, <2>1, <2>2 DEF Offsets
<1>14. \A i \in 1..Size(m) : \/ m.entries[i] = ev /\ (i > l.insertionOffset \/ i = Size(m))
                             \/ i \in 1..Size(l) /\ m.entries[i] = l.entries[i]
                             \/ i > l.insertionOffset
  <2>1. ASSUME NEW i \in 1..Size(m)
        PROVE  \/ i = at /\ (i > l.insertionOffset \/ i = Size(m))
               \/ i \in 1..(at - 1) \/ i > l.insertionOffset
    BY <1>2, <1>4, <1>7
  <2> QED
    BY <1>8, <2>1
<1>15. m # l
  BY <1>2, <1>7 DEF Size
<1> QED
  BY <1>6, <1>7, <1>9, <1>10, <1>11, <1>12, <1>13, <1>14, <1>15 DEF m, SoundList

LEMMA NullEntry ==
  ASSUME NEW x \in Entry
  PROVE  /\ Null(x) \in Entry /\ Null(x).event = NoEvent /\ Null(x).receiver = NoReceiver
         /\ Null(x).type = "normal" /\ Null(x).priority = x.priority
  BY DEF Null, Entry, Types

(* Entries that become null leave the others where they are.               *)
LEMMA Nulled ==
  ASSUME NEW l, SoundList(l), NEW m \in List, NEW P \in SUBSET (1..Size(l)),
         Size(m) = Size(l),
         m.startOffset = l.startOffset, m.insertionOffset = l.insertionOffset,
         \A i \in 1..Size(l) :
           m.entries[i] = IF i \in P THEN Null(l.entries[i]) ELSE l.entries[i]
  PROVE  /\ SoundList(m)
         /\ Live(m) = {x \in Live(l) : \A i \in P : l.entries[i] # x}
<1>1. l \in List /\ BothNull(l) /\ Once(l) /\ Sorted(l) /\ Offsets(l)
  BY DEF SoundList
<1>2. /\ Size(l) \in Nat /\ l.startOffset \in Nat /\ l.insertionOffset \in Nat
      /\ \A i \in 1..Size(l) : l.entries[i] \in Entry
  BY <1>1, ListShape
<1>3. \A i \in 1..Size(l) :
        /\ i \in P => m.entries[i].event = NoEvent /\ m.entries[i].receiver = NoReceiver
        /\ m.entries[i].priority = l.entries[i].priority
        /\ i \notin P => m.entries[i] = l.entries[i]
  BY <1>2, NullEntry
<1>4. BothNull(m) /\ Once(m)
  BY <1>1, <1>3 DEF BothNull, Once
<1>5. Sorted(m)
  <2>1. \A i \in l.insertionOffset + 1 .. Size(l) : i \in 1..Size(l)
    BY <1>2
  <2> QED
    BY <1>1, <1>3, <2>1 DEF Sorted
<1>6. Offsets(m)
  <2>1. \A i \in 1..l.startOffset : i \in 1..Size(l)
    BY <1>1, <1>2 DEF Offsets
  <2> QED
    BY <1>1, <1>3, <2>1 DEF Offsets
<1>7. ASSUME NEW x \in Live(m) PROVE x \in Live(l) /\ \A i \in P : l.entries[i] # x
  <2>1. PICK k \in 1..Size(l) : m.entries[k] = x /\ x.event # NoEvent
    BY <1>7, LivePlaces
  <2>2. k \notin P /\ l.entries[k] = x
    BY <1>3, <2>1
  <2> QED
    BY <1>1, <2>1, <2>2, LivePlaces DEF Once
<1>8. ASSUME NEW x \in Live(l), \A i \in P : l.entries[i] # x PROVE x \in Live(m)
  <2>1. PICK k \in 1..Size(l) : l.entries[k] = x /\ x.event # NoEvent
    BY <1>1, LivePlaces
  <2>2. m.entries[k] = x
    BY <1>3, <1>8, <2>1
  <2> QED
    BY <2>1, <2>2, LivePlaces
<1> QED
  BY <1>4, <1>5, <1>6, <1>7, <1>8 DEF SoundList

(* An event that is delivered or posted again leaves a null entry.         *)
LEMMA NullAtFacts ==
  ASSUME NEW l, SoundList(l), NEW p \in 1..Size(l)
  PROVE  LET m == NullAt(l, p) IN
         /\ SoundList(m) /\ Live(m) = Live(l) \ {l.entries[p]}
         /\ m.startOffset = l.startOffset /\ m.insertionOffset = l.insertionOffset
         /\ Size(m) = Size(l)
         /\ m.entries[p].event = NoEvent
         /\ \A i \in 1..Size(l) : i # p => m.entries[i] = l.entries[i]
<1> DEFINE m == NullAt(l, p)
<1>1. l \in List
  BY DEF SoundList
<1>2. /\ l.entries \in Seq(Entry) /\ DOMAIN l.entries = 1..Size(l) /\ Size(l) \in Nat
      /\ l.startOffset \in Nat /\ l.insertionOffset \in Nat
      /\ \A i \in 1..Size(l) : l.entries[i] \in Entry
  BY <1>1, ListShape
<1> DEFINE t == [l.entries EXCEPT ![p] = Null(l.entries[p])]
<1>3. m = [l EXCEPT !.entries = t]
  BY DEF NullAt
<1>4. Null(l.entries[p]) \in Entry /\ Null(l.entries[p]).event = NoEvent
  BY <1>2, NullEntry
<1>5. /\ t \in Seq(Entry) /\ Len(t) = Size(l) /\ t[p] = Null(l.entries[p])
      /\ \A i \in 1..Size(l) : i # p => t[i] = l.entries[i]
  <2>1. /\ t \in [1..Size(l) -> Entry] /\ t[p] = Null(l.entries[p])
        /\ \A i \in 1..Size(l) : i # p => t[i] = l.entries[i]
    BY <1>2, <1>4
  <2> HIDE DEF t
  <2>2. t \in Seq(Entry) /\ Len(t) = Size(l)
    BY <1>2, <2>1, LenProperties
  <2> QED
    BY <2>1, <2>2
<1>6. m \in List /\ m.entries = t /\ m.startOffset = l.startOffset /\ m.insertionOffset = l.insertionOffset
  BY <1>1, <1>3, <1>5 DEF List
<1> HIDE DEF m, t
<1>7. Size(m) = Size(l)
  BY <1>5, <1>6 DEF Size
<1>8. SoundList(m) /\ Live(m) = {x \in Live(l) : \A i \in {p} : l.entries[i] # x}
  <2> DEFINE P == {p}
  <2>1. P \in SUBSET (1..Size(l))
    OBVIOUS
  <2>2. \A i \in 1..Size(l) :
          m.entries[i] = IF i \in P THEN Null(l.entries[i]) ELSE l.entries[i]
    BY <1>5, <1>6
  <2> HIDE DEF P
  <2>3. SoundList(m) /\ Live(m) = {x \in Live(l) : \A i \in P : l.entries[i] # x}
    BY <1>6, <1>7, <2>1, <2>2, Nulled
  <2> QED
    BY <2>3 DEF P
<1>9. Live(m) = Live(l) \ {l.entries[p]}
  BY <1>8
<1> QED
  BY <1>4, <1>5, <1>6, <1>7, <1>8, <1>9 DEF m

(* The entries of one receiver are taken out.                              *)
LEMMA TakenOut ==
  ASSUME NEW l, SoundList(l), l.startOffset = 0, NEW r
  PROVE  LET m == RemoveEvents(l, r, FALSE) IN
         /\ SoundList(m) /\ Live(m) = {x \in Live(l) : x.receiver # r}
         /\ m.startOffset = 0 /\ m.insertionOffset = l.insertionOffset
<1> DEFINE S == {i \in 1..Size(l) : l.entries[i].receiver # r}
           t == Only(l.entries, S)
           m == RemoveEvents(l, r, FALSE)
           n == Cardinality(S)
           from(k) == Nth(S, k)
<1>0. m = [l EXCEPT !.entries = t]
  BY DEF RemoveEvents
<1>1. l \in List /\ BothNull(l) /\ Once(l) /\ Sorted(l) /\ Offsets(l)
  BY DEF SoundList
<1>2. /\ Size(l) \in Nat /\ l.insertionOffset \in Nat
      /\ \A i \in 1..Size(l) : l.entries[i] \in Entry
  BY <1>1, ListShape
<1>3. S \in SUBSET (1..Size(l)) /\ \A i : i \in S <=> i \in 1..Size(l) /\ l.entries[i].receiver # r
  OBVIOUS
<1>4. t = [k \in 1..n |-> l.entries[from(k)]]
  BY DEF Only
<1> HIDE DEF S
<1>5. /\ n \in Nat
      /\ \A k \in 1..n : from(k) \in S /\ k <= from(k)
      /\ \A k, j \in 1..n : k < j => from(k) < from(j)
      /\ \A i \in S : \E k \in 1..n : from(k) = i
  BY <1>2, <1>3, PlacesInOrder
<1> HIDE DEF n, from, t, m
<1>6. \A k \in 1..n : from(k) \in 1..Size(l) /\ l.entries[from(k)] \in Entry
  BY <1>2, <1>3, <1>5
<1>7. t \in Seq(Entry) /\ Len(t) = n /\ \A k \in 1..n : t[k] = l.entries[from(k)]
  <2>1. t \in [1..n -> Entry] /\ \A k \in 1..n : t[k] = l.entries[from(k)]
    BY <1>4, <1>6
  <2>2. t \in Seq(Entry) /\ Len(t) = n
    BY <1>5, <2>1, LenProperties
  <2> QED
    BY <2>1, <2>2
<1>8. m \in List /\ m.entries = t /\ m.startOffset = 0 /\ m.insertionOffset = l.insertionOffset
  BY <1>0, <1>1, <1>7 DEF List
<1>9. Size(m) = n
  BY <1>7, <1>8 DEF Size
<1>10. \A k, j \in 1..n : from(k) = from(j) => k = j
  BY <1>2, <1>5, <1>6
<1>11. BothNull(m)
  BY <1>1, <1>6, <1>7, <1>8, <1>9 DEF BothNull
<1>12. Once(m)
  BY <1>1, <1>6, <1>7, <1>8, <1>9, <1>10 DEF Once
<1>13. Sorted(m)
  <2>1. ASSUME NEW i \in l.insertionOffset + 1 .. n, NEW j \in l.insertionOffset + 1 .. n, i < j
        PROVE  t[i].priority >= t[j].priority
    <3>1. i \in 1..n /\ j \in 1..n
      BY <1>2, <1>5
    <3>2. /\ from(i) \in l.insertionOffset + 1 .. Size(l) /\ from(j) \in l.insertionOffset + 1 .. Size(l)
          /\ from(i) < from(j)
      BY <1>2, <1>5, <1>6, <2>1, <3>1
    <3> QED
      BY <1>1, <1>7, <3>1, <3>2 DEF Sorted
  <2> QED
    BY <1>8, <1>9, <2>1 DEF Sorted
<1>14. Offsets(m)
  BY <1>5, <1>8, <1>9 DEF Offsets
<1>15. ASSUME NEW x \in Live(m) PROVE x \in Live(l) /\ x.receiver # r
  <2>1. PICK k \in 1..n : t[k] = x /\ x.event # NoEvent
    BY <1>8, <1>9, LivePlaces
  <2>2. l.entries[from(k)] = x /\ from(k) \in 1..Size(l) /\ x.receiver # r
    BY <1>3, <1>5, <1>7, <2>1
  <2> QED
    BY <1>1, <2>1, <2>2, LivePlaces
<1>16. ASSUME NEW x \in Live(l), x.receiver # r PROVE x \in Live(m)
  <2>1. PICK i \in 1..Size(l) : l.entries[i] = x /\ x.event # NoEvent
    BY <1>1, LivePlaces
  <2>2. PICK k \in 1..n : from(k) = i
    BY <1>3, <1>5, <1>16, <2>1
  <2>3. t[k] = x
    BY <1>7, <2>1, <2>2
  <2> QED
    BY <1>8, <1>9, <2>1, <2>3, LivePlaces
<1>17. Live(m) = {x \in Live(l) : x.receiver # r}
  BY <1>15, <1>16
<1> QED
  BY <1>8, <1>11, <1>12, <1>13, <1>14, <1>17 DEF SoundList, m

(* removePostedEvents(): no entry of the receiver is left; entries that    *)
(* somebody may walk stay in their places.                                 *)
LEMMA RemoveFacts ==
  ASSUME NEW l, SoundList(l), NEW r, r # NoReceiver, NEW walked \in BOOLEAN,
         ~walked => l.startOffset = 0
  PROVE  LET m == RemoveEvents(l, r, walked) IN
         /\ SoundList(m) /\ Live(m) = {x \in Live(l) : x.receiver # r}
         /\ m.startOffset = l.startOffset /\ m.insertionOffset = l.insertionOffset
<1>1. CASE ~walked
  <2> DEFINE m == RemoveEvents(l, r, FALSE)
  <2>2. /\ SoundList(m) /\ Live(m) = {x \in Live(l) : x.receiver # r}
        /\ m.startOffset = 0 /\ m.insertionOffset = l.insertionOffset
    BY <1>1, TakenOut
  <2>3. RemoveEvents(l, r, walked) = m
    BY <1>1
  <2> HIDE DEF m
  <2> QED
    BY <1>1, <2>2, <2>3
<1>2. CASE walked
  <2> DEFINE t == [i \in 1..Size(l) |-> IF l.entries[i].receiver = r THEN Null(l.entries[i])
                                                                     ELSE l.entries[i]]
             m == RemoveEvents(l, r, walked)
             P == {i \in 1..Size(l) : l.entries[i].receiver = r}
  <2>1. m = [l EXCEPT !.entries = t]
    BY <1>2 DEF RemoveEvents
  <2>2. l \in List
    BY DEF SoundList
  <2>3. /\ Size(l) \in Nat /\ l.startOffset \in Nat /\ l.insertionOffset \in Nat
        /\ \A i \in 1..Size(l) : l.entries[i] \in Entry
    BY <2>2, ListShape
  <2>4. t \in [1..Size(l) -> Entry]
    BY <2>3, NullEntry
  <2>5. \A i \in 1..Size(l) : t[i] = IF i \in P THEN Null(l.entries[i]) ELSE l.entries[i]
    OBVIOUS
  <2>6. \A i \in 1..Size(l) : i \in P => t[i].event = NoEvent
    BY <2>3, NullEntry
  <2> HIDE DEF t
  <2>7. t \in Seq(Entry) /\ Len(t) = Size(l)
    BY <2>3, <2>4, LenProperties
  <2>8. m \in List /\ m.entries = t /\ m.startOffset = l.startOffset /\ m.insertionOffset = l.insertionOffset
    BY <2>1, <2>2, <2>7 DEF List
  <2> HIDE DEF m
  <2>9. Size(m) = Size(l)
    BY <2>7, <2>8 DEF Size
  <2>10. P \in SUBSET (1..Size(l))
    OBVIOUS
  <2>11. SoundList(m) /\ Live(m) = {x \in Live(l) : \A i \in P : l.entries[i] # x}
    <3> HIDE DEF P
    <3> QED
      BY <2>5, <2>8, <2>9, <2>10, Nulled
  <2>12. Live(m) = {x \in Live(l) : x.receiver # r}
    <3>1. ASSUME NEW x \in Live(l) PROVE (\A i \in P : l.entries[i] # x) <=> x.receiver # r
      <4>1. PICK i \in 1..Size(l) : l.entries[i] = x
        BY <2>2, LivePlaces
      <4> QED
        BY <4>1
    <3> QED
      BY <2>11, <3>1
  <2> QED
    BY <2>8, <2>11, <2>12 DEF m
<1> QED
  BY <1>1, <1>2

LEMMA RemoveWalked ==
  ASSUME NEW l, SoundList(l), NEW r
  PROVE  LET m == RemoveEvents(l, r, TRUE) IN
         Size(m) = Size(l) /\ \A i \in 1..Size(m) : m.entries[i].event # NoEvent
                                                     => m.entries[i] = l.entries[i]
<1> DEFINE t == [i \in 1..Size(l) |-> IF l.entries[i].receiver = r THEN Null(l.entries[i])
                                                                   ELSE l.entries[i]]
           m == RemoveEvents(l, r, TRUE)
<1>1. m = [l EXCEPT !.entries = t] /\ l \in List
  BY DEF RemoveEvents, SoundList
<1>2. Size(l) \in Nat /\ \A i \in 1..Size(l) : l.entries[i] \in Entry
  BY <1>1, ListShape
<1>3. t \in [1..Size(l) -> Entry]
  BY <1>2, NullEntry
<1>4. \A i \in 1..Size(l) : t[i].event # NoEvent => t[i] = l.entries[i]
  BY <1>2, NullEntry
<1> HIDE DEF t
<1>5. t \in Seq(Entry) /\ Len(t) = Size(l)
  BY <1>2, <1>3, LenProperties
<1>6. m.entries = t
  BY <1>1 DEF List
<1> HIDE DEF m
<1>7. Size(m) = Size(l)
  BY <1>5, <1>6 DEF Size
<1> QED
  BY <1>4, <1>6, <1>7 DEF m

(* The end of a walk over everything.                                      *)
LEMMA EraseFacts ==
  ASSUME NEW l, SoundList(l)
  PROVE  /\ SoundList(EraseSent(l)) /\ Live(EraseSent(l)) = Live(l)
         /\ EraseSent(l).startOffset = 0
<1> DEFINE n == Size(l) - l.startOffset
           t == SubSeq(l.entries, l.startOffset + 1, Size(l))
           m == EraseSent(l)
<1>1. l \in List /\ BothNull(l) /\ Once(l) /\ Sorted(l) /\ Offsets(l)
  BY DEF SoundList
<1>2. /\ Size(l) \in Nat /\ l.startOffset \in Nat /\ l.insertionOffset \in Nat
      /\ l.entries \in Seq(Entry)
      /\ \A i \in 1..Size(l) : l.entries[i] \in Entry
  BY <1>1, ListShape
<1>3. /\ n \in Nat /\ l.startOffset <= Size(l)
      /\ l.startOffset > 0 => l.startOffset <= l.insertionOffset
      /\ \A i \in 1..l.startOffset : l.entries[i].event = NoEvent
  BY <1>1, <1>2 DEF Offsets
<1>4. t \in Seq(Entry) /\ Len(t) = n /\ \A i \in 1..n : t[i] = l.entries[l.startOffset + i]
  <2>1. \A i \in (l.startOffset + 1)..Size(l) : l.entries[i] \in Entry
    BY <1>2
  <2>2. l.startOffset + 1 \in Int /\ Size(l) \in Int
    BY <1>2
  <2>3. /\ t \in Seq(Entry)
        /\ Len(t) = (IF l.startOffset + 1 <= Size(l) THEN Size(l) - (l.startOffset + 1) + 1 ELSE 0)
        /\ \A i \in 1..(Size(l) - (l.startOffset + 1) + 1) : t[i] = l.entries[(l.startOffset + 1) + i - 1]
    BY <2>1, <2>2, SubSeqProperties
  <2> HIDE DEF t
  <2>4. /\ (IF l.startOffset + 1 <= Size(l) THEN Size(l) - (l.startOffset + 1) + 1 ELSE 0) = n
        /\ Size(l) - (l.startOffset + 1) + 1 = n
        /\ \A i \in 1..n : (l.startOffset + 1) + i - 1 = l.startOffset + i
    <3>1. \A a, b \in Nat : b <= a => /\ (IF b + 1 <= a THEN a - (b + 1) + 1 ELSE 0) = a - b
                                     /\ a - (b + 1) + 1 = a - b
                                     /\ \A i \in 1..(a - b) : (b + 1) + i - 1 = b + i
      OBVIOUS
    <3> QED
      BY <1>2, <1>3, <3>1
  <2> HIDE DEF n
  <2> QED
    BY <2>3, <2>4
<1>5. /\ m = [entries |-> t, insertionOffset |-> l.insertionOffset - l.startOffset, startOffset |-> 0]
      /\ l.insertionOffset - l.startOffset \in Nat
  <2>1. l.insertionOffset - l.startOffset \in Nat
    BY <1>2, <1>3
  <2> QED
    BY <2>1 DEF EraseSent
<1> HIDE DEF t
<1>6. /\ m \in List /\ m.entries = t /\ m.startOffset = 0
      /\ m.insertionOffset = l.insertionOffset - l.startOffset
  BY <1>4, <1>5 DEF List
<1> HIDE DEF m
<1>7. Size(m) = n
  BY <1>4, <1>6 DEF Size
<1>8. \A i \in 1..n : l.startOffset + i \in 1..Size(l) /\ m.entries[i] = l.entries[l.startOffset + i]
  BY <1>2, <1>3, <1>4, <1>6
<1>9. \A i \in 1..Size(l) : l.entries[i].event # NoEvent =>
        i - l.startOffset \in 1..n /\ l.startOffset + (i - l.startOffset) = i
  <2>1. ASSUME NEW i \in 1..Size(l), l.entries[i].event # NoEvent
        PROVE  i - l.startOffset \in 1..n /\ l.startOffset + (i - l.startOffset) = i
    <3>1. i \notin 1..l.startOffset
      BY <1>3, <2>1
    <3> QED
      BY <1>2, <1>3, <3>1
  <2> QED
    BY <2>1
<1>10. Live(m) = Live(l)
  <2>1. ASSUME NEW x \in Live(m) PROVE x \in Live(l)
    <3>1. PICK i \in 1..n : m.entries[i] = x /\ x.event # NoEvent
      BY <1>6, <1>7, LivePlaces
    <3> QED
      BY <1>1, <1>8, <3>1, LivePlaces
  <2>2. ASSUME NEW x \in Live(l) PROVE x \in Live(m)
    <3>1. PICK i \in 1..Size(l) : l.entries[i] = x /\ x.event # NoEvent
      BY <1>1, LivePlaces
    <3>2. i - l.startOffset \in 1..n /\ m.entries[i - l.startOffset] = x
      BY <1>8, <1>9, <3>1
    <3> QED
      BY <1>6, <1>7, <3>1, <3>2, LivePlaces
  <2> QED
    BY <2>1, <2>2
<1>11. BothNull(m)
  BY <1>1, <1>7, <1>8 DEF BothNull
<1>12. Once(m)
  <2>1. \A i, j \in 1..n : l.startOffset + i = l.startOffset + j => i = j
    BY <1>2, <1>3
  <2> QED
    BY <1>1, <1>7, <1>8, <2>1 DEF Once
<1>13. Sorted(m)
  <2>1. ASSUME NEW i \in m.insertionOffset + 1 .. Size(m), NEW j \in m.insertionOffset + 1 .. Size(m), i < j
        PROVE  m.entries[i].priority >= m.entries[j].priority
    <3>1. i \in 1..n /\ j \in 1..n
      BY <1>2, <1>3, <1>5, <1>6, <1>7
    <3>2. /\ l.startOffset + i \in l.insertionOffset + 1 .. Size(l)
          /\ l.startOffset + j \in l.insertionOffset + 1 .. Size(l)
          /\ l.startOffset + i < l.startOffset + j
      <4>1. \A a, b, c \in Int : \A k \in (b - a) + 1 .. (c - a) : a + k \in b + 1 .. c
        OBVIOUS
      <4>2. \A a, k, q \in Int : k < q => a + k < a + q
        OBVIOUS
      <4> QED
        <5>1. /\ l.startOffset \in Int /\ l.insertionOffset \in Int /\ Size(l) \in Int
              /\ i \in Int /\ j \in Int
          BY <1>2, <1>3, <3>1
        <5>2. /\ i \in (l.insertionOffset - l.startOffset) + 1 .. (Size(l) - l.startOffset)
              /\ j \in (l.insertionOffset - l.startOffset) + 1 .. (Size(l) - l.startOffset)
          BY <1>6, <1>7
        <5> QED
          BY <2>1, <4>1, <4>2, <5>1, <5>2
    <3>3. l.entries[l.startOffset + i].priority >= l.entries[l.startOffset + j].priority
      BY <1>1, <3>2 DEF Sorted
    <3> QED
      BY <1>8, <3>1, <3>3
  <2> QED
    BY <2>1 DEF Sorted
<1>14. Offsets(m)
  BY <1>3, <1>6, <1>7 DEF Offsets
<1> QED
  BY <1>6, <1>10, <1>11, <1>12, <1>13, <1>14 DEF m, SoundList

(* A walk begins: what is posted from now on goes behind all that is there.*)
LEMMA BeginFacts ==
  ASSUME NEW l, SoundList(l)
  PROVE  LET m == [l EXCEPT !.insertionOffset = Size(l)] IN
         /\ SoundList(m) /\ Live(m) = Live(l) /\ m.entries = l.entries
         /\ m.startOffset = l.startOffset /\ m.insertionOffset = Size(l) /\ Size(m) = Size(l)
<1> DEFINE m == [l EXCEPT !.insertionOffset = Size(l)]
<1>1. l \in List /\ BothNull(l) /\ Once(l) /\ Offsets(l)
  BY DEF SoundList
<1>2. Size(l) \in Nat /\ l.startOffset \in Nat
  BY <1>1, ListShape
<1>3. /\ m \in List /\ m.entries = l.entries /\ m.startOffset = l.startOffset
      /\ m.insertionOffset = Size(l)
  BY <1>1, <1>2 DEF List
<1> HIDE DEF m
<1>4. Size(m) = Size(l) /\ Live(m) = Live(l)
  BY <1>3 DEF Size, Live
<1>5. BothNull(m) /\ Once(m)
  BY <1>1, <1>3, <1>4 DEF BothNull, Once
<1>6. Sorted(m)
  BY <1>2, <1>3, <1>4 DEF Sorted
<1>7. Offsets(m)
  BY <1>1, <1>2, <1>3, <1>4 DEF Offsets
<1> QED
  BY <1>3, <1>4, <1>5, <1>6, <1>7 DEF SoundList, m

(* A walk over everything passes an entry that is null.                    *)
LEMMA StartFacts ==
  ASSUME NEW l, SoundList(l), l.startOffset < Size(l), l.startOffset < l.insertionOffset,
         l.entries[l.startOffset + 1].event = NoEvent
  PROVE  LET m == [l EXCEPT !.startOffset = l.startOffset + 1] IN
         /\ SoundList(m) /\ Live(m) = Live(l) /\ m.entries = l.entries
         /\ m.startOffset = l.startOffset + 1 /\ m.insertionOffset = l.insertionOffset
         /\ Size(m) = Size(l)
<1> DEFINE m == [l EXCEPT !.startOffset = l.startOffset + 1]
<1>1. l \in List /\ BothNull(l) /\ Once(l) /\ Sorted(l) /\ Offsets(l)
  BY DEF SoundList
<1>2. Size(l) \in Nat /\ l.startOffset \in Nat /\ l.insertionOffset \in Nat
  BY <1>1, ListShape
<1>3. /\ m \in List /\ m.entries = l.entries /\ m.startOffset = l.startOffset + 1
      /\ m.insertionOffset = l.insertionOffset
  BY <1>1, <1>2 DEF List
<1> HIDE DEF m
<1>4. Size(m) = Size(l) /\ Live(m) = Live(l)
  BY <1>3 DEF Size, Live
<1>5. BothNull(m) /\ Once(m)
  BY <1>1, <1>3, <1>4 DEF BothNull, Once
<1>6. Sorted(m)
  BY <1>1, <1>3, <1>4 DEF Sorted
<1>7. Offsets(m)
  <2>1. \A i \in 1..(l.startOffset + 1) : i \in 1..l.startOffset \/ i = l.startOffset + 1
    BY <1>2
  <2>2. l.startOffset + 1 <= Size(l) /\ l.startOffset + 1 <= l.insertionOffset
    BY <1>2
  <2> QED
    BY <1>1, <1>3, <1>4, <2>1, <2>2 DEF Offsets
<1> QED
  BY <1>3, <1>4, <1>5, <1>6, <1>7 DEF SoundList, m

-----------------------------------------------------------------------------
(* What calls and returns do to the stack.                                 *)
LEMMA FrameShape ==
  ASSUME NEW f \in StackFrame
  PROVE  /\ f.frame \in {"loop", "round", "walk", "handler"}
         /\ f.frame = "loop" => f.loop \in Loops
         /\ f.frame = "round" => /\ f \in RoundFrames /\ f.waits \in BOOLEAN
                                 /\ f.at \in {"start", "send", "sent", "decide", "poll", "check"}
         /\ f.frame = "walk" => /\ f \in WalkFrames /\ f.i \in Nat /\ f.type \in {"any", "delete"}
                                /\ f.receiver \in Receivers \cup {NoReceiver}
         /\ f.frame = "handler" => /\ f.event \in Events /\ f.receiver \in Receivers
                                   /\ f.type \in Types
  BY DEF StackFrame, LoopFrames, RoundFrames, WalkFrames, HandlerFrames

LEMMA StackShape ==
  ASSUME NEW s \in Seq(StackFrame)
  PROVE  /\ Len(s) \in Nat /\ DOMAIN s = 1..Len(s) /\ \A i \in 1..Len(s) : s[i] \in StackFrame
         /\ s # <<>> => Len(s) \in 1..Len(s) /\ Last(s) = s[Len(s)] /\ Last(s) \in StackFrame
<1>1. Len(s) \in Nat /\ DOMAIN s = 1..Len(s) /\ \A i \in 1..Len(s) : s[i] \in StackFrame
  BY LenProperties
<1>2. s # <<>> => Len(s) > 0
  BY <1>1
<1> QED
  BY <1>1, <1>2 DEF Last

LEMMA PushFacts ==
  ASSUME NEW s, SoundStack(s), NEW f \in StackFrame,
         s = <<>> => f.frame # "handler",
         s # <<>> => MayCall(Last(s), f)
  PROVE  LET t == Append(s, f) IN
         /\ SoundStack(t) /\ Len(t) = Len(s) + 1 /\ t # <<>> /\ Last(t) = f
         /\ \A i \in 1..Len(s) : t[i] = s[i]
         /\ t[Len(s) + 1] = f
<1> DEFINE t == Append(s, f)
<1>1. s \in Seq(StackFrame) /\ Nested(s)
  BY DEF SoundStack
<1>2. Len(s) \in Nat /\ (s # <<>> => Last(s) = s[Len(s)]) /\ (Len(s) = 0 <=> s = <<>>)
  BY <1>1, StackShape, EmptySeq
<1>3. /\ t \in Seq(StackFrame) /\ Len(t) = Len(s) + 1 /\ t # <<>>
      /\ \A i \in 1..Len(s) : t[i] = s[i]
      /\ t[Len(s) + 1] = f
  BY <1>1, AppendProperties
<1> HIDE DEF t
<1>4. Last(t) = f
  BY <1>3 DEF Last
<1>5. ASSUME NEW i \in 2..Len(t) PROVE MayCall(t[i - 1], t[i])
  <2>1. CASE i = Len(s) + 1
    <3>1. s # <<>> /\ i - 1 = Len(s) /\ Len(s) \in 1..Len(s)
      BY <1>2, <2>1
    <3>2. t[i] = f /\ t[i - 1] = s[Len(s)] /\ Last(s) = s[Len(s)]
      BY <1>2, <1>3, <2>1, <3>1
    <3> QED
      BY <3>1, <3>2
  <2>2. CASE i # Len(s) + 1
    <3>1. i \in 2..Len(s) /\ i \in 1..Len(s) /\ i - 1 \in 1..Len(s)
      BY <1>2, <1>3, <2>2
    <3> QED
      BY <1>1, <1>3, <3>1 DEF Nested
  <2> QED
    BY <2>1, <2>2
<1>6. t[1].frame # "handler"
  <2>1. CASE s = <<>>
    BY <1>2, <1>3, <2>1
  <2>2. CASE s # <<>>
    BY <1>1, <1>2, <1>3, <2>2 DEF Nested
  <2> QED
    BY <2>1, <2>2
<1> QED
  BY <1>3, <1>4, <1>5, <1>6 DEF SoundStack, Nested, t

LEMMA PopFacts ==
  ASSUME NEW s, SoundStack(s), s # <<>>
  PROVE  LET t == Front(s) IN
         /\ SoundStack(t) /\ Len(t) = Len(s) - 1
         /\ \A i \in 1..Len(t) : i \in 1..Len(s) /\ t[i] = s[i]
         /\ t = <<>> \/ (Len(s) \in 2..Len(s) /\ Last(t) = s[Len(s) - 1] /\ MayCall(Last(t), Last(s)))
         /\ t = <<>> => Len(s) = 1 /\ Last(s).frame # "handler"
<1> DEFINE t == Front(s)
<1>1. s \in Seq(StackFrame) /\ Nested(s)
  BY DEF SoundStack
<1>2. Len(s) \in Nat /\ Len(s) >= 1 /\ Last(s) = s[Len(s)] /\ \A i \in 1..Len(s) : s[i] \in StackFrame
  BY <1>1, StackShape
<1>3. t \in Seq(StackFrame) /\ Len(t) = Len(s) - 1 /\ \A i \in 1..(Len(s) - 1) : t[i] = s[i]
  <2>1. /\ SubSeq(s, 1, Len(s) - 1) \in Seq(StackFrame)
        /\ Len(SubSeq(s, 1, Len(s) - 1)) = (IF 1 <= Len(s) - 1 THEN Len(s) - 1 - 1 + 1 ELSE 0)
        /\ \A i \in 1..(Len(s) - 1 - 1 + 1) : SubSeq(s, 1, Len(s) - 1)[i] = s[1 + i - 1]
    <3>1. \A i \in 1..(Len(s) - 1) : s[i] \in StackFrame
      BY <1>2
    <3>2. 1 \in Int /\ Len(s) - 1 \in Int
      BY <1>2
    <3> QED
      BY <3>1, <3>2, SubSeqProperties
  <2>2. t = SubSeq(s, 1, Len(s) - 1)
    BY DEF Front
  <2>3. /\ (IF 1 <= Len(s) - 1 THEN Len(s) - 1 - 1 + 1 ELSE 0) = Len(s) - 1
        /\ Len(s) - 1 - 1 + 1 = Len(s) - 1
        /\ \A i \in 1..(Len(s) - 1) : 1 + i - 1 = i
    <3>1. /\ \A n \in Nat : n >= 1 => (IF 1 <= n - 1 THEN n - 1 - 1 + 1 ELSE 0) = n - 1
          /\ \A n \in Nat : n - 1 - 1 + 1 = n - 1
          /\ \A i \in Nat : 1 + i - 1 = i
      OBVIOUS
    <3>2. \A i \in 1..(Len(s) - 1) : i \in Nat
      BY <1>2
    <3> QED
      BY <1>2, <3>1, <3>2
  <2> HIDE DEF t
  <2> QED
    BY <2>1, <2>2, <2>3
<1> HIDE DEF t
<1>4. \A i \in 1..Len(t) : i \in 1..Len(s) /\ t[i] = s[i]
  BY <1>2, <1>3
<1>5. Nested(t)
  <2>1. ASSUME NEW i \in 2..Len(t) PROVE MayCall(t[i - 1], t[i])
    <3>1. i \in 2..Len(s) /\ i \in 1..Len(t) /\ i - 1 \in 1..Len(t)
      BY <1>2, <1>3
    <3> QED
      BY <1>1, <1>4, <3>1 DEF Nested
  <2>2. t # <<>> => t[1].frame # "handler"
    <3>1. t # <<>> => 1 \in 1..Len(t)
      BY <1>3, StackShape
    <3> QED
      BY <1>1, <1>4, <3>1 DEF Nested
  <2> QED
    BY <2>1, <2>2 DEF Nested
<1>6. t # <<>> => Len(s) \in 2..Len(s) /\ Last(t) = s[Len(s) - 1] /\ MayCall(Last(t), Last(s))
  <2>1. SUFFICES ASSUME t # <<>>
                 PROVE  Len(s) \in 2..Len(s) /\ Last(t) = s[Len(s) - 1] /\ MayCall(Last(t), Last(s))
    OBVIOUS
  <2>2. Len(t) \in 1..Len(t) /\ Last(t) = t[Len(t)]
    BY <1>3, <2>1, StackShape
  <2>3. Len(s) \in 2..Len(s) /\ Last(t) = s[Len(s) - 1]
    BY <1>2, <1>3, <1>4, <2>2
  <2> QED
    BY <1>1, <1>2, <2>3 DEF Nested
<1>7. t = <<>> => Len(s) = 1 /\ Last(s).frame # "handler"
  <2>1. SUFFICES ASSUME t = <<>> PROVE Len(s) = 1 /\ Last(s).frame # "handler"
    OBVIOUS
  <2>2. Len(t) = 0
    BY <2>1
  <2>3. Len(s) = 1 /\ Last(s) = s[1]
    <3>1. Len(s) - 1 = 0 /\ Len(s) \in Nat
      BY <1>2, <1>3, <2>2
    <3>2. Len(s) = 1
      BY <3>1
    <3> QED
      BY <1>2, <3>2
  <2> QED
    BY <1>1, <2>3 DEF Nested
<1> QED
  BY <1>3, <1>4, <1>5, <1>6, <1>7 DEF SoundStack, t

(* The frame on top goes on.                                               *)
LEMMA TopFacts ==
  ASSUME NEW s, SoundStack(s), s # <<>>, NEW f \in StackFrame, f.frame = Last(s).frame
  PROVE  LET t == [s EXCEPT ![Len(s)] = f] IN
         /\ SoundStack(t) /\ Len(t) = Len(s) /\ t # <<>> /\ Last(t) = f
         /\ \A i \in 1..(Len(s) - 1) : t[i] = s[i]
         /\ t[Len(s)] = f
<1> DEFINE t == [s EXCEPT ![Len(s)] = f]
<1>1. s \in Seq(StackFrame) /\ Nested(s)
  BY DEF SoundStack
<1>2. /\ Len(s) \in Nat /\ Len(s) >= 1 /\ Len(s) \in 1..Len(s) /\ Last(s) = s[Len(s)]
      /\ s \in [1..Len(s) -> StackFrame]
  BY <1>1, StackShape, LenProperties
<1>3. t \in [1..Len(s) -> StackFrame] /\ t[Len(s)] = f /\ \A i \in 1..(Len(s) - 1) : t[i] = s[i]
  BY <1>2
<1> HIDE DEF t
<1>4. t \in Seq(StackFrame) /\ Len(t) = Len(s) /\ t # <<>> /\ Last(t) = f
  <2>1. t \in Seq(StackFrame) /\ Len(t) = Len(s)
    BY <1>2, <1>3, LenProperties
  <2> QED
    BY <1>2, <1>3, <2>1 DEF Last
<1>5. Nested(t)
  <2>1. ASSUME NEW i \in 2..Len(t) PROVE MayCall(t[i - 1], t[i])
    <3>1. MayCall(s[i - 1], s[i]) /\ i - 1 \in 1..(Len(s) - 1)
      BY <1>1, <1>2, <1>4 DEF Nested
    <3>2. t[i - 1] = s[i - 1] /\ t[i].frame = s[i].frame
      <4>1. i \in 1..(Len(s) - 1) \/ i = Len(s)
        <5>1. i \in 2..Len(s)
          BY <1>4
        <5>2. \A n \in Nat : \A k \in 2..n : k \in 1..(n - 1) \/ k = n
          OBVIOUS
        <5> QED
          BY <1>2, <5>1, <5>2
      <4> QED
        BY <1>2, <1>3, <3>1, <4>1
    <3> QED
      BY <3>1, <3>2 DEF MayCall
  <2>2. t[1].frame = s[1].frame
    <3>1. 1 \in 1..(Len(s) - 1) \/ 1 = Len(s)
      BY <1>2
    <3> QED
      BY <1>2, <1>3, <3>1
  <2> QED
    BY <1>1, <2>1, <2>2 DEF Nested
<1> QED
  BY <1>3, <1>4, <1>5 DEF SoundStack, t

-----------------------------------------------------------------------------
(* The list, its books and the stack.                                      *)
LEMMA StackIsSound == LInv => SoundStack(stack)
  BY DEF LInv, Typing, SoundStack

LEMMA TopShape ==
  ASSUME LInv, stack # <<>>
  PROVE  /\ Top \in StackFrame /\ Top = stack[Len(stack)] /\ Len(stack) \in 1..Len(stack)
         /\ Len(stack) \in Nat /\ DOMAIN stack = 1..Len(stack)
<1>1. stack \in Seq(StackFrame)
  BY DEF LInv, Typing
<1> QED
  BY <1>1, StackShape DEF Top

(* No handler is new, and no walk over everything ends.                    *)
Lasting == /\ SoundStack(stack')
           /\ \A i \in DOMAIN stack' : stack'[i].frame = "handler" =>
                \E j \in DOMAIN stack : stack[j] = stack'[i]
           /\ \A i \in DOMAIN stack : IsWalkOfAll(stack[i]) =>
                \E j \in DOMAIN stack' : stack'[j] = stack[i]

RestTyped == /\ canWait' \in BOOLEAN /\ deleteLaterCalled' \subseteq Receivers
             /\ exit' \subseteq Loops
             /\ interrupt' \in BOOLEAN /\ wakeUps' \in BOOLEAN /\ pipe' \in BOOLEAN
             /\ poster' \in [Posters -> PosterStates]
             /\ postedIn' \in [Events -> Events \cup {NoEvent}]

LEMMA LastingStack == LInv /\ stack' = stack => Lasting
  BY StackIsSound DEF Lasting

LEMMA LastingPush ==
  ASSUME LInv, NEW f \in StackFrame, stack' = Append(stack, f), f.frame # "handler",
         stack # <<>> => MayCall(Top, f)
  PROVE  Lasting /\ Last(stack') = f /\ Len(stack') = Len(stack) + 1
<1>1. SoundStack(stack) /\ stack \in Seq(StackFrame)
  BY StackIsSound DEF SoundStack
<1>2. /\ SoundStack(stack') /\ Len(stack') = Len(stack) + 1 /\ Last(stack') = f
      /\ \A i \in 1..Len(stack) : stack'[i] = stack[i]
      /\ stack'[Len(stack) + 1] = f
  BY <1>1, PushFacts DEF Top
<1>3. DOMAIN stack = 1..Len(stack) /\ DOMAIN stack' = 1..(Len(stack) + 1) /\ Len(stack) \in Nat
  BY <1>1, <1>2, StackShape DEF SoundStack
<1>4. ASSUME NEW i \in DOMAIN stack', stack'[i].frame = "handler"
      PROVE  \E j \in DOMAIN stack : stack[j] = stack'[i]
  <2>1. i # Len(stack) + 1
    BY <1>2, <1>4
  <2>2. i \in DOMAIN stack
    BY <1>3, <2>1
  <2> QED
    BY <1>2, <1>3, <2>2
<1>5. \A i \in DOMAIN stack : i \in DOMAIN stack' /\ stack'[i] = stack[i]
  BY <1>2, <1>3
<1> QED
  BY <1>2, <1>4, <1>5 DEF Lasting

LEMMA LastingPop ==
  ASSUME LInv, stack # <<>>, stack' = Front(stack), ~IsWalkOfAll(Top)
  PROVE  Lasting
<1>1. SoundStack(stack) /\ stack \in Seq(StackFrame)
  BY StackIsSound DEF SoundStack
<1>2. /\ SoundStack(stack') /\ Len(stack') = Len(stack) - 1
      /\ \A i \in 1..Len(stack') : i \in 1..Len(stack) /\ stack'[i] = stack[i]
  BY <1>1, PopFacts
<1>3. DOMAIN stack = 1..Len(stack) /\ DOMAIN stack' = 1..Len(stack') /\ Len(stack) \in Nat
  BY <1>1, <1>2, StackShape DEF SoundStack
<1>4. ASSUME NEW i \in DOMAIN stack, IsWalkOfAll(stack[i])
      PROVE  \E j \in DOMAIN stack' : stack'[j] = stack[i]
  <2>1. i # Len(stack)
    BY <1>4, TopShape
  <2>2. i \in 1..Len(stack')
    BY <1>2, <1>3, <2>1
  <2> QED
    BY <1>2, <1>3, <2>2
<1> QED
  BY <1>2, <1>3, <1>4 DEF Lasting

LEMMA LastingTop ==
  ASSUME LInv, stack # <<>>, NEW f \in StackFrame, stack' = [stack EXCEPT ![Len(stack)] = f],
         f.frame = Top.frame, f.frame # "handler", ~IsWalkOfAll(Top)
  PROVE  /\ Lasting /\ Last(stack') = f /\ Len(stack') = Len(stack) /\ stack' # <<>>
         /\ \A i \in 1..(Len(stack) - 1) : stack'[i] = stack[i]
<1>1. SoundStack(stack) /\ stack \in Seq(StackFrame)
  BY StackIsSound DEF SoundStack
<1>2. /\ SoundStack(stack') /\ Len(stack') = Len(stack) /\ Last(stack') = f /\ stack' # <<>>
      /\ \A i \in 1..(Len(stack) - 1) : stack'[i] = stack[i]
      /\ stack'[Len(stack)] = f
  <2>1. f.frame = Last(stack).frame
    BY DEF Top
  <2> DEFINE t == [stack EXCEPT ![Len(stack)] = f]
  <2>2. /\ SoundStack(t) /\ Len(t) = Len(stack) /\ t # <<>> /\ Last(t) = f
        /\ \A i \in 1..(Len(stack) - 1) : t[i] = stack[i]
        /\ t[Len(stack)] = f
    BY <1>1, <2>1, TopFacts
  <2>3. stack' = t
    OBVIOUS
  <2> HIDE DEF t
  <2> QED
    BY <2>2, <2>3
<1>3. DOMAIN stack = 1..Len(stack) /\ DOMAIN stack' = 1..Len(stack) /\ Len(stack) \in Nat
  BY <1>1, <1>2, StackShape DEF SoundStack
<1>4. \A i \in DOMAIN stack : i # Len(stack) => i \in 1..(Len(stack) - 1)
  BY <1>3
<1>5. ~IsWalkOfAll(stack[Len(stack)])
  BY TopShape
<1> QED
  BY <1>2, <1>3, <1>4, <1>5 DEF Lasting

(* A step that leaves the list alone.                                      *)
LEMMA QuietStep ==
  ASSUME LInv, Lasting, RestTyped, UNCHANGED <<list, postedEvents, alive, fate>>
  PROVE  LInv'
<1>1. Typing'
  BY DEF LInv, Typing, RestTyped, Lasting, SoundStack
<1>2. Nested(stack)' /\ SoundList(list)' /\ Books'
  BY DEF LInv, Lasting, SoundStack, Books
<1>3. HandledGone'
  BY DEF LInv, Lasting, HandledGone
<1>4. StartIsWalked'
  BY DEF LInv, Lasting, StartIsWalked
<1> QED
  BY <1>1, <1>2, <1>3, <1>4 DEF LInv

LEMMA UserFrame ==
  ASSUME LInv, stack = <<>> \/ (TopIs("handler") /\ Top.type = "normal"),
         NEW f, f.frame # "handler"
  PROVE  stack # <<>> => MayCall(Top, f)
  BY DEF TopIs, MayCall

(* Loops and the dispatcher: what changes is who is on top of the stack.   *)
LEMMA FramesFit ==
  /\ \A l \in Loops : LoopFrame(l) \in StackFrame /\ LoopFrame(l).frame = "loop"
  /\ \A w \in BOOLEAN : RoundFrame(w) \in StackFrame /\ RoundFrame(w).frame = "round"
  /\ \A r \in Receivers \cup {NoReceiver}, ty \in {"any", "delete"}, i \in Nat :
       WalkFrame(r, ty, i) \in StackFrame /\ WalkFrame(r, ty, i).frame = "walk"
  BY DEF LoopFrame, RoundFrame, WalkFrame, StackFrame, LoopFrames, RoundFrames, WalkFrames

LEMMA LoopsKeep ==
  ASSUME LInv
  PROVE  /\ \A l \in Loops : Exec(l) => LInv' /\ Lasting
         /\ ProcessEvents => LInv' /\ Lasting
         /\ CheckExit => LInv' /\ Lasting
         /\ HandlerReturns => LInv' /\ Lasting
<1> USE DEF LInv, Typing
<1>1. ASSUME NEW l \in Loops, Exec(l) PROVE LInv' /\ Lasting
  <2>1. Lasting
    <3>1. stack = <<>> \/ (TopIs("handler") /\ Top.type = "normal")
      BY <1>1 DEF Exec, InUserCode
    <3>2. LoopFrame(l) \in StackFrame /\ LoopFrame(l).frame # "handler" /\ stack' = Append(stack, LoopFrame(l))
      BY <1>1, FramesFit DEF Exec, Push
    <3>3. stack # <<>> => MayCall(Top, LoopFrame(l))
      BY <3>1, UserFrame DEF LoopFrame
    <3> HIDE DEF LInv
    <3> QED
      BY <3>2, <3>3, LastingPush
  <2>2. RestTyped /\ UNCHANGED <<list, postedEvents, alive, fate>>
    BY <1>1 DEF Exec, RestTyped, objects, dispatcher, history
  <2> HIDE DEF LInv
  <2> QED
    BY <2>1, <2>2, QuietStep
<1>2. ASSUME ProcessEvents PROVE LInv' /\ Lasting
  <2>1. Lasting
    <3>1. stack = <<>> \/ (TopIs("handler") /\ Top.type = "normal")
      BY <1>2 DEF ProcessEvents, InUserCode
    <3>2. /\ RoundFrame(FALSE) \in StackFrame /\ RoundFrame(FALSE).frame # "handler"
          /\ stack' = Append(stack, RoundFrame(FALSE))
      BY <1>2, FramesFit DEF ProcessEvents, Push
    <3>3. stack # <<>> => MayCall(Top, RoundFrame(FALSE))
      BY <3>1, UserFrame DEF RoundFrame
    <3> HIDE DEF LInv
    <3> QED
      BY <3>2, <3>3, LastingPush
  <2>2. RestTyped /\ UNCHANGED <<list, postedEvents, alive, fate>>
    BY <1>2 DEF ProcessEvents, RestTyped, objects, dispatcher, history
  <2> HIDE DEF LInv
  <2> QED
    BY <2>1, <2>2, QuietStep
<1>3. ASSUME CheckExit PROVE LInv' /\ Lasting
  <2>1. stack # <<>> /\ Top.frame = "loop"
    BY <1>3 DEF CheckExit, TopIs
  <2>2. Lasting
    <3>1. CASE stack' = Append(stack, RoundFrame(TRUE))
      <4>1. RoundFrame(TRUE) \in StackFrame /\ RoundFrame(TRUE).frame # "handler"
        BY FramesFit
      <4>2. MayCall(Top, RoundFrame(TRUE))
        BY <2>1 DEF MayCall, RoundFrame
      <4> HIDE DEF LInv
      <4> QED
        BY <3>1, <4>1, <4>2, LastingPush
    <3>2. CASE stack' = Front(stack)
      <4> HIDE DEF LInv
      <4> QED
        BY <2>1, <3>2, LastingPop DEF IsWalkOfAll
    <3> QED
      BY <1>3, <3>1, <3>2 DEF CheckExit, Push, Return
  <2>3. RestTyped /\ UNCHANGED <<list, postedEvents, alive, fate>>
    BY <1>3 DEF CheckExit, RestTyped, objects, dispatcher, history
  <2> HIDE DEF LInv
  <2> QED
    BY <2>2, <2>3, QuietStep
<1>4. ASSUME HandlerReturns PROVE LInv' /\ Lasting
  <2>1. stack # <<>> /\ Top.frame = "handler" /\ stack' = Front(stack)
    BY <1>4 DEF HandlerReturns, TopIs, Return
  <2>2. Lasting
    <3> HIDE DEF LInv
    <3> QED
      BY <2>1, LastingPop DEF IsWalkOfAll
  <2>3. RestTyped /\ UNCHANGED <<list, postedEvents, alive, fate>>
    <3>1. postedIn' \in [Events -> Events \cup {NoEvent}]
      BY <1>4 DEF HandlerReturns
    <3> QED
      BY <1>4, <3>1 DEF HandlerReturns, RestTyped, objects, dispatcher
  <2> HIDE DEF LInv
  <2> QED
    BY <2>2, <2>3, QuietStep
<1> QED
  BY <1>1, <1>2, <1>3, <1>4

LEMMA RoundTop ==
  ASSUME LInv, TopIs("round"), NEW f \in RoundFrames
  PROVE  /\ stack' = [stack EXCEPT ![Len(stack)] = f] =>
              Lasting /\ Last(stack') = f /\ Len(stack') = Len(stack) /\ stack' # <<>>
         /\ stack' = Front(stack) => Lasting
<1>1. stack # <<>> /\ Top.frame = "round" /\ ~IsWalkOfAll(Top)
  BY DEF TopIs, IsWalkOfAll
<1>2. f \in StackFrame /\ f.frame = "round"
  BY DEF StackFrame, RoundFrames
<1>3. ASSUME stack' = [stack EXCEPT ![Len(stack)] = f]
      PROVE  Lasting /\ Last(stack') = f /\ Len(stack') = Len(stack) /\ stack' # <<>>
  BY <1>1, <1>2, <1>3, LastingTop
<1>4. ASSUME stack' = Front(stack) PROVE Lasting
  BY <1>1, <1>4, LastingPop
<1> QED
  BY <1>3, <1>4

(* The frame of a round after a step of it.                                *)
LEMMA RoundToForm ==
  ASSUME LInv, TopIs("round"), NEW at \in {"start", "send", "sent", "decide", "poll", "check"}
  PROVE  /\ [Top EXCEPT !.at = at] \in RoundFrames
         /\ RoundTo(at) = [stack EXCEPT ![Len(stack)] = [Top EXCEPT !.at = at]]
         /\ [Top EXCEPT !.at = "decide", !.waits = @ /\ canWait] \in RoundFrames
         /\ [stack EXCEPT ![Len(stack)].at = "decide", ![Len(stack)].waits = @ /\ canWait]
              = [stack EXCEPT ![Len(stack)] = [Top EXCEPT !.at = "decide", !.waits = @ /\ canWait]]
<1>1. /\ Top \in StackFrame /\ Top.frame = "round" /\ Top = stack[Len(stack)]
      /\ Len(stack) \in DOMAIN stack
  BY TopShape DEF TopIs
<1>2. Top \in RoundFrames
  BY <1>1, FrameShape
<1>3. [Top EXCEPT !.at = at] \in RoundFrames
  BY <1>2 DEF RoundFrames
<1>4. [Top EXCEPT !.at = "decide", !.waits = @ /\ canWait] \in RoundFrames
  <2>1. Top.waits \in BOOLEAN /\ canWait \in BOOLEAN
    BY <1>2 DEF RoundFrames, LInv, Typing
  <2>2. (Top.waits /\ canWait) \in BOOLEAN
    BY <2>1
  <2> QED
    BY <1>2, <2>2 DEF RoundFrames
<1>5. RoundTo(at) = [stack EXCEPT ![Len(stack)] = [Top EXCEPT !.at = at]]
  BY <1>1 DEF RoundTo
<1>6. [stack EXCEPT ![Len(stack)].at = "decide", ![Len(stack)].waits = @ /\ canWait]
        = [stack EXCEPT ![Len(stack)] = [Top EXCEPT !.at = "decide", !.waits = @ /\ canWait]]
  BY <1>1
<1> QED
  BY <1>3, <1>4, <1>5, <1>6

LEMMA RoundsKeep ==
  ASSUME LInv, StartRound \/ ReadCanWait \/ ReadInterrupt \/ Poll \/ ResetWakeUps
  PROVE  LInv' /\ Lasting
<1>1. TopIs("round") /\ stack # <<>>
  BY DEF StartRound, ReadCanWait, ReadInterrupt, Poll, ResetWakeUps, RoundAt, TopIs
<1>2. \/ \E f \in RoundFrames : stack' = [stack EXCEPT ![Len(stack)] = f]
      \/ stack' = Front(stack)
  <2>1. CASE StartRound
    BY <1>1, <2>1, RoundToForm DEF StartRound
  <2>2. CASE ReadCanWait
    <3>1. /\ [Top EXCEPT !.at = "decide", !.waits = @ /\ canWait] \in RoundFrames
          /\ [stack EXCEPT ![Len(stack)].at = "decide", ![Len(stack)].waits = @ /\ canWait]
               = [stack EXCEPT ![Len(stack)] = [Top EXCEPT !.at = "decide", !.waits = @ /\ canWait]]
      BY <1>1, RoundToForm
    <3>2. stack' = [stack EXCEPT ![Len(stack)].at = "decide", ![Len(stack)].waits = @ /\ canWait]
      BY <2>2 DEF ReadCanWait
    <3> QED
      BY <3>1, <3>2
  <2>3. CASE ReadInterrupt
    BY <1>1, <2>3, RoundToForm DEF ReadInterrupt, Return
  <2>4. CASE Poll
    BY <1>1, <2>4, RoundToForm DEF Poll, Return
  <2>5. CASE ResetWakeUps
    BY <2>5 DEF ResetWakeUps, Return
  <2> QED
    BY <2>1, <2>2, <2>3, <2>4, <2>5
<1>3. Lasting
  <2>1. ASSUME NEW f \in RoundFrames, stack' = [stack EXCEPT ![Len(stack)] = f] PROVE Lasting
    BY <1>1, <2>1, RoundTop
  <2>2. ASSUME stack' = Front(stack) PROVE Lasting
    BY <1>1, <2>2, LastingPop DEF TopIs, IsWalkOfAll
  <2> QED
    BY <1>2, <2>1, <2>2
<1>4. RestTyped /\ UNCHANGED <<list, postedEvents, alive, fate>>
  BY DEF StartRound, ReadCanWait, ReadInterrupt, Poll, ResetWakeUps, RestTyped, LInv, Typing,
         objects, dispatcher, history
<1> QED
  BY <1>3, <1>4, QuietStep

LEMMA WakersKeep ==
  ASSUME LInv, (\E l \in Loops : Exit(l)) \/ (\E t \in Posters, l \in Loops : ExitFrom(t, l))
                 \/ (\E t \in Posters : InWakeUp(t))
  PROVE  LInv' /\ Lasting
<1>1. UNCHANGED <<list, postedEvents, alive, fate, stack>>
  BY DEF Exit, ExitFrom, InWakeUp, Interrupt, SetWakeUps, WritePipe, objects, history
<1>2. canWait' \in BOOLEAN /\ deleteLaterCalled' \subseteq Receivers
      /\ postedIn' \in [Events -> Events \cup {NoEvent}]
  BY DEF Exit, ExitFrom, InWakeUp, Interrupt, SetWakeUps, WritePipe, objects, history, LInv, Typing
<1>3. exit' \subseteq Loops
  BY DEF Exit, ExitFrom, InWakeUp, Interrupt, SetWakeUps, WritePipe, LInv, Typing
<1>4. poster' \in [Posters -> PosterStates]
  <2>1. ASSUME NEW t \in Posters, NEW p \in PosterStates
        PROVE  [poster EXCEPT ![t] = p] \in [Posters -> PosterStates]
    BY DEF LInv, Typing
  <2>2. {"idle", "interrupt", "wake", "write"} = PosterStates
    BY DEF PosterStates
  <2> QED
    BY <2>1, <2>2 DEF Exit, ExitFrom, InWakeUp, Interrupt, SetWakeUps, WritePipe, LInv, Typing
<1>5. interrupt' \in BOOLEAN /\ wakeUps' \in BOOLEAN /\ pipe' \in BOOLEAN
  BY DEF Exit, ExitFrom, InWakeUp, Interrupt, SetWakeUps, WritePipe, WakeUpSelf, dispatcher, LInv, Typing
<1> QED
  BY <1>1, <1>2, <1>3, <1>4, <1>5, LastingStack, QuietStep DEF RestTyped

-----------------------------------------------------------------------------
(* Posting.                                                                *)
LEMMA NewEntry ==
  ASSUME NEW r \in Receivers, NEW e \in Events, NEW ty \in Types,
         NEW p \in Priorities \cup {0}, NEW level \in Nat
  PROVE  LET x == [event |-> e, receiver |-> r, type |-> ty, priority |-> p, level |-> level] IN
         x \in Entry /\ x.event = e /\ x.receiver = r /\ x.event # NoEvent /\ x.receiver # NoReceiver
<1>1. e # NoEvent /\ r # NoReceiver
  BY EventLoopAssumption
<1> QED
  BY <1>1 DEF Entry

(* postEvent() enters one event into the books.                            *)
(* An entry that postEvent() has put into the list.                        *)
NewEntryFor(x, e, ty, level) == x.event = e /\ x.level = level /\ x.type = ty

LEMMA PostedFacts ==
  ASSUME LInv, NEW r \in Receivers, NEW e \in Events, NEW ty \in Types,
         NEW p \in Priorities \cup {0}, NEW level \in Nat, AddPosted(r, e, ty, p, level)
  PROVE  /\ SoundList(list') /\ Books' /\ fate' \in [Events -> Fates]
         /\ postedEvents' \in [Receivers -> Nat]
         /\ canWait' \in BOOLEAN /\ deleteLaterCalled' \subseteq Receivers /\ alive' = alive
         /\ \A d \in Events : fate[d] = "gone" => fate'[d] = "gone"
         /\ list'.startOffset = list.startOffset
         /\ \/ list' = list /\ canWait' = canWait
            \/ canWait' = FALSE /\ list' # list
         /\ \A y \in Live(list') : y \in Live(list) \/ NewEntryFor(y, e, ty, level)
         /\ \A y \in Live(list) : y.event # e
<1> DEFINE x == [event |-> e, receiver |-> r, type |-> ty, priority |-> p, level |-> level]
<1>1. /\ SoundList(list) /\ fate \in [Events -> Fates] /\ postedEvents \in [Receivers -> Nat]
      /\ Books /\ canWait \in BOOLEAN /\ deleteLaterCalled \subseteq Receivers
      /\ fate[e] = "new" /\ r \in alive /\ alive' = alive
  BY DEF LInv, Typing, AddPosted
<1>2. \A y \in Live(list) : y.event # e
  BY <1>1 DEF Books
<1>3. CASE ty = "delete" /\ postedEvents[r] > 0 /\ r \in deleteLaterCalled
  <2>1. fate' = [fate EXCEPT ![e] = "gone"] /\ UNCHANGED <<list, canWait, postedEvents, deleteLaterCalled>>
    BY <1>3 DEF AddPosted
  <2>2. fate' \in [Events -> Fates]
    BY <1>1, <2>1 DEF Fates
  <2>3. Books'
    BY <1>1, <1>2, <2>1 DEF Books
  <2>4. \A d \in Events : fate[d] = "gone" => fate'[d] = "gone"
    BY <1>1, <2>1
  <2> QED
    BY <1>1, <1>2, <2>1, <2>2, <2>3, <2>4
<1>4. CASE ~(ty = "delete" /\ postedEvents[r] > 0 /\ r \in deleteLaterCalled)
  <2>1. /\ fate' = [fate EXCEPT ![e] = "posted"]
        /\ list' = AddEvent(list, x)
        /\ canWait' = FALSE
        /\ postedEvents' = [postedEvents EXCEPT ![r] = @ + 1]
        /\ deleteLaterCalled' = IF ty = "delete" THEN deleteLaterCalled \cup {r} ELSE deleteLaterCalled
    BY <1>4 DEF AddPosted
  <2>2. /\ x \in Entry /\ x.event = e /\ x.receiver = r /\ x.event # NoEvent /\ x.receiver # NoReceiver
        /\ x.level = level /\ x.type = ty
    BY NewEntry
  <2> HIDE DEF x
  <2>3. /\ SoundList(list') /\ Live(list') = Live(list) \cup {x}
        /\ list'.startOffset = list.startOffset /\ list' # list
    BY <1>1, <1>2, <2>1, <2>2, AddEventFacts
  <2>4. fate' \in [Events -> Fates] /\ \A d \in Events : fate[d] = "gone" => fate'[d] = "gone"
    BY <1>1, <2>1 DEF Fates
  <2>5. postedEvents' \in [Receivers -> Nat]
    BY <1>1, <2>1
  <2>6. Books'
    <3>1. ASSUME NEW q \in Receivers
          PROVE  IsFiniteSet(For(q, list')) /\ postedEvents'[q] = Cardinality(For(q, list'))
      <4>1. IsFiniteSet(For(q, list)) /\ postedEvents[q] = Cardinality(For(q, list))
        BY <1>1 DEF Books
      <4>2. CASE q = r
        <5>1. For(q, list') = For(q, list) \cup {x} /\ x \notin For(q, list)
          BY <1>2, <2>2, <2>3, <4>2 DEF For
        <5>2. postedEvents'[q] = postedEvents[q] + 1
          BY <1>1, <2>1, <4>2
        <5> QED
          BY <4>1, <5>1, <5>2, FS_AddElement
      <4>3. CASE q # r
        <5>1. For(q, list') = For(q, list)
          BY <2>2, <2>3, <4>3 DEF For
        <5>2. postedEvents'[q] = postedEvents[q]
          BY <1>1, <2>1, <4>3
        <5> QED
          BY <4>1, <5>1, <5>2
      <4> QED
        BY <4>2, <4>3
    <3>2. ASSUME NEW d \in Events
          PROVE  fate'[d] = "posted" <=> \E y \in Live(list') : y.event = d
      BY <1>1, <1>2, <2>1, <2>2, <2>3 DEF Books
    <3>3. \A q \in Receivers \ alive : For(q, list') = {}
      <4>1. \A q \in Receivers \ alive : q # r /\ For(q, list) = {}
        BY <1>1 DEF Books
      <4> QED
        BY <2>2, <2>3, <4>1 DEF For
    <3> QED
      BY <1>1, <3>1, <3>2, <3>3 DEF Books
  <2> QED
    BY <1>1, <1>2, <2>1, <2>2, <2>3, <2>4, <2>5, <2>6 DEF NewEntryFor
<1> QED
  BY <1>3, <1>4

LEMMA LevelIsNumber ==
  ASSUME LInv
  PROVE  /\ \A k : IsFiniteSet(Frames(k)) /\ Cardinality(Frames(k)) \in Nat
         /\ loopLevel \in Nat /\ scopeLevel \in Nat /\ recursion \in Nat /\ PostLevel \in Nat
<1>1. stack \in Seq(StackFrame)
  BY DEF LInv, Typing
<1>2. DOMAIN stack = 1..Len(stack) /\ Len(stack) \in Nat
  BY <1>1, StackShape
<1>3. IsFiniteSet(1..Len(stack))
  BY <1>2, FS_Interval
<1>4. ASSUME NEW k PROVE IsFiniteSet(Frames(k)) /\ Cardinality(Frames(k)) \in Nat
  <2>1. Frames(k) \in SUBSET (1..Len(stack))
    BY <1>2 DEF Frames
  <2>2. IsFiniteSet(Frames(k))
    BY <1>3, <2>1, FS_Subset
  <2> QED
    BY <2>2, FS_CardinalityType
<1>5. loopLevel \in Nat /\ scopeLevel \in Nat /\ recursion \in Nat
  BY <1>4 DEF loopLevel, scopeLevel, recursion
<1> QED
  BY <1>4, <1>5 DEF PostLevel

(* The callers of postEvent() and deleteLater().                           *)
LEMMA PostsKeep ==
  ASSUME LInv, NEW r \in Receivers, NEW e \in Events, NEW ty \in Types, NEW p \in Priorities \cup {0}
  PROVE  /\ Post(r, e, ty, p) => LInv' /\ Lasting
         /\ \A t \in Posters : PostFrom(t, r, e, ty, p) => LInv' /\ Lasting
<1>1. ASSUME NEW level \in Nat, AddPosted(r, e, ty, p, level), UNCHANGED stack, exit' = exit,
             interrupt' \in BOOLEAN, wakeUps' \in BOOLEAN, pipe' \in BOOLEAN,
             poster' \in [Posters -> PosterStates], postedIn' \in [Events -> Events \cup {NoEvent}]
      PROVE  LInv' /\ Lasting
  <2>1. /\ SoundList(list') /\ Books' /\ fate' \in [Events -> Fates]
        /\ postedEvents' \in [Receivers -> Nat]
        /\ canWait' \in BOOLEAN /\ deleteLaterCalled' \subseteq Receivers /\ alive' = alive
        /\ \A d \in Events : fate[d] = "gone" => fate'[d] = "gone"
        /\ list'.startOffset = list.startOffset
    BY <1>1, PostedFacts
  <2>2. Typing'
    BY <1>1, <2>1 DEF LInv, Typing, SoundList
  <2>3. HandledGone'
    <3>1. \A i \in DOMAIN stack : stack[i].frame = "handler" => stack[i].event \in Events
      <4>1. stack \in Seq(StackFrame)
        BY DEF LInv, Typing
      <4> QED
        BY <4>1, StackShape, FrameShape
    <3> QED
      BY <1>1, <2>1, <3>1 DEF LInv, HandledGone
  <2>4. Nested(stack)' /\ StartIsWalked'
    BY <1>1, <2>1 DEF LInv, StartIsWalked
  <2> QED
    BY <1>1, <2>1, <2>2, <2>3, <2>4, LastingStack DEF LInv
<1>2. ASSUME Post(r, e, ty, p) PROVE LInv' /\ Lasting
  <2>1. (IF ty = "normal" THEN 0 ELSE PostLevel) \in Nat
    BY LevelIsNumber
  <2>2. /\ AddPosted(r, e, ty, p, IF ty = "normal" THEN 0 ELSE PostLevel)
        /\ UNCHANGED stack /\ exit' = exit /\ interrupt' = interrupt /\ poster' = poster
    BY <1>2 DEF Post
  <2>3. wakeUps' \in BOOLEAN /\ pipe' \in BOOLEAN
    BY <1>2 DEF Post, WakeUpSelf, LInv, Typing
  <2>4. postedIn' \in [Events -> Events \cup {NoEvent}]
    <3>1. (IF ty = "delete" /\ stack # <<>> THEN Top.event ELSE NoEvent) \in Events \cup {NoEvent}
      <4>1. stack # <<>> => Top.frame = "handler"
        BY <1>2 DEF Post, InUserCode, TopIs
      <4>2. stack # <<>> => Top.event \in Events
        BY <4>1, TopShape, FrameShape
      <4> QED
        BY <4>2
    <3>2. postedIn' = [postedIn EXCEPT ![e] = IF ty = "delete" /\ stack # <<>> THEN Top.event ELSE NoEvent]
      BY <1>2 DEF Post
    <3> QED
      BY <3>1, <3>2 DEF LInv, Typing
  <2> QED
    BY <1>1, <2>1, <2>2, <2>3, <2>4 DEF LInv, Typing
<1>3. ASSUME NEW t \in Posters, PostFrom(t, r, e, ty, p) PROVE LInv' /\ Lasting
  <2>1. /\ AddPosted(r, e, ty, p, 0) /\ UNCHANGED <<stack, exit, interrupt, wakeUps, pipe, postedIn>>
        /\ poster' = [poster EXCEPT ![t] = IF Added THEN "wake" ELSE "idle"]
    BY <1>3 DEF PostFrom, dispatcher
  <2>2. poster' \in [Posters -> PosterStates]
    <3>1. (IF Added THEN "wake" ELSE "idle") \in PosterStates
      BY DEF PosterStates
    <3> QED
      BY <2>1, <3>1 DEF LInv, Typing
  <2> QED
    BY <1>1, <2>1, <2>2 DEF LInv, Typing
<1> QED
  BY <1>2, <1>3

-----------------------------------------------------------------------------
(* Removing. Somebody walks the list when startOffset is not 0.            *)
LEMMA RemovedFacts ==
  ASSUME LInv, NEW r \in Receivers, NEW walked \in BOOLEAN, RemoveAll(r, walked),
         ~walked => list.startOffset = 0
  PROVE  /\ SoundList(list') /\ fate' \in [Events -> Fates]
         /\ postedEvents' \in [Receivers -> Nat]
         /\ list'.startOffset = list.startOffset /\ list'.insertionOffset = list.insertionOffset
         /\ \A d \in Events : fate[d] = "gone" => fate'[d] = "gone"
         /\ Live(list') \subseteq Live(list) /\ For(r, list') = {}
         /\ \A q \in Receivers : /\ IsFiniteSet(For(q, list'))
                                 /\ postedEvents'[q] = Cardinality(For(q, list'))
         /\ \A e \in Events : fate'[e] = "posted" <=> \E x \in Live(list') : x.event = e
         /\ walked => Size(list') = Size(list)
                        /\ \A i \in 1..Size(list') : list'.entries[i].event # NoEvent
                                                       => list'.entries[i] = list.entries[i]
<1>1. /\ SoundList(list) /\ fate \in [Events -> Fates] /\ postedEvents \in [Receivers -> Nat]
      /\ Books /\ list \in List /\ Once(list)
  BY DEF LInv, Typing, SoundList
<1>2. CASE postedEvents[r] = 0
  <2>1. UNCHANGED <<list, postedEvents, fate>>
    BY <1>2 DEF RemoveAll
  <2>2. For(r, list) = {}
    <3>1. IsFiniteSet(For(r, list)) /\ Cardinality(For(r, list)) = 0
      BY <1>1, <1>2 DEF Books
    <3> QED
      BY <3>1, FS_EmptySet
  <2> QED
    BY <1>1, <2>1, <2>2 DEF Books
<1>3. CASE postedEvents[r] # 0
  <2>1. /\ list' = RemoveEvents(list, r, walked) /\ fate' = Gone(r)
        /\ postedEvents' = [postedEvents EXCEPT ![r] = 0]
    BY <1>3 DEF RemoveAll
  <2>2. r # NoReceiver
    BY EventLoopAssumption
  <2>3. /\ SoundList(list') /\ Live(list') = {x \in Live(list) : x.receiver # r}
        /\ list'.startOffset = list.startOffset /\ list'.insertionOffset = list.insertionOffset
        /\ walked => Size(list') = Size(list)
                       /\ \A i \in 1..Size(list') : list'.entries[i].event # NoEvent
                                                      => list'.entries[i] = list.entries[i]
    <3> DEFINE m == RemoveEvents(list, r, walked)
               w == RemoveEvents(list, r, TRUE)
    <3>1. /\ SoundList(m) /\ Live(m) = {x \in Live(list) : x.receiver # r}
          /\ m.startOffset = list.startOffset /\ m.insertionOffset = list.insertionOffset
      BY <1>1, <2>2, RemoveFacts
    <3>2. Size(w) = Size(list) /\ \A i \in 1..Size(w) : w.entries[i].event # NoEvent
                                                        => w.entries[i] = list.entries[i]
      BY <1>1, RemoveWalked
    <3>3. list' = m /\ (walked => m = w)
      BY <2>1
    <3> HIDE DEF m, w
    <3> QED
      BY <3>1, <3>2, <3>3
  <2>4. /\ fate' \in [Events -> Fates]
        /\ \A d \in Events : fate'[d] = "gone" \/ fate'[d] = fate[d]
    BY <1>1, <2>1 DEF Gone, Fates
  <2>5. postedEvents' \in [Receivers -> Nat]
    BY <1>1, <2>1
  <2>6. ASSUME NEW q \in Receivers
        PROVE  IsFiniteSet(For(q, list')) /\ postedEvents'[q] = Cardinality(For(q, list'))
    <3>1. IsFiniteSet(For(q, list)) /\ postedEvents[q] = Cardinality(For(q, list))
      BY <1>1 DEF Books
    <3>2. CASE q = r
      <4>1. For(q, list') = {} /\ postedEvents'[q] = 0
        BY <1>1, <2>1, <2>3, <3>2 DEF For
      <4> QED
        BY <4>1, FS_EmptySet
    <3>3. CASE q # r
      <4>1. For(q, list') = For(q, list) /\ postedEvents'[q] = postedEvents[q]
        BY <1>1, <2>1, <2>3, <3>3 DEF For
      <4> QED
        BY <3>1, <4>1
    <3> QED
      BY <3>2, <3>3
  <2>7. ASSUME NEW e \in Events
        PROVE  fate'[e] = "posted" <=> \E x \in Live(list') : x.event = e
    <3> DEFINE hit == \E i \in 1..Size(list) : list.entries[i].event = e /\ list.entries[i].receiver = r
    <3>1. fate'[e] = IF hit THEN "gone" ELSE fate[e]
      BY <2>1 DEF Gone
    <3>2. ASSUME hit, NEW x \in Live(list), x.event = e PROVE x.receiver = r
      <4>1. PICK i \in 1..Size(list) : list.entries[i].event = e /\ list.entries[i].receiver = r
        BY <3>2
      <4>2. PICK j \in 1..Size(list) : list.entries[j] = x /\ x.event # NoEvent
        BY <1>1, LivePlaces
      <4>3. i = j
        BY <1>1, <3>2, <4>1, <4>2 DEF Once
      <4> QED
        BY <4>1, <4>2, <4>3
    <3>3. ASSUME NEW x \in Live(list), x.event = e, x.receiver = r PROVE hit
      BY <1>1, <3>3, LivePlaces
    <3> HIDE DEF hit
    <3>4. CASE hit
      BY <2>3, <3>1, <3>2, <3>4
    <3>5. CASE ~hit
      BY <1>1, <2>3, <3>1, <3>3, <3>5 DEF Books
    <3> QED
      BY <3>4, <3>5
  <2>8. Live(list') \subseteq Live(list) /\ For(r, list') = {}
    BY <2>3 DEF For
  <2> QED
    BY <2>3, <2>4, <2>5, <2>6, <2>7, <2>8
<1> QED
  BY <1>2, <1>3

(* A handler's event is an event.                                          *)
LEMMA HandledEvents ==
  ASSUME LInv
  PROVE  \A i \in DOMAIN stack : stack[i].frame = "handler" => stack[i].event \in Events
<1>1. stack \in Seq(StackFrame)
  BY DEF LInv, Typing
<1> QED
  BY <1>1, StackShape, FrameShape

(* A step that changes the list and leaves the stack with what it has.     *)
LEMMA ListStep ==
  ASSUME LInv, Lasting, RestTyped, SoundList(list'), Books',
         alive' \subseteq Receivers, fate' \in [Events -> Fates],
         postedEvents' \in [Receivers -> Nat], list'.startOffset = list.startOffset,
         \A d \in Events : fate[d] = "gone" => fate'[d] = "gone"
  PROVE  LInv'
<1>1. Typing'
  BY DEF LInv, Typing, RestTyped, Lasting, SoundStack, SoundList
<1>2. HandledGone'
  BY HandledEvents DEF LInv, Lasting, HandledGone
<1>3. StartIsWalked'
  BY DEF LInv, Lasting, StartIsWalked
<1> QED
  BY <1>1, <1>2, <1>3 DEF LInv, Lasting, SoundStack

(* Entries are taken out only when nobody walks the list.                  *)
LEMMA WalkedOrNot ==
  ASSUME LInv, NEW r, RemovePostedEvents(r)
  PROVE  \E walked \in BOOLEAN :
           /\ RemoveAll(r, walked)
           /\ ~walked => list.startOffset = 0 /\ \A i \in DOMAIN stack : stack[i].frame # "walk"
<1>1. CASE RemoveAll(r, TRUE)
  BY <1>1
<1>2. CASE RemoveAll(r, recursion > 0)
  <2>1. ASSUME ~(recursion > 0)
        PROVE  list.startOffset = 0 /\ \A i \in DOMAIN stack : stack[i].frame # "walk"
    <3>1. Frames("walk") = {}
      <4>1. IsFiniteSet(Frames("walk")) /\ Cardinality(Frames("walk")) = 0
        BY <2>1, LevelIsNumber DEF recursion
      <4> QED
        BY <4>1, FS_EmptySet
    <3>2. \A i \in DOMAIN stack : stack[i].frame # "walk"
      BY <3>1 DEF Frames
    <3>3. ~(list.startOffset > 0)
      BY <3>2 DEF LInv, StartIsWalked, IsWalkOfAll
    <3>4. list.startOffset \in Nat
      BY ListShape DEF LInv, Typing
    <3> QED
      BY <3>2, <3>3, <3>4
  <2>2. (recursion > 0) \in BOOLEAN
    OBVIOUS
  <2> QED
    BY <1>2, <2>1, <2>2
<1> QED
  BY <1>1, <1>2 DEF RemovePostedEvents

LEMMA RemovesKeep ==
  ASSUME LInv
  PROVE  /\ \A r \in Receivers : RemovePostedEvents(r) => LInv' /\ Lasting
         /\ DeleteReceiver => LInv' /\ Lasting
<1>1. ASSUME NEW r \in Receivers, NEW walked \in BOOLEAN, RemoveAll(r, walked),
             ~walked => list.startOffset = 0,
             Lasting, RestTyped, alive' \subseteq alive, alive \subseteq alive' \cup {r}
      PROVE  LInv'
  <2>1. /\ SoundList(list') /\ fate' \in [Events -> Fates]
        /\ postedEvents' \in [Receivers -> Nat]
        /\ list'.startOffset = list.startOffset
        /\ \A d \in Events : fate[d] = "gone" => fate'[d] = "gone"
        /\ Live(list') \subseteq Live(list) /\ For(r, list') = {}
        /\ \A q \in Receivers : /\ IsFiniteSet(For(q, list'))
                                /\ postedEvents'[q] = Cardinality(For(q, list'))
        /\ \A e \in Events : fate'[e] = "posted" <=> \E x \in Live(list') : x.event = e
    BY <1>1, RemovedFacts
  <2>2. \A q \in Receivers \ alive' : For(q, list') = {}
    <3>1. \A q \in Receivers \ alive' : q = r \/ For(q, list) = {}
      BY <1>1 DEF LInv, Books
    <3>2. \A q : For(q, list') \subseteq For(q, list)
      BY <2>1 DEF For
    <3>3. ASSUME NEW q \in Receivers \ alive' PROVE For(q, list') = {}
      <4>1. CASE q = r
        BY <2>1, <4>1
      <4>2. CASE q # r
        <5>1. For(q, list) = {} /\ For(q, list') \subseteq For(q, list)
          BY <3>1, <3>2, <4>2
        <5> QED
          BY <5>1
      <4> QED
        BY <4>1, <4>2
    <3> QED
      BY <3>3
  <2>3. Books'
    BY <2>1, <2>2 DEF Books
  <2>4. alive' \subseteq Receivers
    BY <1>1 DEF LInv, Typing
  <2> QED
    BY <1>1, <2>1, <2>3, <2>4, ListStep
<1>2. ASSUME NEW r \in Receivers, RemovePostedEvents(r) PROVE LInv' /\ Lasting
  <2>1. \E walked \in BOOLEAN : RemoveAll(r, walked) /\ (~walked => list.startOffset = 0)
    BY <1>2, WalkedOrNot
  <2>2. RestTyped /\ UNCHANGED <<alive, stack>>
    BY <1>2 DEF RemovePostedEvents, RestTyped, LInv, Typing, dispatcher
  <2>3. Lasting
    BY <2>2, LastingStack
  <2> QED
    BY <1>1, <2>1, <2>2, <2>3
<1>3. ASSUME DeleteReceiver PROVE LInv' /\ Lasting
  <2> DEFINE r == Top.receiver
  <2>1. /\ stack # <<>> /\ Top.frame = "handler" /\ stack' = Front(stack)
        /\ RemoveAll(r, TRUE) /\ alive' = alive \ {r}
    BY <1>3 DEF DeleteReceiver, TopIs, Return
  <2>2. r \in Receivers
    BY <2>1, TopShape, FrameShape
  <2>3. RestTyped
    BY <1>3 DEF DeleteReceiver, RestTyped, LInv, Typing, dispatcher
  <2>4. Lasting
    BY <2>1, LastingPop DEF IsWalkOfAll
  <2> HIDE DEF r
  <2> QED
    BY <1>1, <2>1, <2>2, <2>3, <2>4
<1> QED
  BY <1>2, <1>3

-----------------------------------------------------------------------------
(* sendPostedEvents() begins.                                              *)
LEMMA BegunFacts ==
  ASSUME LInv, NEW below, NEW r, NEW ty, BeginWalk(below, r, ty)
  PROVE  /\ SoundList(list') /\ Live(list') = Live(list) /\ list'.entries = list.entries
         /\ Size(list') = Size(list) /\ list'.startOffset = list.startOffset
         /\ canWait' \in BOOLEAN
         /\ \/ stack' = below /\ list' = list /\ canWait' = (Size(list) = 0)
               /\ (Size(list) = 0 \/ (r # NoReceiver /\ postedEvents[r] = 0))
            \/ /\ stack' = Append(below, WalkFrame(r, ty, list.startOffset))
               /\ canWait' = TRUE /\ list'.insertionOffset = Size(list)
<1>1. SoundList(list)
  BY DEF LInv
<1>2. CASE Size(list) = 0 \/ (r # NoReceiver /\ postedEvents[r] = 0)
  BY <1>1, <1>2 DEF BeginWalk
<1>3. CASE ~(Size(list) = 0 \/ (r # NoReceiver /\ postedEvents[r] = 0))
  <2>1. /\ canWait' = TRUE
        /\ list' = [list EXCEPT !.insertionOffset = Size(list)]
        /\ stack' = Append(below, WalkFrame(r, ty, list.startOffset))
    BY <1>3 DEF BeginWalk
  <2> DEFINE m == [list EXCEPT !.insertionOffset = Size(list)]
  <2>2. /\ SoundList(m) /\ Live(m) = Live(list) /\ m.entries = list.entries
        /\ m.startOffset = list.startOffset /\ m.insertionOffset = Size(list) /\ Size(m) = Size(list)
    BY <1>1, BeginFacts
  <2>3. list' = m
    BY <2>1
  <2> HIDE DEF m
  <2> QED
    BY <2>1, <2>2, <2>3
<1> QED
  BY <1>2, <1>3

LEMMA SameBooks ==
  ASSUME LInv, Live(list') = Live(list), UNCHANGED <<postedEvents, fate, alive>>
  PROVE  Books'
<1>1. \A q : For(q, list') = For(q, list)
  BY DEF For
<1> QED
  BY <1>1 DEF LInv, Books

LEMMA BelowTop ==
  \A n \in Nat : /\ \A k \in 1..n : k # n => k \in 1..(n - 1)
                 /\ \A k \in 1..(n + 1) : k # n + 1 => k \in 1..n
                 /\ \A k \in 1..(n - 1) : k \in 1..n /\ k \in 1..(n + 1) /\ k # n /\ k # n + 1
  OBVIOUS

(* The round on top goes on and calls sendPostedEvents().                  *)
LEMMA SendAllStack ==
  ASSUME LInv, SendAll
  PROVE  /\ Lasting /\ stack # <<>> /\ Top.frame = "round"
         /\ \A i \in 1..(Len(stack) - 1) : stack'[i] = stack[i]
         /\ stack'[Len(stack)] = [Top EXCEPT !.at = "sent"]
         /\ \/ Len(stack') = Len(stack) /\ stack' # <<>> /\ Last(stack') = [Top EXCEPT !.at = "sent"]
               /\ list' = list /\ Size(list) = 0
            \/ /\ Len(stack') = Len(stack) + 1
               /\ Last(stack') = WalkFrame(NoReceiver, "any", list.startOffset)
               /\ stack'[Len(stack) + 1] = WalkFrame(NoReceiver, "any", list.startOffset)
               /\ list'.insertionOffset = Size(list)
<1> DEFINE f == [Top EXCEPT !.at = "sent"]
           t == [stack EXCEPT ![Len(stack)] = f]
           w == WalkFrame(NoReceiver, "any", list.startOffset)
<1>1. TopIs("round") /\ stack # <<>> /\ Top.frame = "round" /\ BeginWalk(RoundTo("sent"), NoReceiver, "any")
  BY DEF SendAll, RoundAt, TopIs
<1>2. f \in RoundFrames /\ RoundTo("sent") = t
  BY <1>1, RoundToForm
<1>3. f \in StackFrame /\ f.frame = "round" /\ f.at = "sent"
  <2>1. f.frame = "round" /\ f \in StackFrame
    BY <1>2 DEF RoundFrames, StackFrame
  <2>2. Top \in RoundFrames
    BY <1>1, TopShape, FrameShape
  <2> QED
    BY <2>1, <2>2 DEF RoundFrames
<1>4. /\ SoundStack(stack) /\ stack \in Seq(StackFrame) /\ DOMAIN stack = 1..Len(stack)
      /\ Len(stack) \in Nat /\ Len(stack) \in 1..Len(stack) /\ Top = stack[Len(stack)]
  BY <1>1, StackIsSound, TopShape DEF SoundStack
<1> HIDE DEF f
<1>5. /\ SoundStack(t) /\ Len(t) = Len(stack) /\ t # <<>> /\ Last(t) = f
      /\ \A i \in 1..(Len(stack) - 1) : t[i] = stack[i]
      /\ t[Len(stack)] = f
  <2>1. f.frame = Last(stack).frame
    BY <1>1, <1>3 DEF Top
  <2> QED
    BY <1>1, <1>3, <1>4, <2>1, TopFacts
<1> HIDE DEF t
<1>6. w \in StackFrame /\ w.frame = "walk"
  <2>1. list.startOffset \in Nat
    BY ListShape DEF LInv, Typing
  <2> QED
    BY <2>1, FramesFit
<1> HIDE DEF w
<1>7. \/ stack' = t /\ list' = list /\ Size(list) = 0
      \/ stack' = Append(t, w) /\ list'.insertionOffset = Size(list)
  BY <1>1, <1>2, BegunFacts DEF w
<1>8. /\ SoundStack(stack')
      /\ \A i \in 1..(Len(stack) - 1) : stack'[i] = stack[i]
      /\ stack'[Len(stack)] = f
      /\ \/ Len(stack') = Len(stack) /\ stack' # <<>> /\ Last(stack') = f
            /\ list' = list /\ Size(list) = 0
         \/ /\ Len(stack') = Len(stack) + 1 /\ Last(stack') = w /\ stack'[Len(stack) + 1] = w
            /\ list'.insertionOffset = Size(list)
  <2>1. CASE stack' = t /\ list' = list /\ Size(list) = 0
    BY <1>5, <2>1
  <2>2. CASE stack' = Append(t, w) /\ list'.insertionOffset = Size(list)
    <3>1. MayCall(Last(t), w)
      BY <1>3, <1>5, <1>6 DEF MayCall
    <3> DEFINE u == Append(t, w)
    <3>2. /\ SoundStack(u) /\ Len(u) = Len(t) + 1 /\ Last(u) = w
          /\ \A i \in 1..Len(t) : u[i] = t[i]
          /\ u[Len(t) + 1] = w
      BY <1>5, <1>6, <3>1, PushFacts
    <3>3. stack' = u
      BY <2>2
    <3> HIDE DEF u
    <3>4. \A i \in 1..(Len(stack) - 1) : i \in 1..Len(t)
      BY <1>4, <1>5
    <3> QED
      BY <1>4, <1>5, <2>2, <3>2, <3>3, <3>4
  <2> QED
    BY <1>7, <2>1, <2>2
<1>9. DOMAIN stack' = 1..Len(stack')
  BY <1>8, StackShape DEF SoundStack
<1>10. ASSUME NEW i \in DOMAIN stack', stack'[i].frame = "handler"
       PROVE  \E j \in DOMAIN stack : stack[j] = stack'[i]
  <2>1. i # Len(stack) + 1 \/ Len(stack') = Len(stack)
    BY <1>6, <1>8, <1>10
  <2>2. i # Len(stack)
    BY <1>3, <1>8, <1>10
  <2>3. i \in 1..(Len(stack) - 1)
    <3>1. i \in 1..Len(stack) \/ (i \in 1..(Len(stack) + 1) /\ i # Len(stack) + 1)
      BY <1>8, <1>9, <2>1
    <3> QED
      BY <1>4, <2>2, <3>1, BelowTop
  <2> QED
    BY <1>4, <1>8, <2>3, BelowTop
<1>11. ASSUME NEW i \in DOMAIN stack, IsWalkOfAll(stack[i])
       PROVE  \E j \in DOMAIN stack' : stack'[j] = stack[i]
  <2>1. i # Len(stack)
    BY <1>1, <1>4, <1>11 DEF IsWalkOfAll
  <2>2. i \in 1..(Len(stack) - 1) /\ i \in DOMAIN stack'
    <3>1. i \in 1..(Len(stack) - 1)
      BY <1>4, <2>1, BelowTop
    <3> QED
      BY <1>4, <1>8, <1>9, <3>1, BelowTop
  <2> QED
    BY <1>8, <2>2
<1> QED
  BY <1>1, <1>8, <1>10, <1>11 DEF Lasting, f, w

LEMMA SendsKeep ==
  ASSUME LInv
  PROVE  /\ \A r \in Receivers \cup {NoReceiver}, ty \in {"any", "delete"} :
              SendPostedEvents(r, ty) => LInv' /\ Lasting
         /\ SendAll => LInv' /\ Lasting
<1>1. ASSUME NEW below, NEW r, NEW ty, BeginWalk(below, r, ty), Lasting,
             UNCHANGED <<objects, exit, dispatcher, poster, history>>
      PROVE  LInv'
  <2>1. /\ SoundList(list') /\ Live(list') = Live(list) /\ list'.startOffset = list.startOffset
        /\ canWait' \in BOOLEAN
    BY <1>1, BegunFacts
  <2>2. RestTyped /\ UNCHANGED <<postedEvents, fate, alive>>
    BY <1>1, <2>1 DEF RestTyped, LInv, Typing, objects, dispatcher, history
  <2>3. Books'
    BY <2>1, <2>2, SameBooks
  <2>4. /\ alive' \subseteq Receivers /\ fate' \in [Events -> Fates]
        /\ postedEvents' \in [Receivers -> Nat]
        /\ \A d \in Events : fate[d] = "gone" => fate'[d] = "gone"
    BY <2>2 DEF LInv, Typing
  <2> QED
    BY <1>1, <2>1, <2>2, <2>3, <2>4, ListStep
<1>2. ASSUME NEW r \in Receivers \cup {NoReceiver}, NEW ty \in {"any", "delete"},
             SendPostedEvents(r, ty)
      PROVE  LInv' /\ Lasting
  <2> DEFINE w == WalkFrame(r, ty, list.startOffset)
  <2>1. BeginWalk(stack, r, ty) /\ UNCHANGED <<objects, exit, dispatcher, poster, history>>
    BY <1>2 DEF SendPostedEvents
  <2>2. stack' = stack \/ stack' = Append(stack, w)
    BY <2>1, BegunFacts
  <2>3. w \in StackFrame /\ w.frame # "handler"
    <3>1. list.startOffset \in Nat
      BY ListShape DEF LInv, Typing
    <3> QED
      BY <3>1, FramesFit
  <2>4. stack # <<>> => MayCall(Top, w)
    <3>1. stack = <<>> \/ (TopIs("handler") /\ Top.type = "normal")
      BY <1>2 DEF SendPostedEvents, InUserCode
    <3> HIDE DEF w
    <3> QED
      BY <2>3, <3>1, UserFrame
  <2> HIDE DEF w
  <2>5. Lasting
    BY <2>2, <2>3, <2>4, LastingStack, LastingPush
  <2> QED
    BY <1>1, <2>1, <2>5
<1>3. ASSUME SendAll PROVE LInv' /\ Lasting
  <2>1. BeginWalk(RoundTo("sent"), NoReceiver, "any") /\ UNCHANGED <<objects, exit, dispatcher, poster, history>>
    BY <1>3 DEF SendAll
  <2>2. Lasting
    BY <1>3, SendAllStack
  <2> QED
    BY <1>1, <2>1, <2>2
<1> QED
  BY <1>2, <1>3

-----------------------------------------------------------------------------
(* The steps of a walk.                                                    *)
LEMMA WalkTop ==
  ASSUME LInv, TopIs("walk")
  PROVE  /\ stack # <<>> /\ Top.frame = "walk" /\ Top \in WalkFrames /\ Top = stack[Len(stack)]
         /\ Len(stack) \in 1..Len(stack) /\ Len(stack) \in Nat /\ DOMAIN stack = 1..Len(stack)
         /\ WalksAll <=> IsWalkOfAll(Top)
         /\ Position \in Nat /\ Position = PositionOf(Top)
         /\ ~AtEnd => /\ Position + 1 \in 1..Size(list) /\ Position < list.insertionOffset
                      /\ Here \in Entry
                      /\ Here.event # NoEvent => Here \in Live(list)
<1>1. /\ stack # <<>> /\ Top.frame = "walk" /\ Top \in WalkFrames /\ Top = stack[Len(stack)]
      /\ Len(stack) \in 1..Len(stack) /\ Len(stack) \in Nat /\ DOMAIN stack = 1..Len(stack)
      /\ Top.i \in Nat
  BY TopShape, FrameShape DEF TopIs
<1>2. list \in List
  BY DEF LInv, Typing
<1>3. /\ list.startOffset \in Nat /\ list.insertionOffset \in Nat /\ Size(list) \in Nat
      /\ \A i \in 1..Size(list) : list.entries[i] \in Entry
  BY <1>2, ListShape
<1>4. WalksAll <=> IsWalkOfAll(Top)
  BY <1>1 DEF WalksAll, IsWalkOfAll
<1>5. Position \in Nat /\ Position = PositionOf(Top)
  BY <1>1, <1>3, <1>4 DEF Position, PositionOf
<1>6. ASSUME ~AtEnd
      PROVE  /\ Position + 1 \in 1..Size(list) /\ Position < list.insertionOffset /\ Here \in Entry
             /\ Here.event # NoEvent => Here \in Live(list)
  <2>1. Position + 1 \in 1..Size(list) /\ Position < list.insertionOffset
    BY <1>3, <1>5, <1>6 DEF AtEnd
  <2> QED
    BY <1>2, <1>3, <2>1, LivePlaces DEF Here
<1> QED
  BY <1>1, <1>4, <1>5, <1>6

(* The walk on top goes on to the next entry, or past one that it leaves   *)
(* to others; h is empty, or the handler that it calls.                    *)
LEMMA AdvanceStack ==
  ASSUME LInv, TopIs("walk"), ~AtEnd, NEW l, NEW h,
         h = <<>> \/ \E f \in HandlerFrames : h = <<f>>,
         Advance(l, h)
  PROVE  /\ SoundStack(stack') /\ Len(stack') = Len(stack) + Len(h) /\ Len(stack') \in Nat
         /\ Len(h) \in {0, 1}
         /\ \A i \in 1..(Len(stack) - 1) : stack'[i] = stack[i]
         /\ stack'[Len(stack)] = IF WalksAll THEN Top ELSE [Top EXCEPT !.i = Top.i + 1]
         /\ stack'[Len(stack)].frame = "walk"
         /\ IsWalkOfAll(stack'[Len(stack)]) <=> WalksAll
         /\ Len(h) = 1 => stack'[Len(stack) + 1] = h[1] /\ h[1] \in HandlerFrames
<1> DEFINE f == IF WalksAll THEN Top ELSE [Top EXCEPT !.i = Top.i + 1]
           t == [stack EXCEPT ![Len(stack)] = f]
<1>1. /\ stack # <<>> /\ Top.frame = "walk" /\ Top \in WalkFrames /\ Top = stack[Len(stack)]
      /\ Len(stack) \in 1..Len(stack) /\ Len(stack) \in Nat /\ DOMAIN stack = 1..Len(stack)
      /\ WalksAll <=> IsWalkOfAll(Top)
  BY WalkTop
<1>2. /\ f \in WalkFrames /\ f \in StackFrame /\ f.frame = "walk"
      /\ f.receiver = Top.receiver /\ f.type = Top.type
  <2>1. [Top EXCEPT !.i = Top.i + 1] \in WalkFrames
        /\ [Top EXCEPT !.i = Top.i + 1].receiver = Top.receiver
        /\ [Top EXCEPT !.i = Top.i + 1].type = Top.type
    BY <1>1 DEF WalkFrames
  <2>2. f \in WalkFrames /\ f.receiver = Top.receiver /\ f.type = Top.type
    BY <1>1, <2>1
  <2> HIDE DEF f
  <2> QED
    BY <2>2 DEF WalkFrames, StackFrame
<1>3. stack' = t \o h
  <2>1. CASE WalksAll
    <3>1. stack' = stack \o h
      BY <2>1 DEF Advance
    <3>2. t = stack
      <4>1. f = stack[Len(stack)]
        BY <1>1, <2>1
      <4>2. stack = [i \in 1..Len(stack) |-> stack[i]]
        BY StackIsSound, LenProperties DEF SoundStack
      <4> HIDE DEF f
      <4> QED
        BY <1>1, <4>1, <4>2
    <3> HIDE DEF t
    <3> QED
      BY <3>1, <3>2
  <2>2. CASE ~WalksAll
    BY <1>1, <2>2 DEF Advance
  <2> QED
    BY <2>1, <2>2
<1>4. IsWalkOfAll(f) <=> WalksAll
  BY <1>1, <1>2 DEF IsWalkOfAll
<1> HIDE DEF f
<1>5. /\ SoundStack(t) /\ Len(t) = Len(stack) /\ t # <<>> /\ Last(t) = f
      /\ \A i \in 1..(Len(stack) - 1) : t[i] = stack[i]
      /\ t[Len(stack)] = f
  <2>1. f.frame = Last(stack).frame
    BY <1>1, <1>2 DEF Top
  <2> QED
    BY <1>1, <1>2, <2>1, StackIsSound, TopFacts
<1> HIDE DEF t
<1>6. t \in Seq(StackFrame)
  BY <1>5 DEF SoundStack
<1>7. CASE h = <<>>
  <2>1. stack' = t /\ Len(h) = 0
    BY <1>3, <1>6, <1>7, ConcatEmptySeq
  <2>2. /\ SoundStack(stack') /\ Len(stack') = Len(stack)
        /\ \A i \in 1..(Len(stack) - 1) : stack'[i] = stack[i]
        /\ stack'[Len(stack)] = f
    BY <1>5, <2>1
  <2>3. Len(stack) = Len(stack) + Len(h) /\ Len(h) # 1 /\ Len(h) \in {0, 1}
    BY <1>1, <2>1
  <2>4. Len(stack') = Len(stack) + Len(h) /\ Len(stack') \in Nat
    BY <1>1, <2>2, <2>3
  <2>5. stack'[Len(stack)].frame = "walk" /\ (IsWalkOfAll(stack'[Len(stack)]) <=> WalksAll)
    BY <1>2, <1>4, <2>2
  <2> QED
    BY <2>2, <2>3, <2>4, <2>5 DEF f
<1>8. ASSUME NEW g \in HandlerFrames, h = <<g>>
      PROVE  /\ SoundStack(stack') /\ Len(stack') = Len(stack) + 1 /\ Len(h) = 1 /\ h[1] = g
             /\ \A i \in 1..Len(stack) : stack'[i] = t[i]
             /\ stack'[Len(stack) + 1] = g
  <2>1. g \in StackFrame /\ g.frame = "handler"
    BY DEF StackFrame, HandlerFrames
  <2>2. stack' = Append(t, g)
    BY <1>3, <1>6, <1>8, <2>1, AppendIsConcat
  <2> DEFINE u == Append(t, g)
  <2>3. MayCall(Last(t), g)
    BY <1>2, <1>5, <2>1 DEF MayCall
  <2>4. /\ SoundStack(u) /\ Len(u) = Len(t) + 1
        /\ \A i \in 1..Len(t) : u[i] = t[i]
        /\ u[Len(t) + 1] = g
    BY <1>5, <2>1, <2>3, PushFacts
  <2>5. stack' = u
    BY <2>2
  <2>6. Len(h) = 1 /\ h[1] = g
    BY <1>8
  <2> HIDE DEF u
  <2> QED
    BY <1>5, <2>4, <2>5, <2>6
<1>9. ASSUME NEW g \in HandlerFrames, h = <<g>>
      PROVE  /\ SoundStack(stack') /\ Len(stack') = Len(stack) + Len(h) /\ Len(stack') \in Nat
             /\ Len(h) \in {0, 1}
             /\ \A i \in 1..(Len(stack) - 1) : stack'[i] = stack[i]
             /\ stack'[Len(stack)] = f
             /\ Len(h) = 1 => stack'[Len(stack) + 1] = h[1] /\ h[1] \in HandlerFrames
  BY <1>1, <1>5, <1>8, <1>9, BelowTop
<1> QED
  BY <1>2, <1>4, <1>7, <1>9 DEF f

LEMMA AdvanceList ==
  ASSUME LInv, TopIs("walk"), ~AtEnd, NEW l, NEW h,
         h = <<>> \/ \E f \in HandlerFrames : h = <<f>>,
         Advance(l, h), SoundList(l), l.startOffset = list.startOffset,
         l.insertionOffset = list.insertionOffset, Size(list) <= Size(l),
         WalksAll => l.entries[Position + 1].event = NoEvent
  PROVE  /\ SoundList(list') /\ Live(list') = Live(l) /\ list'.entries = l.entries
         /\ Size(list') = Size(l) /\ list'.insertionOffset = list.insertionOffset
         /\ list'.startOffset = IF WalksAll THEN list.startOffset + 1 ELSE list.startOffset
<1>1. /\ Position + 1 \in 1..Size(list) /\ Position < list.insertionOffset /\ Position \in Nat
  BY WalkTop
<1>2. CASE WalksAll
  <2>1. Position = list.startOffset /\ list.startOffset \in Nat
    BY <1>1, <1>2 DEF Position
  <2>2. Size(l) \in Nat /\ Size(list) \in Nat
    BY ListShape DEF LInv, Typing, SoundList
  <2>3. l.startOffset < Size(l) /\ l.startOffset < l.insertionOffset
    BY <1>1, <2>1, <2>2
  <2> DEFINE m == [l EXCEPT !.startOffset = l.startOffset + 1]
  <2>4. /\ SoundList(m) /\ Live(m) = Live(l) /\ m.entries = l.entries
        /\ m.startOffset = l.startOffset + 1 /\ m.insertionOffset = l.insertionOffset
        /\ Size(m) = Size(l)
    <3>1. l.entries[l.startOffset + 1].event = NoEvent
      BY <1>2, <2>1
    <3> QED
      BY <2>3, <3>1, StartFacts
  <2>5. list' = m
    BY <1>2 DEF Advance
  <2> HIDE DEF m
  <2> QED
    BY <1>2, <2>4, <2>5
<1>3. CASE ~WalksAll
  BY <1>3 DEF Advance
<1> QED
  BY <1>2, <1>3

LEMMA WalkStep ==
  ASSUME LInv, TopIs("walk"), ~AtEnd, NEW l, NEW h,
         h = <<>> \/ \E f \in HandlerFrames : h = <<f>>,
         Advance(l, h), SoundList(l), l.startOffset = list.startOffset,
         l.insertionOffset = list.insertionOffset, Size(list) <= Size(l),
         WalksAll => l.entries[Position + 1].event = NoEvent,
         RestTyped, Books', alive' \subseteq Receivers, fate' \in [Events -> Fates],
         postedEvents' \in [Receivers -> Nat],
         \A d \in Events : fate[d] = "gone" => fate'[d] = "gone",
         Len(h) = 1 => fate'[h[1].event] = "gone"
  PROVE  LInv'
<1>1. /\ SoundStack(stack') /\ Len(stack') = Len(stack) + Len(h) /\ Len(stack') \in Nat
      /\ Len(h) \in {0, 1}
      /\ \A i \in 1..(Len(stack) - 1) : stack'[i] = stack[i]
      /\ stack'[Len(stack)].frame = "walk"
      /\ IsWalkOfAll(stack'[Len(stack)]) <=> WalksAll
      /\ Len(h) = 1 => stack'[Len(stack) + 1] = h[1] /\ h[1] \in HandlerFrames
  BY AdvanceStack
<1>2. /\ SoundList(list')
      /\ list'.startOffset = IF WalksAll THEN list.startOffset + 1 ELSE list.startOffset
  BY AdvanceList
<1>3. Typing'
  BY <1>1, <1>2 DEF Typing, RestTyped, SoundStack, SoundList
<1>4. /\ Len(stack) \in Nat /\ Len(stack) \in 1..Len(stack) /\ DOMAIN stack = 1..Len(stack)
      /\ Top = stack[Len(stack)] /\ Top.frame = "walk" /\ (WalksAll <=> IsWalkOfAll(Top))
  BY WalkTop
<1>5. DOMAIN stack' = 1..Len(stack')
  BY <1>1, StackShape DEF SoundStack
<1>6. HandledGone'
  <2>1. ASSUME NEW i \in DOMAIN stack', stack'[i].frame = "handler"
        PROVE  fate'[stack'[i].event] = "gone"
    <3>1. i # Len(stack)
      BY <1>1, <2>1
    <3>2. CASE i = Len(stack) + 1
      <4>1. Len(h) = 1
        BY <1>1, <1>4, <1>5, <3>2
      <4> QED
        BY <1>1, <3>2, <4>1
    <3>3. CASE i # Len(stack) + 1
      <4>1. i \in 1..Len(stack) \/ i \in 1..(Len(stack) + 1)
        <5>1. Len(stack') = Len(stack) \/ Len(stack') = Len(stack) + 1
          <6>1. \A n \in Nat, k \in {0, 1} : n + k = n \/ n + k = n + 1
            OBVIOUS
          <6> QED
            BY <1>1, <1>4, <6>1
        <5> QED
          BY <1>5, <5>1
      <4>2. i \in 1..(Len(stack) - 1) /\ i \in DOMAIN stack
        BY <1>4, <3>1, <3>3, <4>1, BelowTop
      <4> QED
        BY <1>1, <2>1, <4>2, HandledEvents DEF LInv, HandledGone
    <3> QED
      BY <3>2, <3>3
  <2> QED
    BY <2>1 DEF HandledGone
<1>7. StartIsWalked'
  <2>1. CASE WalksAll
    <3>1. Len(stack) \in DOMAIN stack'
      BY <1>1, <1>4, <1>5
    <3> QED
      BY <1>1, <2>1, <3>1 DEF StartIsWalked
  <2>2. CASE ~WalksAll
    <3>1. SUFFICES ASSUME list.startOffset > 0 PROVE \E i \in DOMAIN stack' : IsWalkOfAll(stack'[i])
      BY <1>2, <2>2 DEF StartIsWalked
    <3>2. PICK i \in DOMAIN stack : IsWalkOfAll(stack[i])
      BY <3>1 DEF LInv, StartIsWalked
    <3>3. i \in 1..(Len(stack) - 1)
      BY <1>4, <2>2, <3>2, BelowTop
    <3>4. i \in DOMAIN stack'
      BY <1>1, <1>4, <1>5, <3>3, BelowTop
    <3> QED
      BY <1>1, <3>2, <3>3, <3>4
  <2> QED
    BY <2>1, <2>2
<1> QED
  BY <1>1, <1>2, <1>3, <1>6, <1>7 DEF LInv, SoundStack

(* What a step of a walk makes of the list before it goes on.              *)
LEMMA SkipKeeps == LInv /\ SkipEntry => LInv'
<1>1. SUFFICES ASSUME LInv, SkipEntry PROVE LInv'
  OBVIOUS
<1>2. /\ TopIs("walk") /\ ~AtEnd /\ Advance(list, <<>>)
      /\ Here.event = NoEvent \/ ~Matches
      /\ canWait' = (canWait /\ Here.event = NoEvent)
      /\ UNCHANGED <<objects, exit, dispatcher, poster, history>>
  BY <1>1 DEF SkipEntry
<1>3. WalksAll => list.entries[Position + 1].event = NoEvent
  BY <1>2 DEF WalksAll, Matches, Here
<1>4. SoundList(list) /\ Size(list) \in Nat /\ Size(list) <= Size(list)
  BY <1>1, ListShape DEF LInv, SoundList
<1>5. Live(list') = Live(list)
  BY <1>1, <1>2, <1>3, <1>4, AdvanceList
<1>6. RestTyped /\ UNCHANGED <<postedEvents, fate, alive>>
  BY <1>1, <1>2 DEF RestTyped, LInv, Typing, objects, dispatcher, history
<1>7. Books'
  BY <1>1, <1>5, <1>6, SameBooks
<1>8. /\ alive' \subseteq Receivers /\ fate' \in [Events -> Fates] /\ postedEvents' \in [Receivers -> Nat]
      /\ \A d \in Events : fate[d] = "gone" => fate'[d] = "gone"
      /\ Len(<<>>) # 1
  BY <1>1, <1>6 DEF LInv, Typing
<1> QED
  BY <1>1, <1>2, <1>3, <1>4, <1>6, <1>7, <1>8, WalkStep

(* The event Here is nulled and, by a walk over everything, posted again.  *)
Reposted == AddEvent(NullAt(list, Position + 1), Here)

LEMMA RepostFacts ==
  ASSUME LInv, TopIs("walk"), ~AtEnd, Here.event # NoEvent
  PROVE  /\ SoundList(Reposted) /\ Live(Reposted) = Live(list)
         /\ Reposted.startOffset = list.startOffset
         /\ Reposted.insertionOffset = list.insertionOffset
         /\ Size(Reposted) = Size(list) + 1
         /\ Reposted.entries[Position + 1].event = NoEvent
         /\ \A i \in 1..Size(list) : i <= list.insertionOffset /\ i # Position + 1
                                     => Reposted.entries[i] = list.entries[i]
<1> DEFINE m == NullAt(list, Position + 1)
<1>1. /\ Position + 1 \in 1..Size(list) /\ Position < list.insertionOffset /\ Position \in Nat
      /\ Here \in Entry /\ Here \in Live(list)
  BY WalkTop
<1>2. SoundList(list) /\ list \in List
  BY DEF LInv, SoundList
<1>3. /\ SoundList(m) /\ Live(m) = Live(list) \ {Here}
      /\ m.startOffset = list.startOffset /\ m.insertionOffset = list.insertionOffset
      /\ Size(m) = Size(list)
      /\ m.entries[Position + 1].event = NoEvent
      /\ \A i \in 1..Size(list) : i # Position + 1 => m.entries[i] = list.entries[i]
  BY <1>1, <1>2, NullAtFacts DEF Here
<1>4. Here.receiver # NoReceiver
  BY <1>1, <1>2 DEF SoundList, BothNull, Here
<1>5. \A x \in Live(m) : x.event # Here.event
  <2>1. ASSUME NEW x \in Live(list), x.event = Here.event PROVE x = Here
    <3>1. PICK i \in 1..Size(list) : list.entries[i] = x /\ x.event # NoEvent
      BY <1>2, LivePlaces
    <3> QED
      BY <1>1, <1>2, <2>1, <3>1 DEF SoundList, Once, Here
  <2> QED
    BY <1>3, <2>1
<1> HIDE DEF m
<1> DEFINE n == AddEvent(m, Here)
<1>6. /\ SoundList(n) /\ Live(n) = Live(m) \cup {Here}
      /\ n.startOffset = m.startOffset /\ n.insertionOffset = m.insertionOffset
      /\ Size(n) = Size(m) + 1
      /\ \A i \in 1..Size(n) : \/ /\ n.entries[i] = Here
                                  /\ i > m.insertionOffset \/ i = Size(n)
                               \/ i \in 1..Size(m) /\ n.entries[i] = m.entries[i]
                               \/ i > m.insertionOffset
  BY <1>1, <1>3, <1>4, <1>5, AddEventFacts
<1>7. n = Reposted
  BY DEF Reposted, m
<1> HIDE DEF n
<1>8. Live(n) = Live(list)
  BY <1>1, <1>3, <1>6
<1>9. \A i \in 1..Size(list) : i <= list.insertionOffset => n.entries[i] = m.entries[i]
  <2>1. ASSUME NEW i \in 1..Size(list), i <= list.insertionOffset PROVE n.entries[i] = m.entries[i]
    <3>1. Size(list) \in Nat /\ list.insertionOffset \in Nat
      BY <1>2, ListShape
    <3>2. i \in 1..Size(n) /\ i # Size(n) /\ ~(i > m.insertionOffset)
      BY <1>3, <1>6, <2>1, <3>1
    <3> QED
      BY <1>6, <3>2
  <2> QED
    BY <2>1
<1>10. Position + 1 <= list.insertionOffset
  <2>1. list.insertionOffset \in Nat
    BY <1>2, ListShape
  <2> QED
    BY <1>1, <2>1
<1> QED
  BY <1>1, <1>3, <1>6, <1>7, <1>8, <1>9, <1>10

LEMMA RepostKeeps == LInv /\ RepostDelete => LInv'
<1>1. SUFFICES ASSUME LInv, RepostDelete PROVE LInv'
  OBVIOUS
<1> DEFINE l == IF WalksAll THEN Reposted ELSE list
<1>2. /\ TopIs("walk") /\ ~AtEnd /\ Advance(l, <<>>) /\ Here.event # NoEvent
      /\ UNCHANGED <<canWait, objects, exit, dispatcher, poster, history>>
  BY <1>1 DEF RepostDelete, Reposted
<1>3. SoundList(list) /\ Size(list) \in Nat
  BY <1>1, ListShape DEF LInv, SoundList
<1>4. /\ SoundList(l) /\ Live(l) = Live(list) /\ l.startOffset = list.startOffset
      /\ l.insertionOffset = list.insertionOffset /\ Size(list) <= Size(l)
      /\ WalksAll => l.entries[Position + 1].event = NoEvent
  BY <1>1, <1>2, <1>3, RepostFacts
<1> HIDE DEF l
<1>5. Live(list') = Live(list)
  BY <1>1, <1>2, <1>4, AdvanceList
<1>6. RestTyped /\ UNCHANGED <<postedEvents, fate, alive>>
  BY <1>1, <1>2 DEF RestTyped, LInv, Typing, objects, dispatcher, history
<1>7. Books'
  BY <1>1, <1>5, <1>6, SameBooks
<1>8. /\ alive' \subseteq Receivers /\ fate' \in [Events -> Fates] /\ postedEvents' \in [Receivers -> Nat]
      /\ \A d \in Events : fate[d] = "gone" => fate'[d] = "gone"
      /\ Len(<<>>) # 1
  BY <1>1, <1>6 DEF LInv, Typing
<1> QED
  BY <1>1, <1>2, <1>4, <1>6, <1>7, <1>8, WalkStep

LEMMA DeliverFacts ==
  ASSUME LInv, Deliver
  PROVE  LET l == NullAt(list, Position + 1) h == <<HandlerFrame(Here)>> IN
         /\ TopIs("walk") /\ ~AtEnd /\ Advance(l, h) /\ Here.event # NoEvent
         /\ HandlerFrame(Here) \in HandlerFrames /\ Len(h) = 1 /\ h[1] = HandlerFrame(Here)
         /\ HandlerFrame(Here).event = Here.event /\ Here.event \in Events /\ Here \in Live(list)
         /\ SoundList(l) /\ Live(l) = Live(list) \ {Here}
         /\ l.startOffset = list.startOffset /\ l.insertionOffset = list.insertionOffset
         /\ Size(l) = Size(list) /\ Size(list) <= Size(l)
         /\ l.entries[Position + 1].event = NoEvent
         /\ \A i \in 1..Size(list) : i # Position + 1 => l.entries[i] = list.entries[i]
         /\ \A x \in Live(list) : x.event = Here.event => x = Here
<1> DEFINE l == NullAt(list, Position + 1)
           h == <<HandlerFrame(Here)>>
<1>1. TopIs("walk") /\ ~AtEnd /\ Advance(l, h) /\ Here.event # NoEvent
  BY DEF Deliver
<1>2. /\ Position + 1 \in 1..Size(list) /\ Here \in Entry /\ Here \in Live(list)
  BY <1>1, WalkTop
<1>3. SoundList(list) /\ list \in List /\ Once(list) /\ BothNull(list) /\ Size(list) \in Nat
  BY ListShape DEF LInv, SoundList
<1>4. Here.receiver # NoReceiver
  BY <1>1, <1>2, <1>3 DEF BothNull, Here
<1>5. /\ HandlerFrame(Here) \in HandlerFrames /\ Here.event \in Events
      /\ HandlerFrame(Here).event = Here.event
  BY <1>1, <1>2, <1>4 DEF HandlerFrame, HandlerFrames, Entry
<1>6. Len(h) = 1 /\ h[1] = HandlerFrame(Here)
  OBVIOUS
<1>7. /\ SoundList(l) /\ Live(l) = Live(list) \ {Here}
      /\ l.startOffset = list.startOffset /\ l.insertionOffset = list.insertionOffset
      /\ Size(l) = Size(list) /\ l.entries[Position + 1].event = NoEvent
      /\ \A i \in 1..Size(list) : i # Position + 1 => l.entries[i] = list.entries[i]
  <2> DEFINE p == Position + 1
  <2>1. p \in 1..Size(list) /\ l = NullAt(list, p) /\ Here = list.entries[p]
    BY <1>2 DEF Here
  <2> HIDE DEF l
  <2>2. p = Position + 1
    OBVIOUS
  <2> HIDE DEF p
  <2>3. /\ SoundList(NullAt(list, p)) /\ Live(NullAt(list, p)) = Live(list) \ {list.entries[p]}
        /\ NullAt(list, p).startOffset = list.startOffset
        /\ NullAt(list, p).insertionOffset = list.insertionOffset
        /\ Size(NullAt(list, p)) = Size(list) /\ NullAt(list, p).entries[p].event = NoEvent
        /\ \A i \in 1..Size(list) : i # p => NullAt(list, p).entries[i] = list.entries[i]
    BY <1>3, <2>1, NullAtFacts
  <2> QED
    BY <2>1, <2>2, <2>3
<1>8. ASSUME NEW x \in Live(list), x.event = Here.event PROVE x = Here
  <2>1. PICK i \in 1..Size(list) : list.entries[i] = x /\ x.event # NoEvent
    BY <1>3, LivePlaces
  <2> QED
    BY <1>2, <1>3, <1>8, <2>1 DEF Once, Here
<1>9. Size(list) <= Size(l)
  BY <1>3, <1>7
<1> HIDE DEF h
<1>10. h = <<HandlerFrame(Here)>>
  BY DEF h
<1> HIDE DEF l
<1>11. l = NullAt(list, Position + 1)
  BY DEF l
<1> QED
  BY <1>1, <1>2, <1>5, <1>6, <1>7, <1>8, <1>9, <1>10, <1>11

LEMMA DeliverKeeps == LInv /\ Deliver => LInv'
<1>1. SUFFICES ASSUME LInv, Deliver PROVE LInv'
  OBVIOUS
<1> DEFINE l == NullAt(list, Position + 1)
           h == <<HandlerFrame(Here)>>
<1>2. /\ TopIs("walk") /\ ~AtEnd /\ Advance(l, h) /\ Here.event # NoEvent
      /\ HandlerFrame(Here) \in HandlerFrames /\ Len(h) = 1 /\ h[1] = HandlerFrame(Here)
      /\ HandlerFrame(Here).event = Here.event /\ Here.event \in Events /\ Here \in Live(list)
      /\ SoundList(l) /\ Live(l) = Live(list) \ {Here}
      /\ l.startOffset = list.startOffset /\ l.insertionOffset = list.insertionOffset
      /\ Size(l) = Size(list) /\ Size(list) <= Size(l)
      /\ l.entries[Position + 1].event = NoEvent
      /\ \A x \in Live(list) : x.event = Here.event => x = Here
  BY <1>1, DeliverFacts
<1>3. h = <<HandlerFrame(Here)>>
  OBVIOUS
<1> HIDE DEF l, h
<1>4. h = <<>> \/ \E f \in HandlerFrames : h = <<f>>
  BY <1>2, <1>3
<1>5. Live(list') = Live(list) \ {Here}
  BY <1>1, <1>2, <1>4, AdvanceList
<1>6. /\ postedEvents' = [postedEvents EXCEPT ![Here.receiver] = @ - 1]
      /\ fate' = [fate EXCEPT ![Here.event] = "gone"]
      /\ UNCHANGED <<canWait, deleteLaterCalled, alive, exit, dispatcher, poster, postedIn>>
  BY <1>1 DEF Deliver
<1>7. RestTyped /\ alive' \subseteq Receivers
  BY <1>1, <1>6 DEF RestTyped, LInv, Typing, dispatcher
<1>8. /\ Books /\ fate \in [Events -> Fates] /\ postedEvents \in [Receivers -> Nat]
  BY <1>1 DEF LInv, Typing
<1>9. ASSUME NEW q \in Receivers
      PROVE  /\ IsFiniteSet(For(q, list')) /\ postedEvents'[q] = Cardinality(For(q, list'))
             /\ Cardinality(For(q, list')) \in Nat
  <2>1. IsFiniteSet(For(q, list)) /\ postedEvents[q] = Cardinality(For(q, list))
    BY <1>8 DEF Books
  <2>2. CASE q = Here.receiver
    <3>1. For(q, list') = For(q, list) \ {Here} /\ Here \in For(q, list)
      BY <1>2, <1>5, <2>2 DEF For
    <3>2. postedEvents'[q] = postedEvents[q] - 1
      BY <1>6, <1>8, <2>2
    <3>3. IsFiniteSet(For(q, list')) /\ Cardinality(For(q, list')) = Cardinality(For(q, list)) - 1
      BY <2>1, <3>1, FS_RemoveElement
    <3> QED
      BY <2>1, <3>2, <3>3, FS_CardinalityType
  <2>3. CASE q # Here.receiver
    <3>1. For(q, list') = For(q, list)
      BY <1>5, <2>3 DEF For
    <3>2. postedEvents'[q] = postedEvents[q]
      BY <1>6, <1>8, <2>3
    <3> QED
      BY <2>1, <3>1, <3>2, FS_CardinalityType
  <2> QED
    BY <2>2, <2>3
<1>10. postedEvents' \in [Receivers -> Nat]
  <2>1. \A q \in Receivers : postedEvents'[q] \in Nat
    BY <1>9
  <2>2. postedEvents' = [q \in Receivers |-> postedEvents'[q]]
    BY <1>6, <1>8
  <2> QED
    BY <2>1, <2>2
<1>11. /\ fate' \in [Events -> Fates] /\ fate'[Here.event] = "gone"
       /\ \A d \in Events : fate[d] = "gone" => fate'[d] = "gone"
  BY <1>2, <1>6, <1>8 DEF Fates
<1>12. Books'
  <2>1. ASSUME NEW e \in Events
        PROVE  fate'[e] = "posted" <=> \E x \in Live(list') : x.event = e
    BY <1>2, <1>5, <1>6, <1>8 DEF Books
  <2>2. \A q \in Receivers \ alive' : For(q, list') = {}
    <3>1. \A q \in Receivers \ alive' : For(q, list) = {}
      BY <1>6, <1>8 DEF Books
    <3> QED
      BY <1>5, <3>1 DEF For
  <2> QED
    BY <1>9, <2>1, <2>2 DEF Books
<1> QED
  BY <1>1, <1>2, <1>4, <1>7, <1>10, <1>11, <1>12, WalkStep

LEMMA EndKeeps == LInv /\ EndWalk => LInv'
<1>1. SUFFICES ASSUME LInv, EndWalk PROVE LInv'
  OBVIOUS
<1>2. /\ TopIs("walk") /\ stack' = Front(stack)
      /\ list' = IF WalksAll THEN EraseSent(list) ELSE list
      /\ UNCHANGED <<canWait, objects, exit, interrupt, poster, history>>
  BY <1>1 DEF EndWalk, Return
<1>3. stack # <<>> /\ (WalksAll <=> IsWalkOfAll(Top)) /\ Top.frame = "walk"
  BY <1>1, <1>2, WalkTop
<1>4. SoundList(list)
  BY <1>1 DEF LInv
<1>5. /\ SoundList(list') /\ Live(list') = Live(list)
      /\ WalksAll => list'.startOffset = 0
      /\ ~WalksAll => list' = list
  BY <1>2, <1>4, EraseFacts
<1>6. /\ SoundStack(stack') /\ \A i \in 1..Len(stack') : i \in 1..Len(stack) /\ stack'[i] = stack[i]
      /\ DOMAIN stack' = 1..Len(stack') /\ DOMAIN stack = 1..Len(stack)
  <2>1. SoundStack(stack)
    BY <1>1, StackIsSound
  <2>2. /\ SoundStack(stack') /\ \A i \in 1..Len(stack') : i \in 1..Len(stack) /\ stack'[i] = stack[i]
    BY <1>2, <1>3, <2>1, PopFacts
  <2> QED
    BY <2>1, <2>2, StackShape DEF SoundStack
<1>7. wakeUps' \in BOOLEAN /\ pipe' \in BOOLEAN
  BY <1>1 DEF EndWalk, WakeUpSelf, LInv, Typing
<1>8. Typing'
  BY <1>1, <1>2, <1>5, <1>6, <1>7 DEF LInv, Typing, SoundStack, SoundList, objects, history
<1>9. Books'
  BY <1>1, <1>2, <1>5, SameBooks DEF objects, history
<1>10. HandledGone'
  BY <1>1, <1>2, <1>6 DEF LInv, HandledGone, history
<1>11. StartIsWalked'
  <2>1. CASE WalksAll
    BY <1>5, <2>1 DEF StartIsWalked
  <2>2. CASE ~WalksAll
    <3>1. Lasting
      BY <1>1, <1>2, <1>3, <2>2, LastingPop
    <3> QED
      BY <1>1, <1>5, <2>2, <3>1 DEF LInv, Lasting, StartIsWalked
  <2> QED
    BY <2>1, <2>2
<1> QED
  BY <1>5, <1>6, <1>8, <1>9, <1>10, <1>11 DEF LInv, SoundStack

LEMMA InitLInv == Init => LInv
<1>1. SUFFICES ASSUME Init PROVE LInv
  OBVIOUS
<1>2. list = [entries |-> <<>>, startOffset |-> 0, insertionOffset |-> 0] /\ stack = <<>>
  BY <1>1 DEF Init, EmptyList
<1>3. <<>> \in Seq(Entry) /\ <<>> \in Seq(StackFrame) /\ Len(<<>>) = 0 /\ DOMAIN <<>> = {}
  BY EmptySeq
<1>4. list \in List /\ Size(list) = 0 /\ list.startOffset = 0 /\ list.insertionOffset = 0
  BY <1>2, <1>3 DEF List, Size
<1>5. Typing
  BY <1>1, <1>2, <1>3, <1>4 DEF Init, Typing, PosterStates, Fates
<1>6. SoundList(list)
  <2>1. \A i \in 1..0 : FALSE
    OBVIOUS
  <2>2. \A i \in 0 + 1 .. 0 : FALSE
    OBVIOUS
  <2> QED
    BY <1>4, <2>1, <2>2 DEF SoundList, BothNull, Once, Sorted, Offsets
<1>7. Live(list) = {}
  <2>1. \A x : x \in Live(list) => \E i \in 1..Size(list) : list.entries[i] = x
    BY <1>4, LivePlaces
  <2> QED
    BY <1>4, <2>1
<1>8. Books
  <2>1. \A r : For(r, list) = {}
    BY <1>7 DEF For
  <2>2. IsFiniteSet({}) /\ Cardinality({}) = 0
    BY FS_EmptySet
  <2> QED
    BY <1>1, <1>7, <2>1, <2>2 DEF Books, Init
<1>9. Nested(stack)
  BY <1>2, <1>3 DEF Nested
<1> QED
  BY <1>2, <1>3, <1>4, <1>5, <1>6, <1>8, <1>9 DEF LInv, HandledGone, StartIsWalked

LEMMA StutterLInv == LInv /\ UNCHANGED vars => LInv'
<1>1. SUFFICES ASSUME LInv, UNCHANGED vars PROVE LInv'
  OBVIOUS
<1>2. Lasting
  BY <1>1, LastingStack DEF vars
<1>3. RestTyped /\ UNCHANGED <<list, postedEvents, alive, fate>>
  BY <1>1 DEF vars, objects, dispatcher, history, RestTyped, LInv, Typing
<1> QED
  BY <1>1, <1>2, <1>3, QuietStep

LEMMA StepLInv == LInv /\ [Next]_vars => LInv'
<1>1. SUFFICES ASSUME LInv, [Next]_vars PROVE LInv'
  OBVIOUS
<1>2. \A p \in Priorities : p \in Priorities \cup {0}
  OBVIOUS
<1>3. {"normal", "delete"} = Types /\ 0 \in Priorities \cup {0} /\ alive \subseteq Receivers
  BY <1>1 DEF Types, LInv, Typing
<1>4. CASE CheckExit \/ HandlerReturns \/ ProcessEvents \/ \E l \in Loops : Exec(l)
  BY <1>1, <1>4, LoopsKeep
<1>5. CASE Round
  <2>1. CASE SendAll
    BY <1>1, <2>1, SendsKeep
  <2>2. CASE ~SendAll
    BY <1>1, <1>5, <2>2, RoundsKeep DEF Round
  <2> QED
    BY <2>1, <2>2
<1>6. CASE Walk
  BY <1>1, <1>6, SkipKeeps, RepostKeeps, DeliverKeeps, EndKeeps, RemovesKeep DEF Walk
<1>7. CASE \E r \in Receivers, e \in Events :
             \/ \E p \in Priorities : Post(r, e, "normal", p)
             \/ Post(r, e, "delete", 0)
  BY <1>1, <1>2, <1>3, <1>7, PostsKeep
<1>8. CASE (\E r \in alive \cup {NoReceiver} : SendPostedEvents(r, "any"))
             \/ SendPostedEvents(NoReceiver, "delete")
  <2>1. \A r \in alive \cup {NoReceiver} : r \in Receivers \cup {NoReceiver}
    BY <1>3
  <2> QED
    BY <1>1, <1>8, <2>1, SendsKeep
<1>9. CASE \E l \in Loops : Exit(l)
  BY <1>1, <1>9, WakersKeep
<1>10. CASE \E r \in Receivers : RemovePostedEvents(r)
  BY <1>1, <1>10, RemovesKeep
<1>11. CASE \E t \in Posters : OtherThread(t)
  <2>1. PICK t \in Posters : OtherThread(t)
    BY <1>11
  <2>2. CASE \E l \in Loops : ExitFrom(t, l)
    BY <1>1, <2>2, WakersKeep
  <2>3. CASE \E r \in Receivers, e \in Events :
               \/ \E p \in Priorities : PostFrom(t, r, e, "normal", p)
               \/ PostFrom(t, r, e, "delete", 0)
    BY <1>1, <1>2, <1>3, <2>3, PostsKeep
  <2> QED
    BY <2>1, <2>2, <2>3 DEF OtherThread
<1>12. CASE \E t \in Posters : InWakeUp(t)
  BY <1>1, <1>12, WakersKeep
<1>13. CASE UNCHANGED vars
  BY <1>1, <1>13, StutterLInv
<1> QED
  BY <1>1, <1>4, <1>5, <1>6, <1>7, <1>8, <1>9, <1>10, <1>11, <1>12, <1>13 DEF Next, UserCall

(* Whatever the calls and however deep, the stack is made of calls that    *)
(* the code makes, and the list, its offsets, the counts of the receivers  *)
(* and what became of each event fit together. startOffset only differs    *)
(* from 0 while sendPostedEvents() walks over everything.                  *)
THEOREM ListInvariant == Spec => []LInv
<1>1. Init => LInv
  BY InitLInv
<1>2. LInv /\ [Next]_vars => LInv'
  BY StepLInv
<1> QED
  BY <1>1, <1>2, PTL DEF Spec

LEMMA TypingGives == LInv => TypeOK
<1>1. SUFFICES ASSUME LInv PROVE TypeOK
  OBVIOUS
<1>2. list.entries \in Seq([event: Events \cup {NoEvent}, receiver: Receivers \cup {NoReceiver},
                            type: {"normal", "delete"}, priority: Priorities \cup {0}, level: Nat])
  BY <1>1, ListShape DEF LInv, Typing, Entry, Types
<1>3. \A i \in DOMAIN stack : stack[i].frame \in {"loop", "round", "walk", "handler"}
  <2>1. stack \in Seq(StackFrame)
    BY <1>1 DEF LInv, Typing
  <2> QED
    BY <2>1, StackShape, FrameShape
<1> QED
  BY <1>1, <1>2, <1>3 DEF TypeOK, LInv, Typing

(* Every variable of the list, the stack, the dispatcher and the other     *)
(* threads has its type: postedEvents never goes below 0, and a handler's  *)
(* event and receiver are real ones.                                       *)
THEOREM TypeCorrect == Spec => []TypeOK
  BY ListInvariant, TypingGives, PTL

(* Two ways of counting.                                                   *)
LEMMA CountedFor ==
  ASSUME LInv, NEW r \in Receivers
  PROVE  postedEvents[r] = Cardinality({i \in 1..Size(list) : list.entries[i].receiver = r})
<1> DEFINE A == {i \in 1..Size(list) : list.entries[i].receiver = r}
           f == [i \in A |-> list.entries[i]]
<1>1. SoundList(list) /\ list \in List /\ Once(list) /\ BothNull(list) /\ Size(list) \in Nat
  BY ListShape DEF LInv, SoundList
<1>2. r # NoReceiver
  BY EventLoopAssumption
<1>3. \A i \in A : list.entries[i].event # NoEvent /\ list.entries[i] \in For(r, list)
  BY <1>1, <1>2, LivePlaces DEF BothNull, For
<1>4. \A x \in For(r, list) : \E i \in A : list.entries[i] = x
  BY <1>1, LivePlaces DEF For
<1>5. \A i, j \in A : list.entries[i] = list.entries[j] => i = j
  BY <1>1, <1>3 DEF Once
<1>6. A \in SUBSET (1..Size(list))
  OBVIOUS
<1> HIDE DEF A
<1>7. f \in Bijection(A, For(r, list))
  BY <1>3, <1>4, <1>5 DEF Bijection, Injection, Surjection, IsInjective
<1>8. IsFiniteSet(A)
  <2>1. IsFiniteSet(1..Size(list))
    BY <1>1, FS_Interval
  <2> QED
    BY <1>6, <2>1, FS_Subset
<1>9. Cardinality(A) = Cardinality(For(r, list))
  <2>1. ExistsBijection(A, For(r, list))
    BY <1>7 DEF ExistsBijection
  <2> QED
    BY <1>8, <2>1, FS_Bijection
<1> QED
  BY <1>9 DEF LInv, Books, A

LEMMA ListedOnce ==
  ASSUME LInv, NEW e \in Events
  PROVE  Cardinality({i \in 1..Size(list) : list.entries[i].event = e})
           = IF fate[e] = "posted" THEN 1 ELSE 0
<1> DEFINE A == {i \in 1..Size(list) : list.entries[i].event = e}
<1>1. SoundList(list) /\ list \in List /\ Once(list) /\ Books
  BY DEF LInv, SoundList
<1>2. e # NoEvent
  BY EventLoopAssumption
<1>3. CASE fate[e] = "posted"
  <2>1. PICK x \in Live(list) : x.event = e
    BY <1>1, <1>3 DEF Books
  <2>2. PICK i \in 1..Size(list) : list.entries[i] = x
    BY <1>1, LivePlaces
  <2>3. A = {i}
    BY <1>1, <1>2, <2>1, <2>2 DEF Once
  <2>4. Cardinality({i}) = 1
    BY FS_Singleton
  <2> HIDE DEF A
  <2>5. Cardinality(A) = 1
    BY <2>3, <2>4
  <2> QED
    BY <1>3, <2>5 DEF A
<1>4. CASE fate[e] # "posted"
  <2>1. \A x \in Live(list) : x.event # e
    BY <1>1, <1>4 DEF Books
  <2>2. A = {}
    BY <1>1, <1>2, <2>1, LivePlaces
  <2>3. Cardinality({}) = 0
    BY FS_EmptySet
  <2> HIDE DEF A
  <2>4. Cardinality(A) = 0
    BY <2>2, <2>3
  <2> QED
    BY <1>4, <2>4 DEF A
<1> QED
  BY <1>3, <1>4

LEMMA LInvGivesSound == LInv => ListIsSound
<1>1. SUFFICES ASSUME LInv PROVE ListIsSound
  OBVIOUS
<1>2. \A r \in Receivers \ alive : postedEvents[r] = 0
  <2>1. ASSUME NEW r \in Receivers \ alive PROVE postedEvents[r] = 0
    <3>1. For(r, list) = {} /\ postedEvents[r] = Cardinality(For(r, list))
      BY <1>1 DEF LInv, Books
    <3>2. Cardinality({}) = 0
      BY FS_EmptySet
    <3> QED
      BY <3>1, <3>2
  <2> QED
    BY <2>1
<1>3. EntriesAccountedFor
  BY <1>1, <1>2, CountedFor, ListedOnce DEF EntriesAccountedFor
<1>4. OffsetsMakeSense
  <2>1. list \in List /\ Sorted(list) /\ Offsets(list)
    BY <1>1 DEF LInv, SoundList
  <2>2. list.startOffset \in Nat /\ Size(list) \in Nat
    BY <2>1, ListShape
  <2>3. list.startOffset \in 0..Size(list)
    BY <2>1, <2>2 DEF Offsets
  <2> QED
    BY <2>1, <2>3 DEF OffsetsMakeSense, Sorted, Offsets
<1> QED
  BY <1>3, <1>4 DEF ListIsSound

(* postedEvents, by which sendPostedEvents() and removePostedEvents() skip *)
(* their work, counts the entries of each receiver; a posted event is in   *)
(* the list once; nothing is posted to an object that is deleted; and      *)
(* however walks nest, startOffset and insertionOffset stay where the      *)
(* walks and std::upper_bound need them.                                   *)
THEOREM ListIsSoundHolds == Spec => []ListIsSound
  BY ListInvariant, LInvGivesSound, PTL

-----------------------------------------------------------------------------
(* Who is on top after a step.                                             *)
LEMMA PopTop ==
  ASSUME LInv, stack # <<>>, stack' = Front(stack), NEW at, RoundAt(at)'
  PROVE  at = "sent" /\ Top.frame = "walk"
<1>1. SoundStack(stack)
  BY StackIsSound
<1>2. stack' # <<>> /\ Last(stack').frame = "round" /\ Last(stack').at = at
  BY DEF RoundAt, TopIs, Top
<1>3. MayCall(Last(stack'), Last(stack))
  BY <1>1, <1>2, PopFacts
<1>4. Top \in StackFrame
  BY TopShape
<1> QED
  BY <1>2, <1>3, <1>4, FrameShape DEF MayCall, Top

LEMMA PushTop ==
  ASSUME LInv, NEW f \in StackFrame, stack' = Append(stack, f)
  PROVE  stack' # <<>> /\ Last(stack') = f
<1>1. stack \in Seq(StackFrame)
  BY DEF LInv, Typing
<1> QED
  BY <1>1, AppendProperties DEF Last

(* No walk begins, goes on or ends.                                        *)
KeepsWalks ==
    /\ \A i \in DOMAIN stack : stack[i].frame = "walk" => i \in DOMAIN stack' /\ stack'[i] = stack[i]
    /\ \A i \in DOMAIN stack' : stack'[i].frame = "walk" => i \in DOMAIN stack /\ stack'[i] = stack[i]

LEMMA PushWalks ==
  ASSUME LInv, NEW f \in StackFrame, stack' = Append(stack, f), f.frame # "walk"
  PROVE  KeepsWalks
<1>1. stack \in Seq(StackFrame)
  BY DEF LInv, Typing
<1>2. /\ stack' \in Seq(StackFrame) /\ Len(stack') = Len(stack) + 1
      /\ \A i \in 1..Len(stack) : stack'[i] = stack[i]
      /\ stack'[Len(stack) + 1] = f
  BY <1>1, AppendProperties
<1>3. DOMAIN stack = 1..Len(stack) /\ DOMAIN stack' = 1..(Len(stack) + 1) /\ Len(stack) \in Nat
  BY <1>1, <1>2, StackShape
<1> QED
  BY <1>2, <1>3, BelowTop DEF KeepsWalks

LEMMA PopWalks ==
  ASSUME LInv, stack # <<>>, stack' = Front(stack), Top.frame # "walk"
  PROVE  KeepsWalks
<1>1. SoundStack(stack)
  BY StackIsSound
<1>2. /\ SoundStack(stack') /\ Len(stack') = Len(stack) - 1
      /\ \A i \in 1..Len(stack') : i \in 1..Len(stack) /\ stack'[i] = stack[i]
  BY <1>1, PopFacts
<1>3. /\ DOMAIN stack = 1..Len(stack) /\ DOMAIN stack' = 1..Len(stack') /\ Len(stack) \in Nat
      /\ Top = stack[Len(stack)]
  BY <1>1, <1>2, StackShape, TopShape DEF SoundStack
<1>4. \A i \in 1..Len(stack) : i # Len(stack) => i \in 1..Len(stack')
  BY <1>2, <1>3, BelowTop
<1> QED
  BY <1>2, <1>3, <1>4 DEF KeepsWalks

LEMMA TopWalks ==
  ASSUME LInv, stack # <<>>, NEW f, stack' = [stack EXCEPT ![Len(stack)] = f],
         f.frame # "walk", Top.frame # "walk"
  PROVE  KeepsWalks
<1>1. /\ Len(stack) \in Nat /\ DOMAIN stack = 1..Len(stack) /\ Top = stack[Len(stack)]
      /\ Len(stack) \in 1..Len(stack)
  BY TopShape
<1>2. /\ DOMAIN stack' = DOMAIN stack /\ stack'[Len(stack)] = f
      /\ \A i \in DOMAIN stack : i # Len(stack) => stack'[i] = stack[i]
  BY <1>1
<1> QED
  BY <1>1, <1>2 DEF KeepsWalks

(* The calls and returns around the walks: no round goes on by them.       *)
Around == \/ CheckExit \/ HandlerReturns \/ ProcessEvents \/ DeleteReceiver
          \/ \E l \in Loops : Exec(l)

LEMMA AroundStack ==
  ASSUME LInv, Around
  PROVE  KeepsWalks /\ ~TopIs("round") /\ \A at : RoundAt(at)' => at = "start"
<1>1. ASSUME NEW f \in StackFrame, stack' = Append(stack, f), f.frame # "walk",
             f.frame = "round" => f.at = "start"
      PROVE  KeepsWalks /\ \A at : RoundAt(at)' => at = "start"
  <2>1. stack' # <<>> /\ Last(stack') = f
    BY <1>1, PushTop
  <2> QED
    BY <1>1, <2>1, PushWalks DEF RoundAt, TopIs, Top
<1>2. ASSUME stack # <<>>, stack' = Front(stack), Top.frame # "walk"
      PROVE  KeepsWalks /\ \A at : RoundAt(at)' => at = "start"
  BY <1>2, PopTop, PopWalks
<1>3. CASE CheckExit
  <2>1. stack # <<>> /\ Top.frame = "loop" /\ (stack' = Front(stack) \/ stack' = Append(stack, RoundFrame(TRUE)))
    BY <1>3 DEF CheckExit, TopIs, Return, Push
  <2>2. RoundFrame(TRUE) \in StackFrame /\ RoundFrame(TRUE).frame = "round" /\ RoundFrame(TRUE).at = "start"
    BY FramesFit DEF RoundFrame
  <2> QED
    BY <1>1, <1>2, <2>1, <2>2 DEF TopIs
<1>4. CASE HandlerReturns \/ DeleteReceiver
  <2>1. stack # <<>> /\ Top.frame = "handler" /\ stack' = Front(stack)
    BY <1>4 DEF HandlerReturns, DeleteReceiver, TopIs, Return
  <2> QED
    BY <1>2, <2>1 DEF TopIs
<1>5. CASE ProcessEvents
  <2>1. stack' = Append(stack, RoundFrame(FALSE)) /\ ~TopIs("round")
    BY <1>5 DEF ProcessEvents, Push, InUserCode, TopIs
  <2>2. RoundFrame(FALSE) \in StackFrame /\ RoundFrame(FALSE).frame = "round" /\ RoundFrame(FALSE).at = "start"
    BY FramesFit DEF RoundFrame
  <2> QED
    BY <1>1, <2>1, <2>2
<1>6. CASE \E l \in Loops : Exec(l)
  <2>1. PICK l \in Loops : Exec(l)
    BY <1>6
  <2>2. stack' = Append(stack, LoopFrame(l)) /\ ~TopIs("round")
    BY <2>1 DEF Exec, Push, InUserCode, TopIs
  <2>3. LoopFrame(l) \in StackFrame /\ LoopFrame(l).frame = "loop"
    BY FramesFit
  <2> QED
    BY <1>1, <2>2, <2>3
<1> QED
  BY <1>3, <1>4, <1>5, <1>6 DEF Around

(* The steps of a round.                                                   *)
LEMMA RoundTops ==
  ASSUME LInv
  PROVE  /\ StartRound => KeepsWalks /\ RoundAt("start") /\ \A at : RoundAt(at)' => at = "send"
         /\ ReadCanWait => /\ KeepsWalks /\ RoundAt("sent")
                           /\ \A at : RoundAt(at)' => at = "decide"
                           /\ Last(stack').waits <=> (Top.waits /\ canWait)
         /\ ReadInterrupt => /\ KeepsWalks /\ RoundAt("decide")
                             /\ \A at : RoundAt(at)' => at = "poll" /\ Last(stack').waits = Top.waits
         /\ Poll => /\ KeepsWalks /\ RoundAt("poll")
                    /\ \A at : RoundAt(at)' => at = "check" /\ pipe
                    /\ pipe => RoundAt("check")'
         /\ ResetWakeUps => KeepsWalks /\ RoundAt("check") /\ \A at : ~RoundAt(at)'
<1> DEFINE now(at) == [Top EXCEPT !.at = at]
           read == [Top EXCEPT !.at = "decide", !.waits = @ /\ canWait]
<1>1. ASSUME TopIs("round"), NEW f \in RoundFrames, stack' = [stack EXCEPT ![Len(stack)] = f]
      PROVE  KeepsWalks /\ RoundAt(f.at)' /\ \A at : RoundAt(at)' => at = f.at /\ Last(stack') = f
  <2>1. Last(stack') = f /\ stack' # <<>>
    BY <1>1, RoundTop
  <2>2. f.frame = "round" /\ stack # <<>> /\ Top.frame = "round"
    BY <1>1 DEF RoundFrames, TopIs
  <2> QED
    BY <1>1, <2>1, <2>2, TopWalks DEF RoundAt, TopIs, Top
<1>2. ASSUME TopIs("round"), stack' = Front(stack)
      PROVE  KeepsWalks /\ \A at : ~RoundAt(at)'
  <2>1. stack # <<>> /\ Top.frame = "round"
    BY <1>2 DEF TopIs
  <2> QED
    BY <1>2, <2>1, PopTop, PopWalks
<1>3. ASSUME TopIs("round"), NEW at \in {"start", "send", "sent", "decide", "poll", "check"}
      PROVE  /\ now(at) \in RoundFrames /\ now(at).at = at /\ now(at).waits = Top.waits
             /\ RoundTo(at) = [stack EXCEPT ![Len(stack)] = now(at)]
             /\ read \in RoundFrames /\ read.at = "decide" /\ (read.waits <=> (Top.waits /\ canWait))
             /\ [stack EXCEPT ![Len(stack)].at = "decide", ![Len(stack)].waits = @ /\ canWait]
                  = [stack EXCEPT ![Len(stack)] = read]
  <2>1. stack # <<>> /\ Top.frame = "round"
    BY <1>3 DEF TopIs
  <2>2. Top \in RoundFrames
    BY <2>1, TopShape, FrameShape
  <2>3. now(at).at = at /\ now(at).waits = Top.waits /\ read.at = "decide" /\ (read.waits <=> (Top.waits /\ canWait))
    BY <2>2 DEF RoundFrames
  <2> QED
    BY <1>3, <2>3, RoundToForm
<1> HIDE DEF now, read
<1>4. ASSUME StartRound
      PROVE  KeepsWalks /\ RoundAt("start") /\ \A at : RoundAt(at)' => at = "send"
  <2>1. TopIs("round") /\ RoundAt("start") /\ stack' = RoundTo("send")
    BY <1>4 DEF StartRound, RoundAt
  <2>2. now("send") \in RoundFrames /\ now("send").at = "send" /\ stack' = [stack EXCEPT ![Len(stack)] = now("send")]
    BY <1>3, <2>1
  <2> QED
    BY <1>1, <2>1, <2>2
<1>5. ASSUME ReadCanWait
      PROVE  /\ KeepsWalks /\ RoundAt("sent")
             /\ \A at : RoundAt(at)' => at = "decide"
             /\ Last(stack').waits <=> (Top.waits /\ canWait)
  <2>1. /\ TopIs("round") /\ RoundAt("sent")
        /\ stack' = [stack EXCEPT ![Len(stack)].at = "decide", ![Len(stack)].waits = @ /\ canWait]
    BY <1>5 DEF ReadCanWait, RoundAt
  <2>2. /\ read \in RoundFrames /\ read.at = "decide" /\ (read.waits <=> (Top.waits /\ canWait))
        /\ stack' = [stack EXCEPT ![Len(stack)] = read]
    BY <1>3, <2>1
  <2>3. RoundAt("decide")'
    BY <1>1, <2>1, <2>2
  <2> QED
    BY <1>1, <2>1, <2>2, <2>3
<1>6. ASSUME ReadInterrupt
      PROVE  /\ KeepsWalks /\ RoundAt("decide")
             /\ \A at : RoundAt(at)' => at = "poll" /\ Last(stack').waits = Top.waits
  <2>1. /\ TopIs("round") /\ RoundAt("decide")
        /\ stack' = Front(stack) \/ stack' = RoundTo("poll")
    BY <1>6 DEF ReadInterrupt, RoundAt, Return
  <2>2. CASE stack' = Front(stack)
    BY <1>2, <2>1, <2>2
  <2>3. CASE stack' = RoundTo("poll")
    <3>1. /\ now("poll") \in RoundFrames /\ now("poll").at = "poll" /\ now("poll").waits = Top.waits
          /\ stack' = [stack EXCEPT ![Len(stack)] = now("poll")]
      BY <1>3, <2>1, <2>3
    <3> QED
      BY <1>1, <2>1, <3>1
  <2> QED
    BY <2>1, <2>2, <2>3
<1>7. ASSUME Poll
      PROVE  /\ KeepsWalks /\ RoundAt("poll")
             /\ \A at : RoundAt(at)' => at = "check" /\ pipe
             /\ pipe => RoundAt("check")'
  <2>1. /\ TopIs("round") /\ RoundAt("poll")
        /\ IF pipe THEN stack' = RoundTo("check") ELSE stack' = Front(stack)
    BY <1>7 DEF Poll, RoundAt, Return
  <2>2. CASE ~pipe
    BY <1>2, <2>1, <2>2
  <2>3. CASE pipe
    <3>1. /\ now("check") \in RoundFrames /\ now("check").at = "check"
          /\ stack' = [stack EXCEPT ![Len(stack)] = now("check")]
      BY <1>3, <2>1, <2>3
    <3> QED
      BY <1>1, <2>1, <2>3, <3>1
  <2> QED
    BY <2>2, <2>3
<1>8. ASSUME ResetWakeUps
      PROVE  KeepsWalks /\ RoundAt("check") /\ \A at : ~RoundAt(at)'
  <2>1. TopIs("round") /\ RoundAt("check") /\ stack' = Front(stack)
    BY <1>8 DEF ResetWakeUps, RoundAt, Return
  <2> QED
    BY <1>2, <2>1
<1> QED
  BY <1>4, <1>5, <1>6, <1>7, <1>8

-----------------------------------------------------------------------------
(* The pipe.                                                               *)
LEMMA QuietPipe ==
  ASSUME PipeInv, UNCHANGED <<pipe, wakeUps>>, RoundAt("check")' <=> RoundAt("check"),
         \A t \in Posters : poster'[t] = "write" <=> poster[t] = "write"
  PROVE  PipeInv'
  BY DEF PipeInv, PipeMatchesWakeUps

LEMMA SelfWakes ==
  ASSUME PipeInv, WakeUpSelf, ~RoundAt("check"), ~RoundAt("check")', poster' = poster
  PROVE  PipeInv'
  BY DEF PipeInv, PipeMatchesWakeUps, WakeUpSelf

(* The steps of a thread that is in the midst of waking the other.         *)
LEMMA WakersPipe ==
  ASSUME LInv, PipeInv, NEW t \in Posters, InWakeUp(t)
  PROVE  PipeInv'
<1>1. UNCHANGED stack /\ poster \in [Posters -> PosterStates]
  BY DEF InWakeUp, Interrupt, SetWakeUps, WritePipe, LInv, Typing
<1>2. RoundAt("check")' <=> RoundAt("check")
  BY <1>1 DEF RoundAt, TopIs, Top
<1>3. CASE Interrupt(t)
  <2>1. \A s \in Posters : poster'[s] = "write" <=> poster[s] = "write"
    BY <1>1, <1>3 DEF Interrupt
  <2> QED
    BY <1>2, <1>3, <2>1, QuietPipe DEF Interrupt
<1>4. CASE SetWakeUps(t)
  <2>1. CASE wakeUps
    <3>1. \A s \in Posters : poster'[s] = "write" <=> poster[s] = "write"
      BY <1>1, <1>4, <2>1 DEF SetWakeUps
    <3> QED
      BY <1>2, <1>4, <2>1, <3>1 DEF SetWakeUps, PipeInv, PipeMatchesWakeUps
  <2>2. CASE ~wakeUps
    <3>1. ~pipe /\ ~RoundAt("check") /\ \A s \in Posters : poster[s] # "write"
      BY <2>2 DEF PipeInv, PipeMatchesWakeUps
    <3>2. /\ wakeUps' = TRUE /\ pipe' = pipe /\ poster'[t] = "write"
          /\ \A s \in Posters : s # t => poster'[s] # "write"
      BY <1>1, <1>4, <2>2, <3>1 DEF SetWakeUps
    <3> QED
      BY <1>2, <3>1, <3>2 DEF PipeInv, PipeMatchesWakeUps
  <2> QED
    BY <2>1, <2>2
<1>5. CASE WritePipe(t)
  <2>1. wakeUps /\ ~RoundAt("check") /\ \A s \in Posters : poster[s] = "write" => s = t
    BY <1>5 DEF WritePipe, PipeInv, PipeMatchesWakeUps
  <2>2. pipe' = TRUE /\ wakeUps' = wakeUps /\ \A s \in Posters : poster'[s] # "write"
    BY <1>1, <1>5, <2>1 DEF WritePipe
  <2> QED
    BY <1>2, <2>1, <2>2 DEF PipeInv, PipeMatchesWakeUps
<1> QED
  BY <1>3, <1>4, <1>5 DEF InWakeUp

LEMMA RoundsPipe ==
  ASSUME LInv, PipeInv, Round
  PROVE  PipeInv'
<1>1. CASE StartRound \/ ReadCanWait \/ ReadInterrupt
  <2>1. RoundAt("check")' <=> RoundAt("check")
    <3>1. ~RoundAt("check")'
      BY <1>1, RoundTops
    <3>2. ~RoundAt("check")
      BY <1>1 DEF StartRound, ReadCanWait, ReadInterrupt, RoundAt
    <3> QED
      BY <3>1, <3>2
  <2> QED
    BY <1>1, <2>1, QuietPipe DEF StartRound, ReadCanWait, ReadInterrupt, dispatcher
<1>2. CASE SendAll
  <2>1. ~RoundAt("check") /\ UNCHANGED <<pipe, wakeUps, poster>>
    BY <1>2 DEF SendAll, RoundAt, dispatcher
  <2>2. Top \in RoundFrames
    BY <1>2, SendAllStack, TopShape, FrameShape
  <2>3. [Top EXCEPT !.at = "sent"].at = "sent" /\ WalkFrame(NoReceiver, "any", list.startOffset).frame = "walk"
    BY <2>2 DEF RoundFrames, WalkFrame
  <2>4. ~RoundAt("check")'
    <3>1. Last(stack') \in {[Top EXCEPT !.at = "sent"], WalkFrame(NoReceiver, "any", list.startOffset)}
      BY <1>2, SendAllStack
    <3> QED
      BY <2>3, <3>1 DEF RoundAt, TopIs, Top
  <2> QED
    BY <2>1, <2>4, QuietPipe
<1>3. CASE Poll
  <2>1. /\ UNCHANGED <<wakeUps, poster>> /\ pipe' = FALSE /\ ~RoundAt("check")
        /\ RoundAt("check")' <=> pipe
    <3>1. RoundAt("check")' <=> pipe
      BY <1>3, RoundTops
    <3> QED
      BY <1>3, <3>1 DEF Poll, RoundAt
  <2> QED
    BY <2>1 DEF PipeInv, PipeMatchesWakeUps
<1>4. CASE ResetWakeUps
  <2>1. /\ UNCHANGED <<pipe, poster>> /\ wakeUps' = FALSE /\ RoundAt("check")
        /\ ~RoundAt("check")'
    <3>1. ~RoundAt("check")'
      BY <1>4, RoundTops
    <3> QED
      BY <1>4, <3>1 DEF ResetWakeUps
  <2> QED
    BY <2>1 DEF PipeInv, PipeMatchesWakeUps
<1> QED
  BY <1>1, <1>2, <1>3, <1>4 DEF Round

(* The top of the stack while a walk goes on, and when it has ended.       *)
LEMMA WalkTops ==
  ASSUME LInv, SkipEntry \/ RepostDelete \/ Deliver
  PROVE  /\ TopIs("walk") /\ ~AtEnd
         /\ \A at : ~RoundAt(at)'
         /\ Len(stack) \in DOMAIN stack' /\ stack'[Len(stack)].frame = "walk"
         /\ \A j \in DOMAIN stack' : j > Len(stack) => stack'[j].frame # "walk"
         /\ list'.insertionOffset = list.insertionOffset
         /\ IF IsWalkOfAll(stack'[Len(stack)]) THEN list'.startOffset = Position + 1
                                               ELSE stack'[Len(stack)].i = Position + 1
<1> DEFINE l == IF SkipEntry THEN list
                ELSE IF RepostDelete THEN IF WalksAll THEN Reposted ELSE list
                ELSE NullAt(list, Position + 1)
           h == IF SkipEntry \/ RepostDelete THEN <<>> ELSE <<HandlerFrame(Here)>>
<1>1. /\ TopIs("walk") /\ ~AtEnd /\ Advance(l, h)
      /\ h = <<>> \/ \E f \in HandlerFrames : h = <<f>>
  <2>1. CASE SkipEntry
    BY <2>1 DEF SkipEntry
  <2>2. CASE RepostDelete /\ ~SkipEntry
    BY <2>2 DEF RepostDelete, Reposted
  <2>3. CASE Deliver /\ ~SkipEntry /\ ~RepostDelete
    BY <2>3, DeliverFacts DEF Deliver
  <2> QED
    BY <2>1, <2>2, <2>3
<1>2. SoundList(list) /\ Size(list) \in Nat
  BY ListShape DEF LInv, SoundList
<1>3. /\ SoundList(l) /\ l.startOffset = list.startOffset
      /\ l.insertionOffset = list.insertionOffset /\ Size(list) <= Size(l)
      /\ WalksAll => l.entries[Position + 1].event = NoEvent
  <2>1. CASE SkipEntry
    <3>1. WalksAll => list.entries[Position + 1].event = NoEvent
      BY <2>1 DEF SkipEntry, WalksAll, Matches, Here
    <3> QED
      BY <1>2, <2>1, <3>1
  <2>2. CASE RepostDelete /\ ~SkipEntry
    <3>1. Here.event # NoEvent
      BY <2>2 DEF RepostDelete
    <3>2. /\ SoundList(Reposted) /\ Reposted.startOffset = list.startOffset
          /\ Reposted.insertionOffset = list.insertionOffset /\ Size(Reposted) = Size(list) + 1
          /\ Reposted.entries[Position + 1].event = NoEvent
      BY <1>1, <3>1, RepostFacts
    <3> QED
      BY <1>2, <2>2, <3>2
  <2>3. CASE Deliver /\ ~SkipEntry /\ ~RepostDelete
    BY <2>3, DeliverFacts
  <2> QED
    BY <2>1, <2>2, <2>3
<1> HIDE DEF l, h
<1>4. /\ SoundStack(stack') /\ Len(stack') = Len(stack) + Len(h) /\ Len(stack') \in Nat
      /\ Len(h) \in {0, 1}
      /\ stack'[Len(stack)] = IF WalksAll THEN Top ELSE [Top EXCEPT !.i = Top.i + 1]
      /\ stack'[Len(stack)].frame = "walk"
      /\ IsWalkOfAll(stack'[Len(stack)]) <=> WalksAll
      /\ Len(h) = 1 => stack'[Len(stack) + 1] = h[1] /\ h[1] \in HandlerFrames
  BY <1>1, AdvanceStack
<1>5. /\ list'.insertionOffset = list.insertionOffset
      /\ list'.startOffset = IF WalksAll THEN list.startOffset + 1 ELSE list.startOffset
  BY <1>1, <1>3, AdvanceList
<1>6. /\ Top \in WalkFrames /\ Len(stack) \in Nat /\ Len(stack) \in 1..Len(stack)
  BY <1>1, WalkTop
<1>7. IF IsWalkOfAll(stack'[Len(stack)]) THEN list'.startOffset = Position + 1
                                         ELSE stack'[Len(stack)].i = Position + 1
  <2>1. [Top EXCEPT !.i = Top.i + 1].i = Top.i + 1
    BY <1>6 DEF WalkFrames
  <2> QED
    BY <1>4, <1>5, <2>1 DEF Position
<1>8. DOMAIN stack' = 1..Len(stack') /\ stack' # <<>> /\ Last(stack') = stack'[Len(stack')]
  <2>1. Len(stack') # 0
    <3>1. \A n \in Nat, k \in {0, 1} : n \in 1..n => n + k # 0
      OBVIOUS
    <3> QED
      BY <1>4, <1>6, <3>1
  <2>2. stack' # <<>>
    BY <2>1
  <2> QED
    BY <1>4, <2>2, StackShape DEF SoundStack
<1>9. \/ Len(h) = 0 /\ Len(stack') = Len(stack)
      \/ Len(h) = 1 /\ Len(stack') = Len(stack) + 1
  <2>1. \A n \in Nat, k \in {0, 1} : (k = 0 /\ n + k = n) \/ (k = 1 /\ n + k = n + 1)
    OBVIOUS
  <2> QED
    BY <1>4, <1>6, <2>1
<1>10. ASSUME NEW j \in DOMAIN stack', j > Len(stack) PROVE stack'[j].frame = "handler"
  <2>1. Len(h) = 1 /\ j = Len(stack) + 1
    <3>1. j \in 1..Len(stack) \/ (Len(h) = 1 /\ j \in 1..(Len(stack) + 1))
      BY <1>8, <1>9
    <3>2. \A n \in Nat : /\ \A k \in 1..n : ~(k > n)
                         /\ \A k \in 1..(n + 1) : k > n => k = n + 1
      OBVIOUS
    <3> QED
      BY <1>6, <1>10, <3>1, <3>2
  <2> QED
    BY <1>4, <2>1 DEF HandlerFrames
<1>11. Len(stack) \in DOMAIN stack' /\ Last(stack').frame \in {"walk", "handler"}
  <2>1. CASE Len(stack') = Len(stack)
    BY <1>4, <1>6, <1>8, <2>1
  <2>2. CASE Len(stack') = Len(stack) + 1
    <3>1. Len(stack) \in DOMAIN stack' /\ Len(stack') \in DOMAIN stack' /\ Len(stack') > Len(stack)
      BY <1>6, <1>8, <2>2
    <3> QED
      BY <1>8, <1>10, <3>1
  <2> QED
    BY <1>9, <2>1, <2>2
<1>12. \A at : ~RoundAt(at)'
  BY <1>11 DEF RoundAt, TopIs, Top
<1> QED
  BY <1>1, <1>4, <1>5, <1>7, <1>10, <1>11, <1>12

LEMMA EndTop ==
  ASSUME LInv, EndWalk
  PROVE  TopIs("walk") /\ \A at : RoundAt(at)' => at = "sent"
<1>1. TopIs("walk") /\ stack # <<>> /\ stack' = Front(stack)
  BY DEF EndWalk, TopIs, Return
<1> QED
  BY <1>1, PopTop

LEMMA SendTop ==
  ASSUME LInv, NEW r \in Receivers \cup {NoReceiver}, NEW ty \in {"any", "delete"}, SendPostedEvents(r, ty)
  PROVE  /\ ~TopIs("round") /\ \A at : ~RoundAt(at)'
         /\ stack' = stack \/ stack' = Append(stack, WalkFrame(r, ty, list.startOffset))
<1>1. BeginWalk(stack, r, ty) /\ ~TopIs("round")
  BY DEF SendPostedEvents, InUserCode, TopIs
<1>2. stack' = stack \/ stack' = Append(stack, WalkFrame(r, ty, list.startOffset))
  BY <1>1, BegunFacts
<1>3. WalkFrame(r, ty, list.startOffset) \in StackFrame /\ WalkFrame(r, ty, list.startOffset).frame = "walk"
  <2>1. list.startOffset \in Nat
    BY ListShape DEF LInv, Typing
  <2> QED
    BY <2>1, FramesFit
<1>4. \A at : ~RoundAt(at)'
  <2>1. CASE stack' = stack
    BY <1>1, <2>1 DEF RoundAt, TopIs, Top
  <2>2. CASE stack' = Append(stack, WalkFrame(r, ty, list.startOffset))
    <3>1. Last(stack').frame = "walk"
      BY <1>3, <2>2, PushTop
    <3> QED
      BY <3>1 DEF RoundAt, TopIs, Top
  <2> QED
    BY <1>2, <2>1, <2>2
<1> QED
  BY <1>1, <1>2, <1>4

LEMMA PipeStep ==
  ASSUME LInv, PipeInv, [Next]_vars
  PROVE  PipeInv'
<1>1. ASSUME ~RoundAt("check"), ~RoundAt("check")', UNCHANGED dispatcher, UNCHANGED poster
      PROVE  PipeInv'
  BY <1>1, QuietPipe DEF dispatcher
<1>2. ASSUME UNCHANGED <<stack, dispatcher>>, \A t \in Posters : poster'[t] = "write" <=> poster[t] = "write"
      PROVE  PipeInv'
  <2>1. RoundAt("check")' <=> RoundAt("check")
    BY <1>2 DEF RoundAt, TopIs, Top
  <2> QED
    BY <1>2, <2>1, QuietPipe DEF dispatcher
<1>3. ASSUME UNCHANGED <<stack, poster>>, ~TopIs("round"), WakeUpSelf \/ UNCHANGED <<pipe, wakeUps>>
      PROVE  PipeInv'
  <2>1. ~RoundAt("check")' /\ ~RoundAt("check")
    BY <1>3 DEF RoundAt, TopIs, Top
  <2> QED
    BY <1>3, <2>1, SelfWakes, QuietPipe
<1>4. poster \in [Posters -> PosterStates]
  BY DEF LInv, Typing
<1>5. CASE Around
  <2>1. ~RoundAt("check") /\ ~RoundAt("check")'
    BY <1>5, AroundStack DEF RoundAt
  <2>2. UNCHANGED dispatcher /\ UNCHANGED poster
    BY <1>5 DEF Around, CheckExit, HandlerReturns, ProcessEvents, DeleteReceiver, Exec
  <2> QED
    BY <1>1, <2>1, <2>2
<1>6. CASE Round
  BY <1>6, RoundsPipe
<1>7. CASE SkipEntry \/ RepostDelete \/ Deliver
  <2>1. ~RoundAt("check") /\ ~RoundAt("check")'
    BY <1>7, WalkTops DEF RoundAt, TopIs
  <2>2. UNCHANGED dispatcher /\ UNCHANGED poster
    BY <1>7 DEF SkipEntry, RepostDelete, Deliver
  <2> QED
    BY <1>1, <2>1, <2>2
<1>8. CASE EndWalk
  <2>1. ~RoundAt("check") /\ ~RoundAt("check")'
    BY <1>8, EndTop DEF RoundAt, TopIs
  <2>2. poster' = poster /\ (WakeUpSelf \/ UNCHANGED <<pipe, wakeUps>>)
    BY <1>8 DEF EndWalk
  <2> QED
    BY <2>1, <2>2, SelfWakes, QuietPipe
<1>9. CASE \E r \in Receivers, e \in Events :
             \/ \E p \in Priorities : Post(r, e, "normal", p)
             \/ Post(r, e, "delete", 0)
  <2>1. UNCHANGED <<stack, poster>> /\ ~TopIs("round") /\ (WakeUpSelf \/ UNCHANGED <<pipe, wakeUps>>)
    BY <1>9 DEF Post, InUserCode, TopIs
  <2> QED
    BY <1>3, <2>1
<1>10. CASE (\E r \in alive \cup {NoReceiver} : SendPostedEvents(r, "any"))
             \/ SendPostedEvents(NoReceiver, "delete")
  <2>1. alive \subseteq Receivers
    BY DEF LInv, Typing
  <2>2. ~RoundAt("check") /\ ~RoundAt("check")'
    BY <1>10, <2>1, SendTop DEF RoundAt
  <2>3. UNCHANGED dispatcher /\ UNCHANGED poster
    BY <1>10 DEF SendPostedEvents
  <2> QED
    BY <1>1, <2>2, <2>3
<1>11. CASE \E l \in Loops : Exit(l)
  <2>1. UNCHANGED <<stack, poster>> /\ ~TopIs("round") /\ WakeUpSelf
    BY <1>11 DEF Exit, InUserCode, TopIs
  <2> QED
    BY <1>3, <2>1
<1>12. CASE \E r \in Receivers : RemovePostedEvents(r)
  BY <1>2, <1>12 DEF RemovePostedEvents
<1>13. CASE \E t \in Posters : OtherThread(t)
  <2>1. UNCHANGED <<stack, dispatcher>> /\ \A t \in Posters : poster'[t] = "write" <=> poster[t] = "write"
    BY <1>4, <1>13 DEF OtherThread, PostFrom, ExitFrom
  <2> QED
    BY <1>2, <2>1
<1>14. CASE \E t \in Posters : InWakeUp(t)
  BY <1>14, WakersPipe
<1>15. CASE UNCHANGED vars
  BY <1>2, <1>15 DEF vars
<1> QED
  BY <1>5, <1>6, <1>7, <1>8, <1>9, <1>10, <1>11, <1>12, <1>13, <1>14, <1>15
     DEF Next, UserCall, Walk, Around

-----------------------------------------------------------------------------
(* Waiting.                                                                *)
Waits == MayWait /\ SentAll /\ SleepInv

LEMMA WaitsOnNothing ==
  ASSUME LInv', canWait' => ~Left'
  PROVE  MayWait'
<1>1. list' \in List
  BY DEF LInv, Typing
<1> QED
  BY <1>1, LivePlaces DEF MayWait, Left, Deliverable

(* What a walk was to come to, it still will.                              *)
LEMMA QuietWait ==
  ASSUME LInv, MayWait, KeepsWalks, canWait' => canWait,
         list'.startOffset = list.startOffset, list'.insertionOffset = list.insertionOffset,
         \A p : Deliverable(p)' => Deliverable(p)
  PROVE  MayWait'
<1>1. ASSUME NEW i, NEW p, WillReach(i, p) PROVE WillReach(i, p)'
  BY <1>1 DEF WillReach, KeepsWalks, PositionOf
<1>2. ASSUME canWait', NEW p \in 1..Size(list'), Deliverable(p)'
      PROVE  \E i \in DOMAIN stack' : WillReach(i, p)'
  <2>1. Deliverable(p)
    BY <1>2
  <2>2. PICK i \in DOMAIN stack : WillReach(i, p)
    BY <1>2, <2>1 DEF MayWait, Deliverable
  <2>3. WillReach(i, p)'
    BY <1>1, <2>2
  <2> QED
    BY <2>3 DEF WillReach
<1> QED
  BY <1>2 DEF MayWait

LEMMA TopReaches ==
  ASSUME LInv, MayWait, canWait, TopIs("walk"), NEW p, Deliverable(p)
  PROVE  Position < p /\ p <= list.insertionOffset
<1>1. PICK i \in DOMAIN stack : WillReach(i, p)
  BY DEF MayWait, Deliverable
<1>2. /\ Len(stack) \in DOMAIN stack /\ stack[Len(stack)].frame = "walk" /\ Position = PositionOf(stack[Len(stack)])
      /\ Len(stack) \in Nat /\ DOMAIN stack = 1..Len(stack)
  BY WalkTop
<1>3. i = Len(stack)
  <2>1. ~(Len(stack) > i)
    BY <1>1, <1>2 DEF WillReach
  <2> QED
    BY <1>2, <2>1
<1> QED
  BY <1>1, <1>2, <1>3 DEF WillReach

(* A walk that begins comes to all that is in the list.                    *)
LEMMA BegunWait ==
  ASSUME LInv, LInv', NEW below, NEW r, NEW ty, BeginWalk(below, r, ty),
         stack' = Append(below, WalkFrame(r, ty, list.startOffset))
           => Last(stack') = WalkFrame(r, ty, list.startOffset) /\ stack' # <<>>
  PROVE  /\ MayWait'
         /\ stack' = below => ~(canWait' /\ Left')
<1> DEFINE w == WalkFrame(r, ty, list.startOffset)
<1>1. /\ Live(list') = Live(list) /\ list'.entries = list.entries
      /\ Size(list') = Size(list) /\ list'.startOffset = list.startOffset
      /\ \/ stack' = below /\ list' = list /\ canWait' = (Size(list) = 0)
         \/ /\ stack' = Append(below, w)
            /\ canWait' = TRUE /\ list'.insertionOffset = Size(list)
  BY BegunFacts
<1>2. list' \in List /\ Offsets(list') /\ stack' \in Seq(StackFrame) /\ list'.startOffset \in Nat
  BY ListShape DEF LInv, Typing, SoundList
<1>3. Size(list') \in Nat
  BY <1>2, ListShape
<1>4. CASE stack' = below /\ list' = list /\ canWait' = (Size(list) = 0)
  <2>1. canWait' => ~Left'
    <3>1. \A x \in Live(list') : \E i \in 1..Size(list') : list'.entries[i] = x
      BY <1>2, LivePlaces
    <3>2. canWait' => Size(list') = 0
      BY <1>1, <1>4
    <3> QED
      BY <3>1, <3>2 DEF Left
  <2> QED
    BY <2>1, WaitsOnNothing
<1>5. CASE stack' = Append(below, w) /\ canWait' = TRUE /\ list'.insertionOffset = Size(list)
  <2>1. PICK n, f : n = Len(stack') /\ f = w
    OBVIOUS
  <2>2. n \in Nat /\ n \in DOMAIN stack' /\ stack'[n] = f /\ DOMAIN stack' = 1..n
    <3>1. Last(stack') = w /\ stack' # <<>>
      BY <1>5
    <3> QED
      BY <1>2, <2>1, <3>1, StackShape
  <2>3. f.frame = "walk" /\ f.i = list'.startOffset
    BY <1>1, <2>1 DEF WalkFrame
  <2> HIDE DEF w
  <2>4. \A j \in DOMAIN stack' : ~(j > n)
    <3>1. \A m \in Nat : \A k \in 1..m : ~(k > m)
      OBVIOUS
    <3> QED
      BY <2>2, <3>1
  <2>5. MayWait'
    <3>1. ASSUME NEW p \in 1..Size(list'), Deliverable(p)'
          PROVE  WillReach(n, p)'
      <4>1. list'.startOffset < p
        <5>1. p \notin 1..list'.startOffset
          BY <1>2, <3>1 DEF Deliverable, Offsets
        <5> QED
          BY <1>2, <5>1
      <4>2. p <= list'.insertionOffset
        BY <1>1, <1>3, <1>5
      <4>3. PositionOf(f)' = list'.startOffset
        BY <2>3 DEF PositionOf
      <4> QED
        BY <2>2, <2>3, <2>4, <4>1, <4>2, <4>3 DEF WillReach, PositionOf
    <3> QED
      BY <2>2, <3>1 DEF MayWait
  <2>6. stack' # below
    <3>1. SUFFICES ASSUME stack' = below PROVE FALSE
      OBVIOUS
    <3>2. w \in StackFrame
      BY <1>2, <2>1, <2>2, StackShape
    <3>3. Len(Append(below, w)) = Len(below) + 1
      BY <1>2, <3>1, <3>2, AppendProperties
    <3>4. n = n + 1
      BY <1>5, <2>1, <3>1, <3>3
    <3> QED
      BY <2>2, <3>4
  <2> QED
    BY <2>5, <2>6
<1> QED
  BY <1>1, <1>4, <1>5

LEMMA SendsWait ==
  ASSUME LInv, LInv', Waits
  PROVE  /\ \A r \in Receivers \cup {NoReceiver}, ty \in {"any", "delete"} :
              SendPostedEvents(r, ty) => Waits'
         /\ SendAll => Waits'
<1>1. ASSUME NEW r \in Receivers \cup {NoReceiver}, NEW ty \in {"any", "delete"}, SendPostedEvents(r, ty)
      PROVE  Waits'
  <2> DEFINE w == WalkFrame(r, ty, list.startOffset)
  <2>1. BeginWalk(stack, r, ty) /\ \A at : ~RoundAt(at)'
    BY <1>1, SendTop DEF SendPostedEvents
  <2>2. w \in StackFrame
    <3>1. list.startOffset \in Nat
      BY ListShape DEF LInv, Typing
    <3> QED
      BY <3>1, FramesFit
  <2> HIDE DEF w
  <2>3. stack' = Append(stack, w) => Last(stack') = w /\ stack' # <<>>
    BY <2>2, PushTop
  <2>4. MayWait'
    BY <2>1, <2>3, BegunWait DEF w
  <2> QED
    BY <2>1, <2>4 DEF Waits, SentAll, SleepInv
<1>2. ASSUME SendAll PROVE Waits'
  <2> DEFINE w == WalkFrame(NoReceiver, "any", list.startOffset)
             t == RoundTo("sent")
  <2>1. BeginWalk(t, NoReceiver, "any") /\ RoundAt("send") /\ TopIs("round")
    BY <1>2 DEF SendAll, RoundAt
  <2>2. \/ Len(stack') = Len(stack) /\ stack' # <<>> /\ Last(stack') = [Top EXCEPT !.at = "sent"]
        \/ /\ Len(stack') = Len(stack) + 1 /\ Last(stack') = w
    BY <1>2, SendAllStack
  <2>3. /\ t = [stack EXCEPT ![Len(stack)] = [Top EXCEPT !.at = "sent"]]
        /\ [Top EXCEPT !.at = "sent"] \in RoundFrames /\ [Top EXCEPT !.at = "sent"].at = "sent"
    <3>1. Top \in RoundFrames
      BY <2>1, TopShape, FrameShape DEF TopIs
    <3>2. [Top EXCEPT !.at = "sent"].at = "sent"
      BY <3>1 DEF RoundFrames
    <3> QED
      BY <2>1, <3>2, RoundToForm
  <2>4. /\ SoundStack(t) /\ Len(t) = Len(stack) /\ Len(stack) \in Nat
    <3>1. stack # <<>> /\ Top.frame = "round" /\ SoundStack(stack) /\ Len(stack) \in Nat
      BY <2>1, StackIsSound, TopShape DEF TopIs
    <3> DEFINE f == [Top EXCEPT !.at = "sent"]
    <3>2. f \in StackFrame /\ f.frame = Last(stack).frame /\ t = [stack EXCEPT ![Len(stack)] = f]
      <4>1. f \in RoundFrames /\ t = [stack EXCEPT ![Len(stack)] = f]
        BY <2>3
      <4> HIDE DEF f
      <4> QED
        BY <3>1, <4>1 DEF RoundFrames, StackFrame, Top
    <3> HIDE DEF f
    <3>3. SoundStack([stack EXCEPT ![Len(stack)] = f]) /\ Len([stack EXCEPT ![Len(stack)] = f]) = Len(stack)
      BY <3>1, <3>2, TopFacts
    <3> QED
      BY <3>1, <3>2, <3>3
  <2>5. w \in StackFrame /\ w.frame = "walk"
    <3>1. list.startOffset \in Nat
      BY ListShape DEF LInv, Typing
    <3> QED
      BY <3>1, FramesFit
  <2> HIDE DEF w, t
  <2>6. stack' = Append(t, w) => Last(stack') = w /\ stack' # <<>> /\ stack' # t
    <3>1. SUFFICES ASSUME stack' = Append(t, w) PROVE Last(stack') = w /\ stack' # <<>> /\ stack' # t
      OBVIOUS
    <3>2. Len(stack') = Len(stack) + 1 /\ stack' # <<>> /\ stack'[Len(stack) + 1] = w
      BY <2>4, <2>5, <3>1, AppendProperties DEF SoundStack
    <3>3. Last(stack') = w
      BY <3>2 DEF Last
    <3> QED
      BY <2>4, <3>2, <3>3
  <2>7. MayWait' /\ (stack' = t => ~(canWait' /\ Left'))
    BY <2>1, <2>6, BegunWait DEF w
  <2>8. stack' = t \/ Last(stack') = w
    BY <2>1, <2>6, BegunFacts DEF w
  <2>9. CASE stack' = t
    <3>1. Last(stack') = [Top EXCEPT !.at = "sent"]
      BY <2>2, <2>4, <2>9
    <3>2. Last(stack').at = "sent"
      BY <2>3, <3>1
    <3> QED
      BY <2>7, <2>9, <3>2 DEF Waits, SentAll, SleepInv, RoundAt, Top
  <2>10. CASE Last(stack') = w
    BY <2>5, <2>7, <2>10 DEF Waits, SentAll, SleepInv, RoundAt, TopIs, Top
  <2> QED
    BY <2>8, <2>9, <2>10
<1> QED
  BY <1>1, <1>2

(* The walk on top goes on: what it passes was null, is delivered, or can  *)
(* be found by the next walk over everything that canWait now allows.      *)
LEMMA WalksWait ==
  ASSUME LInv, LInv', Waits, SkipEntry \/ RepostDelete \/ Deliver
  PROVE  Waits'
<1>1. /\ TopIs("walk") /\ ~AtEnd
      /\ \A at : ~RoundAt(at)'
      /\ Len(stack) \in DOMAIN stack' /\ stack'[Len(stack)].frame = "walk"
      /\ \A j \in DOMAIN stack' : j > Len(stack) => stack'[j].frame # "walk"
      /\ list'.insertionOffset = list.insertionOffset
      /\ IF IsWalkOfAll(stack'[Len(stack)]) THEN list'.startOffset = Position + 1
                                            ELSE stack'[Len(stack)].i = Position + 1
  BY WalkTops
<1>2. /\ Position + 1 \in 1..Size(list) /\ Position < list.insertionOffset /\ Position \in Nat
      /\ Here \in Entry
  BY <1>1, WalkTop
<1>3. SoundList(list) /\ list \in List /\ Size(list) \in Nat /\ list.insertionOffset \in Nat
  BY ListShape DEF LInv, SoundList
<1>4. SoundList(list') /\ list' \in List /\ Once(list') /\ Size(list') \in Nat
  BY ListShape DEF LInv, SoundList
<1>5. ASSUME canWait', NEW p \in 1..Size(list'), Deliverable(p)'
      PROVE  Deliverable(p) /\ canWait /\ p # Position + 1
  <2>1. CASE SkipEntry
    <3>1. /\ canWait /\ Here.event = NoEvent /\ Advance(list, <<>>)
          /\ WalksAll => list.entries[Position + 1].event = NoEvent
      BY <1>5, <2>1 DEF SkipEntry, Here
    <3>2. list'.entries = list.entries /\ Size(list') = Size(list)
      <4>1. Size(list) <= Size(list)
        BY <1>3
      <4> QED
        BY <1>1, <1>3, <3>1, <4>1, AdvanceList
    <3> QED
      BY <1>5, <3>1, <3>2 DEF Deliverable, Here
  <2>2. CASE Deliver
    <3> DEFINE l == NullAt(list, Position + 1)
               h == <<HandlerFrame(Here)>>
    <3>1. /\ Advance(l, h) /\ HandlerFrame(Here) \in HandlerFrames
          /\ SoundList(l) /\ l.startOffset = list.startOffset /\ l.insertionOffset = list.insertionOffset
          /\ Size(l) = Size(list) /\ Size(list) <= Size(l)
          /\ l.entries[Position + 1].event = NoEvent
          /\ \A i \in 1..Size(list) : i # Position + 1 => l.entries[i] = list.entries[i]
      BY <2>2, DeliverFacts
    <3>2. h = <<HandlerFrame(Here)>> /\ canWait
      BY <1>5, <2>2 DEF Deliver
    <3> HIDE DEF l, h
    <3>3. list'.entries = l.entries /\ Size(list') = Size(l)
      BY <1>1, <3>1, <3>2, AdvanceList
    <3> QED
      BY <1>5, <3>1, <3>2, <3>3 DEF Deliverable
  <2>3. CASE RepostDelete
    <3> DEFINE l == IF WalksAll THEN Reposted ELSE list
    <3>1. /\ Advance(l, <<>>) /\ Here.event # NoEvent /\ canWait /\ Here.type = "delete"
      BY <1>5, <2>3 DEF RepostDelete, Reposted, Deferred
    <3>2. CASE ~WalksAll
      <4>1. list' = list
        BY <3>1, <3>2 DEF Advance
      <4> QED
        BY <1>5, <3>1, <4>1 DEF Deliverable, Here
    <3>3. CASE WalksAll
      <4>1. /\ SoundList(Reposted) /\ Live(Reposted) = Live(list)
            /\ Reposted.startOffset = list.startOffset
            /\ Reposted.insertionOffset = list.insertionOffset
            /\ Size(Reposted) = Size(list) + 1
            /\ Reposted.entries[Position + 1].event = NoEvent
            /\ \A i \in 1..Size(list) : i <= list.insertionOffset /\ i # Position + 1
                                          => Reposted.entries[i] = list.entries[i]
        BY <1>1, <3>1, RepostFacts
      <4>2. Advance(Reposted, <<>>) /\ Size(list) <= Size(Reposted)
        BY <1>3, <3>1, <3>3, <4>1
      <4>3. list'.entries = Reposted.entries /\ Size(list') = Size(Reposted) /\ Live(list') = Live(list)
        BY <1>1, <4>1, <4>2, AdvanceList
      <4>4. list'.entries[p] \in Live(list') /\ list'.entries[p].type = "normal"
            /\ list'.entries[p].event # NoEvent
        BY <1>4, <1>5, LivePlaces DEF Deliverable
      <4>5. PICK q \in 1..Size(list) : list.entries[q] = list'.entries[p]
        BY <1>3, <4>3, <4>4, LivePlaces
      <4>6. Deliverable(q) /\ q # Position + 1
        BY <3>1, <4>4, <4>5 DEF Deliverable, Here
      <4>7. q <= list.insertionOffset
        BY <1>1, <3>1, <4>6, TopReaches DEF Waits
      <4>8. list'.entries[q] = list'.entries[p] /\ q \in 1..Size(list')
        BY <1>3, <4>1, <4>3, <4>5, <4>6, <4>7
      <4>9. q = p
        BY <1>4, <4>4, <4>8 DEF Once
      <4> QED
        BY <3>1, <4>6, <4>9
    <3> QED
      BY <3>2, <3>3
  <2> QED
    BY <2>1, <2>2, <2>3
<1>6. PICK n : n = Len(stack)
  OBVIOUS
<1>7. ASSUME canWait', NEW p \in 1..Size(list'), Deliverable(p)'
      PROVE  n \in DOMAIN stack' /\ WillReach(n, p)'
  <2>1. Deliverable(p) /\ canWait /\ p # Position + 1
    BY <1>5, <1>7
  <2>2. Position < p /\ p <= list.insertionOffset
    BY <1>1, <2>1, TopReaches DEF Waits
  <2>3. Position + 1 < p
    <3>1. p \in Nat
      BY <1>4
    <3> QED
      BY <1>2, <2>1, <2>2, <3>1
  <2>4. /\ n \in DOMAIN stack' /\ stack'[n].frame = "walk"
        /\ \A j \in DOMAIN stack' : j > n => stack'[j].frame # "walk"
        /\ IF IsWalkOfAll(stack'[n]) THEN list'.startOffset = Position + 1
                                     ELSE stack'[n].i = Position + 1
    BY <1>1, <1>6
  <2> QED
    BY <1>1, <2>2, <2>3, <2>4 DEF WillReach, PositionOf
<1>8. MayWait'
  BY <1>7 DEF MayWait
<1> QED
  BY <1>1, <1>8 DEF Waits, SentAll, SleepInv

(* A walk that ends with canWait still set has left nothing.               *)
LEMMA EndWaits ==
  ASSUME LInv, LInv', Waits, EndWalk
  PROVE  Waits'
<1>1. /\ TopIs("walk") /\ AtEnd /\ canWait' = canWait
      /\ list' = IF WalksAll THEN EraseSent(list) ELSE list
  BY DEF EndWalk
<1>2. SoundList(list) /\ list \in List /\ Size(list) \in Nat /\ list.insertionOffset \in Nat
  BY ListShape DEF LInv, SoundList
<1>3. Live(list') = Live(list)
  BY <1>1, <1>2, EraseFacts
<1>4. Position \in Nat
  BY <1>1, WalkTop
<1>5. ASSUME canWait, Left PROVE FALSE
  <2>1. PICK x \in Live(list) : x.type = "normal"
    BY <1>5 DEF Left
  <2>2. PICK p \in 1..Size(list) : list.entries[p] = x /\ x.event # NoEvent
    BY <1>2, LivePlaces
  <2>3. Deliverable(p)
    BY <2>1, <2>2 DEF Deliverable
  <2>4. Position < p /\ p <= list.insertionOffset
    BY <1>1, <1>5, <2>3, TopReaches DEF Waits
  <2> QED
    BY <1>1, <1>2, <1>4, <2>4 DEF AtEnd
<1>6. canWait' => ~Left'
  BY <1>1, <1>3, <1>5 DEF Left
<1>7. MayWait'
  BY <1>6, WaitsOnNothing
<1>8. \A at : RoundAt(at)' => at = "sent"
  BY EndTop
<1> QED
  BY <1>6, <1>7, <1>8 DEF Waits, SentAll, SleepInv

(* Removing events leaves the walks less to come to.                       *)
LEMMA RemovedWait ==
  ASSUME LInv, LInv', MayWait, KeepsWalks, canWait' = canWait,
         NEW r \in Receivers, NEW walked \in BOOLEAN, RemoveAll(r, walked),
         ~walked => list.startOffset = 0 /\ \A i \in DOMAIN stack : stack[i].frame # "walk"
  PROVE  MayWait' /\ (Left' => Left)
<1>1. /\ list'.startOffset = list.startOffset /\ list'.insertionOffset = list.insertionOffset
      /\ Live(list') \subseteq Live(list)
      /\ walked => Size(list') = Size(list)
                     /\ \A i \in 1..Size(list') : list'.entries[i].event # NoEvent
                                                    => list'.entries[i] = list.entries[i]
  BY RemovedFacts
<1>2. Left' => Left
  BY <1>1 DEF Left
<1>3. CASE walked
  <2>1. \A p : Deliverable(p)' => Deliverable(p)
    BY <1>1, <1>3 DEF Deliverable
  <2> QED
    BY <1>1, <1>2, <2>1, QuietWait
<1>4. CASE ~walked
  <2>1. ASSUME canWait, Left PROVE FALSE
    <3>1. list \in List
      BY DEF LInv, Typing
    <3>2. PICK p \in 1..Size(list) : Deliverable(p)
      BY <2>1, <3>1, LivePlaces DEF Left, Deliverable
    <3> QED
      BY <1>4, <2>1, <3>2 DEF MayWait, WillReach
  <2>2. canWait' => ~Left'
    BY <1>2, <2>1
  <2> QED
    BY <1>2, <2>2, WaitsOnNothing
<1> QED
  BY <1>3, <1>4

LEMMA AroundWaits ==
  ASSUME LInv, LInv', Waits, Around
  PROVE  Waits'
<1>1. KeepsWalks /\ \A at : RoundAt(at)' => at = "start"
  BY AroundStack
<1>2. SentAll' /\ SleepInv'
  BY <1>1 DEF SentAll, SleepInv
<1>3. CASE DeleteReceiver
  <2>1. stack # <<>> /\ Top.frame = "handler" /\ RemoveAll(Top.receiver, TRUE) /\ canWait' = canWait
    BY <1>3 DEF DeleteReceiver, TopIs
  <2>2. Top.receiver \in Receivers
    BY <2>1, TopShape, FrameShape
  <2>3. PICK r \in Receivers : r = Top.receiver
    BY <2>2
  <2>4. RemoveAll(r, TRUE) /\ TRUE \in BOOLEAN
    BY <2>1, <2>3
  <2>5. MayWait'
    BY <1>1, <2>1, <2>4, RemovedWait DEF Waits
  <2> QED
    BY <1>2, <2>5 DEF Waits
<1>4. CASE ~DeleteReceiver
  <2>1. UNCHANGED <<list, canWait>>
    BY <1>4 DEF Around, CheckExit, HandlerReturns, ProcessEvents, Exec
  <2>2. \A p : Deliverable(p)' => Deliverable(p)
    BY <2>1 DEF Deliverable
  <2>3. MayWait'
    BY <1>1, <2>1, <2>2, QuietWait DEF Waits
  <2> QED
    BY <1>2, <2>3 DEF Waits
<1> QED
  BY <1>3, <1>4

LEMMA RoundsWait ==
  ASSUME LInv, LInv', Waits, StartRound \/ ReadCanWait \/ ReadInterrupt \/ Poll \/ ResetWakeUps
  PROVE  Waits'
<1>1. UNCHANGED <<list, canWait>> /\ KeepsWalks
  BY RoundTops DEF StartRound, ReadCanWait, ReadInterrupt, Poll, ResetWakeUps
<1>2. \A p : Deliverable(p)' => Deliverable(p)
  BY <1>1 DEF Deliverable
<1>3. MayWait' /\ (Left' <=> Left)
  BY <1>1, <1>2, QuietWait DEF Waits, Left
<1>4. \A at : RoundAt(at)' => at # "sent"
  BY RoundTops
<1>5. SleepInv'
  <2>1. CASE StartRound \/ Poll \/ ResetWakeUps
    <3>1. \A at : RoundAt(at)' => at \in {"send", "check"}
      BY <2>1, RoundTops
    <3> QED
      BY <3>1 DEF SleepInv
  <2>2. CASE ReadCanWait
    <3>1. RoundAt("sent") /\ (Last(stack').waits <=> (Top.waits /\ canWait))
      BY <2>2, RoundTops
    <3>2. Last(stack').waits => ~Left
      BY <3>1 DEF Waits, SentAll
    <3> QED
      BY <1>3, <3>2 DEF SleepInv, Top
  <2>3. CASE ReadInterrupt
    <3>1. RoundAt("decide") /\ \A at : RoundAt(at)' => at = "poll" /\ Last(stack').waits = Top.waits
      BY <2>3, RoundTops
    <3>2. UNCHANGED <<pipe, poster>>
      BY <2>3 DEF ReadInterrupt, dispatcher
    <3> QED
      BY <1>3, <3>1, <3>2 DEF Waits, SleepInv, Top
  <2> QED
    BY <2>1, <2>2, <2>3
<1> QED
  BY <1>3, <1>4, <1>5 DEF Waits, SentAll

(* The steps that leave the stack alone.                                   *)
LEMMA SameListWaits ==
  ASSUME Waits, UNCHANGED <<list, canWait, stack>>,
         \/ ~TopIs("round")
         \/ RoundAt("check")
         \/ pipe \/ (\E t \in Posters : poster[t] \in {"wake", "write"})
              => pipe' \/ \E t \in Posters : poster'[t] \in {"wake", "write"}
  PROVE  Waits'
<1>1. MayWait' /\ SentAll'
  BY DEF Waits, MayWait, SentAll, Deliverable, WillReach, PositionOf, Left, RoundAt, TopIs, Top
<1>2. SleepInv'
  BY DEF Waits, SleepInv, Left, RoundAt, TopIs, Top
<1> QED
  BY <1>1, <1>2 DEF Waits

LEMMA PostsWait ==
  ASSUME LInv, LInv', Waits, NEW r \in Receivers, NEW e \in Events, NEW ty \in Types,
         NEW p \in Priorities \cup {0}
  PROVE  /\ Post(r, e, ty, p) => Waits'
         /\ \A t \in Posters : PostFrom(t, r, e, ty, p) => Waits'
<1>1. ASSUME NEW level \in Nat, AddPosted(r, e, ty, p, level), UNCHANGED stack
      PROVE  /\ \/ list' = list /\ canWait' = canWait
                \/ canWait' = FALSE /\ list' # list
             /\ MayWait' /\ SentAll'
  <2>1. \/ list' = list /\ canWait' = canWait
        \/ canWait' = FALSE /\ list' # list
    BY <1>1, PostedFacts
  <2>2. MayWait' /\ SentAll'
    BY <1>1, <2>1 DEF Waits, MayWait, SentAll, Deliverable, WillReach, PositionOf, Left, RoundAt,
                      TopIs, Top
  <2> QED
    BY <2>1, <2>2
<1>2. ASSUME Post(r, e, ty, p) PROVE Waits'
  <2>1. (IF ty = "normal" THEN 0 ELSE PostLevel) \in Nat
    BY LevelIsNumber
  <2>2. /\ AddPosted(r, e, ty, p, IF ty = "normal" THEN 0 ELSE PostLevel)
        /\ UNCHANGED stack /\ ~TopIs("round")
    BY <1>2 DEF Post, InUserCode, TopIs
  <2>3. MayWait' /\ SentAll'
    BY <1>1, <2>1, <2>2
  <2>4. SleepInv'
    BY <2>2 DEF SleepInv, RoundAt, TopIs, Top
  <2> QED
    BY <2>3, <2>4 DEF Waits
<1>3. ASSUME NEW t \in Posters, PostFrom(t, r, e, ty, p) PROVE Waits'
  <2>1. /\ AddPosted(r, e, ty, p, 0) /\ UNCHANGED <<stack, dispatcher>> /\ 0 \in Nat
        /\ poster[t] = "idle" /\ poster' = [poster EXCEPT ![t] = IF Added THEN "wake" ELSE "idle"]
    BY <1>3 DEF PostFrom
  <2>2. poster \in [Posters -> PosterStates]
    BY DEF LInv, Typing
  <2>3. /\ \/ list' = list /\ canWait' = canWait
           \/ canWait' = FALSE /\ list' # list
        /\ MayWait' /\ SentAll'
    BY <1>1, <2>1
  <2>4. SleepInv'
    <3>1. CASE list' = list
      <4>1. poster' = poster
        BY <2>1, <2>2, <3>1 DEF Added
      <4> QED
        BY <2>1, <3>1, <4>1 DEF Waits, SleepInv, Left, RoundAt, TopIs, Top, dispatcher
    <3>2. CASE list' # list
      <4>1. poster'[t] = "wake"
        BY <2>1, <2>2, <3>2 DEF Added
      <4> QED
        BY <4>1 DEF SleepInv
    <3> QED
      BY <3>1, <3>2
  <2> QED
    BY <2>3, <2>4 DEF Waits
<1> QED
  BY <1>2, <1>3

LEMMA RemoveWaits ==
  ASSUME LInv, LInv', Waits, NEW r \in Receivers, RemovePostedEvents(r)
  PROVE  Waits'
<1>1. UNCHANGED <<canWait, stack, dispatcher, poster>>
  BY DEF RemovePostedEvents
<1>2. KeepsWalks
  BY <1>1 DEF KeepsWalks
<1>3. PICK walked \in BOOLEAN :
        /\ RemoveAll(r, walked)
        /\ ~walked => list.startOffset = 0 /\ \A i \in DOMAIN stack : stack[i].frame # "walk"
  BY WalkedOrNot
<1>4. MayWait' /\ (Left' => Left)
  BY <1>1, <1>2, <1>3, RemovedWait DEF Waits
<1>5. SentAll' /\ SleepInv'
  BY <1>1, <1>4 DEF Waits, SentAll, SleepInv, RoundAt, TopIs, Top, dispatcher
<1> QED
  BY <1>4, <1>5 DEF Waits

LEMMA WakersWait ==
  ASSUME LInv, PipeInv, Waits, NEW t \in Posters, InWakeUp(t) \/ \E l \in Loops : ExitFrom(t, l)
  PROVE  Waits'
<1>1. poster \in [Posters -> PosterStates]
  BY DEF LInv, Typing
<1>2. UNCHANGED <<list, canWait, stack>>
  BY DEF InWakeUp, Interrupt, SetWakeUps, WritePipe, ExitFrom
<1>3. CASE Interrupt(t) \/ \E l \in Loops : ExitFrom(t, l)
  <2>1. pipe' = pipe /\ \A s \in Posters : poster[s] \in {"wake", "write"} => poster'[s] = poster[s]
    BY <1>1, <1>3 DEF Interrupt, ExitFrom, dispatcher
  <2> QED
    BY <1>2, <2>1, SameListWaits
<1>4. CASE WritePipe(t)
  <2>1. pipe'
    BY <1>4 DEF WritePipe
  <2> QED
    BY <1>2, <2>1, SameListWaits
<1>5. CASE SetWakeUps(t)
  <2>1. CASE ~wakeUps
    <3>1. poster'[t] = "write"
      BY <1>1, <1>5, <2>1 DEF SetWakeUps
    <3> QED
      BY <1>2, <3>1, SameListWaits
  <2>2. CASE wakeUps
    <3>1. pipe \/ RoundAt("check") \/ \E s \in Posters : poster[s] = "write"
      BY <2>2 DEF PipeInv
    <3>2. pipe' = pipe /\ \A s \in Posters : poster[s] = "write" => poster'[s] = "write"
      BY <1>1, <1>5 DEF SetWakeUps
    <3>3. \/ RoundAt("check")
          \/ pipe' \/ \E s \in Posters : poster'[s] \in {"wake", "write"}
      BY <3>1, <3>2
    <3> QED
      BY <1>2, <3>3, SameListWaits
  <2> QED
    BY <2>1, <2>2
<1> QED
  BY <1>3, <1>4, <1>5 DEF InWakeUp

LEMMA WaitsStep ==
  ASSUME LInv, LInv', PipeInv, Waits, [Next]_vars
  PROVE  Waits'
<1>1. \A p \in Priorities : p \in Priorities \cup {0}
  OBVIOUS
<1>2. {"normal", "delete"} = Types /\ 0 \in Priorities \cup {0} /\ alive \subseteq Receivers
  BY DEF Types, LInv, Typing
<1>3. CASE Around
  BY <1>3, AroundWaits
<1>4. CASE Round
  <2>1. CASE SendAll
    BY <2>1, SendsWait
  <2>2. CASE ~SendAll
    BY <1>4, <2>2, RoundsWait DEF Round
  <2> QED
    BY <2>1, <2>2
<1>5. CASE SkipEntry \/ RepostDelete \/ Deliver
  BY <1>5, WalksWait
<1>6. CASE EndWalk
  BY <1>6, EndWaits
<1>7. CASE \E r \in Receivers, e \in Events :
             \/ \E p \in Priorities : Post(r, e, "normal", p)
             \/ Post(r, e, "delete", 0)
  BY <1>1, <1>2, <1>7, PostsWait
<1>8. CASE (\E r \in alive \cup {NoReceiver} : SendPostedEvents(r, "any"))
             \/ SendPostedEvents(NoReceiver, "delete")
  <2>1. \A r \in alive \cup {NoReceiver} : r \in Receivers \cup {NoReceiver}
    BY <1>2
  <2> QED
    BY <1>8, <2>1, SendsWait
<1>9. CASE \E l \in Loops : Exit(l)
  <2>1. UNCHANGED <<list, canWait, stack>> /\ ~TopIs("round")
    BY <1>9 DEF Exit, InUserCode, TopIs
  <2> QED
    BY <2>1, SameListWaits
<1>10. CASE \E r \in Receivers : RemovePostedEvents(r)
  BY <1>10, RemoveWaits
<1>11. CASE \E t \in Posters : OtherThread(t)
  <2>1. PICK t \in Posters : OtherThread(t)
    BY <1>11
  <2>2. CASE \E l \in Loops : ExitFrom(t, l)
    BY <2>2, WakersWait
  <2>3. CASE \E r \in Receivers, e \in Events :
               \/ \E p \in Priorities : PostFrom(t, r, e, "normal", p)
               \/ PostFrom(t, r, e, "delete", 0)
    BY <1>1, <1>2, <2>3, PostsWait
  <2> QED
    BY <2>1, <2>2, <2>3 DEF OtherThread
<1>12. CASE \E t \in Posters : InWakeUp(t)
  BY <1>12, WakersWait
<1>13. CASE UNCHANGED vars
  <2>1. UNCHANGED <<list, canWait, stack, pipe, poster>>
    BY <1>13 DEF vars, dispatcher
  <2> QED
    BY <2>1, SameListWaits
<1> QED
  BY <1>3, <1>4, <1>5, <1>6, <1>7, <1>8, <1>9, <1>10, <1>11, <1>12, <1>13
     DEF Next, UserCall, Walk, Around

LEMMA InitWaits == Init => PipeInv /\ Waits
<1>1. SUFFICES ASSUME Init PROVE PipeInv /\ Waits
  OBVIOUS
<1>2. /\ stack = <<>> /\ pipe = FALSE /\ wakeUps = FALSE /\ list.entries = <<>>
      /\ \A t \in Posters : poster[t] = "idle"
  BY <1>1 DEF Init, EmptyList
<1>3. \A at : ~RoundAt(at)
  BY <1>2 DEF RoundAt, TopIs
<1>4. PipeInv
  BY <1>2, <1>3 DEF PipeInv, PipeMatchesWakeUps
<1>5. MayWait
  <2>1. Size(list) = 0
    BY <1>2, EmptySeq DEF Size
  <2> QED
    BY <2>1 DEF MayWait
<1> QED
  BY <1>3, <1>4, <1>5 DEF Waits, SentAll, SleepInv

LEMMA UndeliveredIsLeft == LInv /\ Undelivered => Left
<1>1. SUFFICES ASSUME LInv, NEW e \in Events, fate[e] = "posted", EntryOf(e).type = "normal"
               PROVE  Left
  BY DEF Undelivered
<1>2. list \in List /\ Books /\ e # NoEvent
  BY <1>1, EventLoopAssumption DEF LInv, Typing
<1>3. PICK x \in Live(list) : x.event = e
  BY <1>1, <1>2 DEF Books
<1>4. \E i \in 1..Size(list) : list.entries[i].event = e
  BY <1>2, <1>3, LivePlaces
<1>5. PICK i \in 1..Size(list) : list.entries[i].event = e /\ EntryOf(e) = list.entries[i]
  BY <1>4 DEF EntryOf
<1>6. list.entries[i] \in Live(list)
  BY <1>2, <1>5, LivePlaces
<1> QED
  BY <1>1, <1>5, <1>6 DEF Left

(* A thread does not sleep on events: when it is in poll() with a posted   *)
(* event in its list, the pipe is readable or another thread is about to   *)
(* write, whatever was posted, removed, sent or deferred in whatever       *)
(* nested call since canWait was set; and the pipe and wakeUps agree, so   *)
(* that no write is saved that was needed and check() finds wakeUps set.   *)
THEOREM WakeUpsArriveHolds == Spec => []WakeUpsArrive
<1>1. Init => LInv /\ PipeInv /\ Waits
  BY InitLInv, InitWaits
<1>2. (LInv /\ PipeInv /\ Waits) /\ [Next]_vars => (LInv /\ PipeInv /\ Waits)'
  BY StepLInv, PipeStep, WaitsStep
<1>3. LInv /\ PipeInv /\ Waits => WakeUpsArrive
  <2>1. SUFFICES ASSUME LInv, PipeInv, Waits PROVE WakeUpsArrive
    OBVIOUS
  <2>2. NoSleepOnEvents
    BY <2>1, UndeliveredIsLeft DEF NoSleepOnEvents, Waits, SleepInv
  <2> QED
    BY <2>1, <2>2 DEF WakeUpsArrive, PipeInv
<1> QED
  BY <1>1, <1>2, <1>3, PTL DEF Spec

-----------------------------------------------------------------------------
(* Deferred deletion.                                                      *)
Distinct == \A i, j \in Frames("handler") : stack[i].event = stack[j].event => i = j
PostedFits == \A e \in Events :
                postedIn[e] # NoEvent => fate[e] # "new" /\ fate[postedIn[e]] = "gone"
DInv == Distinct /\ PostedFits /\ LevelsFit

(* The places that remain have the same frames, and the same handlers.     *)
Alike == \A k \in DOMAIN stack' : k \in DOMAIN stack =>
           /\ stack'[k].frame = stack[k].frame
           /\ stack'[k].frame = "handler" => stack'[k] = stack[k]
NoneNew == \A k \in DOMAIN stack' : k \notin DOMAIN stack => stack'[k].frame # "handler"

LEMMA LevelStays ==
  ASSUME LInv, LInv', Alike, NEW h \in DOMAIN stack, h \in DOMAIN stack'
  PROVE  LevelAt(h)' = LevelAt(h)
<1>1. stack \in Seq(StackFrame) /\ stack' \in Seq(StackFrame)
  BY DEF LInv, Typing
<1>2. DOMAIN stack = 1..Len(stack) /\ DOMAIN stack' = 1..Len(stack') /\ Len(stack) \in Nat /\ Len(stack') \in Nat
  BY <1>1, StackShape
<1>3. \A i \in 1..h : i \in DOMAIN stack /\ i \in DOMAIN stack'
  BY <1>2
<1>4. \A i \in 1..h : stack'[i].frame = stack[i].frame
  BY <1>3 DEF Alike
<1>5. {i \in 1..h : stack'[i].frame \in {"loop", "handler"}} = {i \in 1..h : stack[i].frame \in {"loop", "handler"}}
  BY <1>4
<1> QED
  BY <1>5 DEF LevelAt

LEMMA LevelHere ==
  ASSUME LInv, stack # <<>>, Top.frame = "handler"
  PROVE  /\ LevelAt(Len(stack)) = loopLevel + scopeLevel /\ PostLevel = loopLevel + scopeLevel
         /\ Len(stack) \in Frames("handler")
<1>1. /\ Top = stack[Len(stack)] /\ Len(stack) \in 1..Len(stack) /\ DOMAIN stack = 1..Len(stack)
  BY TopShape
<1>2. Len(stack) \in Frames("handler")
  BY <1>1 DEF Frames
<1>3. scopeLevel # 0
  <2>1. IsFiniteSet(Frames("handler")) /\ Frames("handler") # {}
    BY <1>2, LevelIsNumber
  <2> QED
    BY <2>1, FS_EmptySet DEF scopeLevel
<1>4. PostLevel = loopLevel + scopeLevel
  BY <1>3 DEF PostLevel
<1>5. LevelAt(Len(stack)) = Cardinality(Frames("loop") \cup Frames("handler"))
  <2>1. {i \in 1..Len(stack) : stack[i].frame \in {"loop", "handler"}} = Frames("loop") \cup Frames("handler")
    BY <1>1 DEF Frames
  <2> QED
    BY <2>1 DEF LevelAt
<1>6. Frames("loop") \cap Frames("handler") = {}
  BY DEF Frames
<1>7. Cardinality(Frames("loop") \cup Frames("handler")) = loopLevel + scopeLevel
  <2>1. IsFiniteSet(Frames("loop")) /\ IsFiniteSet(Frames("handler"))
    BY LevelIsNumber
  <2>2. Cardinality(Frames("loop") \cup Frames("handler"))
          = Cardinality(Frames("loop")) + Cardinality(Frames("handler")) - Cardinality({})
    BY <1>6, <2>1, FS_Union
  <2>3. Cardinality({}) = 0
    BY FS_EmptySet
  <2> QED
    BY <2>2, <2>3, LevelIsNumber DEF loopLevel, scopeLevel
<1> QED
  BY <1>2, <1>4, <1>5, <1>7

(* The levels of all handlers on the stack are between 1 and the present.  *)
LEMMA LevelsBelow ==
  ASSUME LInv, NEW h \in Frames("handler")
  PROVE  LevelAt(h) \in Nat /\ LevelAt(h) > 0 /\ LevelAt(h) <= loopLevel + scopeLevel
<1> DEFINE S == {i \in 1..h : stack[i].frame \in {"loop", "handler"}}
           T == Frames("loop") \cup Frames("handler")
<1>1. stack \in Seq(StackFrame) /\ DOMAIN stack = 1..Len(stack) /\ Len(stack) \in Nat
  BY StackShape DEF LInv, Typing
<1>2. h \in 1..Len(stack) /\ stack[h].frame = "handler"
  BY <1>1 DEF Frames
<1>3. h \in S
  BY <1>2
<1>4. S \subseteq T
  <2>1. \A i \in 1..h : i \in DOMAIN stack
    BY <1>1, <1>2
  <2> QED
    BY <2>1 DEF Frames
<1>5. IsFiniteSet(Frames("loop")) /\ IsFiniteSet(Frames("handler"))
  BY LevelIsNumber
<1>6. IsFiniteSet(T) /\ Cardinality(T) = loopLevel + scopeLevel
  <2>1. Frames("loop") \cap Frames("handler") = {}
    BY DEF Frames
  <2>2. /\ IsFiniteSet(T)
        /\ Cardinality(T) = Cardinality(Frames("loop")) + Cardinality(Frames("handler")) - Cardinality({})
    BY <1>5, <2>1, FS_Union
  <2>3. Cardinality({}) = 0
    BY FS_EmptySet
  <2> QED
    BY <2>2, <2>3, LevelIsNumber DEF loopLevel, scopeLevel
<1>7. LevelAt(h) = Cardinality(S)
  BY DEF LevelAt
<1> HIDE DEF S, T
<1>8. IsFiniteSet(S) /\ Cardinality(S) <= Cardinality(T)
  BY <1>4, <1>6, FS_Subset
<1>9. Cardinality(S) \in Nat /\ Cardinality(S) # 0
  BY <1>3, <1>8, FS_CardinalityType, FS_EmptySet
<1> QED
  BY <1>6, <1>7, <1>8, <1>9

(* A step that adds no handler and no deferred deletion of a handler's.    *)
LEMMA QuietDeletes ==
  ASSUME LInv, LInv', DInv, Alike, NoneNew,
         \A e \in Events : /\ fate[e] = "gone" => fate'[e] = "gone"
                           /\ fate[e] # "new" => fate'[e] # "new"
                           /\ postedIn'[e] = postedIn[e] \/ postedIn'[e] = NoEvent,
         \A x \in Live(list') : x \in Live(list) \/ postedIn'[x.event] = NoEvent
  PROVE  DInv'
<1>1. \A h \in Frames("handler")' : /\ h \in DOMAIN stack /\ h \in DOMAIN stack'
                                    /\ h \in Frames("handler") /\ stack'[h] = stack[h]
  BY DEF Frames, Alike, NoneNew
<1>2. Distinct'
  BY <1>1 DEF DInv, Distinct
<1>3. PostedFits'
  <2>1. \A e \in Events : postedIn[e] \in Events \cup {NoEvent}
    BY DEF LInv, Typing
  <2> QED
    BY <2>1 DEF DInv, PostedFits
<1>4. LevelsFit'
  <2>1. ASSUME NEW x \in Live(list'), NEW h \in Frames("handler")',
               x.type = "delete", stack'[h].event = postedIn'[x.event]
        PROVE  x.level = LevelAt(h)'
    <3>1. stack'[h].event \in Events /\ x.event \in Events
      <4>1. stack'[h].frame = "handler" /\ stack' \in Seq(StackFrame)
        BY <2>1 DEF Frames, LInv, Typing
      <4>2. stack'[h].event \in Events
        BY <1>1, <4>1, StackShape, FrameShape
      <4>3. x.event # NoEvent /\ \E i \in 1..Size(list') : list'.entries[i] = x
        BY LivePlaces DEF LInv, Typing
      <4>4. x \in Entry
        BY <4>3, ListShape DEF LInv, Typing
      <4> QED
        BY <4>2, <4>3, <4>4 DEF Entry
    <3>2. stack'[h].event # NoEvent
      BY <3>1, EventLoopAssumption
    <3>3. x \in Live(list) /\ postedIn[x.event] = stack[h].event
      BY <1>1, <2>1, <3>1, <3>2
    <3>4. x.level = LevelAt(h)
      BY <1>1, <2>1, <3>3 DEF DInv, LevelsFit
    <3> QED
      BY <1>1, <3>4, LevelStays
  <2> QED
    BY <2>1 DEF LevelsFit
<1> QED
  BY <1>2, <1>3, <1>4 DEF DInv

LEMMA AlikeSame == stack' = stack => Alike /\ NoneNew
  BY DEF Alike, NoneNew

LEMMA AlikePush ==
  ASSUME LInv, NEW f \in StackFrame, stack' = Append(stack, f), f.frame # "handler"
  PROVE  Alike /\ NoneNew
<1>1. stack \in Seq(StackFrame)
  BY DEF LInv, Typing
<1>2. /\ DOMAIN stack = 1..Len(stack) /\ Len(stack) \in Nat /\ DOMAIN stack' = 1..(Len(stack) + 1)
      /\ \A i \in 1..Len(stack) : stack'[i] = stack[i]
      /\ stack'[Len(stack) + 1] = f
  BY <1>1, StackShape
<1>3. \A k \in DOMAIN stack' : k \notin DOMAIN stack => k = Len(stack) + 1
  BY <1>2
<1> QED
  BY <1>2, <1>3 DEF Alike, NoneNew

LEMMA AlikePop ==
  ASSUME LInv, stack # <<>>, stack' = Front(stack)
  PROVE  Alike /\ NoneNew
<1>1. SoundStack(stack) /\ stack \in Seq(StackFrame)
  BY StackIsSound DEF SoundStack
<1>2. /\ SoundStack(stack')
      /\ \A i \in 1..Len(stack') : i \in 1..Len(stack) /\ stack'[i] = stack[i]
  BY <1>1, PopFacts
<1>3. DOMAIN stack = 1..Len(stack) /\ DOMAIN stack' = 1..Len(stack')
  BY <1>1, <1>2, StackShape DEF SoundStack
<1> QED
  BY <1>2, <1>3 DEF Alike, NoneNew

(* The frame on top changes, and a call may go on top of it.               *)
LEMMA AlikeTop ==
  ASSUME LInv, stack # <<>>, stack' \in Seq(StackFrame),
         Len(stack') = Len(stack) \/ Len(stack') = Len(stack) + 1,
         \A i \in 1..(Len(stack) - 1) : stack'[i] = stack[i],
         stack'[Len(stack)].frame = Top.frame, Top.frame # "handler",
         Len(stack') = Len(stack) + 1 => stack'[Len(stack) + 1].frame # "handler"
  PROVE  Alike /\ NoneNew
<1>1. /\ Top = stack[Len(stack)] /\ Len(stack) \in Nat /\ DOMAIN stack = 1..Len(stack)
  BY TopShape
<1>2. DOMAIN stack' = 1..Len(stack')
  BY StackShape
<1>3. \A k \in DOMAIN stack : k = Len(stack) \/ k \in 1..(Len(stack) - 1)
  BY <1>1, BelowTop
<1>4. \A k \in DOMAIN stack' : k \notin DOMAIN stack => k = Len(stack) + 1 /\ Len(stack') = Len(stack) + 1
  <2>1. \A n \in Nat : \A k \in 1..(n + 1) : k \notin 1..n => k = n + 1
    OBVIOUS
  <2>2. CASE Len(stack') = Len(stack)
    BY <1>1, <1>2, <2>2
  <2>3. CASE Len(stack') = Len(stack) + 1
    BY <1>1, <1>2, <2>1, <2>3
  <2> QED
    BY <2>2, <2>3
<1> QED
  BY <1>1, <1>3, <1>4 DEF Alike, NoneNew

(* The steps that do not touch the history.                                *)
LEMMA QuietHistory ==
  ASSUME LInv, LInv', DInv, Alike, NoneNew, UNCHANGED history, Live(list') = Live(list)
  PROVE  DInv'
  BY QuietDeletes DEF history

LEMMA RoundsDelete ==
  ASSUME LInv, LInv', DInv, Round
  PROVE  DInv'
<1>1. stack' \in Seq(StackFrame)
  BY DEF LInv, Typing
<1>2. CASE SendAll
  <2>1. Alike /\ NoneNew
    <3>1. /\ stack # <<>> /\ Top.frame = "round"
          /\ \A i \in 1..(Len(stack) - 1) : stack'[i] = stack[i]
          /\ stack'[Len(stack)] = [Top EXCEPT !.at = "sent"]
          /\ \/ Len(stack') = Len(stack)
             \/ /\ Len(stack') = Len(stack) + 1
                /\ stack'[Len(stack) + 1] = WalkFrame(NoReceiver, "any", list.startOffset)
      BY <1>2, SendAllStack
    <3>2. Top \in RoundFrames
      BY <3>1, TopShape, FrameShape
    <3>3. [Top EXCEPT !.at = "sent"].frame = "round"
      BY <3>2 DEF RoundFrames
    <3>4. WalkFrame(NoReceiver, "any", list.startOffset).frame = "walk"
      BY DEF WalkFrame
    <3>5. Len(stack') = Len(stack) + 1 => stack'[Len(stack) + 1].frame # "handler"
      <4>1. Len(stack) \in Nat
        BY <3>1, TopShape
      <4> QED
        BY <3>1, <3>4, <4>1
    <3> QED
      BY <1>1, <3>1, <3>3, <3>5, AlikeTop
  <2>2. UNCHANGED history /\ BeginWalk(RoundTo("sent"), NoReceiver, "any")
    BY <1>2 DEF SendAll
  <2>3. Live(list') = Live(list)
    BY <2>2, BegunFacts
  <2> QED
    BY <2>1, <2>2, <2>3, QuietHistory
<1>3. CASE StartRound \/ ReadCanWait \/ ReadInterrupt \/ Poll \/ ResetWakeUps
  <2>1. UNCHANGED history /\ list' = list /\ TopIs("round") /\ stack # <<>> /\ Top.frame = "round"
    BY <1>3 DEF StartRound, ReadCanWait, ReadInterrupt, Poll, ResetWakeUps, RoundAt, TopIs
  <2>2. \/ stack' = Front(stack)
        \/ \E f \in RoundFrames : stack' = [stack EXCEPT ![Len(stack)] = f]
    BY <1>3, <2>1, RoundToForm DEF StartRound, ReadCanWait, ReadInterrupt, Poll, ResetWakeUps, Return
  <2>3. CASE stack' = Front(stack)
    BY <2>1, <2>3, AlikePop, QuietHistory
  <2>4. CASE \E f \in RoundFrames : stack' = [stack EXCEPT ![Len(stack)] = f]
    <3>1. PICK f \in RoundFrames : stack' = [stack EXCEPT ![Len(stack)] = f]
      BY <2>4
    <3>2. f.frame = "round" /\ f \in StackFrame
      BY DEF RoundFrames, StackFrame
    <3>3. /\ Len(stack') = Len(stack) /\ \A i \in 1..(Len(stack) - 1) : stack'[i] = stack[i]
          /\ Last(stack') = f /\ stack' # <<>>
      BY <2>1, <3>1, <3>2, LastingTop DEF IsWalkOfAll
    <3>4. stack'[Len(stack)] = f
      BY <1>1, <3>3, StackShape
    <3>5. Len(stack) # Len(stack) + 1
      <4>1. Len(stack) \in Nat
        BY <2>1, TopShape
      <4> QED
        BY <4>1
    <3> QED
      BY <1>1, <2>1, <3>2, <3>3, <3>4, <3>5, AlikeTop, QuietHistory
  <2> QED
    BY <2>2, <2>3, <2>4
<1> QED
  BY <1>2, <1>3 DEF Round

(* Loops begin and end, handlers return.                                   *)
LEMMA AroundDeletes ==
  ASSUME LInv, LInv', DInv, Around
  PROVE  DInv'
<1>1. Alike /\ NoneNew
  <2>1. \/ stack' = Front(stack) /\ stack # <<>>
        \/ \E f \in StackFrame : stack' = Append(stack, f) /\ f.frame # "handler"
    BY FramesFit DEF Around, CheckExit, HandlerReturns, ProcessEvents, DeleteReceiver, Exec, Push, Return, TopIs
  <2> QED
    BY <2>1, AlikePop, AlikePush
<1>2. CASE CheckExit \/ ProcessEvents \/ \E l \in Loops : Exec(l)
  <2>1. UNCHANGED history /\ list' = list
    BY <1>2 DEF CheckExit, ProcessEvents, Exec
  <2> QED
    BY <1>1, <2>1, QuietHistory
<1>3. CASE HandlerReturns
  <2>1. /\ fate' = fate /\ list' = list
        /\ postedIn' = [e \in Events |-> IF postedIn[e] = Top.event THEN NoEvent ELSE postedIn[e]]
    BY <1>3 DEF HandlerReturns
  <2>2. \A e \in Events : postedIn'[e] = postedIn[e] \/ postedIn'[e] = NoEvent
    BY <2>1
  <2> QED
    BY <1>1, <2>1, <2>2, QuietDeletes
<1>4. CASE DeleteReceiver
  <2>1. RemoveAll(Top.receiver, TRUE) /\ postedIn' = postedIn
    BY <1>4 DEF DeleteReceiver
  <2>2. Top.receiver \in Receivers
    BY <1>4, TopShape, FrameShape DEF DeleteReceiver, TopIs
  <2>3. /\ \A d \in Events : fate[d] = "gone" => fate'[d] = "gone"
        /\ Live(list') \subseteq Live(list)
    BY <2>1, <2>2, RemovedFacts
  <2>4. \A d \in Events : fate[d] # "new" => fate'[d] # "new"
    BY <2>1 DEF RemoveAll, Gone, LInv, Typing
  <2> QED
    BY <1>1, <2>1, <2>3, <2>4, QuietDeletes
<1> QED
  BY <1>2, <1>3, <1>4 DEF Around

(* Walks that begin, go on and end; what they deliver comes below.         *)
LEMMA AdvanceAlike ==
  ASSUME LInv, TopIs("walk"), ~AtEnd, NEW l, NEW h,
         h = <<>> \/ \E f \in HandlerFrames : h = <<f>>, Advance(l, h)
  PROVE  /\ Alike /\ Len(stack) \in Nat /\ DOMAIN stack = 1..Len(stack)
         /\ h = <<>> => NoneNew
         /\ h # <<>> => DOMAIN stack' = 1..(Len(stack) + 1) /\ stack'[Len(stack) + 1] = h[1]
<1>1. /\ SoundStack(stack') /\ Len(stack') = Len(stack) + Len(h) /\ Len(stack') \in Nat
      /\ \A i \in 1..(Len(stack) - 1) : stack'[i] = stack[i]
      /\ stack'[Len(stack)].frame = "walk"
      /\ Len(h) = 1 => stack'[Len(stack) + 1] = h[1] /\ h[1] \in HandlerFrames
  BY AdvanceStack
<1>2. /\ Top.frame = "walk" /\ Top = stack[Len(stack)] /\ Len(stack) \in Nat
      /\ DOMAIN stack = 1..Len(stack)
  BY WalkTop
<1>3. DOMAIN stack' = 1..Len(stack')
  BY <1>1, StackShape DEF SoundStack
<1>4. \A k \in DOMAIN stack : k = Len(stack) \/ k \in 1..(Len(stack) - 1)
  BY <1>2, BelowTop
<1>5. Alike
  BY <1>1, <1>2, <1>4 DEF Alike
<1>6. h = <<>> => NoneNew
  <2>1. h = <<>> => Len(h) = 0
    BY EmptySeq
  <2>2. h = <<>> => DOMAIN stack' = DOMAIN stack
    BY <1>1, <1>2, <1>3, <2>1
  <2> QED
    BY <2>2 DEF NoneNew
<1>7. h # <<>> => Len(h) = 1
  OBVIOUS
<1> QED
  BY <1>1, <1>2, <1>3, <1>5, <1>6, <1>7

LEMMA WalksDelete ==
  ASSUME LInv, LInv', DInv, SkipEntry \/ RepostDelete \/ EndWalk
  PROVE  DInv'
<1> DEFINE none == <<>>
<1>0. none = <<>>
  OBVIOUS
<1> HIDE DEF none
<1>1. SoundList(list)
  BY DEF LInv
<1>2. CASE SkipEntry
  <2>1. TopIs("walk") /\ ~AtEnd /\ Advance(list, none) /\ UNCHANGED history
    BY <1>0, <1>2 DEF SkipEntry
  <2>2. Alike /\ NoneNew
    BY <1>0, <2>1, AdvanceAlike
  <2>3. list'.entries = list.entries
    <3>1. list = [entries |-> list.entries, startOffset |-> list.startOffset,
                  insertionOffset |-> list.insertionOffset]
      BY ListShape DEF LInv, Typing
    <3> QED
      BY <2>1, <3>1 DEF Advance
  <2>4. Live(list') = Live(list)
    BY <2>3 DEF Live
  <2> QED
    BY <2>1, <2>2, <2>4, QuietHistory
<1>3. CASE RepostDelete
  <2>1. /\ TopIs("walk") /\ ~AtEnd /\ Here.event # NoEvent /\ UNCHANGED history
        /\ Advance(IF WalksAll THEN Reposted ELSE list, none)
    BY <1>0, <1>3 DEF RepostDelete, Reposted
  <2>2. Alike /\ NoneNew
    BY <1>0, <2>1, AdvanceAlike
  <2>3. CASE WalksAll
    <3>1. SoundList(Reposted) /\ Live(Reposted) = Live(list)
      BY <2>1, RepostFacts
    <3>2. Reposted = [entries |-> Reposted.entries, startOffset |-> Reposted.startOffset,
                      insertionOffset |-> Reposted.insertionOffset]
      BY <3>1, ListShape DEF SoundList
    <3>3. list'.entries = Reposted.entries
      BY <2>1, <2>3, <3>2 DEF Advance
    <3>4. Live(list') = Live(list)
      BY <3>1, <3>3 DEF Live
    <3> QED
      BY <2>1, <2>2, <3>4, QuietHistory
  <2>4. CASE ~WalksAll
    BY <2>1, <2>2, <2>4, QuietHistory DEF Advance
  <2> QED
    BY <2>3, <2>4
<1>4. CASE EndWalk
  <2>1. /\ stack # <<>> /\ stack' = Front(stack) /\ UNCHANGED history
        /\ list' = IF WalksAll THEN EraseSent(list) ELSE list
    BY <1>4 DEF EndWalk, Return, TopIs
  <2>2. Live(list') = Live(list)
    BY <1>1, <2>1, EraseFacts
  <2> QED
    BY <2>1, <2>2, AlikePop, QuietHistory
<1> QED
  BY <1>2, <1>3, <1>4

LEMMA SendsDelete ==
  ASSUME LInv, LInv', DInv, NEW r \in Receivers \cup {NoReceiver}, NEW ty \in {"any", "delete"},
         SendPostedEvents(r, ty)
  PROVE  DInv'
<1>1. BeginWalk(stack, r, ty) /\ UNCHANGED history
  BY DEF SendPostedEvents
<1>2. Live(list') = Live(list)
  BY <1>1, BegunFacts
<1>3. stack' = stack \/ stack' = Append(stack, WalkFrame(r, ty, list.startOffset))
  BY SendTop
<1>4. list.startOffset \in Nat
  BY ListShape DEF LInv, Typing
<1>5. WalkFrame(r, ty, list.startOffset) \in StackFrame /\ WalkFrame(r, ty, list.startOffset).frame = "walk"
  BY <1>4, FramesFit
<1>6. Alike /\ NoneNew
  BY <1>3, <1>5, AlikeSame, AlikePush
<1> QED
  BY <1>1, <1>2, <1>6, QuietHistory

LEMMA RemoveDeletes ==
  ASSUME LInv, LInv', DInv, NEW r \in Receivers, RemovePostedEvents(r)
  PROVE  DInv'
<1>1. PICK walked \in BOOLEAN : RemoveAll(r, walked) /\ (~walked => list.startOffset = 0)
  BY WalkedOrNot
<1>2. /\ \A d \in Events : fate[d] = "gone" => fate'[d] = "gone"
      /\ Live(list') \subseteq Live(list)
  BY <1>1, RemovedFacts
<1>3. \A d \in Events : fate[d] # "new" => fate'[d] # "new"
  BY <1>1 DEF RemoveAll, Gone, LInv, Typing
<1>4. postedIn' = postedIn /\ Alike /\ NoneNew
  BY AlikeSame DEF RemovePostedEvents
<1> QED
  BY <1>2, <1>3, <1>4, QuietDeletes

(* deleteLater() in a handler remembers the level of that handler.         *)
LEMMA PostsDelete ==
  ASSUME LInv, LInv', DInv, NEW r \in Receivers, NEW e \in Events, NEW ty \in Types,
         NEW p \in Priorities \cup {0}
  PROVE  /\ Post(r, e, ty, p) => DInv'
         /\ \A t \in Posters : PostFrom(t, r, e, ty, p) => DInv'
<1>1. ASSUME NEW level \in Nat, AddPosted(r, e, ty, p, level)
      PROVE  /\ \A d \in Events : /\ fate[d] = "gone" => fate'[d] = "gone"
                                  /\ fate[d] # "new" => fate'[d] # "new"
             /\ fate[e] = "new" /\ postedIn[e] = NoEvent /\ fate'[e] # "new"
             /\ \A x \in Live(list') :
                  x \in Live(list) \/ NewEntryFor(x, e, ty, level)
             /\ \A x \in Live(list) : x.event # e
  <2>1. /\ \A d \in Events : fate[d] = "gone" => fate'[d] = "gone"
        /\ \A x \in Live(list') : x \in Live(list) \/ NewEntryFor(x, e, ty, level)
        /\ \A x \in Live(list) : x.event # e
    BY <1>1, PostedFacts
  <2>2. fate[e] = "new" /\ fate \in [Events -> Fates]
    BY <1>1 DEF AddPosted, LInv, Typing
  <2>3. fate' = [fate EXCEPT ![e] = "gone"] \/ fate' = [fate EXCEPT ![e] = "posted"]
    BY <1>1 DEF AddPosted
  <2>4. postedIn[e] = NoEvent
    BY <2>2 DEF DInv, PostedFits
  <2> QED
    BY <2>1, <2>2, <2>3, <2>4
<1>2. ASSUME NEW t \in Posters, PostFrom(t, r, e, ty, p) PROVE DInv'
  <2>1. AddPosted(r, e, ty, p, 0) /\ UNCHANGED <<stack, postedIn>> /\ 0 \in Nat
    BY <1>2 DEF PostFrom
  <2>2. /\ \A d \in Events : /\ fate[d] = "gone" => fate'[d] = "gone"
                             /\ fate[d] # "new" => fate'[d] # "new"
        /\ \A x \in Live(list') : x \in Live(list) \/ postedIn'[x.event] = NoEvent
    BY <1>1, <2>1 DEF NewEntryFor
  <2> QED
    BY <2>1, <2>2, AlikeSame, QuietDeletes
<1>3. ASSUME Post(r, e, ty, p) PROVE DInv'
  <2> DEFINE level == IF ty = "normal" THEN 0 ELSE PostLevel
  <2>1. level \in Nat
    BY LevelIsNumber
  <2>2. /\ AddPosted(r, e, ty, p, level) /\ UNCHANGED stack
        /\ postedIn' = [postedIn EXCEPT ![e] = IF ty = "delete" /\ stack # <<>> THEN Top.event ELSE NoEvent]
    BY <1>3 DEF Post
  <2>3. postedIn \in [Events -> Events \cup {NoEvent}]
    BY DEF LInv, Typing
  <2>4. /\ \A d \in Events : /\ fate[d] = "gone" => fate'[d] = "gone"
                             /\ fate[d] # "new" => fate'[d] # "new"
        /\ fate[e] = "new" /\ postedIn[e] = NoEvent /\ fate'[e] # "new"
        /\ \A x \in Live(list') :
             x \in Live(list) \/ NewEntryFor(x, e, ty, level)
        /\ \A x \in Live(list) : x.event # e
    BY <1>1, <2>1, <2>2
  <2>5. CASE ~(ty = "delete" /\ stack # <<>>)
    <3>1. postedIn'[e] = NoEvent /\ \A d \in Events : postedIn'[d] = postedIn[d] \/ postedIn'[d] = NoEvent
      BY <2>2, <2>3, <2>5
    <3>2. \A x \in Live(list') : x \in Live(list) \/ postedIn'[x.event] = NoEvent
      BY <2>4, <3>1 DEF NewEntryFor
    <3> QED
      BY <2>2, <2>4, <3>1, <3>2, AlikeSame, QuietDeletes
  <2>6. CASE ty = "delete" /\ stack # <<>>
    <3>1. Top.frame = "handler"
      BY <1>3, <2>6 DEF Post, InUserCode, TopIs
    <3>2. /\ LevelAt(Len(stack)) = loopLevel + scopeLevel /\ PostLevel = loopLevel + scopeLevel
          /\ Len(stack) \in Frames("handler") /\ Top = stack[Len(stack)]
      BY <2>6, <3>1, LevelHere, TopShape
    <3>3. level = LevelAt(Len(stack))
      BY <2>6, <3>2
    <3> HIDE DEF level
    <3>4. Top.event \in Events /\ fate[Top.event] = "gone"
      BY <3>1, <3>2, HandledEvents DEF Frames, LInv, HandledGone
    <3>5. postedIn'[e] = Top.event /\ \A d \in Events : d # e => postedIn'[d] = postedIn[d]
      BY <2>2, <2>3, <2>6
    <3>6. Distinct' /\ Frames("handler")' = Frames("handler") /\ \A h : LevelAt(h)' = LevelAt(h)
      BY <2>2 DEF DInv, Distinct, Frames, LevelAt
    <3>7. PostedFits'
      <4>1. ASSUME NEW d \in Events, postedIn'[d] # NoEvent
            PROVE  fate'[d] # "new" /\ fate'[postedIn'[d]] = "gone"
        <5>1. CASE d = e
          BY <2>4, <3>4, <3>5, <5>1
        <5>2. CASE d # e
          BY <2>3, <2>4, <3>5, <4>1, <5>2 DEF DInv, PostedFits
        <5> QED
          BY <5>1, <5>2
      <4> QED
        BY <4>1 DEF PostedFits
    <3>8. LevelsFit'
      <4>1. ASSUME NEW x \in Live(list'), NEW h \in Frames("handler"),
                   x.type = "delete", stack[h].event = postedIn'[x.event]
            PROVE  x.level = LevelAt(h)
        <5>1. CASE x \in Live(list)
          <6>1. x.event \in Events /\ x.event # e
            <7>1. x.event # NoEvent /\ \E i \in 1..Size(list) : list.entries[i] = x
              BY <5>1, LivePlaces DEF LInv, Typing
            <7>2. x \in Entry
              BY <7>1, ListShape DEF LInv, Typing
            <7> QED
              BY <2>4, <5>1, <7>1, <7>2 DEF Entry
          <6> QED
            BY <3>5, <4>1, <5>1, <6>1 DEF DInv, LevelsFit
        <5>2. CASE x \notin Live(list)
          <6>1. x.event = e /\ x.level = level
            BY <2>4, <5>2 DEF NewEntryFor
          <6>2. stack[h].event = stack[Len(stack)].event
            BY <3>2, <3>5, <4>1, <6>1
          <6>3. h = Len(stack)
            BY <3>2, <6>2 DEF DInv, Distinct
          <6> QED
            BY <3>3, <6>1, <6>3
        <5> QED
          BY <5>1, <5>2
      <4> QED
        BY <2>2, <3>6, <4>1 DEF LevelsFit
    <3> QED
      BY <3>6, <3>7, <3>8 DEF DInv
  <2> QED
    BY <2>5, <2>6
<1> QED
  BY <1>2, <1>3

(* A handler that begins: nothing was posted in it yet.                    *)
LEMMA DeliverDeletes ==
  ASSUME LInv, LInv', DInv, Deliver
  PROVE  DInv'
<1> DEFINE l == NullAt(list, Position + 1)
           h == <<HandlerFrame(Here)>>
           n == Len(stack) + 1
<1>1. /\ TopIs("walk") /\ ~AtEnd /\ Advance(l, h)
      /\ HandlerFrame(Here) \in HandlerFrames /\ Len(h) = 1 /\ h[1] = HandlerFrame(Here)
      /\ HandlerFrame(Here).event = Here.event /\ Here.event \in Events /\ Here \in Live(list)
      /\ SoundList(l) /\ Live(l) = Live(list) \ {Here}
      /\ l.startOffset = list.startOffset /\ l.insertionOffset = list.insertionOffset
      /\ Size(list) <= Size(l) /\ l.entries[Position + 1].event = NoEvent
  BY DeliverFacts
<1>2. h = <<HandlerFrame(Here)>> /\ h # <<>>
  OBVIOUS
<1> HIDE DEF l, h
<1>3. h = <<>> \/ \E f \in HandlerFrames : h = <<f>>
  BY <1>1, <1>2
<1>4. Live(list') = Live(list) \ {Here}
  BY <1>1, <1>3, AdvanceList
<1>5. /\ Alike /\ Len(stack) \in Nat /\ DOMAIN stack = 1..Len(stack)
      /\ DOMAIN stack' = 1..n /\ stack'[n] = HandlerFrame(Here)
  BY <1>1, <1>2, <1>3, AdvanceAlike
<1>6. fate' = [fate EXCEPT ![Here.event] = "gone"] /\ postedIn' = postedIn
  BY DEF Deliver
<1>7. fate[Here.event] = "posted"
  BY <1>1 DEF LInv, Books
<1>8. \A k \in Frames("handler")' : \/ k = n /\ stack'[k].event = Here.event
                                    \/ k \in Frames("handler") /\ stack'[k] = stack[k]
  <2>1. ASSUME NEW k \in Frames("handler")'
        PROVE  \/ k = n /\ stack'[k].event = Here.event
               \/ k \in Frames("handler") /\ stack'[k] = stack[k]
    <3>1. k \in 1..n /\ stack'[k].frame = "handler"
      BY <1>5 DEF Frames
    <3>2. CASE k = n
      BY <1>1, <1>5, <3>2
    <3>3. CASE k # n
      <4>1. k \in DOMAIN stack
        BY <1>5, <3>1, <3>3, BelowTop
      <4> QED
        BY <1>5, <3>1, <4>1 DEF Alike, Frames
    <3> QED
      BY <3>2, <3>3
  <2> QED
    BY <2>1
<1> HIDE DEF n
<1>9. \A k \in Frames("handler") : stack[k].event \in Events /\ stack[k].event # Here.event
  <2>1. \A k \in Frames("handler") : stack[k].event \in Events /\ fate[stack[k].event] = "gone"
    BY HandledEvents DEF Frames, LInv, HandledGone
  <2> QED
    BY <1>7, <2>1
<1>10. \A e \in Events : postedIn[e] # Here.event
  BY <1>1, <1>7, EventLoopAssumption DEF DInv, PostedFits
<1>11. Distinct'
  <2>1. \A i, j \in Frames("handler") : stack[i].event = stack[j].event => i = j
    BY DEF DInv, Distinct
  <2> QED
    BY <1>8, <1>9, <2>1 DEF Distinct
<1>12. PostedFits'
  <2>1. fate \in [Events -> Fates] /\ postedIn \in [Events -> Events \cup {NoEvent}]
    BY DEF LInv, Typing
  <2> QED
    BY <1>6, <2>1 DEF DInv, PostedFits
<1>13. LevelsFit'
  <2>1. ASSUME NEW x \in Live(list'), NEW k \in Frames("handler")',
               x.type = "delete", stack'[k].event = postedIn'[x.event]
        PROVE  x.level = LevelAt(k)'
    <3>1. x \in Live(list)
      BY <1>4
    <3>2. x.event \in Events
      <4>1. x.event # NoEvent /\ \E i \in 1..Size(list) : list.entries[i] = x
        BY <3>1, LivePlaces DEF LInv, Typing
      <4> QED
        BY <4>1, ListShape DEF LInv, Typing, Entry
    <3>3. k \in Frames("handler") /\ stack'[k] = stack[k]
      BY <1>6, <1>8, <1>10, <2>1, <3>2
    <3>4. k \in DOMAIN stack /\ k \in DOMAIN stack'
      BY <2>1, <3>3 DEF Frames
    <3>5. LevelAt(k)' = LevelAt(k)
      BY <1>5, <3>4, LevelStays
    <3> QED
      BY <1>6, <2>1, <3>1, <3>3, <3>5 DEF DInv, LevelsFit
  <2> QED
    BY <2>1 DEF LevelsFit
<1> QED
  BY <1>11, <1>12, <1>13 DEF DInv

LEMMA InitDeletes == Init => DInv
<1>1. SUFFICES ASSUME Init PROVE DInv
  OBVIOUS
<1>2. Frames("handler") = {}
  <2>1. stack = <<>>
    BY <1>1 DEF Init
  <2> QED
    BY <2>1 DEF Frames
<1>3. \A e \in Events : postedIn[e] = NoEvent
  BY <1>1 DEF Init
<1> QED
  BY <1>2, <1>3 DEF DInv, Distinct, PostedFits, LevelsFit

LEMMA DeletesStep ==
  ASSUME LInv, LInv', DInv, [Next]_vars
  PROVE  DInv'
<1>1. \A p \in Priorities : p \in Priorities \cup {0}
  OBVIOUS
<1>2. {"normal", "delete"} = Types /\ 0 \in Priorities \cup {0} /\ alive \subseteq Receivers
  BY DEF Types, LInv, Typing
<1>3. ASSUME UNCHANGED <<list, stack, history>> PROVE DInv'
  BY <1>3, AlikeSame, QuietHistory
<1>4. CASE Around
  BY <1>4, AroundDeletes
<1>5. CASE Round
  BY <1>5, RoundsDelete
<1>6. CASE SkipEntry \/ RepostDelete \/ EndWalk
  BY <1>6, WalksDelete
<1>7. CASE Deliver
  BY <1>7, DeliverDeletes
<1>8. CASE \E r \in Receivers, e \in Events :
             \/ \E p \in Priorities : Post(r, e, "normal", p)
             \/ Post(r, e, "delete", 0)
  BY <1>1, <1>2, <1>8, PostsDelete
<1>9. CASE (\E r \in alive \cup {NoReceiver} : SendPostedEvents(r, "any"))
             \/ SendPostedEvents(NoReceiver, "delete")
  <2>1. \A r \in alive \cup {NoReceiver} : r \in Receivers \cup {NoReceiver}
    BY <1>2
  <2> QED
    BY <1>9, <2>1, SendsDelete
<1>10. CASE \E l \in Loops : Exit(l)
  BY <1>3, <1>10 DEF Exit
<1>11. CASE \E r \in Receivers : RemovePostedEvents(r)
  BY <1>11, RemoveDeletes
<1>12. CASE \E t \in Posters : OtherThread(t)
  <2>1. PICK t \in Posters : OtherThread(t)
    BY <1>12
  <2>2. CASE \E l \in Loops : ExitFrom(t, l)
    BY <1>3, <2>2 DEF ExitFrom
  <2>3. CASE \E r \in Receivers, e \in Events :
               \/ \E p \in Priorities : PostFrom(t, r, e, "normal", p)
               \/ PostFrom(t, r, e, "delete", 0)
    BY <1>1, <1>2, <2>3, PostsDelete
  <2> QED
    BY <2>1, <2>2, <2>3 DEF OtherThread
<1>13. CASE \E t \in Posters : InWakeUp(t)
  BY <1>3, <1>13 DEF InWakeUp, Interrupt, SetWakeUps, WritePipe
<1>14. CASE UNCHANGED vars
  BY <1>3, <1>14 DEF vars
<1> QED
  BY <1>4, <1>5, <1>6, <1>7, <1>8, <1>9, <1>10, <1>11, <1>12, <1>13, <1>14
     DEF Next, UserCall, Walk, Around

(* What was posted in a handler that still runs is not for this walk.      *)
LEMMA NotYet ==
  ASSUME LInv, DInv, Deliver, Here.type = "delete", Top.type = "any", NEW i \in Frames("handler")
  PROVE  stack[i].event # postedIn[Here.event]
<1>1. SUFFICES ASSUME stack[i].event = postedIn[Here.event] PROVE FALSE
  OBVIOUS
<1>2. Here \in Live(list)
  BY DeliverFacts
<1>3. Here.level = LevelAt(i)
  BY <1>1, <1>2 DEF DInv, LevelsFit
<1>4. Here.level \in Nat /\ Here.level > 0 /\ Here.level <= loopLevel + scopeLevel
  BY <1>3, LevelsBelow
<1>5. DeleteAllowed(Here.level, "any")
  BY DEF Deliver, Deferred
<1> QED
  BY <1>4, <1>5, LevelIsNumber DEF DeleteAllowed

(* An object is not deleted before the handler returns that called         *)
(* deleteLater(), unless somebody asks for the deferred deletions: however *)
(* walks, rounds and loops are nested in that handler, none of them        *)
(* delivers the DeferredDelete, because its level stays the level of the   *)
(* handler that it was posted in.                                          *)
THEOREM DeletedAfterReturnHolds == Spec => DeletedAfterReturn
<1>1. Init => LInv /\ DInv
  BY InitLInv, InitDeletes
<1>2. LInv /\ DInv /\ [Next]_vars => (LInv /\ DInv)'
  BY StepLInv, DeletesStep
<1>3. LInv /\ DInv /\ [Next]_vars =>
        [(Deliver /\ Here.type = "delete" /\ Top.type = "any") =>
           \A i \in Frames("handler") : stack[i].event # postedIn[Here.event]]_vars
  BY NotYet
<1> QED
  BY <1>1, <1>2, <1>3, PTL DEF Spec, DeletedAfterReturn
==============================================================================
