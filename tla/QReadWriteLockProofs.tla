------------------------- MODULE QReadWriteLockProofs -------------------------
(***************************************************************************)
(* What QReadWriteLock guarantees for any finite number of threads and any *)
(* number of locks and privates, while privates move between the locks.    *)
(***************************************************************************)
EXTENDS QReadWriteLock, FiniteSetTheorems, TLAPS

(* The words of a lock that is held without a private.                     *)
Words == {LockedWrite} \cup {LockedRead(n) : n \in 1..Cardinality(Threads)}

(* A thread inside a call knows its lock, and the private it goes for.     *)
PlacesFit ==
    \A t \in Threads :
      /\ pc[t] # "idle" => lock[t] \in Locks
      /\ pc[t] \in {"install", "enter", "asleep", "awake"} => d[t] \in Privates
      /\ pc[t] = "install" => seen[t] \in Words

(* Waiters keep the private installed, in the lock they wait for.          *)
WaitersPoint ==
    \A t \in Threads : pc[t] \in {"asleep", "awake"} => dptr[lock[t]] = Pointer(d[t])

(* A private on its way into d_ptr belongs to one thread.                  *)
PreparedIsOwn ==
    \A t \in Threads : pc[t] = "install" =>
      /\ d[t] \notin free
      /\ priv[d[t]] = Prepared(seen[t])
      /\ \A l \in Locks : dptr[l].private # d[t]
      /\ \A x \in Threads \ {t} : pc[x] = "install" => d[x] # d[t]

(* Exclusion rests on the counts, the counts on who points to which        *)
(* private, and that on nobody else using a private that is free or not    *)
(* yet installed.                                                          *)
IInv == /\ TypeOK /\ seen \in [Threads -> Words \cup {Unlocked}]
        /\ PlacesFit /\ WaitersPoint /\ PreparedIsOwn
        /\ WritersExclude /\ CountsMatch /\ FreePrivatesAreClean

-----------------------------------------------------------------------------
H(l, o) == Cardinality(HoldersOf(l, o))
W(p, o) == Cardinality(Waiters(p, o))

(* No step moves another thread than its own, but for waking it up.        *)
OnlyMoves(t) ==
    \A x \in Threads \ {t} :
      /\ op'[x] = op[x] /\ lock'[x] = lock[x] /\ d'[x] = d[x] /\ seen'[x] = seen[x]
      /\ pc'[x] = pc[x] \/ (pc[x] = "asleep" /\ pc'[x] = "awake")

LEMMA Finite ==
  ASSUME NEW l, NEW o
  PROVE  /\ IsFiniteSet(HoldersOf(l, o)) /\ H(l, o) \in Nat /\ H(l, o) <= Cardinality(Threads)
         /\ H(l, o) = 0 <=> HoldersOf(l, o) = {}
         /\ IsFiniteSet(Waiters(l, o)) /\ W(l, o) \in Nat
         /\ W(l, o) = 0 <=> Waiters(l, o) = {}
<1>1. HoldersOf(l, o) \subseteq Threads /\ Waiters(l, o) \subseteq Threads
  BY DEF HoldersOf, Waiters
<1> QED
  BY <1>1, FiniteThreads, FS_Subset, FS_CardinalityType, FS_EmptySet DEF H, W

LEMMA CardinalityStep ==
  ASSUME NEW S, NEW T, NEW t, IsFiniteSet(S), T = S \cup {t} \/ T = S \ {t}
  PROVE  /\ (t \in S <=> t \in T) => Cardinality(T) = Cardinality(S)
         /\ t \in S /\ t \notin T => Cardinality(T) = Cardinality(S) - 1
         /\ t \notin S /\ t \in T => Cardinality(T) = Cardinality(S) + 1
<1>1. CASE T = S \cup {t}
  BY <1>1, FS_AddElement
<1>2. CASE T = S \ {t}
  BY <1>2, FS_RemoveElement
<1> QED
  BY <1>1, <1>2

Holds(t, l, o) == pc[t] = "held" /\ lock[t] = l /\ op[t] = o
Waits(t, p, o) == pc[t] \in {"asleep", "awake"} /\ d[t] = p /\ op[t] = o

(* How a step changes the two counts: by its own thread's part in them.    *)
LEMMA Recount ==
  ASSUME NEW t \in Threads, OnlyMoves(t), NEW l, NEW o
  PROVE  /\ (Holds(t, l, o) <=> Holds(t, l, o)') => H(l, o)' = H(l, o)
         /\ Holds(t, l, o) /\ ~Holds(t, l, o)' => H(l, o)' = H(l, o) - 1
         /\ ~Holds(t, l, o) /\ Holds(t, l, o)' => H(l, o)' = H(l, o) + 1
         /\ (Waits(t, l, o) <=> Waits(t, l, o)') => W(l, o)' = W(l, o)
         /\ Waits(t, l, o) /\ ~Waits(t, l, o)' => W(l, o)' = W(l, o) - 1
         /\ ~Waits(t, l, o) /\ Waits(t, l, o)' => W(l, o)' = W(l, o) + 1
<1>1. /\ HoldersOf(l, o)' = HoldersOf(l, o) \cup {t} \/ HoldersOf(l, o)' = HoldersOf(l, o) \ {t}
      /\ t \in HoldersOf(l, o) <=> Holds(t, l, o)
      /\ t \in HoldersOf(l, o)' <=> Holds(t, l, o)'
  BY DEF HoldersOf, Holds, OnlyMoves
<1>2. /\ Waiters(l, o)' = Waiters(l, o) \cup {t} \/ Waiters(l, o)' = Waiters(l, o) \ {t}
      /\ t \in Waiters(l, o) <=> Waits(t, l, o)
      /\ t \in Waiters(l, o)' <=> Waits(t, l, o)'
  BY DEF Waiters, Waits, OnlyMoves
<1>3. IsFiniteSet(HoldersOf(l, o)) /\ IsFiniteSet(Waiters(l, o))
  BY Finite
<1> HIDE DEF HoldersOf, Waiters, Holds, Waits
<1>4. /\ (Holds(t, l, o) <=> Holds(t, l, o)') => H(l, o)' = H(l, o)
      /\ Holds(t, l, o) /\ ~Holds(t, l, o)' => H(l, o)' = H(l, o) - 1
      /\ ~Holds(t, l, o) /\ Holds(t, l, o)' => H(l, o)' = H(l, o) + 1
  BY <1>1, <1>3, CardinalityStep DEF H
<1>5. /\ (Waits(t, l, o) <=> Waits(t, l, o)') => W(l, o)' = W(l, o)
      /\ Waits(t, l, o) /\ ~Waits(t, l, o)' => W(l, o)' = W(l, o) - 1
      /\ ~Waits(t, l, o) /\ Waits(t, l, o)' => W(l, o)' = W(l, o) + 1
  BY <1>2, <1>3, CardinalityStep DEF W
<1> QED
  BY <1>4, <1>5

(* The steps after which a thread holds and waits for what it did before.  *)
Unmoved(t) ==
    /\ OnlyMoves(t)
    /\ pc[t] # "held" /\ pc'[t] # "held"
    /\ (pc[t] \in {"asleep", "awake"}) <=> (pc'[t] \in {"asleep", "awake"})
    /\ pc[t] \in {"asleep", "awake"} => d'[t] = d[t] /\ op'[t] = op[t] /\ lock'[t] = lock[t]

LEMMA SameSets ==
  ASSUME NEW t \in Threads, Unmoved(t), NEW l, NEW o
  PROVE  HoldersOf(l, o)' = HoldersOf(l, o) /\ Waiters(l, o)' = Waiters(l, o)
  BY DEF Unmoved, OnlyMoves, HoldersOf, Waiters

(* Who holds is counted, and who waits, in terms of the two counts.        *)
CountsAt(l) ==
    LET v == dptr[l] IN
    IF v.state = "private"
    THEN priv[v.private] = [readers |-> H(l, "read"), writers |-> H(l, "write"),
                            waitingReaders |-> W(v.private, "read"),
                            waitingWriters |-> W(v.private, "write")]
    ELSE v.readers = H(l, "read") /\ (v = LockedWrite) = (H(l, "write") = 1)

LEMMA CountsNow == CountsMatch <=> \A l \in Locks : CountsAt(l)
  BY DEF CountsMatch, CountsAt, H, W

LEMMA CountsThen == CountsMatch' <=> \A l \in Locks : CountsAt(l)'
<1>1. (CountsMatch <=> \A l \in Locks : CountsAt(l))'
  BY CountsNow, PTL
<1> QED
  BY <1>1

LEMMA WordForms ==
  ASSUME TypeOK, NEW l \in Locks
  PROVE  /\ dptr[l].state = "private" <=> dptr[l].private \in Privates
         /\ dptr[l].state = "private" => dptr[l] = Pointer(dptr[l].private)
         /\ dptr[l].state # "private" => dptr[l].private = NoPrivate
         /\ dptr[l].state # "private" => dptr[l] \in Words \cup {Unlocked}
         /\ dptr[l].state = "read" => dptr[l] = LockedRead(dptr[l].readers)
                                      /\ dptr[l].readers \in 1..Cardinality(Threads)
  BY ReadWriteLockAssumption
     DEF TypeOK, Words, Unlocked, LockedRead, LockedWrite, Pointer

(* Steps that leave the shared state and the two sets alone.               *)
LEMMA SharedStays ==
  ASSUME IInv, NEW t \in Threads, Unmoved(t), UNCHANGED <<dptr, priv, free>>
  PROVE  /\ WritersExclude' /\ CountsMatch' /\ FreePrivatesAreClean' /\ WaitersPoint'
         /\ (pc'[t] = "install" => pc[t] = "install" /\ d'[t] = d[t] /\ seen'[t] = seen[t])
            => PreparedIsOwn'
<1>1. \A l, o : HoldersOf(l, o)' = HoldersOf(l, o) /\ Waiters(l, o)' = Waiters(l, o)
  BY SameSets
<1>2. WritersExclude'
  BY <1>1 DEF IInv, WritersExclude, Holders
<1>3. CountsMatch'
  BY <1>1 DEF IInv, CountsMatch
<1>4. FreePrivatesAreClean'
  BY <1>1 DEF IInv, FreePrivatesAreClean
<1>5. WaitersPoint'
  BY DEF IInv, WaitersPoint, Unmoved, OnlyMoves
<1>6. ASSUME pc'[t] = "install" => pc[t] = "install" /\ d'[t] = d[t] /\ seen'[t] = seen[t]
      PROVE  PreparedIsOwn'
  BY <1>6 DEF IInv, PreparedIsOwn, Unmoved, OnlyMoves
<1> QED
  BY <1>2, <1>3, <1>4, <1>5, <1>6

LEMMA FiniteThen ==
  ASSUME NEW l, NEW o
  PROVE  H(l, o)' \in Nat /\ H(l, o)' <= Cardinality(Threads)
<1>1. (H(l, o) \in Nat /\ H(l, o) <= Cardinality(Threads))'
  BY Finite, PTL
<1> QED
  BY <1>1

(* Exclusion, said of two threads.                                         *)
Alone == \A x, y \in Threads :
           /\ pc[x] = "held" /\ op[x] = "write"
           /\ pc[y] = "held" /\ lock[y] = lock[x] /\ lock[x] \in Locks
           => x = y

LEMMA AloneNow == op \in [Threads -> Ops] => (WritersExclude <=> Alone)
  BY DEF WritersExclude, Alone, HoldersOf, Holders, Ops

LEMMA AloneThen == op' \in [Threads -> Ops] => (WritersExclude' <=> Alone')
<1>1. (op \in [Threads -> Ops] => (WritersExclude <=> Alone))'
  BY AloneNow, PTL
<1> QED
  BY <1>1

LEMMA HoldersCounted ==
  ASSUME IInv, NEW x \in Threads, pc[x] = "held"
  PROVE  /\ H(lock[x], op[x]) > 0 /\ lock[x] \in Locks /\ op[x] \in Ops
         /\ op[x] = "write" => H(lock[x], "read") = 0 /\ H(lock[x], "write") = 1
         /\ op[x] = "read" => H(lock[x], "write") = 0
<1>1. lock[x] \in Locks /\ op[x] \in Ops /\ x \in HoldersOf(lock[x], op[x])
  BY DEF IInv, PlacesFit, TypeOK, HoldersOf
<1>2. Alone
  BY AloneNow DEF IInv, TypeOK
<1>3. op[x] = "write" => HoldersOf(lock[x], "read") = {} /\ HoldersOf(lock[x], "write") = {x}
  BY <1>1, <1>2 DEF Alone, HoldersOf
<1>4. op[x] = "read" => HoldersOf(lock[x], "write") = {}
  BY <1>1, <1>2 DEF Alone, HoldersOf
<1> HIDE DEF HoldersOf
<1>5. H(lock[x], op[x]) \in Nat /\ H(lock[x], op[x]) # 0
  BY <1>1, Finite
<1>6. op[x] = "write" => H(lock[x], "read") = 0
  BY <1>3, FS_EmptySet DEF H
<1>7. op[x] = "write" => H(lock[x], "write") = 1
  <2>1. Cardinality({x}) = 1
    BY FS_Singleton
  <2> QED
    BY <2>1, <1>3 DEF H
<1>8. op[x] = "read" => H(lock[x], "write") = 0
  BY <1>4, FS_EmptySet DEF H
<1> QED
  BY <1>1, <1>5, <1>6, <1>7, <1>8

LEMMA OneWriter ==
  ASSUME IInv, NEW l \in Locks
  PROVE  H(l, "write") \in {0, 1}
<1>1. CASE HoldersOf(l, "write") = {}
  BY <1>1, FS_EmptySet DEF H
<1>2. CASE HoldersOf(l, "write") # {}
  <2>1. PICK x \in Threads : pc[x] = "held" /\ lock[x] = l /\ op[x] = "write"
    BY <1>2 DEF HoldersOf
  <2> QED
    BY <2>1, HoldersCounted
<1> QED
  BY <1>1, <1>2

LEMMA WaiterPlace ==
  ASSUME IInv, NEW x \in Threads, pc[x] \in {"asleep", "awake"}
  PROVE  /\ lock[x] \in Locks /\ d[x] \in Privates
         /\ dptr[lock[x]].state = "private" /\ dptr[lock[x]].private = d[x]
<1>1. lock[x] \in Locks /\ d[x] \in Privates
  BY DEF IInv, PlacesFit
<1>2. dptr[lock[x]] = Pointer(d[x])
  BY DEF IInv, WaitersPoint
<1> QED
  BY <1>1, <1>2 DEF Pointer

(* Nobody waits for a private that is not in d_ptr of a lock.              *)
LEMMA NoWaiters ==
  ASSUME IInv, NEW p \in Privates, \A l \in Locks : dptr[l].private # p, NEW o
  PROVE  Waiters(p, o) = {} /\ W(p, o) = 0
<1>1. Waiters(p, o) = {}
  <2>1. ASSUME NEW x \in Threads, pc[x] \in {"asleep", "awake"} PROVE d[x] # p
    BY <2>1, WaiterPlace
  <2> QED
    BY <2>1 DEF Waiters
<1> QED
  BY <1>1, FS_EmptySet DEF W

(* Who gets a lock finds nobody there, or as a reader only readers.        *)
LEMMA NewHolderFits ==
  ASSUME IInv, NEW t \in Threads, OnlyMoves(t), lock'[t] \in Locks, op' \in [Threads -> Ops],
         pc'[t] = "held" => /\ pc[t] # "held" /\ H(lock'[t], "write") = 0
                            /\ op'[t] = "read" \/ H(lock'[t], "read") = 0
  PROVE  WritersExclude'
<1>1. Alone
  BY AloneNow DEF IInv, TypeOK
<1>2. ASSUME NEW x \in Threads \ {t}, pc'[t] = "held", pc[x] = "held", lock[x] = lock'[t]
      PROVE  op[x] = "read" /\ op'[t] = "read"
  BY <1>2, HoldersCounted DEF Ops
<1>3. \A x \in Threads \ {t} : /\ op'[x] = op[x] /\ lock'[x] = lock[x]
                               /\ pc'[x] = "held" => pc[x] = "held"
  BY DEF OnlyMoves
<1>4. Alone'
  BY <1>1, <1>2, <1>3 DEF Alone, Ops
<1> QED
  BY <1>4, AloneThen

LEMMA CountsElsewhere ==
  ASSUME IInv, NEW k \in Locks, dptr'[k] = dptr[k],
         \A o : H(k, o)' = H(k, o),
         dptr[k].state = "private" => \A o : W(dptr[k].private, o)' = W(dptr[k].private, o),
         dptr[k].state = "private" => priv'[dptr[k].private] = priv[dptr[k].private]
  PROVE  CountsAt(k)'
  BY CountsNow DEF IInv, CountsAt

LEMMA CallKeeps ==
  ASSUME IInv, NEW t \in Threads, NEW o \in Ops, NEW l \in Locks, NEW w \in Patience, Call(t, o, l, w)
  PROVE  IInv'
<1>1. Unmoved(t) /\ pc'[t] = "attempt" /\ w \in AllPatience
  BY ReadWriteLockAssumption DEF Call, Goto, IInv, TypeOK, Unmoved, OnlyMoves, Labels
<1>2. WritersExclude' /\ CountsMatch' /\ FreePrivatesAreClean' /\ WaitersPoint' /\ PreparedIsOwn'
  BY <1>1, SharedStays DEF Call
<1>3. TypeOK' /\ seen' \in [Threads -> Words \cup {Unlocked}]
  BY <1>1 DEF IInv, TypeOK, Call, Goto, Labels
<1>4. PlacesFit'
  BY <1>1 DEF IInv, TypeOK, PlacesFit, Call, Goto
<1> QED
  BY <1>2, <1>3, <1>4 DEF IInv

LEMMA ExpireKeeps ==
  ASSUME IInv, NEW t \in Threads, Expire(t)
  PROVE  IInv'
<1>1. TypeOK'
  BY DEF IInv, TypeOK, Expire, AllPatience
<1>2. \A l, o : HoldersOf(l, o)' = HoldersOf(l, o) /\ Waiters(l, o)' = Waiters(l, o)
  BY DEF Expire, HoldersOf, Waiters
<1>3. WritersExclude' /\ CountsMatch' /\ FreePrivatesAreClean'
  BY <1>2 DEF Expire, IInv, WritersExclude, CountsMatch, FreePrivatesAreClean, Holders
<1>4. PlacesFit' /\ WaitersPoint' /\ PreparedIsOwn' /\ seen' = seen
  BY DEF Expire, IInv, PlacesFit, WaitersPoint, PreparedIsOwn
<1> QED
  BY <1>1, <1>3, <1>4 DEF IInv

LEMMA WakesKeep ==
  ASSUME IInv, NEW t \in Threads, CondTimeout(t) \/ SpuriousWake(t)
  PROVE  IInv'
<1>1. Unmoved(t) /\ pc'[t] = "awake" /\ pc[t] = "asleep"
  BY DEF CondTimeout, SpuriousWake, Goto, IInv, TypeOK, Unmoved, OnlyMoves
<1>2. WritersExclude' /\ CountsMatch' /\ FreePrivatesAreClean' /\ WaitersPoint' /\ PreparedIsOwn'
  BY <1>1, SharedStays DEF CondTimeout, SpuriousWake
<1>3. TypeOK' /\ seen' \in [Threads -> Words \cup {Unlocked}]
  BY DEF IInv, TypeOK, CondTimeout, SpuriousWake, Goto, Labels
<1>4. PlacesFit'
  BY <1>1 DEF IInv, TypeOK, PlacesFit, CondTimeout, SpuriousWake, Goto
<1> QED
  BY <1>2, <1>3, <1>4 DEF IInv

(* An attempt: the four ways on.                                           *)
Swaps(t) == /\ dptr[lock[t]] = Unlocked \/ (dptr[lock[t]].state = "read" /\ op[t] = "read")
            /\ pc[t] = "attempt"
            /\ dptr' = [dptr EXCEPT ![lock[t]] = Swapped(dptr[lock[t]], op[t])]
            /\ Succeed(t) /\ UNCHANGED <<priv, free>>

LEMMA SwapFits ==
  ASSUME IInv, NEW t \in Threads, Swaps(t)
  PROVE  IInv'
<1>0. PICK l \in Locks : l = lock[t]
  BY DEF IInv, PlacesFit, Swaps
<1> DEFINE v == dptr[l]
           w == Swapped(v, op[t])
<1>1. /\ l \in Locks /\ l = lock[t] /\ op[t] \in Ops
      /\ v.state # "private" /\ pc[t] = "attempt"
  BY <1>0 DEF IInv, PlacesFit, TypeOK, Swaps, Unlocked
<1>2. OnlyMoves(t) /\ pc'[t] = "held" /\ lock'[t] = l /\ op'[t] = op[t]
  BY <1>1 DEF Swaps, Succeed, Goto, OnlyMoves, IInv, TypeOK
<1>3. CountsAt(l)
  BY CountsNow DEF IInv
<1>4. \A k, o : /\ H(k, o)' = IF k = l /\ o = op[t] THEN H(k, o) + 1 ELSE H(k, o)
                /\ W(k, o)' = W(k, o)
  <2>1. ASSUME NEW k, NEW o
        PROVE  /\ ~Holds(t, k, o) /\ ~Waits(t, k, o) /\ ~Waits(t, k, o)'
               /\ Holds(t, k, o)' <=> k = l /\ o = op[t]
    BY <1>1, <1>2 DEF Holds, Waits
  <2>2. ASSUME NEW k, NEW o
        PROVE  /\ H(k, o)' = IF k = l /\ o = op[t] THEN H(k, o) + 1 ELSE H(k, o)
               /\ W(k, o)' = W(k, o)
    BY <1>2, <2>1, Recount
  <2> QED
    BY <2>2
<1>5. H(l, "write") = 0 /\ (op[t] = "read" \/ H(l, "read") = 0)
  <2>1. H(l, "write") \in Nat
    BY Finite
  <2>2. H(l, "write") # 1
    BY <1>1, <1>3 DEF CountsAt, LockedWrite, Unlocked, Swaps
  <2>3. op[t] = "read" \/ H(l, "read") = 0
    BY <1>1, <1>3 DEF CountsAt, Unlocked, Swaps
  <2>4. H(l, "write") > 0 => \E x \in Threads : pc[x] = "held" /\ lock[x] = l /\ op[x] = "write"
    <3>1. H(l, "write") > 0 => HoldersOf(l, "write") # {}
      BY Finite
    <3> QED
      BY <3>1 DEF HoldersOf
  <2> QED
    BY <1>1, <2>1, <2>2, <2>3, <2>4, HoldersCounted
<1>6. dptr'[l] = w /\ \A k \in Locks \ {l} : dptr'[k] = dptr[k]
  BY <1>1 DEF Swaps, IInv, TypeOK
<1>7. CountsAt(l)' /\ w.state \in {"read", "write"} /\ w.private = NoPrivate
      /\ w \in Words
  <2> DEFINE n == H(l, "read")
             n1 == H(l, "read")'
             m1 == H(l, "write")'
  <2>1. /\ n1 \in Nat /\ n1 <= Cardinality(Threads)
        /\ op[t] = "read" => n1 = n + 1 /\ m1 = 0
        /\ op[t] = "write" => n1 = n /\ m1 = 1
    BY <1>4, <1>5, FiniteThen
  <2>2. v.readers = n /\ n \in Nat
    BY <1>1, <1>3, Finite DEF CountsAt
  <2>3. op[t] = "read" => w = LockedRead(n + 1)
    BY <1>1, <2>2, WordForms DEF IInv, Swaps, Swapped, Unlocked
  <2>4. op[t] = "write" => w = LockedWrite /\ n = 0
    BY <1>1, <2>2 DEF Swaps, Swapped, Unlocked
  <2> HIDE DEF v, w, n, n1, m1
  <2>5. w.state \in {"read", "write"} /\ w.private = NoPrivate /\ w \in Words
    BY <1>1, <2>1, <2>2, <2>3, <2>4 DEF LockedRead, LockedWrite, Words, Ops
  <2>6. w.readers = n1
    BY <1>1, <2>1, <2>2, <2>3, <2>4 DEF LockedRead, LockedWrite, Words, Ops
  <2>7. (w = LockedWrite) = (m1 = 1)
    BY <1>1, <2>1, <2>2, <2>3, <2>4 DEF LockedRead, LockedWrite, Words, Ops
  <2>8. CountsAt(l)'
    BY <1>6, <2>5, <2>6, <2>7 DEF CountsAt, n1, m1
  <2> QED
    BY <2>5, <2>8
<1>8. CountsMatch'
  <2>1. ASSUME NEW k \in Locks, k # l PROVE CountsAt(k)'
    BY <1>4, <1>6, <2>1, CountsElsewhere DEF Swaps
  <2>2. \A k \in Locks : CountsAt(k)'
    BY <1>7, <2>1
  <2> QED
    BY <2>2, CountsThen
<1>9. TypeOK' /\ seen' \in [Threads -> Words \cup {Unlocked}]
  BY <1>1, <1>7 DEF IInv, TypeOK, Swaps, Succeed, Goto, Words, Labels, AllPatience
<1>10. PlacesFit'
  BY <1>1, <1>2 DEF IInv, PlacesFit, OnlyMoves
<1>11. WaitersPoint'
  BY <1>1, <1>2, <1>6 DEF IInv, WaitersPoint, PlacesFit, OnlyMoves, Pointer
<1>12. PreparedIsOwn'
  BY <1>1, <1>2, <1>6, <1>7, ReadWriteLockAssumption
     DEF IInv, PreparedIsOwn, PlacesFit, OnlyMoves, Swaps
<1>13. WritersExclude'
  BY <1>1, <1>2, <1>5, <1>9, NewHolderFits DEF TypeOK
<1>14. FreePrivatesAreClean'
  <2>1. \A p, o : Waiters(p, o)' = Waiters(p, o)
    BY <1>1, <1>2 DEF OnlyMoves, Waiters
  <2>2. \A k \in Locks : dptr[k].state = "private" => dptr[k].private # NoPrivate
    BY WordForms, ReadWriteLockAssumption DEF IInv
  <2> HIDE DEF v, w
  <2> QED
    BY <1>1, <1>6, <1>7, <2>1, <2>2 DEF IInv, FreePrivatesAreClean, Swaps
<1> QED
  BY <1>8, <1>9, <1>10, <1>11, <1>12, <1>13, <1>14 DEF IInv

LEMMA AttemptKeeps ==
  ASSUME IInv, NEW t \in Threads, Attempt(t)
  PROVE  IInv'
<1>0. PICK l \in Locks : l = lock[t]
  BY DEF IInv, PlacesFit, Attempt
<1> DEFINE v == dptr[l]
           swaps == v = Unlocked \/ (v.state = "read" /\ op[t] = "read")
<1>1. pc[t] = "attempt" /\ op[t] \in Ops
  BY DEF IInv, TypeOK, Attempt
<1>2. CASE Swaps(t)
  BY <1>2, SwapFits
<1>3. CASE Leave(t) /\ UNCHANGED <<dptr, priv, free>>
  <2>1. Unmoved(t) /\ pc'[t] = "idle"
    BY <1>1, <1>3 DEF Leave, Goto, IInv, TypeOK, Unmoved, OnlyMoves
  <2>2. WritersExclude' /\ CountsMatch' /\ FreePrivatesAreClean' /\ WaitersPoint' /\ PreparedIsOwn'
    BY <1>3, <2>1, SharedStays
  <2>3. TypeOK' /\ seen' \in [Threads -> Words \cup {Unlocked}]
    BY <1>3 DEF IInv, TypeOK, Leave, Goto, Labels, AllPatience, Ops
  <2>4. PlacesFit'
    BY <2>1 DEF IInv, PlacesFit, Unmoved, OnlyMoves
  <2> QED
    BY <2>2, <2>3, <2>4 DEF IInv
<1>4. CASE /\ v.state = "private"
           /\ d' = [d EXCEPT ![t] = v.private]
           /\ Goto(t, "enter")
           /\ UNCHANGED <<dptr, priv, free, op, lock, timeout, seen>>
  <2>1. Unmoved(t) /\ pc'[t] = "enter"
    BY <1>1, <1>4 DEF Goto, IInv, TypeOK, Unmoved, OnlyMoves
  <2>2. WritersExclude' /\ CountsMatch' /\ FreePrivatesAreClean' /\ WaitersPoint' /\ PreparedIsOwn'
    BY <1>4, <2>1, SharedStays
  <2>3. v.private \in Privates
    BY <1>4, WordForms DEF IInv
  <2>4. TypeOK' /\ seen' \in [Threads -> Words \cup {Unlocked}]
    BY <1>4, <2>3 DEF IInv, TypeOK, Goto, Labels
  <2>5. PlacesFit'
    BY <1>1, <1>4, <2>1, <2>3 DEF IInv, TypeOK, PlacesFit, Unmoved, OnlyMoves
  <2> QED
    BY <2>2, <2>4, <2>5 DEF IInv
<1>5. ASSUME NEW p \in free, ~swaps, v.state # "private",
             free' = free \ {p}, priv' = [priv EXCEPT ![p] = Prepared(v)],
             d' = [d EXCEPT ![t] = p], seen' = [seen EXCEPT ![t] = v],
             Goto(t, "install"), UNCHANGED <<dptr, op, lock, timeout>>
      PROVE  IInv'
  <2>1. Unmoved(t) /\ pc'[t] = "install" /\ d'[t] = p /\ seen'[t] = v
    BY <1>1, <1>5 DEF Goto, IInv, TypeOK, Unmoved, OnlyMoves
  <2>2. p \in Privates /\ v \in Words /\ v.readers \in Nat
    BY <1>5, WordForms DEF IInv, TypeOK, Words, LockedRead, LockedWrite
  <2>3. \A k, o : /\ HoldersOf(k, o)' = HoldersOf(k, o) /\ Waiters(k, o)' = Waiters(k, o)
                  /\ H(k, o)' = H(k, o) /\ W(k, o)' = W(k, o)
    BY <2>1, SameSets DEF H, W
  <2>4. \A k \in Locks : dptr[k].private # p
    BY <2>2, WordForms, ReadWriteLockAssumption DEF IInv, FreePrivatesAreClean
  <2>5. priv'[p] = Prepared(v) /\ \A x \in Privates \ {p} : priv'[x] = priv[x]
    BY <1>5, <2>2 DEF IInv, TypeOK
  <2>6. WritersExclude'
    BY <2>3 DEF IInv, WritersExclude, Holders
  <2>7. CountsMatch'
    <3>1. ASSUME NEW k \in Locks PROVE CountsAt(k)'
      BY <1>5, <2>3, <2>4, <2>5, WordForms, CountsElsewhere DEF IInv
    <3> QED
      BY <3>1, CountsThen
  <2>8. FreePrivatesAreClean'
    BY <1>5, <2>3, <2>4, <2>5 DEF IInv, FreePrivatesAreClean, TypeOK
  <2>9. WaitersPoint'
    BY <1>5, <2>1 DEF IInv, WaitersPoint, Unmoved, OnlyMoves
  <2>10. PreparedIsOwn'
    <3>1. \A x \in Threads \ {t} : pc'[x] = "install" => d[x] # p /\ d[x] \in Privates
      BY <2>1 DEF IInv, PreparedIsOwn, PlacesFit, Unmoved, OnlyMoves
    <3> QED
      BY <1>5, <2>1, <2>4, <2>5, <3>1 DEF IInv, PreparedIsOwn, Unmoved, OnlyMoves
  <2>11. priv' \in [Privates -> [readers: Nat, writers: Nat, waitingReaders: Nat, waitingWriters: Nat]]
    BY <1>5, <2>2 DEF IInv, TypeOK, Prepared, Clean
  <2>12. TypeOK' /\ seen' \in [Threads -> Words \cup {Unlocked}]
    BY <1>5, <2>2, <2>11 DEF IInv, TypeOK, Goto, Labels
  <2>13. PlacesFit'
    BY <1>1, <1>5, <2>1, <2>2 DEF IInv, PlacesFit, Unmoved, OnlyMoves
  <2> QED
    BY <2>6, <2>7, <2>8, <2>9, <2>10, <2>12, <2>13 DEF IInv
<1> QED
  BY <1>0, <1>1, <1>2, <1>3, <1>4, <1>5 DEF Attempt, Swaps

LEMMA InstallKeeps ==
  ASSUME IInv, NEW t \in Threads, Install(t)
  PROVE  IInv'
<1>0. PICK l \in Locks, p \in Privates : l = lock[t] /\ p = d[t]
  BY DEF IInv, PlacesFit, Install
<1>1. /\ pc[t] = "install" /\ seen[t] \in Words /\ p \notin free
      /\ priv[p] = Prepared(seen[t])
      /\ \A k \in Locks : dptr[k].private # p
      /\ \A x \in Threads \ {t} : pc[x] = "install" => d[x] # p
  BY <1>0 DEF IInv, PlacesFit, PreparedIsOwn, Install
<1>2. Unmoved(t) /\ pc'[t] \in {"enter", "attempt"} /\ lock' = lock
  BY <1>1 DEF Install, Goto, IInv, TypeOK, Unmoved, OnlyMoves
<1>3. \A k, o : /\ HoldersOf(k, o)' = HoldersOf(k, o) /\ Waiters(k, o)' = Waiters(k, o)
                /\ H(k, o)' = H(k, o) /\ W(k, o)' = W(k, o)
  BY <1>2, SameSets DEF H, W
<1>4. \A o : Waiters(p, o) = {} /\ W(p, o) = 0
  BY <1>1, NoWaiters
<1>5. WritersExclude'
  BY <1>3 DEF IInv, WritersExclude, Holders
<1>6. seen' \in [Threads -> Words \cup {Unlocked}]
  BY DEF IInv, Install
<1>7. CASE dptr[l] = seen[t]
  <2>1. /\ dptr' = [dptr EXCEPT ![l] = Pointer(p)] /\ pc'[t] = "enter"
        /\ UNCHANGED <<priv, free, d>>
    BY <1>0, <1>7 DEF Install, Goto, IInv, TypeOK
  <2>2. dptr'[l] = Pointer(p) /\ \A k \in Locks \ {l} : dptr'[k] = dptr[k]
    BY <2>1 DEF IInv, TypeOK
  <2>3. CountsAt(l)'
    <3>1. priv[p] = [readers |-> dptr[l].readers,
                     writers |-> IF dptr[l] = LockedWrite THEN 1 ELSE 0,
                     waitingReaders |-> 0, waitingWriters |-> 0]
      BY <1>1, <1>7 DEF Prepared, Clean
    <3>2. dptr[l].state # "private" /\ CountsAt(l)
      BY <1>1, <1>7, CountsNow DEF IInv, Words, LockedRead, LockedWrite
    <3>3. priv[p] = [readers |-> H(l, "read"), writers |-> H(l, "write"),
                     waitingReaders |-> 0, waitingWriters |-> 0]
      BY <3>1, <3>2, OneWriter DEF CountsAt
    <3> QED
      BY <1>3, <1>4, <2>1, <2>2, <3>3 DEF CountsAt, Pointer
  <2>4. CountsMatch'
    <3>1. ASSUME NEW k \in Locks, k # l PROVE CountsAt(k)'
      BY <1>3, <2>1, <2>2, <3>1, CountsElsewhere
    <3>2. \A k \in Locks : CountsAt(k)'
      BY <2>3, <3>1
    <3> QED
      BY <3>2, CountsThen
  <2>5. FreePrivatesAreClean'
    BY <1>1, <1>3, <2>1, <2>2 DEF IInv, FreePrivatesAreClean, Pointer
  <2>6. WaitersPoint'
    <3>1. \A x \in Threads : pc'[x] \in {"asleep", "awake"} =>
            x # t /\ pc[x] \in {"asleep", "awake"} /\ lock[x] \in Locks
      BY <2>1, <1>2 DEF Unmoved, OnlyMoves, IInv, PlacesFit
    <3>2. \A x \in Threads : pc[x] \in {"asleep", "awake"} => lock[x] # l
      BY <1>1, <1>7, WaiterPlace DEF Words, LockedRead, LockedWrite
    <3> QED
      BY <1>2, <2>1, <2>2, <3>1, <3>2 DEF IInv, WaitersPoint
  <2>7. PreparedIsOwn'
    BY <1>1, <1>2, <2>1, <2>2 DEF IInv, PreparedIsOwn, Unmoved, OnlyMoves, Pointer
  <2>8. TypeOK'
    BY <2>1 DEF IInv, TypeOK, Goto, Labels, Install
  <2>9. PlacesFit'
    BY <1>0, <1>2, <2>1 DEF IInv, PlacesFit, Unmoved, OnlyMoves
  <2> QED
    BY <1>5, <1>6, <2>4, <2>5, <2>6, <2>7, <2>8, <2>9 DEF IInv
<1>8. CASE dptr[l] # seen[t]
  <2>1. /\ priv' = [priv EXCEPT ![p] = Clean] /\ free' = free \cup {p}
        /\ d' = [d EXCEPT ![t] = NoPrivate] /\ pc'[t] = "attempt" /\ UNCHANGED dptr
    BY <1>0, <1>8 DEF Install, Goto, IInv, TypeOK
  <2>2. priv'[p] = Clean /\ \A x \in Privates \ {p} : priv'[x] = priv[x]
    BY <2>1 DEF IInv, TypeOK
  <2>3. CountsMatch'
    <3>1. ASSUME NEW k \in Locks PROVE CountsAt(k)'
      BY <1>1, <1>3, <2>1, <2>2, WordForms, CountsElsewhere DEF IInv
    <3> QED
      BY <3>1, CountsThen
  <2>4. FreePrivatesAreClean'
    BY <1>1, <1>3, <1>4, <2>1, <2>2 DEF IInv, FreePrivatesAreClean, TypeOK
  <2>5. WaitersPoint'
    BY <1>2, <2>1 DEF IInv, WaitersPoint, Unmoved, OnlyMoves
  <2>6. PreparedIsOwn'
    <3>1. \A x \in Threads \ {t} : pc'[x] = "install" => d[x] # p /\ d[x] \in Privates
      BY <1>1, <1>2 DEF IInv, PlacesFit, Unmoved, OnlyMoves
    <3> QED
      BY <1>2, <2>1, <2>2, <3>1 DEF IInv, PreparedIsOwn, Unmoved, OnlyMoves
  <2>7. TypeOK'
    <3>1. priv' \in [Privates -> [readers: Nat, writers: Nat, waitingReaders: Nat, waitingWriters: Nat]]
      BY <2>1 DEF IInv, TypeOK, Clean
    <3>2. pc' \in [Threads -> Labels] /\ d' \in [Threads -> Privates \cup {NoPrivate}]
      BY <2>1 DEF IInv, TypeOK, Goto, Labels, Install
    <3> QED
      BY <2>1, <3>1, <3>2 DEF IInv, TypeOK, Install
  <2>8. PlacesFit'
    BY <1>0, <1>2, <2>1 DEF IInv, PlacesFit, Unmoved, OnlyMoves
  <2> QED
    BY <1>5, <1>6, <2>3, <2>4, <2>5, <2>6, <2>7, <2>8 DEF IInv
<1> QED
  BY <1>7, <1>8

(* The waiters that stay, whatever t does with the private.                *)
Rest(t, p, o) == IF Waits(t, p, o) THEN W(p, o) - 1 ELSE W(p, o)

(* A thread that works on the private p of its lock l, of which it sees    *)
(* the counts without itself.                                              *)
AtPrivate(t, l, p, q) ==
    /\ t \in Threads /\ l \in Locks /\ p \in Privates
    /\ l = lock[t] /\ p = d[t] /\ dptr[l] = Pointer(p) /\ pc[t] \in {"enter", "awake"}
    /\ q = [readers |-> H(l, "read"), writers |-> H(l, "write"),
            waitingReaders |-> Rest(t, p, "read"), waitingWriters |-> Rest(t, p, "write")]

LEMMA RestIsNat ==
  ASSUME NEW t \in Threads, NEW p, NEW o
  PROVE  Rest(t, p, o) \in Nat
<1>1. Waits(t, p, o) => Waiters(p, o) # {}
  BY DEF Waits, Waiters
<1>2. W(p, o) \in Nat /\ (W(p, o) = 0 <=> Waiters(p, o) = {})
  BY Finite
<1> QED
  BY <1>1, <1>2 DEF Rest

LEMMA PrivateShared ==
  ASSUME IInv, NEW l \in Locks, NEW p \in Privates, dptr[l] = Pointer(p)
  PROVE  /\ p \notin free
         /\ \A k \in Locks \ {l} : dptr[k].private # p
         /\ \A x \in Threads : pc[x] = "install" => d[x] # p /\ d[x] \in Privates
<1>1. dptr[l].state = "private" /\ dptr[l].private = p
  BY DEF Pointer
<1>2. p \notin free /\ \A k \in Locks \ {l} : dptr[k].private # p
  BY <1>1 DEF IInv, FreePrivatesAreClean
<1>3. \A x \in Threads : pc[x] = "install" => d[x] # p /\ d[x] \in Privates
  BY <1>1 DEF IInv, PreparedIsOwn, PlacesFit
<1> QED
  BY <1>2, <1>3

(* What a step on an installed private leaves alone.                       *)
LEMMA PrivateStep ==
  ASSUME IInv, NEW t \in Threads, NEW l \in Locks, NEW p \in Privates, NEW c,
         dptr[l] = Pointer(p), OnlyMoves(t), UNCHANGED <<dptr, free, seen>>,
         priv' = [priv EXCEPT ![p] = c],
         pc[t] # "install" /\ pc'[t] # "install",
         pc'[t] \in {"asleep", "awake"} => lock'[t] = l /\ d'[t] = p,
         pc[t] \in {"asleep", "awake"} => lock[t] = l /\ d[t] = p
  PROVE  WaitersPoint' /\ PreparedIsOwn' /\ FreePrivatesAreClean'
<1>1. priv'[p] = c /\ \A x \in Privates \ {p} : priv'[x] = priv[x]
  BY DEF IInv, TypeOK
<1>2. WaitersPoint'
  BY DEF IInv, WaitersPoint, OnlyMoves
<1>3. PreparedIsOwn'
  BY <1>1, PrivateShared DEF IInv, PreparedIsOwn, OnlyMoves
<1>4. \A o, x : x # p => Waiters(x, o)' = Waiters(x, o)
  BY DEF Waiters, OnlyMoves
<1>5. FreePrivatesAreClean'
  BY <1>1, <1>4, PrivateShared DEF IInv, FreePrivatesAreClean, TypeOK
<1> QED
  BY <1>2, <1>3, <1>5

(* The counters of a private p that stands for who holds l.                *)
Recorded(l, p) == [readers |-> H(l, "read"), writers |-> H(l, "write"),
                   waitingReaders |-> W(p, "read"), waitingWriters |-> W(p, "write")]

LEMMA PrivateRecorded ==
  ASSUME IInv, NEW l \in Locks, NEW p \in Privates, dptr[l] = Pointer(p)
  PROVE  priv[p] = Recorded(l, p)
<1>1. CountsAt(l) /\ dptr[l].state = "private" /\ dptr[l].private = p
  BY CountsNow DEF IInv, Pointer
<1> QED
  BY <1>1 DEF CountsAt, Recorded

LEMMA CountsAtPrivate ==
  ASSUME IInv, NEW l \in Locks, NEW p \in Privates, dptr[l] = Pointer(p),
         UNCHANGED dptr, priv' = [priv EXCEPT ![p] = Recorded(l, p)'],
         \A k, o : k # l => H(k, o)' = H(k, o),
         \A k, o : k # p => W(k, o)' = W(k, o)
  PROVE  CountsMatch'
<1>1. /\ priv'[p] = Recorded(l, p)'
      /\ \A x \in Privates \ {p} : priv'[x] = priv[x]
  BY DEF IInv, TypeOK
<1>2. CountsAt(l)'
  BY <1>1 DEF CountsAt, Pointer, Recorded
<1>3. ASSUME NEW k \in Locks, k # l PROVE CountsAt(k)'
  BY <1>1, <1>3, PrivateShared, WordForms, CountsElsewhere DEF IInv
<1>4. \A k \in Locks : CountsAt(k)'
  BY <1>2, <1>3
<1> QED
  BY <1>4, CountsThen

LEMMA TakeKeeps ==
  ASSUME IInv, NEW t, NEW l, NEW p, NEW q, AtPrivate(t, l, p, q),
         ~Blocked(q, op[t]), Succeed(t), UNCHANGED <<dptr, free>>,
         priv' = [priv EXCEPT ![p] = IF op[t] = "read" THEN [q EXCEPT !.readers = @ + 1]
                                                       ELSE [q EXCEPT !.writers = 1]]
  PROVE  IInv'
<1>1. t \in Threads /\ l \in Locks /\ p \in Privates /\ op[t] \in Ops
      /\ lock[t] = l /\ d[t] = p /\ pc[t] \in {"enter", "awake"} /\ dptr[l] = Pointer(p)
  BY DEF AtPrivate, IInv, TypeOK
<1>2. OnlyMoves(t) /\ pc'[t] = "held" /\ lock'[t] = l /\ op'[t] = op[t] /\ UNCHANGED seen
  BY <1>1 DEF Succeed, Goto, OnlyMoves, IInv, TypeOK
<1>3. \A k, o : /\ H(k, o)' = IF k = l /\ o = op[t] THEN H(k, o) + 1 ELSE H(k, o)
                /\ W(k, o)' = Rest(t, k, o)
  <2>1. ASSUME NEW k, NEW o
        PROVE  /\ ~Holds(t, k, o) /\ ~Waits(t, k, o)'
               /\ Holds(t, k, o)' <=> k = l /\ o = op[t]
    BY <1>1, <1>2 DEF Holds, Waits
  <2>2. ASSUME NEW k, NEW o
        PROVE  /\ H(k, o)' = IF k = l /\ o = op[t] THEN H(k, o) + 1 ELSE H(k, o)
               /\ W(k, o)' = Rest(t, k, o)
    BY <1>1, <1>2, <2>1, Recount DEF Rest
  <2> QED
    BY <2>2
<1>4. q.writers = H(l, "write") /\ q.readers = H(l, "read") /\ q.waitingWriters = Rest(t, p, "write")
      /\ q.waitingReaders = Rest(t, p, "read")
  BY DEF AtPrivate
<1>5. H(l, "write") = 0 /\ (op[t] = "read" \/ H(l, "read") = 0)
  BY <1>1, <1>4, Finite, RestIsNat DEF Blocked
<1>6. WaitersPoint' /\ PreparedIsOwn' /\ FreePrivatesAreClean'
  BY <1>1, <1>2, PrivateStep
<1>7. priv' = [priv EXCEPT ![p] = Recorded(l, p)']
  <2> DEFINE r == H(l, "read")
             w == H(l, "write")
             r1 == H(l, "read")'
             w1 == H(l, "write")'
  <2>1. /\ op[t] = "read" => r1 = r + 1 /\ w1 = w
        /\ op[t] = "write" => r1 = r /\ w1 = 1
    BY <1>3, <1>5
  <2>2. W(p, "read")' = Rest(t, p, "read") /\ W(p, "write")' = Rest(t, p, "write")
    BY <1>3
  <2>3. q = [readers |-> r, writers |-> w,
             waitingReaders |-> W(p, "read")', waitingWriters |-> W(p, "write")']
    BY <2>2 DEF AtPrivate
  <2> HIDE DEF r, w, r1, w1
  <2>4. (IF op[t] = "read" THEN [q EXCEPT !.readers = @ + 1] ELSE [q EXCEPT !.writers = 1])
          = [readers |-> r1, writers |-> w1,
             waitingReaders |-> W(p, "read")', waitingWriters |-> W(p, "write")']
    BY <1>1, <2>1, <2>3 DEF Ops
  <2> QED
    BY <2>4 DEF r1, w1, Recorded
<1>8. \A k, o : k # p => W(k, o)' = W(k, o)
  BY <1>1, <1>3 DEF Rest, Waits
<1>9. CountsMatch'
  <2>1. \A k, o : k # l => H(k, o)' = H(k, o)
    BY <1>3
  <2>2. l \in Locks /\ p \in Privates /\ dptr[l] = Pointer(p) /\ UNCHANGED dptr
    BY <1>1
  <2> QED
    BY <1>7, <1>8, <2>1, <2>2, CountsAtPrivate
<1>10. \A o : H(l, o)' \in Nat /\ W(p, o)' \in Nat
  BY <1>1, <1>3, Finite, RestIsNat
<1>11. TypeOK'
  <2>1. priv' \in [Privates -> [readers: Nat, writers: Nat, waitingReaders: Nat, waitingWriters: Nat]]
    <3>1. Recorded(l, p)' \in [readers: Nat, writers: Nat, waitingReaders: Nat, waitingWriters: Nat]
      BY <1>10 DEF Recorded
    <3> QED
      BY <1>7, <3>1 DEF IInv, TypeOK
  <2>2. /\ pc' \in [Threads -> Labels] /\ timeout' \in [Threads -> AllPatience]
        /\ d' \in [Threads -> Privates \cup {NoPrivate}]
    BY DEF IInv, TypeOK, Succeed, Goto, Labels, AllPatience
  <2> QED
    BY <2>1, <2>2 DEF IInv, TypeOK, Succeed
<1>12. PlacesFit'
  BY <1>1, <1>2 DEF IInv, PlacesFit, OnlyMoves
<1>13. WritersExclude'
  BY <1>1, <1>2, <1>5, <1>11, NewHolderFits DEF TypeOK
<1> QED
  BY <1>2, <1>6, <1>9, <1>11, <1>12, <1>13 DEF IInv

LEMMA SleepKeeps ==
  ASSUME IInv, NEW t, NEW l, NEW p, NEW q, AtPrivate(t, l, p, q),
         Goto(t, "asleep"), UNCHANGED <<dptr, free, op, lock, timeout, seen, d>>,
         priv' = [priv EXCEPT ![p] = IF op[t] = "read" THEN [q EXCEPT !.waitingReaders = @ + 1]
                                                       ELSE [q EXCEPT !.waitingWriters = @ + 1]]
  PROVE  IInv'
<1>1. t \in Threads /\ l \in Locks /\ p \in Privates /\ op[t] \in Ops
      /\ lock[t] = l /\ d[t] = p /\ pc[t] \in {"enter", "awake"} /\ dptr[l] = Pointer(p)
  BY DEF AtPrivate, IInv, TypeOK
<1>2. OnlyMoves(t) /\ pc'[t] = "asleep"
  BY <1>1 DEF Goto, OnlyMoves, IInv, TypeOK
<1>3. \A k, o : /\ H(k, o)' = H(k, o)
                /\ W(k, o)' = IF k = p /\ o = op[t] THEN Rest(t, k, o) + 1 ELSE Rest(t, k, o)
  <2>1. ASSUME NEW k, NEW o
        PROVE  /\ ~Holds(t, k, o) /\ ~Holds(t, k, o)'
               /\ Waits(t, k, o)' <=> k = p /\ o = op[t]
               /\ Waits(t, k, o) => k = p /\ o = op[t]
    BY <1>1, <1>2 DEF Holds, Waits
  <2>2. ASSUME NEW k, NEW o
        PROVE  /\ H(k, o)' = H(k, o)
               /\ W(k, o)' = IF k = p /\ o = op[t] THEN Rest(t, k, o) + 1 ELSE Rest(t, k, o)
    BY <1>1, <1>2, <2>1, Recount, Finite DEF Rest
  <2> QED
    BY <2>2
<1>4. WaitersPoint' /\ PreparedIsOwn' /\ FreePrivatesAreClean'
  BY <1>1, <1>2, PrivateStep
<1>5. priv' = [priv EXCEPT ![p] = Recorded(l, p)']
  <2>1. /\ W(p, "read")' = IF op[t] = "read" THEN Rest(t, p, "read") + 1 ELSE Rest(t, p, "read")
        /\ W(p, "write")' = IF op[t] = "write" THEN Rest(t, p, "write") + 1 ELSE Rest(t, p, "write")
        /\ H(l, "read")' = H(l, "read") /\ H(l, "write")' = H(l, "write")
    BY <1>3
  <2>2. (IF op[t] = "read" THEN [q EXCEPT !.waitingReaders = @ + 1]
                           ELSE [q EXCEPT !.waitingWriters = @ + 1]) = Recorded(l, p)'
    BY <1>1, <2>1 DEF AtPrivate, Recorded, Ops
  <2> QED
    BY <2>2
<1>6. \A k, o : k # p => W(k, o)' = W(k, o)
  BY <1>1, <1>3 DEF Rest, Waits
<1>7. CountsMatch'
  <2>1. \A k, o : k # l => H(k, o)' = H(k, o)
    BY <1>3
  <2>2. l \in Locks /\ p \in Privates /\ dptr[l] = Pointer(p) /\ UNCHANGED dptr
    BY <1>1
  <2> QED
    BY <1>5, <1>6, <2>1, <2>2, CountsAtPrivate
<1>8. \A o : H(l, o)' \in Nat /\ W(p, o)' \in Nat
  BY <1>1, <1>3, Finite, RestIsNat
<1>9. TypeOK'
  BY <1>1, <1>5, <1>8 DEF Recorded, IInv, TypeOK, Goto, Labels
<1>10. PlacesFit'
  BY <1>1, <1>2 DEF IInv, PlacesFit, OnlyMoves
<1>11. WritersExclude'
  BY <1>1, <1>2, <1>9, NewHolderFits DEF TypeOK
<1> QED
  BY <1>4, <1>7, <1>9, <1>10, <1>11 DEF IInv

LEMMA GiveUpKeeps ==
  ASSUME IInv, NEW t, NEW l, NEW p, NEW q, AtPrivate(t, l, p, q), UNCHANGED <<dptr, free, seen>>,
         priv' = [priv EXCEPT ![p] = q],
         pc' = [x \in Threads |-> IF x = t THEN "idle"
                                  ELSE IF x \in LetGo(t, q) THEN "awake" ELSE pc[x]],
         timeout' = [timeout EXCEPT ![t] = "forever"],
         d' = [d EXCEPT ![t] = NoPrivate],
         op' = [op EXCEPT ![t] = "read"],
         lock' = [lock EXCEPT ![t] = NoLock]
  PROVE  IInv'
<1>1. t \in Threads /\ l \in Locks /\ p \in Privates /\ op[t] \in Ops
      /\ lock[t] = l /\ d[t] = p /\ pc[t] \in {"enter", "awake"} /\ dptr[l] = Pointer(p)
  BY DEF AtPrivate, IInv, TypeOK
<1>2. OnlyMoves(t) /\ pc'[t] = "idle"
  BY <1>1 DEF LetGo, Asleep, OnlyMoves, IInv, TypeOK
<1>3. \A k, o : H(k, o)' = H(k, o) /\ W(k, o)' = Rest(t, k, o)
  <2>1. ASSUME NEW k, NEW o
        PROVE  ~Holds(t, k, o) /\ ~Holds(t, k, o)' /\ ~Waits(t, k, o)'
    BY <1>1, <1>2 DEF Holds, Waits
  <2>2. ASSUME NEW k, NEW o
        PROVE  H(k, o)' = H(k, o) /\ W(k, o)' = Rest(t, k, o)
    BY <1>1, <1>2, <2>1, Recount DEF Rest
  <2> QED
    BY <2>2
<1>4. WaitersPoint' /\ PreparedIsOwn' /\ FreePrivatesAreClean'
  BY <1>1, <1>2, PrivateStep
<1>5. priv' = [priv EXCEPT ![p] = Recorded(l, p)']
  <2>1. /\ W(p, "read")' = Rest(t, p, "read") /\ W(p, "write")' = Rest(t, p, "write")
        /\ H(l, "read")' = H(l, "read") /\ H(l, "write")' = H(l, "write")
    BY <1>3
  <2>2. q = Recorded(l, p)'
    BY <2>1 DEF AtPrivate, Recorded
  <2> QED
    BY <2>2
<1>6. \A k, o : k # p => W(k, o)' = W(k, o)
  BY <1>1, <1>3 DEF Rest, Waits
<1>7. CountsMatch'
  <2>1. \A k, o : k # l => H(k, o)' = H(k, o)
    BY <1>3
  <2>2. l \in Locks /\ p \in Privates /\ dptr[l] = Pointer(p) /\ UNCHANGED dptr
    BY <1>1
  <2> QED
    BY <1>5, <1>6, <2>1, <2>2, CountsAtPrivate
<1>8. \A o : H(l, o)' \in Nat /\ W(p, o)' \in Nat
  BY <1>1, <1>3, Finite, RestIsNat
<1>9. TypeOK'
  BY <1>1, <1>5, <1>8 DEF Recorded, IInv, TypeOK, Labels, Ops, AllPatience
<1>10. PlacesFit'
  BY <1>1, <1>2 DEF IInv, PlacesFit, OnlyMoves
<1>11. WritersExclude'
  <2>1. Alone'
    BY <1>2, AloneNow DEF IInv, TypeOK, Alone, OnlyMoves
  <2> QED
    BY <2>1, <1>9, AloneThen DEF TypeOK
<1> QED
  BY <1>4, <1>7, <1>9, <1>10, <1>11 DEF IInv

LEMMA LockPrivateKeeps ==
  ASSUME IInv, NEW t, NEW l, NEW p, NEW q, AtPrivate(t, l, p, q), LockPrivate(t, q),
         UNCHANGED <<dptr, free>>
  PROVE  IInv'
<1>1. p = d[t]
  BY DEF AtPrivate
<1>2. CASE ~Blocked(q, op[t]) /\ Succeed(t)
  BY <1>1, <1>2, TakeKeeps DEF LockPrivate
<1>3. CASE Blocked(q, op[t]) /\ timeout[t] = "expired"
  BY <1>1, <1>3, GiveUpKeeps DEF LockPrivate
<1>4. CASE Blocked(q, op[t]) /\ timeout[t] # "expired"
  BY <1>1, <1>4, SleepKeeps DEF LockPrivate
<1> QED
  BY <1>2, <1>3, <1>4 DEF LockPrivate

LEMMA AtEnter ==
  ASSUME IInv, NEW t \in Threads, pc[t] = "enter", dptr[lock[t]] = Pointer(d[t]),
         NEW l, NEW p, l = lock[t], p = d[t]
  PROVE  AtPrivate(t, l, p, priv[p])
<1>1. l \in Locks /\ p \in Privates
  BY DEF IInv, PlacesFit
<1>2. priv[p] = Recorded(l, p)
  BY <1>1, PrivateRecorded
<1>3. \A o : Rest(t, p, o) = W(p, o)
  BY DEF Rest, Waits
<1> QED
  BY <1>1, <1>2, <1>3 DEF AtPrivate, Recorded

LEMMA AtResume ==
  ASSUME IInv, NEW t \in Threads, pc[t] = "awake", NEW l, NEW p, l = lock[t], p = d[t]
  PROVE  AtPrivate(t, l, p, IF op[t] = "read" THEN [priv[p] EXCEPT !.waitingReaders = @ - 1]
                                              ELSE [priv[p] EXCEPT !.waitingWriters = @ - 1])
<1>1. l \in Locks /\ p \in Privates /\ dptr[l] = Pointer(p) /\ op[t] \in Ops
  BY DEF IInv, PlacesFit, WaitersPoint, TypeOK
<1>2. priv[p] = Recorded(l, p)
  BY <1>1, PrivateRecorded
<1>3. \A o : Rest(t, p, o) = IF o = op[t] THEN W(p, o) - 1 ELSE W(p, o)
  BY DEF Rest, Waits
<1>4. /\ Rest(t, p, "read") = IF op[t] = "read" THEN W(p, "read") - 1 ELSE W(p, "read")
      /\ Rest(t, p, "write") = IF op[t] = "write" THEN W(p, "write") - 1 ELSE W(p, "write")
  BY <1>3
<1> QED
  BY <1>1, <1>2, <1>4 DEF AtPrivate, Recorded, Ops

LEMMA EnterKeeps ==
  ASSUME IInv, NEW t \in Threads, Enter(t)
  PROVE  IInv'
<1>1. CASE dptr[lock[t]] = Pointer(d[t])
  BY <1>1, AtEnter, LockPrivateKeeps DEF Enter
<1>2. CASE dptr[lock[t]] # Pointer(d[t])
  <2>1. /\ d' = [d EXCEPT ![t] = NoPrivate] /\ Goto(t, "attempt") /\ pc[t] = "enter"
        /\ UNCHANGED <<dptr, free, priv, op, lock, timeout, seen>>
    BY <1>2 DEF Enter
  <2>2. Unmoved(t) /\ pc'[t] = "attempt"
    BY <2>1 DEF Goto, IInv, TypeOK, Unmoved, OnlyMoves
  <2>3. WritersExclude' /\ CountsMatch' /\ FreePrivatesAreClean' /\ WaitersPoint' /\ PreparedIsOwn'
    BY <2>1, <2>2, SharedStays
  <2>4. TypeOK' /\ seen' \in [Threads -> Words \cup {Unlocked}]
    BY <2>1 DEF IInv, TypeOK, Goto, Labels
  <2>5. PlacesFit'
    BY <2>1, <2>2 DEF IInv, PlacesFit, Unmoved, OnlyMoves
  <2> QED
    BY <2>3, <2>4, <2>5 DEF IInv
<1> QED
  BY <1>1, <1>2

LEMMA ResumeKeeps ==
  ASSUME IInv, NEW t \in Threads, Resume(t)
  PROVE  IInv'
  BY AtResume, LockPrivateKeeps DEF Resume

LEMMA UnlockUncontendedKeeps ==
  ASSUME IInv, NEW t \in Threads, UnlockUncontended(t)
  PROVE  IInv'
<1>0. PICK l \in Locks : l = lock[t]
  BY DEF IInv, PlacesFit, UnlockUncontended
<1> DEFINE v == dptr[l]
           w == IF v.readers > 1 THEN LockedRead(v.readers - 1) ELSE Unlocked
           n == H(l, "read")
           m == H(l, "write")
           n1 == H(l, "read")'
           m1 == H(l, "write")'
<1>1. /\ pc[t] = "held" /\ op[t] \in Ops /\ v.state # "private"
      /\ dptr' = [dptr EXCEPT ![l] = w] /\ UNCHANGED <<priv, free, seen>>
  BY <1>0 DEF IInv, TypeOK, UnlockUncontended, Leave
<1>2. OnlyMoves(t) /\ pc'[t] = "idle"
  BY DEF UnlockUncontended, Leave, Goto, OnlyMoves, IInv, TypeOK
<1>3. dptr'[l] = w /\ \A k \in Locks \ {l} : dptr'[k] = dptr[k]
  BY <1>1 DEF IInv, TypeOK
<1>4. \A k, o : /\ H(k, o)' = IF k = l /\ o = op[t] THEN H(k, o) - 1 ELSE H(k, o)
                /\ Waiters(k, o)' = Waiters(k, o)
  <2>1. ASSUME NEW k, NEW o
        PROVE  ~Holds(t, k, o)' /\ (Holds(t, k, o) <=> k = l /\ o = op[t])
    BY <1>0, <1>1, <1>2 DEF Holds
  <2>2. ASSUME NEW k, NEW o
        PROVE  H(k, o)' = IF k = l /\ o = op[t] THEN H(k, o) - 1 ELSE H(k, o)
    BY <1>2, <2>1, Recount
  <2>3. \A k, o : Waiters(k, o)' = Waiters(k, o)
    BY <1>1, <1>2 DEF Waiters, OnlyMoves
  <2> QED
    BY <2>2, <2>3
<1>5. \A k, o : W(k, o)' = W(k, o)
  BY <1>4 DEF W
<1>6. /\ n \in Nat /\ m \in Nat /\ n <= Cardinality(Threads)
      /\ op[t] = "read" => n > 0 /\ m = 0 /\ n1 = n - 1 /\ m1 = 0
      /\ op[t] = "write" => n = 0 /\ m = 1 /\ n1 = 0 /\ m1 = 0
      /\ v.readers = n /\ (v = LockedWrite <=> m = 1)
  <2>1. n \in Nat /\ m \in Nat /\ n <= Cardinality(Threads)
    BY Finite
  <2>2. v.readers = n /\ (v = LockedWrite <=> m = 1)
    BY <1>1, CountsNow DEF IInv, CountsAt
  <2>3. /\ op[t] = "read" => n > 0 /\ m = 0
        /\ op[t] = "write" => n = 0 /\ m = 1
    BY <1>0, <1>1, HoldersCounted
  <2>4. /\ n1 = IF op[t] = "read" THEN n - 1 ELSE n
        /\ m1 = IF op[t] = "write" THEN m - 1 ELSE m
    BY <1>4
  <2> QED
    BY <2>1, <2>2, <2>3, <2>4
<1>7. /\ w.state # "private" /\ w.private = NoPrivate /\ w \in Words \cup {Unlocked}
      /\ w.readers = n1 /\ m1 = 0 /\ w # LockedWrite
  <2> HIDE DEF n, m, n1, m1, v
  <2>1. n1 = 0 => w = Unlocked
    BY <1>1, <1>6 DEF Ops
  <2>2. n1 > 0 => w = LockedRead(n1) /\ n1 \in 1..Cardinality(Threads)
    <3>1. Cardinality(Threads) \in Nat
      BY FiniteThreads, FS_CardinalityType
    <3> QED
      BY <1>1, <1>6, <3>1 DEF Ops
  <2>3. n1 \in Nat /\ m1 = 0
    BY <1>1, <1>6 DEF Ops
  <2> HIDE DEF w
  <2> QED
    BY <2>1, <2>2, <2>3 DEF Words, Unlocked, LockedRead, LockedWrite
<1>8. CountsMatch'
  <2>1. CountsAt(l)'
    BY <1>3, <1>7 DEF CountsAt
  <2>2. ASSUME NEW k \in Locks, k # l PROVE CountsAt(k)'
    BY <1>1, <1>3, <1>4, <1>5, <2>2, CountsElsewhere
  <2>3. \A k \in Locks : CountsAt(k)'
    BY <2>1, <2>2
  <2> QED
    BY <2>3, CountsThen
<1> HIDE DEF v, w, n, m, n1, m1
<1>9. TypeOK'
  BY <1>1, <1>7 DEF IInv, TypeOK, UnlockUncontended, Leave, Goto, Labels, Ops, AllPatience, Words
<1>10. PlacesFit'
  BY <1>1, <1>2 DEF IInv, PlacesFit, OnlyMoves
<1>11. WaitersPoint'
  <2>1. \A x \in Threads : pc[x] \in {"asleep", "awake"} => lock[x] # l /\ lock[x] \in Locks
    BY <1>1, WaiterPlace DEF v
  <2> QED
    BY <1>1, <1>2, <1>3, <2>1 DEF IInv, WaitersPoint, OnlyMoves
<1>12. PreparedIsOwn'
  <2>1. \A x \in Threads : pc[x] = "install" => d[x] # NoPrivate
    BY ReadWriteLockAssumption DEF IInv, PlacesFit
  <2> QED
    BY <1>1, <1>2, <1>3, <1>7, <2>1 DEF IInv, PreparedIsOwn, OnlyMoves
<1>13. WritersExclude'
  <2>1. Alone'
    BY <1>2, AloneNow DEF IInv, TypeOK, Alone, OnlyMoves
  <2> QED
    BY <2>1, <1>9, AloneThen DEF TypeOK
<1>14. FreePrivatesAreClean'
  <2>1. \A k \in Locks : dptr[k].state = "private" => dptr[k].private # NoPrivate
    BY WordForms, ReadWriteLockAssumption DEF IInv
  <2> QED
    BY <1>1, <1>3, <1>4, <1>7, <2>1 DEF IInv, FreePrivatesAreClean
<1> QED
  BY <1>1, <1>8, <1>9, <1>10, <1>11, <1>12, <1>13, <1>14 DEF IInv

LEMMA UnlockContendedKeeps ==
  ASSUME IInv, NEW t \in Threads, UnlockContended(t)
  PROVE  IInv'
<1>0. PICK l \in Locks, p \in Privates : l = lock[t] /\ p = dptr[l].private /\ dptr[l] = Pointer(p)
  <2>1. lock[t] \in Locks /\ dptr[lock[t]].state = "private"
    BY DEF IInv, PlacesFit, UnlockContended
  <2> QED
    BY <2>1, WordForms DEF IInv
<1> DEFINE q == IF priv[p].writers > 0 THEN [priv[p] EXCEPT !.writers = 0]
                                       ELSE [priv[p] EXCEPT !.readers = @ - 1]
           waiters == q.waitingReaders + q.waitingWriters > 0
           n == H(l, "read")
           m == H(l, "write")
           n1 == H(l, "read")'
           m1 == H(l, "write")'
           wr == W(p, "read")
           ww == W(p, "write")
<1>1. /\ pc[t] = "held" /\ op[t] \in Ops
      /\ priv' = [priv EXCEPT ![p] = q]
      /\ IF q.readers = 0 /\ ~waiters
         THEN dptr' = [dptr EXCEPT ![l] = Unlocked] /\ free' = free \cup {p}
         ELSE UNCHANGED <<dptr, free>>
      /\ op' = [op EXCEPT ![t] = "read"]
      /\ lock' = [lock EXCEPT ![t] = NoLock]
      /\ UNCHANGED <<timeout, seen, d>>
  BY <1>0 DEF IInv, TypeOK, UnlockContended
<1>2. PICK s \in SUBSET Threads :
         /\ IF q.readers = 0 /\ waiters THEN Wakes(p, q, s) ELSE s = {}
         /\ pc' = [x \in Threads |-> IF x = t THEN "idle" ELSE IF x \in s THEN "awake" ELSE pc[x]]
  BY <1>0 DEF UnlockContended
<1>3. \A x \in s : pc[x] = "asleep"
  BY <1>2 DEF Wakes, Asleep
<1>4. OnlyMoves(t) /\ pc'[t] = "idle"
  BY <1>1, <1>2, <1>3 DEF OnlyMoves, IInv, TypeOK
<1>5. \A k, o : /\ H(k, o)' = IF k = l /\ o = op[t] THEN H(k, o) - 1 ELSE H(k, o)
                /\ Waiters(k, o)' = Waiters(k, o)
  <2>1. ASSUME NEW k, NEW o
        PROVE  ~Holds(t, k, o)' /\ (Holds(t, k, o) <=> k = l /\ o = op[t])
    BY <1>0, <1>1, <1>4 DEF Holds
  <2>2. ASSUME NEW k, NEW o
        PROVE  H(k, o)' = IF k = l /\ o = op[t] THEN H(k, o) - 1 ELSE H(k, o)
    BY <1>4, <2>1, Recount
  <2>3. \A k, o : Waiters(k, o)' = Waiters(k, o)
    BY <1>1, <1>4 DEF Waiters, OnlyMoves
  <2> QED
    BY <2>2, <2>3
<1>6. \A k, o : W(k, o)' = W(k, o)
  BY <1>5 DEF W
<1>7. priv[p] = [readers |-> n, writers |-> m, waitingReaders |-> wr, waitingWriters |-> ww]
  <2>1. priv[p] = Recorded(l, p)
    BY <1>0, PrivateRecorded
  <2> QED
    BY <2>1 DEF Recorded
<1>8. /\ n \in Nat /\ m \in Nat /\ wr \in Nat /\ ww \in Nat
      /\ op[t] = "read" => n > 0 /\ m = 0 /\ n1 = n - 1 /\ m1 = 0
      /\ op[t] = "write" => n = 0 /\ m = 1 /\ n1 = 0 /\ m1 = 0
  <2>1. n \in Nat /\ m \in Nat /\ wr \in Nat /\ ww \in Nat
    BY Finite
  <2>2. /\ op[t] = "read" => n > 0 /\ m = 0
        /\ op[t] = "write" => n = 0 /\ m = 1
    BY <1>0, <1>1, HoldersCounted
  <2>3. /\ n1 = IF op[t] = "read" THEN n - 1 ELSE n
        /\ m1 = IF op[t] = "write" THEN m - 1 ELSE m
    BY <1>5
  <2> QED
    BY <2>1, <2>2, <2>3
<1>9. q = [readers |-> n1, writers |-> 0, waitingReaders |-> wr, waitingWriters |-> ww]
      /\ n1 \in Nat /\ m1 = 0
  <2> HIDE DEF n, m, n1, m1, wr, ww
  <2> QED
    BY <1>1, <1>7, <1>8 DEF Ops
<1>10. priv'[p] = q /\ \A x \in Privates \ {p} : priv'[x] = priv[x]
  BY <1>1 DEF IInv, TypeOK
<1>11. WritersExclude'
  <2>1. Alone'
    BY <1>4, AloneNow DEF IInv, TypeOK, Alone, OnlyMoves
  <2>2. op' \in [Threads -> Ops]
    BY <1>1 DEF IInv, TypeOK, Ops
  <2> QED
    BY <2>1, <2>2, AloneThen
<1>12. PlacesFit'
  BY <1>1, <1>4 DEF IInv, PlacesFit, OnlyMoves
<1>13. /\ pc' \in [Threads -> Labels] /\ op' \in [Threads -> Ops]
       /\ lock' \in [Threads -> Locks \cup {NoLock}]
       /\ timeout' \in [Threads -> AllPatience]
       /\ d' \in [Threads -> Privates \cup {NoPrivate}]
       /\ seen' \in [Threads -> Words \cup {Unlocked}]
       /\ priv' \in [Privates -> [readers: Nat, writers: Nat,
                                  waitingReaders: Nat, waitingWriters: Nat]]
  <2> HIDE DEF q, n1, wr, ww
  <2>1. q \in [readers: Nat, writers: Nat, waitingReaders: Nat, waitingWriters: Nat]
    BY <1>8, <1>9
  <2> QED
    BY <1>1, <1>2, <2>1 DEF IInv, TypeOK, Labels, Ops
<1> HIDE DEF q
<1>14. CASE ~(q.readers = 0 /\ ~waiters)
  <2>1. UNCHANGED <<dptr, free>>
    BY <1>1, <1>14
  <2>2. WaitersPoint' /\ PreparedIsOwn' /\ FreePrivatesAreClean'
    BY <1>0, <1>1, <1>4, <2>1, PrivateStep
  <2>3. q = Recorded(l, p)'
    BY <1>6, <1>9 DEF Recorded
  <2>4. CountsMatch'
    <3>1. (\A k, o : k # l => H(k, o)' = H(k, o)) /\ (\A k, o : k # p => W(k, o)' = W(k, o))
      BY <1>5, <1>6
    <3> QED
      BY <1>0, <1>1, <2>1, <2>3, <3>1, CountsAtPrivate
  <2>5. TypeOK'
    BY <1>13, <2>1 DEF IInv, TypeOK
  <2> QED
    BY <1>11, <1>12, <1>13, <2>2, <2>4, <2>5 DEF IInv
<1>15. CASE q.readers = 0 /\ ~waiters
  <2>1. dptr' = [dptr EXCEPT ![l] = Unlocked] /\ free' = free \cup {p}
    BY <1>1, <1>15
  <2>2. dptr'[l] = Unlocked /\ \A k \in Locks \ {l} : dptr'[k] = dptr[k]
    BY <2>1 DEF IInv, TypeOK
  <2>3. n1 = 0 /\ wr = 0 /\ ww = 0 /\ q = Clean
    <3> HIDE DEF n1, wr, ww
    <3> QED
      BY <1>8, <1>9, <1>15 DEF Clean
  <2>4. \A o \in Ops : Waiters(p, o) = {}
    BY <2>3, Finite DEF Ops
  <2>5. \A k \in Locks \ {l} : dptr[k].private # p
    BY <1>0, PrivateShared
  <2>6. \A x \in Threads : pc[x] \in {"asleep", "awake"} => lock[x] # l /\ lock[x] \in Locks
    <3>1. ASSUME NEW x \in Threads, pc[x] \in {"asleep", "awake"}, lock[x] = l PROVE FALSE
      <4>1. d[x] = p /\ op[x] \in Ops
        BY <1>0, <3>1, WaiterPlace DEF IInv, TypeOK
      <4> QED
        BY <2>4, <3>1, <4>1 DEF Waiters
    <3> QED
      BY <3>1, WaiterPlace
  <2>7. WaitersPoint'
    BY <1>4, <2>2, <2>6 DEF IInv, WaitersPoint, OnlyMoves
  <2>8. PreparedIsOwn'
    <3>1. \A x \in Threads : pc[x] = "install" => d[x] # p /\ d[x] \in Privates
      BY <1>0, PrivateShared
    <3> QED
      BY <1>4, <1>10, <2>1, <2>2, <3>1, ReadWriteLockAssumption
         DEF IInv, PreparedIsOwn, OnlyMoves, Unlocked
  <2>9. FreePrivatesAreClean'
    <3>1. \A k \in Locks : dptr[k].state = "private" => dptr[k].private \in Privates
      BY WordForms DEF IInv
    <3>2. Unlocked.state # "private" /\ Unlocked.private \notin Privates
      BY ReadWriteLockAssumption DEF Unlocked
    <3> QED
      BY <1>5, <1>10, <2>1, <2>2, <2>3, <2>4, <2>5, <3>1, <3>2
         DEF IInv, FreePrivatesAreClean, TypeOK, Ops
  <2>10. CountsMatch'
    <3>1. CountsAt(l)'
      BY <1>9, <2>2, <2>3 DEF CountsAt, Unlocked, LockedWrite
    <3>2. ASSUME NEW k \in Locks, k # l PROVE CountsAt(k)'
      BY <1>5, <1>6, <1>10, <2>2, <2>5, <3>2, WordForms, CountsElsewhere DEF IInv
    <3>3. \A k \in Locks : CountsAt(k)'
      BY <3>1, <3>2
    <3> QED
      BY <3>3, CountsThen
  <2>11. TypeOK'
    BY <1>13, <2>1 DEF IInv, TypeOK
  <2> QED
    BY <1>11, <1>12, <1>13, <2>7, <2>8, <2>9, <2>10, <2>11 DEF IInv
<1> QED
  BY <1>14, <1>15

LEMMA InitIInv == Init => IInv
<1>1. SUFFICES ASSUME Init PROVE IInv
  OBVIOUS
<1>2. \A l, o : HoldersOf(l, o) = {} /\ Waiters(l, o) = {}
  BY <1>1 DEF Init, HoldersOf, Waiters
<1>3. WritersExclude
  BY <1>2 DEF WritersExclude
<1>4. CountsMatch
  <2>1. \A l, o : H(l, o) = 0
    BY <1>2, FS_EmptySet DEF H
  <2>2. \A l \in Locks : CountsAt(l)
    BY <1>1, <2>1 DEF Init, CountsAt, Unlocked, LockedWrite
  <2> QED
    BY <2>2, CountsNow
<1>5. FreePrivatesAreClean
  BY <1>1, <1>2 DEF Init, FreePrivatesAreClean, Unlocked
<1>6. TypeOK /\ seen \in [Threads -> Words \cup {Unlocked}]
  BY <1>1 DEF Init, TypeOK, Labels, Ops, AllPatience, Clean
<1> QED
  BY <1>1, <1>3, <1>4, <1>5, <1>6 DEF Init, IInv, PlacesFit, WaitersPoint, PreparedIsOwn

LEMMA StepIInv == IInv /\ [Next]_vars => IInv'
<1>1. SUFFICES ASSUME IInv, [Next]_vars PROVE IInv'
  OBVIOUS
<1>2. CASE UNCHANGED vars
  <2>1. \A l, o : HoldersOf(l, o)' = HoldersOf(l, o) /\ Waiters(l, o)' = Waiters(l, o)
    BY <1>2 DEF vars, HoldersOf, Waiters
  <2>2. WritersExclude' /\ CountsMatch' /\ FreePrivatesAreClean'
    BY <1>1, <1>2, <2>1 DEF vars, IInv, WritersExclude, CountsMatch, FreePrivatesAreClean, Holders
  <2>3. TypeOK' /\ seen' \in [Threads -> Words \cup {Unlocked}]
    BY <1>1, <1>2 DEF vars, IInv, TypeOK
  <2>4. PlacesFit' /\ WaitersPoint' /\ PreparedIsOwn'
    BY <1>1, <1>2 DEF vars, IInv, PlacesFit, WaitersPoint, PreparedIsOwn
  <2> QED
    BY <2>2, <2>3, <2>4 DEF IInv
<1>3. ASSUME NEW t \in Threads, Internal(t) PROVE IInv'
  BY <1>1, <1>3, AttemptKeeps, InstallKeeps, EnterKeeps, ResumeKeeps DEF Internal
<1> QED
  BY <1>1, <1>2, <1>3, CallKeeps, ExpireKeeps, WakesKeep, UnlockUncontendedKeeps,
     UnlockContendedKeeps DEF Next

(* The lock keeps its invariant in every reachable state.                  *)
THEOREM LockInvariant == Spec => []IInv
<1>1. Init => IInv
  BY InitIInv
<1>2. IInv /\ [Next]_vars => IInv'
  BY StepIInv
<1> QED
  BY <1>1, <1>2, PTL DEF Spec

(* d_ptr, the counters and the threads keep to their types; no counter of  *)
(* a QReadWriteLockPrivate is ever decremented below zero.                 *)
THEOREM TypeCorrect == Spec => []TypeOK
<1>1. IInv => TypeOK
  BY DEF IInv
<1> QED
  BY <1>1, LockInvariant, PTL

(* A writer is alone, the counts that lockForRead(), lockForWrite() and    *)
(* unlock() decide by are the threads that hold and wait, and the          *)
(* assertions of allocate() and release() hold (qreadwritelock.cpp:569,    *)
(* 576), however privates move between the locks.                          *)
THEOREM LockAccountedHolds == Spec => []LockAccounted
<1>1. IInv => LockAccounted
  BY DEF IInv, LockAccounted
<1> QED
  BY <1>1, LockInvariant, PTL

-----------------------------------------------------------------------------
(* Who is up at a contended lock that nobody holds is not blocked.         *)
TakerAt(l) ==
    dptr[l].state = "private" /\ Holders(l) = {} =>
      \E x \in Threads :
        /\ pc[x] = "awake" /\ d[x] = dptr[l].private
        /\ op[x] = IF priv[d[x]].waitingWriters > 0 THEN "write" ELSE "read"

SleepsBehindWriter(x) ==
    pc[x] = "asleep" /\ op[x] = "read" =>
      priv[d[x]].writers + priv[d[x]].waitingWriters > 0

(* That there is a waiter who is up is not inductive: it must be one who   *)
(* can take the lock, not a reader who meets the waiting writers.          *)
SInv == /\ \A x \in Threads : SleepsBehindWriter(x)
        /\ \A l \in Locks : TakerAt(l)

(* A step that leaves the waiters of every private in peace.               *)
LEMMA PeacefulStep ==
  ASSUME IInv, SInv, NEW t \in Threads, OnlyMoves(t),
         pc'[t] = "asleep" => pc[t] = "asleep",
         pc[t] = "awake" => pc'[t] = "awake",
         pc[t] \in {"asleep", "awake"} => op'[t] = op[t] /\ d'[t] = d[t],
         \A x \in Threads : pc[x] \in {"asleep", "awake"} => priv'[d[x]] = priv[d[x]],
         \A k \in Locks : dptr'[k].state = "private" /\ Holders(k)' = {} =>
                            dptr'[k] = dptr[k] /\ Holders(k) = {}
  PROVE  SInv'
<1>1. ASSUME NEW x \in Threads PROVE SleepsBehindWriter(x)'
  BY DEF SInv, SleepsBehindWriter, OnlyMoves
<1>2. ASSUME NEW k \in Locks PROVE TakerAt(k)'
  <2>1. SUFFICES ASSUME dptr'[k].state = "private" /\ Holders(k)' = {}
                 PROVE  \E x \in Threads :
                          /\ pc'[x] = "awake" /\ d'[x] = dptr'[k].private
                          /\ op'[x] = IF priv'[d'[x]].waitingWriters > 0 THEN "write" ELSE "read"
    BY DEF TakerAt
  <2>2. PICK x \in Threads :
          /\ pc[x] = "awake" /\ d[x] = dptr[k].private
          /\ op[x] = IF priv[d[x]].waitingWriters > 0 THEN "write" ELSE "read"
    BY <2>1 DEF SInv, TakerAt
  <2>3. pc'[x] = "awake" /\ d'[x] = d[x] /\ op'[x] = op[x] /\ priv'[d[x]] = priv[d[x]]
    BY <2>2 DEF OnlyMoves
  <2> QED
    BY <2>1, <2>2, <2>3
<1> QED
  BY <1>1, <1>2 DEF SInv

(* A step on the private p of lock l: the other locks are not concerned.   *)
LEMMA TakerElsewhere ==
  ASSUME IInv, SInv, NEW t \in Threads, NEW l \in Locks, NEW p \in Privates,
         dptr[l] = Pointer(p), OnlyMoves(t), lock[t] = l, lock'[t] \in {l, NoLock},
         priv' = [priv EXCEPT ![p] = priv'[p]],
         NEW k \in Locks, k # l, dptr'[k] = dptr[k]
  PROVE  TakerAt(k)'
<1>1. SUFFICES ASSUME dptr'[k].state = "private" /\ Holders(k)' = {}
               PROVE  \E x \in Threads :
                        /\ pc'[x] = "awake" /\ d'[x] = dptr'[k].private
                        /\ op'[x] = IF priv'[d'[x]].waitingWriters > 0 THEN "write" ELSE "read"
  BY DEF TakerAt
<1>2. Holders(k)' = Holders(k)
  BY ReadWriteLockAssumption DEF OnlyMoves, Holders, HoldersOf
<1>3. PICK x \in Threads :
        /\ pc[x] = "awake" /\ d[x] = dptr[k].private
        /\ op[x] = IF priv[d[x]].waitingWriters > 0 THEN "write" ELSE "read"
  BY <1>1, <1>2 DEF SInv, TakerAt
<1>4. d[x] # p /\ d[x] \in Privates
  BY <1>3, PrivateShared, WaiterPlace
<1>5. x # t
  <2>1. dptr[l].private = p
    BY DEF Pointer
  <2> QED
    BY <1>3, <1>4, <2>1, WaiterPlace
<1>6. pc'[x] = "awake" /\ d'[x] = d[x] /\ op'[x] = op[x]
  BY <1>3, <1>5 DEF OnlyMoves
<1>7. priv'[d[x]] = priv[d[x]]
  BY <1>4 DEF IInv, TypeOK
<1> QED
  BY <1>1, <1>3, <1>6, <1>7

LEMMA SleepersElsewhere ==
  ASSUME IInv, SInv, NEW t \in Threads, NEW p \in Privates, OnlyMoves(t),
         priv' = [priv EXCEPT ![p] = priv'[p]],
         NEW x \in Threads \ {t}, d[x] # p
  PROVE  SleepsBehindWriter(x)'
<1>1. SUFFICES ASSUME pc'[x] = "asleep", op'[x] = "read"
               PROVE  priv'[d'[x]].writers + priv'[d'[x]].waitingWriters > 0
  BY DEF SleepsBehindWriter
<1>2. pc[x] = "asleep" /\ op[x] = "read" /\ d'[x] = d[x]
  BY <1>1 DEF OnlyMoves
<1>3. d[x] \in Privates
  BY <1>2, WaiterPlace
<1>4. priv'[d[x]] = priv[d[x]]
  BY <1>3 DEF IInv, TypeOK
<1> QED
  BY <1>2, <1>4 DEF SInv, SleepsBehindWriter

LEMMA TakeServes ==
  ASSUME IInv, SInv, NEW t, NEW l, NEW p, NEW q, AtPrivate(t, l, p, q), priv[p] = Recorded(l, p),
         ~Blocked(q, op[t]), Succeed(t), UNCHANGED <<dptr, free>>,
         priv' = [priv EXCEPT ![p] = IF op[t] = "read" THEN [q EXCEPT !.readers = @ + 1]
                                                       ELSE [q EXCEPT !.writers = 1]]
  PROVE  SInv'
<1>1. t \in Threads /\ l \in Locks /\ p \in Privates /\ op[t] \in Ops
      /\ lock[t] = l /\ d[t] = p /\ pc[t] \in {"enter", "awake"} /\ dptr[l] = Pointer(p)
  BY DEF AtPrivate, IInv, TypeOK
<1>2. OnlyMoves(t) /\ pc'[t] = "held" /\ lock'[t] = l /\ op'[t] = op[t]
  BY <1>1 DEF Succeed, Goto, OnlyMoves, IInv, TypeOK
<1>3. priv'[p] = (IF op[t] = "read" THEN [q EXCEPT !.readers = @ + 1] ELSE [q EXCEPT !.writers = 1])
      /\ priv' = [priv EXCEPT ![p] = priv'[p]]
  BY <1>1 DEF IInv, TypeOK
<1>4. /\ q.writers = H(l, "write") /\ q.writers \in Nat
      /\ q.waitingWriters = Rest(t, p, "write") /\ q.waitingWriters \in Nat
  BY <1>1, Finite, RestIsNat DEF AtPrivate
<1>5. ASSUME NEW x \in Threads PROVE SleepsBehindWriter(x)'
  <2>1. CASE x = t
    BY <1>2, <2>1 DEF SleepsBehindWriter
  <2>2. CASE x # t /\ d[x] # p
    BY <1>1, <1>2, <1>3, <2>2, SleepersElsewhere
  <2>3. CASE x # t /\ d[x] = p
    <3>1. CASE op[t] = "write"
      <4>1. priv'[p].writers = 1 /\ priv'[p].waitingWriters = q.waitingWriters
        BY <1>3, <3>1 DEF AtPrivate
      <4>2. d'[x] = p
        BY <1>2, <2>3 DEF OnlyMoves
      <4> QED
        BY <1>4, <4>1, <4>2 DEF SleepsBehindWriter
    <3>2. CASE op[t] = "read"
      <4>1. q.writers = 0 /\ q.waitingWriters = 0
        BY <1>4, <3>2 DEF Blocked
      <4>2. priv[p].writers = q.writers /\ priv[p].waitingWriters = q.waitingWriters
        BY <1>4, <3>2 DEF Recorded, Rest, Waits
      <4>3. ~(pc[x] = "asleep" /\ op[x] = "read")
        BY <2>3, <4>1, <4>2 DEF SInv, SleepsBehindWriter
      <4> QED
        BY <1>2, <2>3, <4>3 DEF SleepsBehindWriter, OnlyMoves
    <3> QED
      BY <1>1, <3>1, <3>2 DEF Ops
  <2> QED
    BY <2>1, <2>2, <2>3
<1>6. ASSUME NEW k \in Locks PROVE TakerAt(k)'
  <2>1. CASE k = l
    <3>1. t \in Holders(l)'
      BY <1>1, <1>2 DEF Holders, HoldersOf, Ops
    <3> QED
      BY <2>1, <3>1 DEF TakerAt
  <2>2. CASE k # l
    <3>1. dptr'[k] = dptr[k] /\ lock'[t] \in {l, NoLock} /\ lock[t] = l
      BY <1>1, <1>2
    <3>2. priv' = [priv EXCEPT ![p] = priv'[p]] /\ OnlyMoves(t) /\ dptr[l] = Pointer(p)
      BY <1>1, <1>2, <1>3
    <3> QED
      BY <1>1, <2>2, <3>1, <3>2, TakerElsewhere
  <2> QED
    BY <2>1, <2>2
<1> QED
  BY <1>5, <1>6 DEF SInv

(* Whoever is blocked at a lock that nobody holds is a reader, and the one *)
(* who is to take the lock is a writer, and so another thread.             *)
LEMMA BlockedHasTaker ==
  ASSUME IInv, SInv, NEW t, NEW l, NEW p, NEW q, AtPrivate(t, l, p, q), priv[p] = Recorded(l, p),
         Blocked(q, op[t]), Holders(l) = {}
  PROVE  /\ op[t] = "read" /\ q.waitingWriters > 0
         /\ \E x \in Threads \ {t} : pc[x] = "awake" /\ d[x] = p /\ op[x] = "write"
<1>1. t \in Threads /\ l \in Locks /\ p \in Privates /\ op[t] \in Ops
      /\ dptr[l].state = "private" /\ dptr[l].private = p
  BY DEF AtPrivate, IInv, TypeOK, Pointer
<1>2. H(l, "read") = 0 /\ H(l, "write") = 0
  BY FS_EmptySet DEF Holders, H
<1>3. q.readers = 0 /\ q.writers = 0 /\ q.waitingWriters = Rest(t, p, "write") /\ q.waitingWriters \in Nat
  BY <1>1, <1>2, RestIsNat DEF AtPrivate
<1>4. op[t] = "read" /\ q.waitingWriters > 0
  BY <1>1, <1>3 DEF Blocked, Ops
<1>5. priv[p].waitingWriters > 0
  BY <1>3, <1>4 DEF Recorded, Rest, Waits
<1>6. PICK x \in Threads : pc[x] = "awake" /\ d[x] = p /\ op[x] = "write"
  BY <1>1, <1>5 DEF SInv, TakerAt
<1> QED
  BY <1>4, <1>6

LEMMA SleepServes ==
  ASSUME IInv, SInv, NEW t, NEW l, NEW p, NEW q, AtPrivate(t, l, p, q), priv[p] = Recorded(l, p),
         Blocked(q, op[t]),
         Goto(t, "asleep"), UNCHANGED <<dptr, free, op, lock, timeout, seen, d>>,
         priv' = [priv EXCEPT ![p] = IF op[t] = "read" THEN [q EXCEPT !.waitingReaders = @ + 1]
                                                       ELSE [q EXCEPT !.waitingWriters = @ + 1]]
  PROVE  SInv'
<1>1. t \in Threads /\ l \in Locks /\ p \in Privates /\ op[t] \in Ops
      /\ lock[t] = l /\ d[t] = p /\ pc[t] \in {"enter", "awake"} /\ dptr[l] = Pointer(p)
  BY DEF AtPrivate, IInv, TypeOK
<1>2. OnlyMoves(t) /\ pc'[t] = "asleep"
  BY <1>1 DEF Goto, OnlyMoves, IInv, TypeOK
<1>3. /\ priv'[p] = (IF op[t] = "read" THEN [q EXCEPT !.waitingReaders = @ + 1]
                                       ELSE [q EXCEPT !.waitingWriters = @ + 1])
      /\ priv' = [priv EXCEPT ![p] = priv'[p]]
  BY <1>1 DEF IInv, TypeOK
<1>4. /\ q.writers \in Nat /\ q.waitingWriters = Rest(t, p, "write") /\ q.waitingWriters \in Nat
      /\ priv[p].writers = q.writers
      /\ op[t] = "read" => priv[p].waitingWriters = q.waitingWriters
  BY <1>1, Finite, RestIsNat DEF AtPrivate, Recorded, Rest, Waits
<1>5. /\ priv'[p].writers = q.writers
      /\ priv'[p].waitingWriters = IF op[t] = "read" THEN q.waitingWriters ELSE q.waitingWriters + 1
  BY <1>1, <1>3 DEF AtPrivate
<1>6. ASSUME NEW x \in Threads PROVE SleepsBehindWriter(x)'
  <2>1. CASE x = t
    BY <1>1, <1>4, <1>5, <2>1 DEF SleepsBehindWriter, Blocked
  <2>2. CASE x # t /\ d[x] # p
    BY <1>1, <1>2, <1>3, <2>2, SleepersElsewhere
  <2>3. CASE x # t /\ d[x] = p
    <3>1. pc'[x] = "asleep" /\ op'[x] = "read" =>
            priv[p].writers + priv[p].waitingWriters > 0 /\ d'[x] = p
      BY <1>2, <2>3 DEF SInv, SleepsBehindWriter, OnlyMoves
    <3>2. op[t] = "write" => priv'[p].writers + priv'[p].waitingWriters > 0
      BY <1>4, <1>5
    <3>3. op[t] = "read" => priv'[p].writers = priv[p].writers
                            /\ priv'[p].waitingWriters = priv[p].waitingWriters
      BY <1>4, <1>5
    <3> QED
      BY <1>1, <3>1, <3>2, <3>3 DEF SleepsBehindWriter, Ops
  <2> QED
    BY <2>1, <2>2, <2>3
<1>7. ASSUME NEW k \in Locks PROVE TakerAt(k)'
  <2>1. CASE k = l
    <3>1. SUFFICES ASSUME Holders(l)' = {}
                   PROVE  \E x \in Threads :
                            /\ pc'[x] = "awake" /\ d'[x] = dptr'[l].private
                            /\ op'[x] = IF priv'[d'[x]].waitingWriters > 0 THEN "write" ELSE "read"
      BY <2>1 DEF TakerAt
    <3>2. Holders(l) = {}
      BY <1>1, <1>2, <3>1 DEF Holders, HoldersOf, OnlyMoves
    <3>3. PICK x \in Threads \ {t} : pc[x] = "awake" /\ d[x] = p /\ op[x] = "write"
      BY <3>2, BlockedHasTaker
    <3>4. priv'[p].waitingWriters > 0
      BY <1>5, <3>2, BlockedHasTaker
    <3>5. pc'[x] = "awake" /\ d'[x] = p /\ op'[x] = "write" /\ dptr'[l].private = p
      BY <1>1, <1>2, <3>3 DEF OnlyMoves, Pointer
    <3> QED
      BY <3>4, <3>5
  <2>2. CASE k # l
    <3>1. dptr'[k] = dptr[k] /\ lock'[t] \in {l, NoLock} /\ lock[t] = l
      BY <1>1, <1>2
    <3>2. priv' = [priv EXCEPT ![p] = priv'[p]] /\ OnlyMoves(t) /\ dptr[l] = Pointer(p)
      BY <1>1, <1>2, <1>3
    <3> QED
      BY <1>1, <2>2, <3>1, <3>2, TakerElsewhere
  <2> QED
    BY <2>1, <2>2
<1> QED
  BY <1>6, <1>7 DEF SInv

LEMMA GiveUpServes ==
  ASSUME IInv, SInv, NEW t, NEW l, NEW p, NEW q, AtPrivate(t, l, p, q), priv[p] = Recorded(l, p),
         Blocked(q, op[t]), UNCHANGED <<dptr, free, seen>>,
         priv' = [priv EXCEPT ![p] = q],
         pc' = [x \in Threads |-> IF x = t THEN "idle"
                                  ELSE IF x \in LetGo(t, q) THEN "awake" ELSE pc[x]],
         d' = [d EXCEPT ![t] = NoPrivate],
         op' = [op EXCEPT ![t] = "read"],
         lock' = [lock EXCEPT ![t] = NoLock]
  PROVE  SInv'
<1>1. t \in Threads /\ l \in Locks /\ p \in Privates /\ op[t] \in Ops
      /\ lock[t] = l /\ d[t] = p /\ pc[t] \in {"enter", "awake"} /\ dptr[l] = Pointer(p)
  BY DEF AtPrivate, IInv, TypeOK
<1>2. OnlyMoves(t) /\ pc'[t] = "idle" /\ lock'[t] = NoLock
  BY <1>1 DEF LetGo, Asleep, OnlyMoves, IInv, TypeOK
<1>3. priv'[p] = q /\ priv' = [priv EXCEPT ![p] = priv'[p]]
  BY <1>1 DEF IInv, TypeOK
<1>4. /\ q.writers \in Nat /\ q.waitingWriters = Rest(t, p, "write") /\ q.waitingWriters \in Nat
      /\ q.waitingReaders = Rest(t, p, "read") /\ q.waitingReaders \in Nat
      /\ priv[p].writers = q.writers
      /\ op[t] = "read" => priv[p].waitingWriters = q.waitingWriters
      /\ op[t] = "write" => W(p, "read") = q.waitingReaders
  BY <1>1, Finite, RestIsNat DEF AtPrivate, Recorded, Rest, Waits
<1>5. ASSUME NEW x \in Threads PROVE SleepsBehindWriter(x)'
  <2>1. CASE x = t
    BY <1>2, <2>1 DEF SleepsBehindWriter
  <2>2. CASE x # t /\ d[x] # p
    BY <1>1, <1>2, <1>3, <2>2, SleepersElsewhere
  <2>3. CASE x # t /\ d[x] = p
    <3>1. SUFFICES ASSUME pc'[x] = "asleep", op'[x] = "read"
                   PROVE  q.writers + q.waitingWriters > 0
      BY <1>2, <1>3, <2>3 DEF SleepsBehindWriter, OnlyMoves
    <3>2. pc[x] = "asleep" /\ op[x] = "read"
      BY <1>2, <2>3, <3>1 DEF OnlyMoves
    <3>3. CASE op[t] = "read"
      BY <1>4, <2>3, <3>2, <3>3 DEF SInv, SleepsBehindWriter
    <3>4. CASE op[t] = "write"
      <4>1. x \in Asleep(d[t], "read") /\ x \in Waiters(p, "read")
        BY <1>1, <2>3, <3>2 DEF Asleep, Waiters
      <4>2. q.waitingReaders > 0
        BY <1>4, <3>4, <4>1, Finite
      <4>3. x \notin LetGo(t, q)
        BY <2>3, <3>1
      <4> QED
        BY <1>4, <3>4, <4>1, <4>2, <4>3 DEF LetGo
    <3> QED
      BY <1>1, <3>3, <3>4 DEF Ops
  <2> QED
    BY <2>1, <2>2, <2>3
<1>6. ASSUME NEW k \in Locks PROVE TakerAt(k)'
  <2>1. CASE k = l
    <3>1. SUFFICES ASSUME Holders(l)' = {}
                   PROVE  \E x \in Threads :
                            /\ pc'[x] = "awake" /\ d'[x] = dptr'[l].private
                            /\ op'[x] = IF priv'[d'[x]].waitingWriters > 0 THEN "write" ELSE "read"
      BY <2>1 DEF TakerAt
    <3>2. Holders(l) = {}
      BY <1>1, <1>2, <3>1 DEF Holders, HoldersOf, OnlyMoves
    <3>3. PICK x \in Threads \ {t} : pc[x] = "awake" /\ d[x] = p /\ op[x] = "write"
      BY <3>2, BlockedHasTaker
    <3>4. priv'[p].waitingWriters > 0
      BY <1>3, <3>2, BlockedHasTaker
    <3>5. pc'[x] = "awake" /\ d'[x] = p /\ op'[x] = "write" /\ dptr'[l].private = p
      BY <1>1, <1>2, <3>3 DEF OnlyMoves, Pointer
    <3> QED
      BY <3>4, <3>5
  <2>2. CASE k # l
    <3>1. dptr'[k] = dptr[k] /\ lock'[t] \in {l, NoLock} /\ lock[t] = l
      BY <1>1, <1>2
    <3>2. priv' = [priv EXCEPT ![p] = priv'[p]] /\ OnlyMoves(t) /\ dptr[l] = Pointer(p)
      BY <1>1, <1>2, <1>3
    <3> QED
      BY <1>1, <2>2, <3>1, <3>2, TakerElsewhere
  <2> QED
    BY <2>1, <2>2
<1> QED
  BY <1>5, <1>6 DEF SInv

LEMMA LockPrivateServes ==
  ASSUME IInv, SInv, NEW t, NEW l, NEW p, NEW q, AtPrivate(t, l, p, q), LockPrivate(t, q),
         UNCHANGED <<dptr, free>>
  PROVE  SInv'
<1>1. p = d[t] /\ priv[p] = Recorded(l, p)
  BY PrivateRecorded DEF AtPrivate
<1>2. CASE ~Blocked(q, op[t]) /\ Succeed(t)
  BY <1>1, <1>2, TakeServes DEF LockPrivate
<1>3. CASE Blocked(q, op[t]) /\ timeout[t] = "expired"
  BY <1>1, <1>3, GiveUpServes DEF LockPrivate
<1>4. CASE Blocked(q, op[t]) /\ timeout[t] # "expired"
  BY <1>1, <1>4, SleepServes DEF LockPrivate
<1> QED
  BY <1>2, <1>3, <1>4 DEF LockPrivate

LEMMA UnlockContendedServes ==
  ASSUME IInv, SInv, NEW t \in Threads, UnlockContended(t)
  PROVE  SInv'
<1>0. PICK l \in Locks, p \in Privates : l = lock[t] /\ p = dptr[l].private /\ dptr[l] = Pointer(p)
  <2>1. lock[t] \in Locks /\ dptr[lock[t]].state = "private"
    BY DEF IInv, PlacesFit, UnlockContended
  <2> QED
    BY <2>1, WordForms DEF IInv
<1> DEFINE q == IF priv[p].writers > 0 THEN [priv[p] EXCEPT !.writers = 0]
                                       ELSE [priv[p] EXCEPT !.readers = @ - 1]
           waiters == q.waitingReaders + q.waitingWriters > 0
           n == H(l, "read")
           m == H(l, "write")
           wr == W(p, "read")
           ww == W(p, "write")
<1>1. /\ pc[t] = "held" /\ op[t] \in Ops
      /\ priv' = [priv EXCEPT ![p] = q]
      /\ IF q.readers = 0 /\ ~waiters
         THEN dptr' = [dptr EXCEPT ![l] = Unlocked]
         ELSE UNCHANGED dptr
      /\ op' = [op EXCEPT ![t] = "read"]
      /\ lock' = [lock EXCEPT ![t] = NoLock]
      /\ UNCHANGED <<timeout, seen, d>>
  BY <1>0 DEF IInv, TypeOK, UnlockContended
<1>2. PICK s \in SUBSET Threads :
         /\ IF q.readers = 0 /\ waiters THEN Wakes(p, q, s) ELSE s = {}
         /\ pc' = [x \in Threads |-> IF x = t THEN "idle" ELSE IF x \in s THEN "awake" ELSE pc[x]]
  BY <1>0 DEF UnlockContended
<1>3. \A x \in s : pc[x] = "asleep"
  BY <1>2 DEF Wakes, Asleep
<1>4. OnlyMoves(t) /\ pc'[t] = "idle" /\ lock'[t] = NoLock
  BY <1>1, <1>2, <1>3 DEF OnlyMoves, IInv, TypeOK
<1>5. priv'[p] = q /\ priv' = [priv EXCEPT ![p] = priv'[p]]
  BY <1>1 DEF IInv, TypeOK
<1>6. priv[p] = [readers |-> n, writers |-> m, waitingReaders |-> wr, waitingWriters |-> ww]
  <2>1. priv[p] = Recorded(l, p)
    BY <1>0, PrivateRecorded
  <2> QED
    BY <2>1 DEF Recorded
<1>7. /\ n \in Nat /\ m \in Nat /\ wr \in Nat /\ ww \in Nat
      /\ op[t] = "read" => n > 0 /\ m = 0
      /\ op[t] = "write" => n = 0 /\ m = 1
  <2>1. n \in Nat /\ m \in Nat /\ wr \in Nat /\ ww \in Nat
    BY Finite
  <2> QED
    BY <2>1, <1>0, <1>1, HoldersCounted
<1>8. /\ q.writers = 0 /\ q.waitingReaders = wr /\ q.waitingWriters = ww
      /\ q.readers = IF op[t] = "read" THEN n - 1 ELSE 0
      /\ q.readers > 0 => m = 0
  <2> HIDE DEF n, m, wr, ww
  <2> QED
    BY <1>1, <1>6, <1>7 DEF Ops
<1> HIDE DEF q
<1>9. ASSUME NEW x \in Threads PROVE SleepsBehindWriter(x)'
  <2>1. CASE x = t
    BY <1>4, <2>1 DEF SleepsBehindWriter
  <2>2. CASE x # t /\ d[x] # p
    BY <1>4, <1>5, <2>2, SleepersElsewhere
  <2>3. CASE x # t /\ d[x] = p
    <3>1. SUFFICES ASSUME pc'[x] = "asleep", op'[x] = "read" PROVE ww > 0
      BY <1>4, <1>5, <1>7, <1>8, <2>3 DEF SleepsBehindWriter, OnlyMoves
    <3>2. pc[x] = "asleep" /\ op[x] = "read" /\ x \notin s
      BY <1>2, <1>4, <2>3, <3>1 DEF OnlyMoves
    <3>3. x \in Asleep(p, "read") /\ x \in Waiters(p, "read")
      BY <2>3, <3>2 DEF Asleep, Waiters
    <3>4. wr > 0
      BY <1>7, <3>3, Finite
    <3>5. CASE q.readers > 0
      <4>1. m + ww > 0
        BY <1>6, <2>3, <3>2 DEF SInv, SleepsBehindWriter
      <4> QED
        BY <1>7, <1>8, <3>5, <4>1
    <3>6. CASE q.readers = 0
      BY <1>2, <1>7, <1>8, <3>2, <3>3, <3>4, <3>6 DEF Wakes
    <3> QED
      BY <1>1, <1>7, <1>8, <3>5, <3>6 DEF Ops
  <2> QED
    BY <2>1, <2>2, <2>3
<1>10. ASSUME NEW k \in Locks PROVE TakerAt(k)'
  <2>1. CASE k = l
    <3>1. SUFFICES ASSUME dptr'[l].state = "private", Holders(l)' = {}
                   PROVE  \E x \in Threads :
                            /\ pc'[x] = "awake" /\ d'[x] = dptr'[l].private
                            /\ op'[x] = IF priv'[d'[x]].waitingWriters > 0 THEN "write" ELSE "read"
      BY <2>1 DEF TakerAt
    <3>2. ~(q.readers = 0 /\ ~waiters) /\ dptr' = dptr
      BY <1>1, <3>1 DEF IInv, TypeOK, Unlocked
    <3>3. q.readers = 0
      <4>1. HoldersOf(l, "read")' = {}
        BY <3>1 DEF Holders
      <4>2. H(l, "read")' = 0
        BY <4>1, FS_EmptySet DEF H
      <4>3. op[t] = "read" => H(l, "read")' = n - 1
        <5>1. ~Holds(t, l, "read")' /\ (op[t] = "read" => Holds(t, l, "read"))
          BY <1>0, <1>1, <1>4 DEF Holds
        <5> QED
          BY <1>4, <5>1, Recount
      <4> QED
        BY <1>1, <1>8, <4>2, <4>3 DEF Ops
    <3>4. Wakes(p, q, s) /\ wr + ww > 0
      BY <1>2, <1>8, <3>2, <3>3
    <3>5. \A x \in Threads : pc[x] = "awake" /\ d[x] = p => pc'[x] = "awake"
      BY <1>1, <1>2
    <3>6. \A x \in s : pc'[x] = "awake"
      BY <1>1, <1>2, <1>3
    <3>7. PICK x \in Threads : pc'[x] = "awake" /\ d[x] = p /\ op[x] = IF ww > 0 THEN "write" ELSE "read"
      <4>1. CASE ww > 0
        <5>1. PICK w \in Threads : pc[w] \in {"asleep", "awake"} /\ d[w] = p /\ op[w] = "write"
          <6>1. Waiters(p, "write") # {}
            BY <4>1, Finite
          <6> QED
            BY <6>1 DEF Waiters
        <5>2. CASE Asleep(p, "write") = {}
          BY <3>5, <4>1, <5>1, <5>2 DEF Asleep
        <5>3. CASE Asleep(p, "write") # {}
          <6>1. PICK y \in Asleep(p, "write") : s = {y}
            BY <1>8, <3>4, <4>1, <5>3 DEF Wakes
          <6> QED
            BY <3>6, <4>1, <6>1 DEF Asleep
        <5> QED
          BY <5>2, <5>3
      <4>2. CASE ww = 0
        <5>1. wr > 0
          BY <1>7, <3>4, <4>2
        <5>2. PICK w \in Threads : pc[w] \in {"asleep", "awake"} /\ d[w] = p /\ op[w] = "read"
          <6>1. Waiters(p, "read") # {}
            BY <5>1, Finite
          <6> QED
            BY <6>1 DEF Waiters
        <5>3. s = Asleep(p, "read")
          BY <1>8, <3>4, <4>2, <5>1 DEF Wakes
        <5>4. pc'[w] = "awake"
          BY <3>5, <3>6, <5>2, <5>3 DEF Asleep
        <5> QED
          BY <4>2, <5>2, <5>4
      <4> QED
        BY <1>7, <4>1, <4>2
    <3>8. x # t /\ d'[x] = p /\ op'[x] = op[x] /\ dptr'[l].private = p
      BY <1>0, <1>4, <3>2, <3>7 DEF OnlyMoves
    <3> QED
      BY <1>5, <1>8, <3>7, <3>8
  <2>2. CASE k # l
    <3>1. dptr'[k] = dptr[k] /\ lock'[t] \in {l, NoLock} /\ lock[t] = l
      BY <1>0, <1>1, <1>4, <2>2 DEF IInv, TypeOK
    <3>2. priv' = [priv EXCEPT ![p] = priv'[p]] /\ OnlyMoves(t) /\ dptr[l] = Pointer(p)
      BY <1>0, <1>4, <1>5
    <3> QED
      BY <2>2, <3>1, <3>2, TakerElsewhere
  <2> QED
    BY <2>1, <2>2
<1> QED
  BY <1>9, <1>10 DEF SInv

LEMMA AttemptServes ==
  ASSUME IInv, SInv, NEW t \in Threads, Attempt(t)
  PROVE  SInv'
<1>1. pc[t] = "attempt" /\ lock[t] \in Locks /\ op[t] \in Ops
  BY DEF Attempt, IInv, PlacesFit, TypeOK
<1>2. OnlyMoves(t) /\ pc'[t] \in {"held", "idle", "install", "enter"}
  BY <1>1 DEF Attempt, Succeed, Leave, Goto, OnlyMoves, IInv, TypeOK
<1>3. \A x \in Threads : pc[x] \in {"asleep", "awake"} => priv'[d[x]] = priv[d[x]]
  <2>1. CASE priv' = priv
    BY <2>1
  <2>2. ASSUME NEW p \in free, priv' = [priv EXCEPT ![p] = Prepared(dptr[lock[t]])]
        PROVE  \A x \in Threads : pc[x] \in {"asleep", "awake"} => priv'[d[x]] = priv[d[x]]
    <3>1. ASSUME NEW x \in Threads, pc[x] \in {"asleep", "awake"} PROVE d[x] # p
      BY <3>1, WaiterPlace DEF IInv, FreePrivatesAreClean
    <3> QED
      BY <2>2, <3>1, WaiterPlace DEF IInv, TypeOK
  <2> QED
    BY <2>1, <2>2 DEF Attempt
<1>4. ASSUME NEW k \in Locks, dptr'[k].state = "private", Holders(k)' = {}
      PROVE  dptr'[k] = dptr[k] /\ Holders(k) = {}
  <2>1. Holders(k) = {}
    BY <1>1, <1>2, <1>4 DEF Holders, HoldersOf, OnlyMoves
  <2>2. CASE dptr' = dptr
    BY <2>1, <2>2
  <2>3. CASE dptr' = [dptr EXCEPT ![lock[t]] = Swapped(dptr[lock[t]], op[t])]
    <3>1. Swapped(dptr[lock[t]], op[t]).state # "private"
      BY DEF Swapped, LockedRead, LockedWrite
    <3> QED
      BY <1>1, <1>4, <2>1, <2>3, <3>1 DEF IInv, TypeOK
  <2> QED
    BY <2>2, <2>3 DEF Attempt
<1> QED
  BY <1>1, <1>2, <1>3, <1>4, PeacefulStep

LEMMA InstallServes ==
  ASSUME IInv, SInv, NEW t \in Threads, Install(t)
  PROVE  SInv'
<1>1. /\ pc[t] = "install" /\ lock[t] \in Locks /\ d[t] \in Privates /\ seen[t] \in Words
      /\ \A k \in Locks : dptr[k].private # d[t]
  BY DEF Install, IInv, PlacesFit, PreparedIsOwn
<1>2. OnlyMoves(t) /\ pc'[t] \in {"enter", "attempt"} /\ lock' = lock
  BY <1>1 DEF Install, Goto, OnlyMoves, IInv, TypeOK
<1>3. \A x \in Threads : pc[x] \in {"asleep", "awake"} => priv'[d[x]] = priv[d[x]]
  <2>1. CASE priv' = priv
    BY <2>1
  <2>2. CASE priv' = [priv EXCEPT ![d[t]] = Clean]
    <3>1. ASSUME NEW x \in Threads, pc[x] \in {"asleep", "awake"} PROVE d[x] # d[t]
      BY <1>1, <3>1, WaiterPlace
    <3> QED
      BY <2>2, <3>1, WaiterPlace DEF IInv, TypeOK
  <2> QED
    BY <2>1, <2>2 DEF Install
<1>4. ASSUME NEW k \in Locks, dptr'[k].state = "private", Holders(k)' = {}
      PROVE  dptr'[k] = dptr[k] /\ Holders(k) = {}
  <2>1. Holders(k) = {}
    BY <1>1, <1>2, <1>4 DEF Holders, HoldersOf, OnlyMoves
  <2>2. CASE dptr[lock[t]] # seen[t]
    BY <2>1, <2>2 DEF Install
  <2>3. CASE dptr[lock[t]] = seen[t]
    <3>1. dptr' = [dptr EXCEPT ![lock[t]] = Pointer(d[t])]
      BY <2>3 DEF Install
    <3>2. CASE k # lock[t]
      BY <1>1, <2>1, <3>1, <3>2 DEF IInv, TypeOK
    <3>3. CASE k = lock[t]
      <4>1. H(k, "read") = 0 /\ H(k, "write") = 0
        BY <2>1, FS_EmptySet DEF Holders, H
      <4>2. CountsAt(k) /\ dptr[k] \in Words
        BY <1>1, <2>3, <3>3, CountsNow DEF IInv
      <4> QED
        BY <4>1, <4>2 DEF CountsAt, Words, LockedRead, LockedWrite
    <3> QED
      BY <3>2, <3>3
  <2> QED
    BY <2>2, <2>3
<1> QED
  BY <1>1, <1>2, <1>3, <1>4, PeacefulStep

LEMMA UnlockUncontendedServes ==
  ASSUME IInv, SInv, NEW t \in Threads, UnlockUncontended(t)
  PROVE  SInv'
<1>1. pc[t] = "held" /\ lock[t] \in Locks
  BY DEF UnlockUncontended, IInv, PlacesFit
<1>2. OnlyMoves(t) /\ pc'[t] = "idle" /\ UNCHANGED priv
  BY <1>1 DEF UnlockUncontended, Leave, Goto, OnlyMoves, IInv, TypeOK
<1>3. ASSUME NEW k \in Locks, dptr'[k].state = "private", Holders(k)' = {}
      PROVE  dptr'[k] = dptr[k] /\ Holders(k) = {}
  <2>1. PICK w : w.state # "private" /\ dptr' = [dptr EXCEPT ![lock[t]] = w]
    BY DEF UnlockUncontended, LockedRead, Unlocked
  <2>2. k # lock[t] /\ dptr'[k] = dptr[k]
    BY <1>1, <1>3, <2>1 DEF IInv, TypeOK
  <2> QED
    BY <1>2, <1>3, <2>2 DEF Holders, HoldersOf, OnlyMoves
<1> QED
  BY <1>1, <1>2, <1>3, PeacefulStep

(* Steps that leave d_ptr and the privates alone.                          *)
LEMMA ThreadStepServes ==
  ASSUME IInv, SInv, NEW t \in Threads, Unmoved(t), UNCHANGED <<dptr, priv>>,
         pc'[t] = "asleep" => pc[t] = "asleep",
         pc[t] = "awake" => pc'[t] = "awake"
  PROVE  SInv'
<1>1. \A k \in Locks : Holders(k)' = Holders(k)
  BY SameSets DEF Holders
<1>2. OnlyMoves(t) /\ (pc[t] \in {"asleep", "awake"} => op'[t] = op[t] /\ d'[t] = d[t])
  BY DEF Unmoved
<1> QED
  BY <1>1, <1>2, PeacefulStep

LEMMA StepSInv == IInv /\ SInv /\ [Next]_vars => SInv'
<1>1. SUFFICES ASSUME IInv, SInv, [Next]_vars PROVE SInv'
  OBVIOUS
<1>2. CASE UNCHANGED <<dptr, priv, pc, op, lock, d>>
  <2>1. \A k : Holders(k)' = Holders(k)
    BY <1>2 DEF Holders, HoldersOf
  <2>2. ASSUME NEW k \in Locks PROVE TakerAt(k)'
    BY <1>1, <1>2, <2>1 DEF SInv, TakerAt
  <2>3. ASSUME NEW x \in Threads PROVE SleepsBehindWriter(x)'
    BY <1>1, <1>2 DEF SInv, SleepsBehindWriter
  <2> QED
    BY <2>2, <2>3 DEF SInv
<1>3. ASSUME NEW t \in Threads, NEW o \in Ops, NEW l \in Locks, NEW w \in Patience, Call(t, o, l, w)
      PROVE  SInv'
  <2>1. Unmoved(t) /\ pc'[t] = "attempt" /\ pc[t] = "idle" /\ UNCHANGED <<dptr, priv>>
    BY <1>1, <1>3 DEF Call, Goto, IInv, TypeOK, Unmoved, OnlyMoves
  <2> QED
    BY <1>1, <2>1, ThreadStepServes
<1>4. ASSUME NEW t \in Threads, CondTimeout(t) \/ SpuriousWake(t) PROVE SInv'
  <2>1. Unmoved(t) /\ pc'[t] = "awake" /\ pc[t] = "asleep" /\ UNCHANGED <<dptr, priv>>
    BY <1>1, <1>4 DEF CondTimeout, SpuriousWake, Goto, IInv, TypeOK, Unmoved, OnlyMoves
  <2> QED
    BY <1>1, <2>1, ThreadStepServes
<1>5. ASSUME NEW t \in Threads, Enter(t) PROVE SInv'
  <2>1. CASE dptr[lock[t]] = Pointer(d[t])
    BY <1>1, <1>5, <2>1, AtEnter, LockPrivateServes DEF Enter
  <2>2. CASE dptr[lock[t]] # Pointer(d[t])
    <3>1. Unmoved(t) /\ pc'[t] = "attempt" /\ pc[t] = "enter" /\ UNCHANGED <<dptr, priv>>
      BY <1>1, <1>5, <2>2 DEF Enter, Goto, IInv, TypeOK, Unmoved, OnlyMoves
    <3> QED
      BY <1>1, <3>1, ThreadStepServes
  <2> QED
    BY <2>1, <2>2
<1>6. ASSUME NEW t \in Threads, Resume(t) PROVE SInv'
  BY <1>1, <1>6, AtResume, LockPrivateServes DEF Resume
<1>7. ASSUME NEW t \in Threads, Expire(t) PROVE SInv'
  BY <1>2, <1>7 DEF Expire
<1>8. CASE UNCHANGED vars
  BY <1>2, <1>8 DEF vars
<1> QED
  BY <1>1, <1>3, <1>4, <1>5, <1>6, <1>7, <1>8, AttemptServes, InstallServes,
     UnlockUncontendedServes, UnlockContendedServes DEF Next, Internal

LEMMA InitSInv == Init => SInv
  BY DEF Init, SInv, SleepsBehindWriter, TakerAt, Unlocked

(* No wake-up of Private::unlock() is lost to a time-out, and the last     *)
(* writer that gives up lets the readers go (qreadwritelock.cpp:441-444).  *)
THEOREM SleepersHaveWakerHolds == Spec => []SleepersHaveWaker
<1>1. Init => SInv
  BY InitSInv
<1>2. IInv /\ SInv /\ [Next]_vars => SInv'
  BY StepSInv
<1>3. SInv => SleepersHaveWaker
  BY DEF SInv, SleepsBehindWriter, TakerAt, SleepersHaveWaker, ReadersSleepBehindWriters, FreeLockHasTaker
<1> QED
  BY <1>1, <1>2, <1>3, LockInvariant, PTL DEF Spec

-----------------------------------------------------------------------------

(* The two ways to get a lock: the word alone, or a private's counters.    *)
TakesAt(t, l, p, q) == AtPrivate(t, l, p, q) /\ ~Blocked(q, op[t]) /\ Succeed(t)

LEMMA WaysIn ==
  ASSUME IInv, Next, NEW t \in Threads, pc[t] # "held", pc'[t] = "held"
  PROVE  Swaps(t) \/ \E l, p, q : TakesAt(t, l, p, q)
<1>1. PICK x \in Threads :
        \/ \E o \in Ops, l \in Locks, w \in Patience : Call(x, o, l, w)
        \/ Internal(x) \/ Expire(x) \/ CondTimeout(x) \/ SpuriousWake(x)
        \/ UnlockUncontended(x) \/ UnlockContended(x)
  BY DEF Next
<1>2. CASE \/ \E o \in Ops, l \in Locks, w \in Patience : Call(x, o, l, w)
           \/ Expire(x) \/ CondTimeout(x) \/ SpuriousWake(x) \/ Install(x)
           \/ UnlockUncontended(x)
  BY <1>2 DEF Call, Expire, CondTimeout, SpuriousWake, Install, UnlockUncontended, Leave,
              Goto, IInv, TypeOK
<1>3. CASE UnlockContended(x)
  BY <1>3 DEF UnlockContended
<1>4. CASE Attempt(x)
  <2>1. x = t /\ Succeed(t)
    BY <1>4 DEF Attempt, Succeed, Leave, Goto, IInv, TypeOK
  <2> QED
    BY <1>4, <2>1 DEF Attempt, Swaps, Succeed, Leave, Goto, IInv, TypeOK
<1>5. ASSUME NEW l, NEW p, NEW q, AtPrivate(x, l, p, q), LockPrivate(x, q)
      PROVE  TakesAt(t, l, p, q)
  <2>1. CASE Succeed(x) /\ ~Blocked(q, op[x])
    <3>1. x = t
      BY <2>1 DEF Succeed, Goto, IInv, TypeOK
    <3> QED
      BY <1>5, <2>1, <3>1 DEF TakesAt
  <2>2. CASE ~(Succeed(x) /\ ~Blocked(q, op[x]))
    BY <1>5, <2>2 DEF LockPrivate, Goto, IInv, TypeOK
  <2> QED
    BY <2>1, <2>2
<1>6. CASE Enter(x)
  <2>1. CASE dptr[lock[x]] = Pointer(d[x])
    BY <1>5, <1>6, <2>1, AtEnter DEF Enter
  <2>2. CASE dptr[lock[x]] # Pointer(d[x])
    BY <1>6, <2>2 DEF Enter, Goto, IInv, TypeOK
  <2> QED
    BY <2>1, <2>2
<1>7. CASE Resume(x)
  BY <1>5, <1>7, AtResume DEF Resume
<1> QED
  BY <1>1, <1>2, <1>3, <1>4, <1>6, <1>7 DEF Internal

LEMMA ReaderWaits ==
  ASSUME IInv, Next, NEW t \in Threads, NEW w \in Threads,
         pc[t] # "held", pc'[t] = "held", op'[t] = "read",
         pc[w] \in {"asleep", "awake"}, op[w] = "write", pc'[w] = pc[w]
  PROVE  lock[w] # lock'[t]
<1>1. w # t
  OBVIOUS
<1>2. CASE Swaps(t)
  <2>1. lock'[t] = lock[t] /\ dptr[lock[t]].state # "private"
    BY <1>2 DEF Swaps, Succeed, Unlocked
  <2> QED
    BY <2>1, WaiterPlace
<1>3. ASSUME NEW l, NEW p, NEW q, TakesAt(t, l, p, q), lock[w] = lock'[t]
      PROVE  FALSE
  <2>1. /\ l \in Locks /\ p \in Privates /\ dptr[l].private = p
        /\ lock'[t] = l /\ op'[t] = op[t] /\ q.waitingWriters = Rest(t, p, "write")
        /\ q.writers = H(l, "write")
    BY <1>3 DEF TakesAt, AtPrivate, Succeed, Pointer
  <2>2. w \in Waiters(p, "write")
    BY <1>3, <2>1, WaiterPlace DEF Waiters
  <2>3. W(p, "write") \in Nat /\ W(p, "write") # 0 /\ H(l, "write") \in Nat
    BY <2>2, Finite
  <2>4. Rest(t, p, "write") = W(p, "write")
    BY <2>1 DEF Rest, Waits
  <2>5. op[t] = "read" /\ ~Blocked(q, op[t])
    BY <1>3, <2>1 DEF TakesAt
  <2> QED
    BY <2>1, <2>3, <2>4, <2>5 DEF Blocked
<1> QED
  BY <1>2, <1>3, WaysIn

(* The preference of waiting writers: a reader gets in neither by the fast *)
(* path nor through the private while a writer waits for the same lock.    *)
THEOREM NoReaderPassesAWriterHolds == Spec => NoReaderPassesAWriter
<1> DEFINE A == \A t, w \in Threads :
                  /\ pc[t] # "held" /\ pc'[t] = "held" /\ op'[t] = "read"
                  /\ pc[w] \in {"asleep", "awake"} /\ op[w] = "write" /\ pc'[w] = pc[w]
                  => lock[w] # lock'[t]
<1>1. IInv /\ [Next]_vars => [A]_vars
  BY ReaderWaits
<1>2. Spec => [][A]_vars
  <2> HIDE DEF A
  <2> QED
    BY <1>1, LockInvariant, PTL DEF Spec
<1> QED
  BY <1>2 DEF NoReaderPassesAWriter

-----------------------------------------------------------------------------
(* Refinement: what a thread is to a lock, in the terms of RWLockSpec.     *)
Role(t, l) == IF lock[t] # l \/ pc[t] = "idle" THEN "out"
              ELSE IF pc[t] = "held" THEN op[t]
              ELSE IF op[t] = "read" THEN "reading"
              ELSE IF pc[t] \in {"asleep", "awake"} THEN "queued"
              ELSE "writing"

InCall == {"reading", "writing", "queued"}
Waiting(t, l) == Role(t, l) \in InCall /\ timeout[t] = "forever"

AbstractStep(l) == Unchanged(l) \/ Abstract(l)!SpecNext

LEMMA RoleForms ==
  ASSUME IInv, NEW l \in Locks
  PROVE  \A x \in Threads :
           /\ Role(x, l) \in {"out", "read", "write"} \cup InCall
           /\ x \in HoldersOf(l, "read") <=> Role(x, l) = "read"
           /\ x \in HoldersOf(l, "write") <=> Role(x, l) = "write"
           /\ x \in Calling(l, "read") <=> Role(x, l) = "reading"
           /\ x \in Calling(l, "write") <=> Role(x, l) \in {"writing", "queued"}
           /\ x \in Queued(l) <=> Role(x, l) = "queued"
           /\ x \in Patient(l) <=> Waiting(x, l)
<1>1. \A x \in Threads : pc[x] \in Labels /\ op[x] \in Ops
  BY DEF IInv, TypeOK
<1> QED
  BY <1>1 DEF Role, InCall, Waiting, HoldersOf, Calling, Queued, Patient, Labels, Ops

LEMMA RolesThen ==
  ASSUME IInv', NEW l \in Locks
  PROVE  \A x \in Threads :
           /\ Role(x, l)' \in {"out", "read", "write"} \cup InCall
           /\ x \in HoldersOf(l, "read")' <=> Role(x, l)' = "read"
           /\ x \in HoldersOf(l, "write")' <=> Role(x, l)' = "write"
           /\ x \in Calling(l, "read")' <=> Role(x, l)' = "reading"
           /\ x \in Calling(l, "write")' <=> Role(x, l)' \in {"writing", "queued"}
           /\ x \in Queued(l)' <=> Role(x, l)' = "queued"
           /\ x \in Patient(l)' <=> Waiting(x, l)'
<1>1. (IInv => \A x \in Threads :
           /\ Role(x, l) \in {"out", "read", "write"} \cup InCall
           /\ x \in HoldersOf(l, "read") <=> Role(x, l) = "read"
           /\ x \in HoldersOf(l, "write") <=> Role(x, l) = "write"
           /\ x \in Calling(l, "read") <=> Role(x, l) = "reading"
           /\ x \in Calling(l, "write") <=> Role(x, l) \in {"writing", "queued"}
           /\ x \in Queued(l) <=> Role(x, l) = "queued"
           /\ x \in Patient(l) <=> Waiting(x, l))'
  BY RoleForms, PTL
<1> QED
  BY <1>1

(* A set of threads that changes by one thread at most.                    *)
LEMMA ByOne ==
  ASSUME NEW S \in SUBSET Threads, NEW T \in SUBSET Threads, NEW t \in Threads,
         \A x \in Threads \ {t} : x \in S <=> x \in T
  PROVE  /\ t \in T => T = S \cup {t}
         /\ t \notin T => T = S \ {t}
         /\ (t \in S <=> t \in T) => T = S
  OBVIOUS

(* What a step may do with the role of its thread: come, get the lock when *)
(* it is free for it, queue or give up when it is not, and unlock.         *)
Free(l, o) == /\ HoldersOf(l, "write") = {}
              /\ IF o = "read" THEN Queued(l) = {} ELSE HoldersOf(l, "read") = {}

Moves(t, l) ==
    LET from == Role(t, l)
        to   == Role(t, l)' IN
    \/ from = to /\ (Waiting(t, l) <=> Waiting(t, l)')
    \/ from = "out" /\ to \in {"reading", "writing"}
    \/ from = "reading" /\ to = "read" /\ Free(l, "read")
    \/ from \in {"writing", "queued"} /\ to = "write" /\ Free(l, "write")
    \/ /\ from = "writing" /\ to = "queued" /\ ~Free(l, "write")
       /\ Waiting(t, l) <=> Waiting(t, l)'
    \/ from = "reading" /\ to = "out" /\ ~Free(l, "read") /\ ~Waiting(t, l)
    \/ from \in {"writing", "queued"} /\ to = "out" /\ ~Free(l, "write") /\ ~Waiting(t, l)
    \/ from \in {"read", "write"} /\ to = "out"

Others(t) == OnlyMoves(t) /\ \A x \in Threads \ {t} : timeout'[x] = timeout[x]

(* A step that moves the role of its thread in such a way is one of the    *)
(* abstract lock, or none.                                                 *)
LEMMA RoleStep ==
  ASSUME IInv, IInv', NEW t \in Threads, Others(t), NEW l \in Locks, Moves(t, l)
  PROVE  AbstractStep(l)
<1> DEFINE r == HoldersOf(l, "read")
           w == HoldersOf(l, "write")
           cr == Calling(l, "read")
           cw == Calling(l, "write")
           p == Patient(l)
           q == Queued(l)
           from == Role(t, l)
           to == Role(t, l)'
<1>1. \A x \in Threads \ {t} : Role(x, l)' = Role(x, l) /\ (Waiting(x, l)' <=> Waiting(x, l))
  BY DEF Role, Waiting, Others, OnlyMoves
<1>2. /\ r \in SUBSET Threads /\ w \in SUBSET Threads /\ cr \in SUBSET Threads
      /\ cw \in SUBSET Threads /\ p \in SUBSET Threads /\ q \in SUBSET Threads
  BY DEF HoldersOf, Calling, Patient, Queued
<1>3. /\ r' \in SUBSET Threads /\ w' \in SUBSET Threads /\ cr' \in SUBSET Threads
      /\ cw' \in SUBSET Threads /\ p' \in SUBSET Threads /\ q' \in SUBSET Threads
  BY DEF HoldersOf, Calling, Patient, Queued
<1>4. \A x \in Threads \ {t} : /\ x \in r <=> x \in r'
                               /\ x \in w <=> x \in w'
                               /\ x \in cr <=> x \in cr'
                               /\ x \in cw <=> x \in cw'
                               /\ x \in p <=> x \in p'
                               /\ x \in q <=> x \in q'
  BY <1>1, RoleForms, RolesThen
<1>5. /\ t \in r <=> from = "read"
      /\ t \in w <=> from = "write"
      /\ t \in cr <=> from = "reading"
      /\ t \in cw <=> from \in {"writing", "queued"}
      /\ t \in q <=> from = "queued"
      /\ t \in p <=> Waiting(t, l)
  BY RoleForms
<1>6. /\ t \in r' <=> to = "read"
      /\ t \in w' <=> to = "write"
      /\ t \in cr' <=> to = "reading"
      /\ t \in cw' <=> to \in {"writing", "queued"}
      /\ t \in q' <=> to = "queued"
      /\ t \in p' <=> Waiting(t, l)'
  BY RolesThen
<1>7. /\ Waiting(t, l) => from \in InCall
      /\ Waiting(t, l)' => to \in InCall
  BY DEF Waiting
<1>8. /\ (t \in r' => r' = r \cup {t}) /\ (t \notin r' => r' = r \ {t}) /\ ((t \in r <=> t \in r') => r' = r)
      /\ (t \in w' => w' = w \cup {t}) /\ (t \notin w' => w' = w \ {t}) /\ ((t \in w <=> t \in w') => w' = w)
      /\ (t \in cr' => cr' = cr \cup {t}) /\ (t \notin cr' => cr' = cr \ {t}) /\ ((t \in cr <=> t \in cr') => cr' = cr)
      /\ (t \in cw' => cw' = cw \cup {t}) /\ (t \notin cw' => cw' = cw \ {t}) /\ ((t \in cw <=> t \in cw') => cw' = cw)
      /\ (t \in p' => p' = p \cup {t}) /\ (t \notin p' => p' = p \ {t}) /\ ((t \in p <=> t \in p') => p' = p)
      /\ (t \in q' => q' = q \cup {t}) /\ (t \notin q' => q' = q \ {t}) /\ ((t \in q <=> t \in q') => q' = q)
  <2>1. (t \in r' => r' = r \cup {t}) /\ (t \notin r' => r' = r \ {t}) /\ ((t \in r <=> t \in r') => r' = r)
    <3> HIDE DEF r, w, cr, cw, p, q
    <3>1. r \in SUBSET Threads /\ r' \in SUBSET Threads
      BY <1>2, <1>3
    <3>2. \A x \in Threads \ {t} : x \in r <=> x \in r'
      BY <1>4
    <3> QED
      BY <3>1, <3>2, ByOne
  <2>2. (t \in w' => w' = w \cup {t}) /\ (t \notin w' => w' = w \ {t}) /\ ((t \in w <=> t \in w') => w' = w)
    <3> HIDE DEF r, w, cr, cw, p, q
    <3>1. w \in SUBSET Threads /\ w' \in SUBSET Threads
      BY <1>2, <1>3
    <3>2. \A x \in Threads \ {t} : x \in w <=> x \in w'
      BY <1>4
    <3> QED
      BY <3>1, <3>2, ByOne
  <2>3. (t \in cr' => cr' = cr \cup {t}) /\ (t \notin cr' => cr' = cr \ {t}) /\ ((t \in cr <=> t \in cr') => cr' = cr)
    <3> HIDE DEF r, w, cr, cw, p, q
    <3>1. cr \in SUBSET Threads /\ cr' \in SUBSET Threads
      BY <1>2, <1>3
    <3>2. \A x \in Threads \ {t} : x \in cr <=> x \in cr'
      BY <1>4
    <3> QED
      BY <3>1, <3>2, ByOne
  <2>4. (t \in cw' => cw' = cw \cup {t}) /\ (t \notin cw' => cw' = cw \ {t}) /\ ((t \in cw <=> t \in cw') => cw' = cw)
    <3> HIDE DEF r, w, cr, cw, p, q
    <3>1. cw \in SUBSET Threads /\ cw' \in SUBSET Threads
      BY <1>2, <1>3
    <3>2. \A x \in Threads \ {t} : x \in cw <=> x \in cw'
      BY <1>4
    <3> QED
      BY <3>1, <3>2, ByOne
  <2>5. (t \in p' => p' = p \cup {t}) /\ (t \notin p' => p' = p \ {t}) /\ ((t \in p <=> t \in p') => p' = p)
    <3> HIDE DEF r, w, cr, cw, p, q
    <3>1. p \in SUBSET Threads /\ p' \in SUBSET Threads
      BY <1>2, <1>3
    <3>2. \A x \in Threads \ {t} : x \in p <=> x \in p'
      BY <1>4
    <3> QED
      BY <3>1, <3>2, ByOne
  <2>6. (t \in q' => q' = q \cup {t}) /\ (t \notin q' => q' = q \ {t}) /\ ((t \in q <=> t \in q') => q' = q)
    <3> HIDE DEF r, w, cr, cw, p, q
    <3>1. q \in SUBSET Threads /\ q' \in SUBSET Threads
      BY <1>2, <1>3
    <3>2. \A x \in Threads \ {t} : x \in q <=> x \in q'
      BY <1>4
    <3> QED
      BY <3>1, <3>2, ByOne
  <2> QED
    BY <2>1, <2>2, <2>3, <2>4, <2>5, <2>6
<1>9. /\ Free(l, "read") <=> w = {} /\ q = {}
      /\ Free(l, "write") <=> w = {} /\ r = {}
  BY DEF Free
<1> HIDE DEF r, w, cr, cw, p, q, from, to
<1>10. CASE from = to /\ (Waiting(t, l) <=> Waiting(t, l)')
  <2>1. r' = r /\ w' = w /\ cr' = cr /\ cw' = cw /\ p' = p /\ q' = q
    BY <1>5, <1>6, <1>8, <1>10
  <2> QED
    BY <2>1 DEF AbstractStep, Unchanged, r, w, cr, cw, p, q
<1>11. CASE from = "out" /\ to \in {"reading", "writing"}
  <2>1. /\ t \notin r \cup w \cup cr \cup cw
        /\ r' = r /\ w' = w /\ q' = q
        /\ \/ cr' = cr \cup {t} /\ cw' = cw
           \/ cw' = cw \cup {t} /\ cr' = cr
        /\ p' \in {p, p \cup {t}}
    BY <1>5, <1>6, <1>7, <1>8, <1>11 DEF InCall
  <2>2. Abstract(l)!Begin(t)
    BY <2>1 DEF Abstract!Begin, Abstract!Outside, r, w, cr, cw, p, q
  <2> QED
    BY <2>2 DEF AbstractStep, Abstract!SpecNext
<1>12. CASE from = "reading" /\ to = "read" /\ Free(l, "read")
  <2>1. /\ t \in cr /\ w = {} /\ q = {}
        /\ r' = r \cup {t} /\ cr' = cr \ {t} /\ p' = p \ {t}
        /\ w' = w /\ cw' = cw /\ q' = q
    BY <1>5, <1>6, <1>7, <1>8, <1>9, <1>12 DEF InCall
  <2>2. Abstract(l)!LockForRead(t)
    BY <2>1 DEF Abstract!LockForRead, Abstract!FreeToRead, r, w, cr, cw, p, q
  <2> QED
    BY <2>2 DEF AbstractStep, Abstract!SpecNext
<1>13. CASE from \in {"writing", "queued"} /\ to = "write" /\ Free(l, "write")
  <2>1. /\ t \in cw /\ w = {} /\ r = {}
        /\ w' = w \cup {t} /\ cw' = cw \ {t} /\ p' = p \ {t} /\ q' = q \ {t}
        /\ r' = r /\ cr' = cr
    BY <1>5, <1>6, <1>7, <1>8, <1>9, <1>13 DEF InCall
  <2>2. w' = {t}
    BY <2>1
  <2>3. Abstract(l)!LockForWrite(t)
    BY <2>1, <2>2 DEF Abstract!LockForWrite, Abstract!FreeToWrite, r, w, cr, cw, p, q
  <2> QED
    BY <2>3 DEF AbstractStep, Abstract!SpecNext
<1>14. CASE /\ from = "writing" /\ to = "queued" /\ ~Free(l, "write")
            /\ Waiting(t, l) <=> Waiting(t, l)'
  <2>1. /\ t \in cw /\ ~(r = {} /\ w = {})
        /\ q' = q \cup {t}
        /\ r' = r /\ w' = w /\ cr' = cr /\ cw' = cw /\ p' = p
    BY <1>5, <1>6, <1>8, <1>9, <1>14
  <2>2. Abstract(l)!Queue(t)
    BY <2>1 DEF Abstract!Queue, Abstract!FreeToWrite, r, w, cr, cw, p, q
  <2> QED
    BY <2>2 DEF AbstractStep, Abstract!SpecNext
<1>15. CASE /\ to = "out" /\ ~Waiting(t, l)
            /\ \/ from = "reading" /\ ~Free(l, "read")
               \/ from \in {"writing", "queued"} /\ ~Free(l, "write")
  <2>1. /\ \/ t \in cr /\ ~(w = {} /\ q = {})
           \/ t \in cw /\ ~(r = {} /\ w = {})
        /\ t \notin p
        /\ cr' = cr \ {t} /\ cw' = cw \ {t} /\ q' = q \ {t}
        /\ r' = r /\ w' = w /\ p' = p
    BY <1>5, <1>6, <1>7, <1>8, <1>9, <1>15 DEF InCall
  <2>2. Abstract(l)!GiveUp(t)
    BY <2>1 DEF Abstract!GiveUp, Abstract!FreeToRead, Abstract!FreeToWrite, r, w, cr, cw, p, q
  <2> QED
    BY <2>2 DEF AbstractStep, Abstract!SpecNext
<1>16. CASE from \in {"read", "write"} /\ to = "out"
  <2>1. /\ t \in r \cup w /\ r' = r \ {t} /\ w' = w \ {t}
        /\ cr' = cr /\ cw' = cw /\ p' = p /\ q' = q
    BY <1>5, <1>6, <1>7, <1>8, <1>16 DEF InCall
  <2>2. Abstract(l)!Unlock(t)
    BY <2>1 DEF Abstract!Unlock, r, w, cr, cw, p, q
  <2> QED
    BY <2>2 DEF AbstractStep, Abstract!SpecNext
<1> QED
  BY <1>10, <1>11, <1>12, <1>13, <1>14, <1>15, <1>16 DEF Moves, from, to

(* Whether the word and the counters of the private tell the truth.        *)
LEMMA QueueIsCounted ==
  ASSUME IInv, NEW l \in Locks
  PROVE  /\ dptr[l].state # "private" => Queued(l) = {}
         /\ \A p \in Privates : dptr[l] = Pointer(p) => Queued(l) = Waiters(p, "write")
<1>1. \A x \in Queued(l) : x \in Threads /\ pc[x] \in {"asleep", "awake"} /\ lock[x] = l /\ op[x] = "write"
  BY DEF Queued, Calling
<1>2. ASSUME dptr[l].state # "private" PROVE Queued(l) = {}
  BY <1>1, <1>2, WaiterPlace
<1>3. ASSUME NEW p \in Privates, dptr[l] = Pointer(p) PROVE Queued(l) = Waiters(p, "write")
  <2>1. ASSUME NEW x \in Threads, pc[x] \in {"asleep", "awake"}
        PROVE  lock[x] = l <=> d[x] = p
    BY <1>3, <2>1, WaiterPlace, PrivateShared DEF Pointer
  <2> QED
    BY <2>1 DEF Queued, Calling, Waiters
<1> QED
  BY <1>2, <1>3

LEMMA WordIsTrue ==
  ASSUME IInv, NEW l \in Locks, NEW o \in Ops, dptr[l].state # "private"
  PROVE  (dptr[l] = Unlocked \/ (dptr[l].state = "read" /\ o = "read")) <=> Free(l, o)
<1>1. CountsAt(l) /\ Queued(l) = {}
  BY CountsNow, QueueIsCounted DEF IInv
<1>2. dptr[l] = Unlocked \/ dptr[l] = LockedWrite
      \/ (dptr[l].state = "read" /\ dptr[l].readers \in Nat \ {0} /\ dptr[l] # LockedWrite)
  <2>1. CASE \E n \in 1..Cardinality(Threads) : dptr[l] = LockedRead(n)
    <3>1. PICK n \in 1..Cardinality(Threads) : dptr[l] = LockedRead(n)
      BY <2>1
    <3>2. n \in Nat \ {0}
      <4>1. Cardinality(Threads) \in Nat
        BY FiniteThreads, FS_CardinalityType
      <4> QED
        BY <4>1
    <3> QED
      BY <3>1, <3>2 DEF LockedRead, LockedWrite
  <2>2. CASE \E p \in Privates : dptr[l] = Pointer(p)
    BY <2>2 DEF Pointer
  <2> QED
    BY <2>1, <2>2 DEF IInv, TypeOK
<1>3. /\ H(l, "read") = dptr[l].readers
      /\ (dptr[l] = LockedWrite) = (H(l, "write") = 1)
  BY <1>1 DEF CountsAt
<1>4. H(l, "write") \in {0, 1}
  BY OneWriter
<1>5. /\ H(l, "read") = 0 <=> HoldersOf(l, "read") = {}
      /\ H(l, "write") = 0 <=> HoldersOf(l, "write") = {}
  BY Finite
<1>6. CASE dptr[l] = Unlocked
  <2>1. H(l, "read") = 0 /\ H(l, "write") = 0
    BY <1>3, <1>4, <1>6 DEF Unlocked, LockedWrite
  <2> QED
    BY <1>1, <1>5, <1>6, <2>1 DEF Free
<1>7. CASE dptr[l] = LockedWrite
  <2>1. H(l, "write") = 1 /\ dptr[l] # Unlocked /\ dptr[l].state # "read"
    BY <1>3, <1>7 DEF Unlocked, LockedWrite
  <2> QED
    BY <1>5, <2>1 DEF Free
<1>8. CASE dptr[l].state = "read" /\ dptr[l].readers \in Nat \ {0} /\ dptr[l] # LockedWrite
  <2>1. H(l, "write") = 0 /\ H(l, "read") # 0 /\ dptr[l] # Unlocked
    BY <1>3, <1>4, <1>8 DEF Unlocked
  <2> QED
    BY <1>1, <1>5, <1>8, <2>1 DEF Free, Ops
<1> QED
  BY <1>2, <1>6, <1>7, <1>8

LEMMA BlockedIsTrue ==
  ASSUME IInv, NEW t, NEW l, NEW p, NEW q, AtPrivate(t, l, p, q)
  PROVE  Blocked(q, op[t]) <=> ~Free(l, op[t])
<1>1. /\ t \in Threads /\ l \in Locks /\ p \in Privates /\ op[t] \in Ops /\ dptr[l] = Pointer(p)
      /\ q.readers = H(l, "read") /\ q.writers = H(l, "write") /\ q.waitingWriters = Rest(t, p, "write")
  BY DEF AtPrivate, IInv, TypeOK
<1>2. /\ H(l, "read") \in Nat /\ (H(l, "read") = 0 <=> HoldersOf(l, "read") = {})
      /\ H(l, "write") \in Nat /\ (H(l, "write") = 0 <=> HoldersOf(l, "write") = {})
      /\ W(p, "write") \in Nat /\ (W(p, "write") = 0 <=> Waiters(p, "write") = {})
  BY Finite
<1>3. CASE op[t] = "read"
  <2>1. Rest(t, p, "write") = W(p, "write") /\ Queued(l) = Waiters(p, "write")
    BY <1>1, <1>3, QueueIsCounted DEF Rest, Waits
  <2> QED
    BY <1>1, <1>2, <1>3, <2>1 DEF Blocked, Free
<1>4. CASE op[t] = "write"
  BY <1>1, <1>2, <1>4 DEF Blocked, Free
<1> QED
  BY <1>1, <1>3, <1>4 DEF Ops

(* Locks that a call is not about.                                         *)
LEMMA Elsewhere ==
  ASSUME NEW t \in Threads, NEW l \in Locks,
         lock[t] # l \/ pc[t] = "idle", lock'[t] # l \/ pc'[t] = "idle"
  PROVE  Moves(t, l)
  BY DEF Moves, Role, Waiting, InCall

(* Steps inside a call that neither get the lock nor end it.               *)
LEMMA StaysInCall ==
  ASSUME NEW t \in Threads, NEW l \in Locks, lock'[t] = lock[t], op'[t] = op[t],
         timeout'[t] = "forever" <=> timeout[t] = "forever",
         \/ pc'[t] = pc[t]
         \/ {pc[t], pc'[t]} \subseteq {"attempt", "install", "enter"}
         \/ {pc[t], pc'[t]} \subseteq {"asleep", "awake"}
  PROVE  Moves(t, l)
<1>1. Role(t, l)' = Role(t, l)
  BY DEF Role
<1> QED
  BY <1>1 DEF Moves, Waiting

LEMMA CallMoves ==
  ASSUME IInv, NEW t \in Threads, NEW l \in Locks,
         NEW o \in Ops, NEW m \in Locks, NEW w \in Patience, Call(t, o, m, w)
  PROVE  Others(t) /\ Moves(t, l)
<1>1. /\ pc[t] = "idle" /\ pc'[t] = "attempt" /\ lock'[t] = m /\ op'[t] = o
      /\ Others(t)
  BY DEF Call, Goto, IInv, TypeOK, Others, OnlyMoves
<1>2. Role(t, l) = "out" /\ Role(t, l)' \in {"out", "reading", "writing"}
  BY <1>1 DEF Role
<1>3. Role(t, l)' = "out" => Moves(t, l)
  BY <1>2 DEF Moves, Waiting, InCall
<1> QED
  BY <1>1, <1>2, <1>3 DEF Moves

LEMMA KernelMoves ==
  ASSUME IInv, NEW t \in Threads, NEW l \in Locks,
         \/ Expire(t) \/ CondTimeout(t) \/ SpuriousWake(t) \/ Install(t)
         \/ Enter(t) /\ dptr[lock[t]] # Pointer(d[t])
  PROVE  Others(t) /\ Moves(t, l)
<1>1. CASE Expire(t)
  <2>1. /\ Others(t) /\ UNCHANGED <<pc, op, lock>>
        /\ timeout[t] = "timed" /\ timeout'[t] = "expired"
    BY <1>1 DEF Expire, IInv, TypeOK, Others, OnlyMoves
  <2> QED
    BY <2>1, StaysInCall
<1>2. CASE CondTimeout(t) \/ SpuriousWake(t)
  <2>1. /\ Others(t) /\ UNCHANGED <<op, lock, timeout>>
        /\ pc[t] = "asleep" /\ pc'[t] = "awake"
    BY <1>2 DEF CondTimeout, SpuriousWake, Goto, IInv, TypeOK, Others, OnlyMoves
  <2> QED
    BY <2>1, StaysInCall
<1>3. CASE Install(t) \/ (Enter(t) /\ dptr[lock[t]] # Pointer(d[t]))
  <2>1. /\ Others(t) /\ UNCHANGED <<op, lock, timeout>>
        /\ pc[t] \in {"install", "enter"} /\ pc'[t] \in {"attempt", "enter"}
    BY <1>3 DEF Install, Enter, Goto, IInv, TypeOK, Others, OnlyMoves
  <2> QED
    BY <2>1, StaysInCall
<1> QED
  BY <1>1, <1>2, <1>3

(* A call returns: with the lock, or without.                              *)
LEMMA SucceedMoves ==
  ASSUME IInv, NEW t \in Threads, NEW l \in Locks,
         pc[t] \in {"attempt", "enter", "awake"}, Free(lock[t], op[t]), Succeed(t)
  PROVE  Others(t) /\ Moves(t, l)
<1>1. /\ Others(t) /\ pc'[t] = "held" /\ UNCHANGED <<op, lock>> /\ op[t] \in Ops
  BY DEF Succeed, Goto, IInv, TypeOK, Others, OnlyMoves
<1>2. CASE lock[t] # l
  BY <1>1, <1>2, Elsewhere
<1>3. CASE lock[t] = l
  <2>1. /\ Role(t, l)' = op[t]
        /\ op[t] = "read" => Role(t, l) = "reading"
        /\ op[t] = "write" => Role(t, l) \in {"writing", "queued"}
    BY <1>1, <1>3 DEF Role, Ops
  <2> QED
    BY <1>1, <1>3, <2>1 DEF Moves, Ops
<1> QED
  BY <1>2, <1>3

LEMMA FailMoves ==
  ASSUME IInv, NEW t \in Threads, NEW l \in Locks, Others(t), pc'[t] = "idle",
         pc[t] \in {"attempt", "enter", "awake"}, ~Free(lock[t], op[t]), timeout[t] = "expired"
  PROVE  Moves(t, l)
<1>1. CASE lock[t] # l
  BY <1>1, Elsewhere
<1>2. CASE lock[t] = l
  <2>1. /\ Role(t, l)' = "out" /\ ~Waiting(t, l) /\ op[t] \in Ops
        /\ op[t] = "read" => Role(t, l) = "reading"
        /\ op[t] = "write" => Role(t, l) \in {"writing", "queued"}
    BY <1>2 DEF Role, Waiting, Ops, IInv, TypeOK
  <2> QED
    BY <1>2, <2>1 DEF Moves, Ops
<1> QED
  BY <1>1, <1>2

LEMMA AttemptMoves ==
  ASSUME IInv, NEW t \in Threads, NEW l \in Locks, Attempt(t)
  PROVE  Others(t) /\ Moves(t, l)
<1>1. pc[t] = "attempt" /\ lock[t] \in Locks /\ op[t] \in Ops
  BY DEF Attempt, IInv, PlacesFit, TypeOK
<1>2. CASE Succeed(t) /\ dptr[lock[t]].state # "private"
           /\ (dptr[lock[t]] = Unlocked \/ (dptr[lock[t]].state = "read" /\ op[t] = "read"))
  BY <1>1, <1>2, WordIsTrue, SucceedMoves
<1>3. CASE Leave(t) /\ dptr[lock[t]].state # "private" /\ timeout[t] = "expired"
           /\ ~(dptr[lock[t]] = Unlocked \/ (dptr[lock[t]].state = "read" /\ op[t] = "read"))
  <2>1. Others(t) /\ pc'[t] = "idle"
    BY <1>3 DEF Leave, Goto, IInv, TypeOK, Others, OnlyMoves
  <2> QED
    BY <1>1, <1>3, <2>1, WordIsTrue, FailMoves
<1>4. CASE (Goto(t, "install") \/ Goto(t, "enter")) /\ Attempt(t)
  <2>1. /\ Others(t) /\ UNCHANGED <<op, lock, timeout>>
        /\ pc'[t] \in {"install", "enter"}
    BY <1>1, <1>4 DEF Attempt, Succeed, Leave, Goto, IInv, TypeOK, Others, OnlyMoves
  <2> QED
    BY <1>1, <2>1, StaysInCall
<1> QED
  BY <1>2, <1>3, <1>4 DEF Attempt, Unlocked

LEMMA PrivateMoves ==
  ASSUME IInv, NEW t, NEW k, NEW p, NEW q, AtPrivate(t, k, p, q), LockPrivate(t, q), NEW l \in Locks
  PROVE  Others(t) /\ Moves(t, l)
<1>1. /\ t \in Threads /\ k \in Locks /\ lock[t] = k /\ pc[t] \in {"enter", "awake"} /\ op[t] \in Ops
      /\ Blocked(q, op[t]) <=> ~Free(lock[t], op[t])
  BY BlockedIsTrue DEF AtPrivate, IInv, TypeOK
<1>2. CASE ~Blocked(q, op[t]) /\ Succeed(t)
  BY <1>1, <1>2, SucceedMoves
<1>3. CASE Blocked(q, op[t]) /\ timeout[t] = "expired" /\ LockPrivate(t, q)
  <2>1. Others(t) /\ pc'[t] = "idle"
    BY <1>1, <1>3 DEF LockPrivate, LetGo, Asleep, IInv, TypeOK, Others, OnlyMoves
  <2> QED
    BY <1>1, <1>3, <2>1, FailMoves
<1>4. CASE Blocked(q, op[t]) /\ timeout[t] # "expired" /\ Goto(t, "asleep")
           /\ UNCHANGED <<op, lock, timeout, seen, d>>
  <2>1. Others(t) /\ pc'[t] = "asleep"
    BY <1>1, <1>4 DEF Goto, IInv, TypeOK, Others, OnlyMoves
  <2>2. CASE lock[t] # l
    <3>1. lock'[t] # l
      BY <1>4, <2>2
    <3> QED
      BY <1>1, <2>1, <2>2, <3>1, Elsewhere
  <2>3. CASE lock[t] = l
    <3>1. /\ op[t] = "read" => Role(t, l) = "reading" /\ Role(t, l)' = "reading"
          /\ op[t] = "write" => Role(t, l) \in {"writing", "queued"} /\ Role(t, l)' = "queued"
      BY <1>1, <1>4, <2>1, <2>3 DEF Role
    <3>2. Waiting(t, l) <=> Waiting(t, l)'
      BY <1>1, <1>4, <3>1 DEF Waiting, InCall, Ops
    <3> QED
      <4>1. op[t] = "write" => ~Free(l, "write")
        BY <1>1, <1>4, <2>3
      <4>2. CASE op[t] = "read"
        BY <2>1, <3>1, <3>2, <4>2 DEF Moves
      <4>3. CASE op[t] = "write"
        BY <2>1, <3>1, <3>2, <4>1, <4>3 DEF Moves
      <4> QED
        BY <1>1, <4>2, <4>3 DEF Ops
  <2> QED
    BY <2>1, <2>2, <2>3
<1> QED
  BY <1>2, <1>3, <1>4 DEF LockPrivate

LEMMA UnlockMoves ==
  ASSUME IInv, NEW t \in Threads, NEW l \in Locks, UnlockUncontended(t) \/ UnlockContended(t)
  PROVE  Others(t) /\ Moves(t, l)
<1>1. pc[t] = "held" /\ op[t] \in Ops
  BY DEF UnlockUncontended, UnlockContended, IInv, TypeOK
<1>2. pc'[t] = "idle" /\ Others(t)
  <2>1. CASE UnlockUncontended(t)
    BY <2>1 DEF UnlockUncontended, Leave, Goto, IInv, TypeOK, Others, OnlyMoves
  <2>2. CASE UnlockContended(t)
    <3>1. \A p, q, s : Wakes(p, q, s) => \A x \in s : pc[x] = "asleep"
      BY DEF Wakes, Asleep
    <3> QED
      <4> DEFINE p == dptr[lock[t]].private
                 q == IF priv[p].writers > 0 THEN [priv[p] EXCEPT !.writers = 0]
                                             ELSE [priv[p] EXCEPT !.readers = @ - 1]
                 waiters == q.waitingReaders + q.waitingWriters > 0
      <4>1. PICK s \in SUBSET Threads :
              /\ IF q.readers = 0 /\ waiters THEN Wakes(p, q, s) ELSE s = {}
              /\ pc' = [x \in Threads |-> IF x = t THEN "idle"
                                         ELSE IF x \in s THEN "awake" ELSE pc[x]]
        BY <2>2 DEF UnlockContended
      <4> HIDE DEF p, q, waiters
      <4>2. \A x \in s : pc[x] = "asleep"
        BY <3>1, <4>1
      <4> QED
        BY <2>2, <4>1, <4>2 DEF UnlockContended, IInv, TypeOK, Others, OnlyMoves
  <2> QED
    BY <2>1, <2>2
<1>3. /\ Role(t, l)' = "out" /\ Role(t, l) \in {"out", "read", "write"}
      /\ ~Waiting(t, l) /\ ~Waiting(t, l)'
  BY <1>1, <1>2 DEF Role, Waiting, InCall, Ops
<1> QED
  BY <1>2, <1>3 DEF Moves

LEMMA InitRefines == Init => \A l \in Locks : Abstract(l)!SpecInit
<1> SUFFICES ASSUME Init, NEW l \in Locks PROVE Abstract(l)!SpecInit
  OBVIOUS
<1>1. \A o : HoldersOf(l, o) = {} /\ Calling(l, o) = {}
  BY DEF Init, HoldersOf, Calling
<1>2. Patient(l) = {} /\ Queued(l) = {}
  BY <1>1 DEF Init, Patient, Queued
<1> QED
  BY <1>1, <1>2 DEF Abstract!SpecInit

LEMMA StepRefines == IInv /\ IInv' /\ [Next]_vars => [\A l \in Locks : AbstractStep(l)]_vars
<1> SUFFICES ASSUME IInv, IInv', Next, NEW l \in Locks PROVE AbstractStep(l)
  OBVIOUS
<1>1. PICK t \in Threads :
        \/ \E o \in Ops, m \in Locks, w \in Patience : Call(t, o, m, w)
        \/ Internal(t) \/ Expire(t) \/ CondTimeout(t) \/ SpuriousWake(t)
        \/ UnlockUncontended(t) \/ UnlockContended(t)
  BY DEF Next
<1>2. CASE Enter(t) /\ dptr[lock[t]] = Pointer(d[t])
  <2>1. Others(t) /\ Moves(t, l)
    BY <1>2, AtEnter, PrivateMoves DEF Enter
  <2> QED
    BY <2>1, RoleStep
<1>3. CASE Resume(t)
  <2>1. Others(t) /\ Moves(t, l)
    BY <1>3, AtResume, PrivateMoves DEF Resume
  <2> QED
    BY <2>1, RoleStep
<1>4. CASE ~Resume(t) /\ ~(Enter(t) /\ dptr[lock[t]] = Pointer(d[t]))
  <2>1. Others(t) /\ Moves(t, l)
    BY <1>1, <1>4, CallMoves, KernelMoves, AttemptMoves, UnlockMoves DEF Internal
  <2> QED
    BY <2>1, RoleStep
<1> QED
  BY <1>2, <1>3, <1>4

(* Every lock on top of the shared privates implements the abstract one:   *)
(* a call for reading gets in when no writer holds the lock or queues, one *)
(* for writing when nobody holds it, whatever path it takes; and a call    *)
(* whose deadline has passed fails only when it could not get the lock.    *)
THEOREM Refinement == Spec => ImplementsRWLockSpec
<1>1. Init => \A l \in Locks : Abstract(l)!SpecInit
  BY InitRefines
<1>2. IInv /\ IInv' /\ [Next]_vars => [\A l \in Locks : AbstractStep(l)]_vars
  BY StepRefines
<1> HIDE DEF IInv, Init, Next, vars, AbstractStep
<1>3. Spec => (\A l \in Locks : Abstract(l)!SpecInit) /\ [][\A l \in Locks : AbstractStep(l)]_vars
  BY <1>1, <1>2, LockInvariant, PTL DEF Spec
<1> QED
  BY <1>3 DEF ImplementsRWLockSpec, AbstractStep
==============================================================================
