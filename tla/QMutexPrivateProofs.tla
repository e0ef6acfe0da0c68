------------------------- MODULE QMutexPrivateProofs -------------------------
(***************************************************************************)
(* What QMutex with privates guarantees for any number of threads, mutexes *)
(* and QMutexPrivate objects: waiters, owners and unlock() calls under way *)
(* keep a private from moving to another mutex, and only they.             *)
(***************************************************************************)
EXTENDS QMutexPrivate, FiniteSetTheorems, TLAPS

Counted   == {"recheck2", "wait", "timedout", "won", "leave"}
Referring == (Entering \ {"ref"}) \cup {"dropHeld"} \cup Leaving
Ending    == {"clear", "unflag", "unmark"}

C(p) == {t \in Threads : call[t].d = p /\ pc[t] \in Counted}
R(p) == {t \in Threads : call[t].d = p /\ pc[t] \in Referring}

Owned(m) == \E t \in Threads : call[t].lock = m /\ pc[t] \in Owning
Installed(p) == \E m \in Locks : dptr[m] = p

PlacesFit ==
    \A t \in Threads :
      /\ pc[t] # "idle" => call[t].lock \in Locks
      /\ IF pc[t] \in {"idle", "retry", "allocate", "held"}
         THEN call[t].d = NoPrivate ELSE call[t].d \in Privates
      /\ pc[t] \in Entering => call[t].kind \in {"lock", "timed"}
      /\ pc[t] \in {"timedout", "flag"} => call[t].kind = "timed"

(* One owner, with whom no token is left.                                  *)
Exclusive ==
    /\ \A t, x \in Threads :
         pc[t] \in Owning /\ pc[x] \in Owning /\ call[t].lock = call[x].lock => t = x
    /\ \A t \in Threads : pc[t] \in Owning =>
         /\ dptr[call[t].lock] # Unlocked
         /\ dptr[call[t].lock] \in Privates => tokens[dptr[call[t].lock]] = 0
         /\ pc[t] \in {"won", "leave", "mark", "pass", "post"} => dptr[call[t].lock] = call[t].d

(* What the word of a mutex stands for.                                    *)
WordStands ==
    \A m \in Locks :
      /\ dptr[m] = DummyLocked => Owned(m)
      /\ dptr[m] \in Privates =>
           /\ \A k \in Locks : dptr[k] = dptr[m] => k = m
           /\ \/ Owned(m)
              \/ tokens[dptr[m]] = 1
              \/ \E t \in Threads : pc[t] = "clear" /\ call[t].d = dptr[m]

(* A private on its way into d_ptr has no users but the ones mistaken.     *)
PendingIsOwn ==
    \A t \in Threads : pc[t] = "install" =>
      /\ ~Installed(call[t].d)
      /\ \A x \in Threads \ {t} : call[x].d = call[t].d => pc[x] \in {"ref", "recheck", "dropRetry"}

(* Who has a reference, and has looked again, cannot see its private       *)
(* move to another mutex.                                                  *)
PrivateStays ==
    \A t \in Threads :
      /\ pc[t] \in {"count", "takeover", "recheck2", "flag", "clear"} =>
           \A m \in Locks : dptr[m] = call[t].d => m = call[t].lock
      /\ pc[t] \in {"wait", "timedout"} => dptr[call[t].lock] = call[t].d
      /\ pc[t] \in {"dropHeld", "unflag", "unmark"} => ~Installed(call[t].d)

(* The mark of an unlock() that is under way.                              *)
MarkFits ==
    \A p \in Privates :
      waiters[p] < 0 => \E t \in Threads : call[t].d = p /\ pc[t] \in Ending \cup {"pass"}

PassMeetsWaiters ==
    \A t \in Threads : pc[t] = "pass" => waiters[call[t].d] # -BigNumber

EndingIsAlone ==
    \A t \in Threads : pc[t] \in Ending =>
      /\ waiters[call[t].d] = -BigNumber /\ C(call[t].d) = {}
      /\ \A x \in Threads : pc[x] \in Ending /\ call[x].d = call[t].d => x = t
      /\ pc[t] = "clear" /\ dptr[call[t].lock] = call[t].d =>
           ~Owned(call[t].lock) /\ tokens[call[t].d] = 0

TakeoverMeetsUnlock ==
    \A t \in Threads : pc[t] = "takeover" /\ dptr[call[t].lock] = call[t].d =>
      \E x \in Threads : pc[x] = "clear" /\ call[x].d = call[t].d

(* Somebody, or the flag, keeps the private alive for the token.           *)
Kept(p) == \/ possiblyUnlocked[p]
           \/ \E t \in Threads : call[t].d = p /\ pc[t] \in {"recheck2", "wait", "timedout", "flag"}

TokenIsKept ==
    /\ \A p \in Privates : tokens[p] > 0 => Installed(p) /\ Kept(p)
    /\ \A t \in Threads : pc[t] \in {"pass", "post"} => Kept(call[t].d)

NR(p)      == Cardinality(R(p))
NC(p)      == Cardinality(C(p))
Own(p)     == IF \E t \in Threads : pc[t] \in Owning /\ dptr[call[t].lock] = p THEN 1 ELSE 0
Flagged(p) == IF possiblyUnlocked[p] THEN 1 ELSE 0

(* The two counters, in terms of single threads.                           *)
RefsFit    == \A p \in Privates : refCount[p] = (NR(p) + Own(p)) + Flagged(p)
WaitersFit == \A p \in Privates : waiters[p] \in {NC(p), NC(p) - BigNumber}

(* Nothing of this is inductive alone: the counts are exact because who    *)
(* refers to a private is known, the private stays because the counts are  *)
(* exact, and a waiter is right about its mutex because the private stays. *)
IInv == /\ TypeOK /\ PlacesFit /\ Exclusive /\ WordStands /\ PendingIsOwn /\ PrivateStays
        /\ MarkFits /\ PassMeetsWaiters /\ EndingIsAlone /\ TakeoverMeetsUnlock /\ TokenIsKept
        /\ RefsFit /\ WaitersFit

-----------------------------------------------------------------------------
(* Every step moves a single thread.                                       *)
OnlyMoves(t) == \A x \in Threads \ {t} : pc'[x] = pc[x] /\ call'[x] = call[x]

LEMMA CardinalityStep ==
  ASSUME NEW S, NEW T, NEW t, IsFiniteSet(S), T = S \cup {t} \/ T = S \ {t}
  PROVE  /\ (t \in S <=> t \in T) => Cardinality(T) = Cardinality(S)
         /\ t \in S /\ t \notin T => Cardinality(T) = Cardinality(S) - 1
         /\ t \notin S /\ t \in T => Cardinality(T) = Cardinality(S) + 1
<1>1. CASE T = S \cup {t}
  BY <1>1, FS_AddElement
<1>2. CASE T = S \ {t}
  BY <1>2, FS_RemoveElement
<1> QED
  BY <1>1, <1>2

LEMMA Finite ==
  ASSUME NEW p
  PROVE  /\ IsFiniteSet(R(p)) /\ NR(p) \in Nat /\ (NR(p) = 0 <=> R(p) = {})
         /\ IsFiniteSet(C(p)) /\ NC(p) \in Nat /\ (NC(p) = 0 <=> C(p) = {})
         /\ NC(p) < BigNumber /\ BigNumber \in Nat
<1>1. R(p) \subseteq Threads /\ C(p) \subseteq Threads
  BY DEF R, C
<1>2. /\ IsFiniteSet(R(p)) /\ IsFiniteSet(C(p))
      /\ Cardinality(C(p)) <= Cardinality(Threads)
  BY <1>1, BigNumberAssumption, FS_Subset
<1>3. Cardinality(R(p)) \in Nat /\ Cardinality(C(p)) \in Nat /\ Cardinality(Threads) \in Nat
  BY <1>2, BigNumberAssumption, FS_CardinalityType
<1>4. (Cardinality(R(p)) = 0 <=> R(p) = {}) /\ (Cardinality(C(p)) = 0 <=> C(p) = {})
  BY <1>2, FS_EmptySet
<1> QED
  BY <1>2, <1>3, <1>4, BigNumberAssumption DEF NR, NC

Refers(t, p) == call[t].d = p /\ pc[t] \in Referring
Counts(t, p) == call[t].d = p /\ pc[t] \in Counted

(* How a step changes the two numbers: by its own thread's part in them.   *)
LEMMA Recount ==
  ASSUME NEW t \in Threads, OnlyMoves(t), NEW p
  PROVE  /\ (Refers(t, p) <=> Refers(t, p)') => NR(p)' = NR(p)
         /\ Refers(t, p) /\ ~Refers(t, p)' => NR(p)' = NR(p) - 1
         /\ ~Refers(t, p) /\ Refers(t, p)' => NR(p)' = NR(p) + 1
         /\ (Counts(t, p) <=> Counts(t, p)') => NC(p)' = NC(p)
         /\ Counts(t, p) /\ ~Counts(t, p)' => NC(p)' = NC(p) - 1
         /\ ~Counts(t, p) /\ Counts(t, p)' => NC(p)' = NC(p) + 1
<1>1. /\ R(p)' = R(p) \cup {t} \/ R(p)' = R(p) \ {t}
      /\ t \in R(p) <=> Refers(t, p)
      /\ t \in R(p)' <=> Refers(t, p)'
  BY DEF R, Refers, OnlyMoves
<1>2. /\ C(p)' = C(p) \cup {t} \/ C(p)' = C(p) \ {t}
      /\ t \in C(p) <=> Counts(t, p)
      /\ t \in C(p)' <=> Counts(t, p)'
  BY DEF C, Counts, OnlyMoves
<1>3. IsFiniteSet(R(p)) /\ IsFiniteSet(C(p))
  BY Finite
<1> HIDE DEF R, C, Refers, Counts
<1>4. /\ (Refers(t, p) <=> Refers(t, p)') => NR(p)' = NR(p)
      /\ Refers(t, p) /\ ~Refers(t, p)' => NR(p)' = NR(p) - 1
      /\ ~Refers(t, p) /\ Refers(t, p)' => NR(p)' = NR(p) + 1
  BY <1>1, <1>3, CardinalityStep DEF NR
<1>5. /\ (Counts(t, p) <=> Counts(t, p)') => NC(p)' = NC(p)
      /\ Counts(t, p) /\ ~Counts(t, p)' => NC(p)' = NC(p) - 1
      /\ ~Counts(t, p) /\ Counts(t, p)' => NC(p)' = NC(p) + 1
  BY <1>2, <1>3, CardinalityStep DEF NC
<1> QED
  BY <1>4, <1>5

-----------------------------------------------------------------------------
(* What the invariant says of the places that free, pass on or hand out a  *)
(* private: the step lemmas rest on these.                                 *)
Usable(p) == /\ ~Installed(p) /\ waiters[p] = 0 /\ tokens[p] = 0
             /\ \A x \in Threads : call[x].d = p => pc[x] = "ref"

LEMMA FlaggedNat == ASSUME NEW p PROVE Flagged(p) \in {0, 1} /\ Own(p) \in {0, 1}
  BY DEF Flagged, Own

(* Only threads whose pointer is out of date point to a free private.      *)
LEMMA UnreferredIsUsable ==
  ASSUME IInv, NEW p \in Privates, R(p) = {}, Own(p) = 0,
         ~possiblyUnlocked[p] \/ (~Installed(p) /\ \A x \in Threads : call[x].d # p)
  PROVE  Usable(p)
<1> USE DEF Entering, Owning, Leaving, Referring, Ending, Counted
<1>1. TypeOK /\ PlacesFit /\ Exclusive /\ WordStands /\ TokenIsKept /\ MarkFits /\ WaitersFit /\ PrivateStays
  BY DEF IInv
<1>2. \A x \in Threads : call[x].d = p => pc[x] \notin Referring
  BY DEF R
<1>3. \A x \in Threads : pc[x] \in Owning => dptr[call[x].lock] # p
  BY DEF Own
<1>4. \A x \in Threads : call[x].d = p => pc[x] = "ref"
  BY <1>1, <1>2, <1>3, NoPrivateAssumption DEF TypeOK, PlacesFit, Exclusive
<1>5. ~Kept(p) \/ ~Installed(p)
  BY <1>4 DEF Kept
<1>6. tokens[p] = 0
  BY <1>1, <1>5 DEF TypeOK, TokenIsKept
<1>7. ~Installed(p)
  BY <1>1, <1>3, <1>4, <1>6 DEF WordStands, Installed, Owned
<1>8. NC(p) = 0
  BY <1>4, Finite DEF C
<1>9. ~(waiters[p] < 0)
  BY <1>1, <1>4 DEF MarkFits
<1>10. waiters[p] = 0
  BY <1>1, <1>8, <1>9, Finite DEF WaitersFit, TypeOK
<1> QED
  BY <1>4, <1>6, <1>7, <1>10 DEF Usable

LEMMA FreeIsUsable ==
  ASSUME IInv, NEW p \in Privates, refCount[p] = 0
  PROVE  Usable(p) /\ ~possiblyUnlocked[p] /\ R(p) = {} /\ Own(p) = 0
<1>1. refCount[p] = (NR(p) + Own(p)) + Flagged(p)
  BY DEF IInv, RefsFit
<1>2. NR(p) \in Nat /\ Own(p) \in {0, 1} /\ Flagged(p) \in {0, 1}
  BY Finite, FlaggedNat
<1>3. NR(p) = 0 /\ Own(p) = 0 /\ Flagged(p) = 0
  BY <1>1, <1>2
<1>4. R(p) = {} /\ ~possiblyUnlocked[p]
  BY <1>3, Finite DEF Flagged
<1> QED
  BY <1>3, <1>4, UnreferredIsUsable

LEMMA LostIsUsable ==
  ASSUME IInv, NEW p \in Privates, Lost(p)
  PROVE  Usable(p) /\ R(p) = {} /\ Own(p) = 0
<1>1. R(p) = {} /\ (\A x \in Threads : call[x].d # p) /\ ~Installed(p)
  BY DEF Lost, R, Installed
<1>2. Own(p) = 0
  BY DEF Lost, Own, IInv, PlacesFit, Owning
<1> QED
  BY <1>1, <1>2, UnreferredIsUsable

(* Nobody gives up a reference that is not there.                          *)
LEMMA ReferenceCounts ==
  ASSUME IInv, NEW p \in Privates
  PROVE  /\ \A x \in Threads : Refers(x, p) => refCount[p] >= 1
         /\ \A x \in Threads : pc[x] \in Owning /\ dptr[call[x].lock] = p => refCount[p] >= 1
         /\ possiblyUnlocked[p] => refCount[p] >= 1
<1>1. refCount[p] = (NR(p) + Own(p)) + Flagged(p)
  BY DEF IInv, RefsFit
<1>2. NR(p) \in Nat /\ Own(p) \in {0, 1} /\ Flagged(p) \in {0, 1}
  BY Finite, FlaggedNat
<1>3. ASSUME NEW x \in Threads, Refers(x, p) PROVE refCount[p] >= 1
  <2>1. R(p) # {}
    BY <1>3 DEF R, Refers
  <2>2. NR(p) # 0
    BY <2>1, Finite
  <2> QED
    BY <2>2, <1>1, <1>2
<1>4. ASSUME NEW x \in Threads, pc[x] \in Owning, dptr[call[x].lock] = p PROVE refCount[p] >= 1
  <2>1. Own(p) = 1
    BY <1>4 DEF Own
  <2> QED
    BY <2>1, <1>1, <1>2
<1>5. ASSUME possiblyUnlocked[p] PROVE refCount[p] >= 1
  <2>1. Flagged(p) = 1
    BY <1>5 DEF Flagged
  <2> QED
    BY <2>1, <1>1, <1>2
<1> QED
  BY <1>3, <1>4, <1>5

(* An unlock() that begins finds no mark of another one.                   *)
LEMMA NoMarkBefore ==
  ASSUME IInv, NEW t \in Threads, pc[t] = "mark"
  PROVE  /\ waiters[call[t].d] = NC(call[t].d)
         /\ \A x \in Threads : call[x].d = call[t].d => pc[x] \notin Ending \cup {"pass"}
<1> USE DEF Entering, Owning, Leaving, Ending
<1>1. TypeOK /\ PlacesFit /\ Exclusive /\ WordStands /\ MarkFits /\ WaitersFit /\ PrivateStays /\ EndingIsAlone
  BY DEF IInv
<1>2. PICK m \in Locks, p \in Privates : m = call[t].lock /\ p = call[t].d
  BY <1>1 DEF PlacesFit
<1>3. dptr[m] = p
  BY <1>1, <1>2 DEF Exclusive
<1>4. ASSUME NEW x \in Threads, call[x].d = p PROVE pc[x] \notin Ending \cup {"pass"}
  <2>1. CASE pc[x] = "pass"
    <3>1. call[x].lock \in Locks /\ dptr[call[x].lock] = p
      BY <1>1, <1>4, <2>1 DEF PlacesFit, Exclusive
    <3>2. call[x].lock = m
      BY <1>1, <1>3, <3>1 DEF WordStands
    <3> QED
      BY <1>1, <1>2, <2>1, <3>2 DEF Exclusive
  <2>2. CASE pc[x] = "clear"
    <3>1. m = call[x].lock
      BY <1>1, <1>3, <1>4, <2>2 DEF PrivateStays
    <3> QED
      BY <1>1, <1>2, <1>3, <1>4, <2>2, <3>1 DEF EndingIsAlone, Owned
  <2>3. CASE pc[x] \in {"unflag", "unmark"}
    BY <1>1, <1>3, <1>4, <2>3 DEF PrivateStays, Installed
  <2> QED
    BY <2>1, <2>2, <2>3
<1>5. ~(waiters[p] < 0)
  BY <1>1, <1>4 DEF MarkFits
<1>6. waiters[p] \in {NC(p), NC(p) - BigNumber} /\ waiters[p] \in Int
  BY <1>1 DEF WaitersFit, TypeOK
<1> QED
  BY <1>2, <1>4, <1>5, <1>6, Finite

-----------------------------------------------------------------------------
(* Steps that cannot disturb a part of the invariant. Most steps are such  *)
(* for most parts.                                                         *)
KeepsOwners(t) == /\ pc[t] \in Owning => pc'[t] \in Owning /\ call'[t].lock = call[t].lock
                  /\ pc'[t] \in Owning => pc[t] \in Owning

LEMMA ExclusiveFrame ==
  ASSUME IInv, NEW t \in Threads, OnlyMoves(t), dptr' = dptr, tokens' = tokens, KeepsOwners(t),
         pc'[t] \in {"won", "leave", "mark", "pass", "post"} => dptr[call[t].lock] = call'[t].d
  PROVE  Exclusive'
  BY DEF IInv, Exclusive, OnlyMoves, KeepsOwners, Owning

LEMMA WordFrame ==
  ASSUME IInv, NEW t \in Threads, OnlyMoves(t), dptr' = dptr, tokens' = tokens, KeepsOwners(t),
         pc[t] # "clear"
  PROVE  WordStands'
<1>1. WordStands
  BY DEF IInv
<1>2. ASSUME NEW m \in Locks, Owned(m) PROVE Owned(m)'
  BY <1>2 DEF Owned, OnlyMoves, KeepsOwners
<1>3. ASSUME NEW x \in Threads, pc[x] = "clear" PROVE pc'[x] = "clear" /\ call'[x] = call[x]
  BY <1>3 DEF OnlyMoves
<1> QED
  BY <1>1, <1>2, <1>3 DEF WordStands

LEMMA PendingFrame ==
  ASSUME IInv, NEW t \in Threads, OnlyMoves(t), pc'[t] # "install",
         \A p \in Privates : Installed(p)' => Installed(p),
         \/ call'[t].d \notin Privates
         \/ pc'[t] = "ref"
         \/ /\ call'[t].d = call[t].d
            /\ pc[t] \in {"ref", "recheck", "dropRetry"} => pc'[t] \in {"ref", "recheck", "dropRetry"}
         \/ Installed(call'[t].d)
  PROVE  PendingIsOwn'
<1>1. PendingIsOwn /\ PlacesFit
  BY DEF IInv
<1>2. SUFFICES ASSUME NEW x \in Threads, pc'[x] = "install"
               PROVE  /\ ~Installed(call[x].d)'
                      /\ \A y \in Threads \ {x} : call'[y].d = call'[x].d => pc'[y] \in {"ref", "recheck", "dropRetry"}
  BY DEF PendingIsOwn
<1>3. x # t /\ pc[x] = "install" /\ call'[x] = call[x] /\ call[x].d \in Privates
  BY <1>1, <1>2 DEF OnlyMoves, PlacesFit
<1>4. ~Installed(call[x].d) /\ ~Installed(call[x].d)'
  <2>1. PICK p \in Privates : p = call[x].d /\ p = call'[x].d
    BY <1>3
  <2>2. ~Installed(p) /\ ~Installed(p)'
    BY <1>1, <1>3, <2>1 DEF PendingIsOwn
  <2> QED
    BY <2>1, <2>2 DEF Installed
<1>5. \A y \in Threads \ {x} : call[y].d = call[x].d => pc[y] \in {"ref", "recheck", "dropRetry"}
  BY <1>1, <1>3 DEF PendingIsOwn
<1>6. call'[t].d = call[x].d => pc'[t] \in {"ref", "recheck", "dropRetry"}
  BY <1>3, <1>4, <1>5
<1> QED
  BY <1>3, <1>4, <1>5, <1>6 DEF OnlyMoves

LEMMA EndingFrame ==
  ASSUME IInv, NEW t \in Threads, OnlyMoves(t), tokens' = tokens,
         \A x \in Threads : pc'[x] \in Ending => waiters'[call[x].d] = waiters[call[x].d],
         pc'[t] \in Ending => pc[t] \in Ending /\ call'[t] = call[t] /\ (pc'[t] = "clear" => pc[t] = "clear"),
         pc'[t] \in Counted => pc[t] \in Counted /\ call'[t].d = call[t].d,
         \A m \in Locks : \A p \in Privates : dptr'[m] = p =>
            \/ dptr[m] = p /\ (Owned(m)' => Owned(m))
            \/ \A x \in Threads : call[x].d = p => pc[x] # "clear"
  PROVE  EndingIsAlone'
<1>1. EndingIsAlone /\ PlacesFit
  BY DEF IInv
<1>2. SUFFICES ASSUME NEW x \in Threads, pc'[x] \in Ending
               PROVE  /\ waiters'[call'[x].d] = -BigNumber /\ C(call[x].d)' = {}
                      /\ \A y \in Threads : pc'[y] \in Ending /\ call'[y].d = call'[x].d => y = x
                      /\ pc'[x] = "clear" /\ dptr'[call'[x].lock] = call'[x].d =>
                           ~Owned(call[x].lock)' /\ tokens'[call'[x].d] = 0
  BY DEF EndingIsAlone
<1>3. pc[x] \in Ending /\ call'[x] = call[x] /\ (pc'[x] = "clear" => pc[x] = "clear")
  BY <1>2 DEF OnlyMoves
<1>4. waiters'[call'[x].d] = -BigNumber
  BY <1>1, <1>2, <1>3 DEF EndingIsAlone
<1>5. C(call[x].d)' = {}
  <2>1. \A y \in Threads : pc[y] \in Counted => call[y].d # call[x].d
    BY <1>1, <1>3 DEF EndingIsAlone, C
  <2> QED
    BY <2>1, <1>3 DEF C, OnlyMoves
<1>6. \A y \in Threads : pc'[y] \in Ending /\ call'[y].d = call'[x].d => y = x
  BY <1>1, <1>3 DEF EndingIsAlone, OnlyMoves
<1>7. ASSUME pc'[x] = "clear", dptr'[call'[x].lock] = call'[x].d
      PROVE  ~Owned(call[x].lock)' /\ tokens'[call'[x].d] = 0
  <2>1. PICK m \in Locks, p \in Privates : m = call[x].lock /\ p = call[x].d
    BY <1>1, <1>3 DEF PlacesFit, Ending
  <2>2. dptr[m] = p /\ (Owned(m)' => Owned(m))
    BY <2>1, <1>3, <1>7
  <2>3. ~Owned(m) /\ tokens[p] = 0
    BY <1>1, <1>3, <1>7, <2>1, <2>2 DEF EndingIsAlone
  <2>4. Owned(call[x].lock)' <=> Owned(m)'
    BY <1>3, <2>1 DEF Owned
  <2> QED
    BY <1>3, <2>1, <2>2, <2>3, <2>4
<1> QED
  BY <1>4, <1>5, <1>6, <1>7

LEMMA TakeoverFrame ==
  ASSUME IInv, NEW t \in Threads, OnlyMoves(t), pc[t] # "clear", pc'[t] # "takeover",
         \A m \in Locks : \A p \in Privates : dptr'[m] = p =>
            \/ dptr[m] = p
            \/ \A x \in Threads : call[x].d = p => pc[x] # "takeover"
  PROVE  TakeoverMeetsUnlock'
<1>1. TakeoverMeetsUnlock /\ PlacesFit
  BY DEF IInv
<1>2. SUFFICES ASSUME NEW x \in Threads, pc'[x] = "takeover", dptr'[call'[x].lock] = call'[x].d
               PROVE  \E y \in Threads : pc'[y] = "clear" /\ call'[y].d = call'[x].d
  BY DEF TakeoverMeetsUnlock
<1>3. pc[x] = "takeover" /\ call'[x] = call[x] /\ call[x].lock \in Locks /\ call[x].d \in Privates
  BY <1>1, <1>2 DEF OnlyMoves, PlacesFit, Entering
<1>4. dptr[call[x].lock] = call[x].d
  BY <1>2, <1>3
<1>5. PICK y \in Threads : pc[y] = "clear" /\ call[y].d = call[x].d
  BY <1>1, <1>3, <1>4 DEF TakeoverMeetsUnlock
<1> QED
  BY <1>3, <1>5 DEF OnlyMoves

Keepers == {"recheck2", "wait", "timedout", "flag"}

LEMMA TokenFrame ==
  ASSUME IInv, NEW t \in Threads, OnlyMoves(t), tokens' = tokens,
         \A p \in Privates : possiblyUnlocked[p] => possiblyUnlocked'[p],
         \A p \in Privates : tokens[p] > 0 /\ Installed(p) => Installed(p)',
         pc[t] \in Keepers => \/ pc'[t] \in Keepers /\ call'[t].d = call[t].d
                              \/ possiblyUnlocked'[call[t].d],
         pc'[t] \in {"pass", "post"} => pc[t] \in {"pass", "post"} /\ call'[t].d = call[t].d
  PROVE  TokenIsKept'
<1>1. TokenIsKept /\ PlacesFit
  BY DEF IInv
<1>2. ASSUME NEW p \in Privates, Kept(p) PROVE Kept(p)'
  <2>1. CASE possiblyUnlocked[p]
    BY <2>1 DEF Kept
  <2>2. CASE \E x \in Threads : call[x].d = p /\ pc[x] \in Keepers
    BY <2>2 DEF Kept, Keepers, OnlyMoves
  <2> QED
    BY <1>2, <2>1, <2>2 DEF Kept, Keepers
<1>3. ASSUME NEW p \in Privates, tokens'[p] > 0 PROVE Installed(p)' /\ Kept(p)'
  BY <1>1, <1>2, <1>3 DEF TokenIsKept
<1>4. ASSUME NEW x \in Threads, pc'[x] \in {"pass", "post"} PROVE Kept(call[x].d)'
  <2>1. PICK p \in Privates : p = call[x].d /\ pc[x] \in {"pass", "post"} /\ call'[x].d = p
    BY <1>1, <1>4 DEF PlacesFit, OnlyMoves
  <2>2. Kept(p)'
    BY <1>1, <1>2, <2>1 DEF TokenIsKept
  <2> QED
    BY <2>1, <2>2 DEF Kept
<1> QED
  BY <1>3, <1>4 DEF TokenIsKept

(* A free word that is taken.                                              *)
LEMMA TakenWord ==
  ASSUME IInv, NEW t \in Threads, NEW m \in Locks, OnlyMoves(t), tokens' = tokens,
         dptr[m] = Unlocked, dptr'[m] = DummyLocked, \A k \in Locks \ {m} : dptr'[k] = dptr[k],
         pc[t] \notin Owning \cup {"clear"}, pc'[t] = "held", call'[t].lock = m
  PROVE  Exclusive' /\ WordStands' /\ \A p \in Privates : Installed(p)' <=> Installed(p)
<1>1. Exclusive /\ WordStands /\ PlacesFit
  BY DEF IInv
<1>2. \A x \in Threads : pc[x] \in Owning => call[x].lock \in Locks /\ call[x].lock # m
  BY <1>1 DEF Exclusive, PlacesFit, Owning
<1>3. Exclusive'
  BY <1>1, <1>2, WordAssumption DEF Exclusive, OnlyMoves, Owning, Unlocked, DummyLocked
<1>4. ASSUME NEW k \in Locks \ {m}, Owned(k) PROVE Owned(k)'
  BY <1>4 DEF Owned, OnlyMoves
<1>5. Owned(m)'
  BY DEF Owned, Owning
<1>6. ASSUME NEW x \in Threads, pc[x] = "clear" PROVE pc'[x] = "clear" /\ call'[x] = call[x]
  BY <1>6 DEF OnlyMoves
<1>7. WordStands'
  BY <1>1, <1>4, <1>5, <1>6, WordAssumption DEF WordStands, Unlocked, DummyLocked
<1>8. \A p \in Privates : Installed(p)' <=> Installed(p)
  BY WordAssumption DEF Installed
<1> QED
  BY <1>3, <1>7, <1>8

(* A thread that is counted is one that waiters shows, marked or not.      *)
LEMMA CountedIsSeen ==
  ASSUME IInv, NEW t \in Threads, NEW p \in Privates, Counts(t, p)
  PROVE  /\ NC(p) >= 1 /\ waiters[p] # 0 /\ waiters[p] # -BigNumber
         /\ waiters[p] < 0 => waiters[p] = NC(p) - BigNumber
         /\ ~(waiters[p] < 0) => waiters[p] = NC(p)
         /\ \A x \in Threads : pc[x] \in Ending => call[x].d # p
<1>1. waiters[p] \in {NC(p), NC(p) - BigNumber}
  BY DEF IInv, WaitersFit
<1>2. C(p) # {}
  BY DEF C, Counts
<1>3. NC(p) \in Nat /\ NC(p) # 0 /\ NC(p) < BigNumber /\ BigNumber \in Nat
  BY <1>2, Finite
<1>4. \A x \in Threads : pc[x] \in Ending => call[x].d # p
  BY <1>2 DEF IInv, EndingIsAlone
<1> QED
  BY <1>1, <1>3, <1>4

LEMMA CallForms ==
  ASSUME NEW m, NEW k
  PROVE  /\ Held(m) = [lock |-> m, kind |-> "none", d |-> NoPrivate]
         /\ [Held(m) EXCEPT !.kind = k] = [lock |-> m, kind |-> k, d |-> NoPrivate]
<1>1. [NoCall EXCEPT !.lock = m] = [lock |-> m, kind |-> "none", d |-> NoPrivate]
  BY SMT DEF NoCall
<1>2. [[lock |-> m, kind |-> "none", d |-> NoPrivate] EXCEPT !.kind = k]
        = [lock |-> m, kind |-> k, d |-> NoPrivate]
  BY SMT
<1>3. Held(m) = [lock |-> m, kind |-> "none", d |-> NoPrivate]
  BY <1>1 DEF Held
<1> QED
  BY <1>2, <1>3

(* The owners whose mutex has a private hold one reference each.           *)
Owns(t, p) == pc[t] \in Owning /\ dptr[call[t].lock] = p

LEMMA OwnForms ==
  ASSUME NEW p
  PROVE  /\ Own(p) \in {0, 1}
         /\ Own(p) = 1 <=> \E x \in Threads : Owns(x, p)
  BY DEF Own, Owns

LEMMA OwnThen ==
  ASSUME NEW p
  PROVE  /\ Own(p)' \in {0, 1}
         /\ Own(p)' = 1 <=> \E x \in Threads : Owns(x, p)'
  BY DEF Own, Owns

LEMMA SameOwn ==
  ASSUME NEW t \in Threads, OnlyMoves(t), dptr' = dptr, KeepsOwners(t), NEW p
  PROVE  Own(p)' = Own(p)
<1>1. \A x \in Threads : Owns(x, p)' <=> Owns(x, p)
  BY DEF Owns, OnlyMoves, KeepsOwners
<1> QED
  BY <1>1, OwnForms, OwnThen

LEMMA RefsFrame ==
  ASSUME IInv, NEW t \in Threads, OnlyMoves(t), refCount' = refCount, possiblyUnlocked' = possiblyUnlocked,
         \A p \in Privates : (Refers(t, p)' <=> Refers(t, p)) /\ Own(p)' = Own(p)
  PROVE  RefsFit'
<1>1. SUFFICES ASSUME NEW p \in Privates PROVE refCount'[p] = (NR(p)' + Own(p)') + Flagged(p)'
  BY DEF RefsFit
<1>2. NR(p)' = NR(p)
  BY Recount
<1>3. Flagged(p)' = Flagged(p)
  BY DEF Flagged
<1>4. refCount[p] = (NR(p) + Own(p)) + Flagged(p)
  BY DEF IInv, RefsFit
<1> QED
  BY <1>2, <1>3, <1>4

LEMMA WaitersFrame ==
  ASSUME IInv, NEW t \in Threads, OnlyMoves(t), waiters' = waiters,
         \A p \in Privates : Counts(t, p)' <=> Counts(t, p)
  PROVE  WaitersFit'
<1>1. \A p \in Privates : NC(p)' = NC(p)
  BY Recount
<1> QED
  BY <1>1 DEF IInv, WaitersFit

-----------------------------------------------------------------------------
(* One lemma for each operation: under the invariant its step keeps every  *)
(* conjunct. Each states first what the step does to its thread, its mutex *)
(* m and its private p.                                                    *)
LEMMA FastTryLockKeeps ==
  ASSUME IInv, NEW t \in Threads, NEW m \in Locks, NEW c \in Kinds, ~UNCHANGED vars, FastTryLock(t, m, c)
  PROVE  IInv'
<1> USE DEF Entering, Owning, Leaving, Ending, Counted, Unlocked, DummyLocked, object
<1>1. TypeOK /\ PlacesFit /\ Exclusive /\ WordStands /\ PendingIsOwn /\ PrivateStays /\ MarkFits
      /\ PassMeetsWaiters /\ EndingIsAlone /\ TakeoverMeetsUnlock /\ TokenIsKept /\ RefsFit /\ WaitersFit
  BY DEF IInv
<1>3. OnlyMoves(t)
  BY <1>1 DEF OnlyMoves, TypeOK, FastTryLock, Goto, Set
<1>4. /\ pc[t] = "idle" /\ UNCHANGED object
      /\ \/ dptr[m] = Unlocked /\ dptr'[m] = DummyLocked /\ (\A k \in Locks \ {m} : dptr'[k] = dptr[k])
           /\ pc'[t] = "held" /\ call'[t].lock = m /\ call'[t].d = NoPrivate
         \/ dptr[m] # Unlocked /\ dptr' = dptr /\ pc'[t] = "retry"
           /\ call'[t].lock = m /\ call'[t].d = NoPrivate
  <2>1. ~UNCHANGED <<dptr, pc, call>>
    BY DEF FastTryLock, vars
  <2>2. \/ call' = [call EXCEPT ![t] = [lock |-> m, kind |-> "none", d |-> NoPrivate]]
        \/ call' = [call EXCEPT ![t] = [lock |-> m, kind |-> c, d |-> NoPrivate]]
    BY <2>1, CallForms DEF FastTryLock, Set
  <2>3. call'[t].lock = m /\ call'[t].d = NoPrivate
    BY <1>1, <2>2 DEF TypeOK
  <2> QED
    BY <1>1, <2>1, <2>3 DEF FastTryLock, Goto, TypeOK
<1>5. TypeOK'
  <2>2. dptr' \in [Locks -> {Unlocked, DummyLocked} \cup Privates]
    BY <1>1, <1>4 DEF TypeOK, FastTryLock
  <2>3. refCount' \in [Privates -> Nat] /\ possiblyUnlocked' \in [Privates -> BOOLEAN] /\ tokens' \in [Privates -> {0, 1}]
    BY <1>1, <1>4 DEF TypeOK, FastTryLock, Deref
  <2>4. waiters' \in [Privates -> Int]
    BY <1>1, <1>4, BigNumberAssumption DEF TypeOK, FastTryLock, DerefWaiters
  <2>5. pc' \in [Threads -> {"idle"} \cup Entering \cup Owning \cup Leaving]
    BY <1>1 DEF TypeOK, FastTryLock, Goto
  <2>6. call' \in [Threads -> [lock : Locks \cup {NoLock}, kind : Kinds \cup {"none"},
                             d : Privates \cup {NoPrivate}]]
    <3>1. \/ call' = [call EXCEPT ![t] = [lock |-> m, kind |-> "none", d |-> NoPrivate]]
          \/ call' = [call EXCEPT ![t] = [lock |-> m, kind |-> c, d |-> NoPrivate]]
          \/ call' = call
      BY CallForms DEF FastTryLock, Set
    <3> QED
      BY <1>1, <3>1 DEF TypeOK
  <2> QED
    BY <2>2, <2>3, <2>4, <2>5, <2>6 DEF TypeOK
<1>6. PlacesFit'
  <2>1. ASSUME pc'[t] = "retry" PROVE call'[t].kind \in {"lock", "timed"}
    <3>1. c \in {"lock", "timed"} /\ Set(t, [Held(m) EXCEPT !.kind = c])
      BY <1>1, <1>4, <2>1 DEF TypeOK, FastTryLock, Goto, Kinds
    <3>2. call' = [call EXCEPT ![t] = [lock |-> m, kind |-> c, d |-> NoPrivate]]
      BY <3>1, CallForms DEF Set
    <3> QED
      BY <1>1, <3>1, <3>2 DEF TypeOK
  <2> QED
    BY <1>1, <1>3, <1>4, <2>1 DEF PlacesFit, OnlyMoves
<1>7. Exclusive'
  <2>1. CASE dptr[m] = Unlocked
    <3>1. dptr'[m] = DummyLocked /\ pc'[t] = "held" /\ call'[t].lock = m /\ \A j \in Locks \ {m} : dptr'[j] = dptr[j]
      BY <1>1, <1>3, <1>4, <1>5, <1>6, <2>1, WordAssumption
    <3>2. pc[t] \notin Owning \cup {"clear"} /\ tokens' = tokens
      BY <1>1, <1>3, <1>4, <1>5, <1>6
    <3> QED
      BY <2>1, <3>1, <3>2, <1>3, TakenWord
  <2>2. CASE dptr[m] # Unlocked
    <3>1. dptr' = dptr /\ tokens' = tokens /\ KeepsOwners(t) /\ pc[t] # "clear"
      BY <1>1, <1>3, <1>4, <1>5, <1>6, <2>2 DEF KeepsOwners
    <3>2. pc'[t] \notin {"won", "leave", "mark", "pass", "post"}
      BY <1>1, <1>3, <1>4, <1>5, <1>6, <2>2
    <3> QED
      BY <3>1, <3>2, <1>3, ExclusiveFrame
  <2> QED
    BY <2>1, <2>2
<1>8. WordStands'
  <2>1. CASE dptr[m] = Unlocked
    <3>1. dptr'[m] = DummyLocked /\ pc'[t] = "held" /\ call'[t].lock = m /\ \A j \in Locks \ {m} : dptr'[j] = dptr[j]
      BY <1>1, <1>3, <1>4, <1>5, <1>6, <2>1, WordAssumption
    <3>2. pc[t] \notin Owning \cup {"clear"} /\ tokens' = tokens
      BY <1>1, <1>3, <1>4, <1>5, <1>6
    <3> QED
      BY <2>1, <3>1, <3>2, <1>3, TakenWord
  <2>2. CASE dptr[m] # Unlocked
    <3>1. dptr' = dptr /\ tokens' = tokens /\ KeepsOwners(t) /\ pc[t] # "clear"
      BY <1>1, <1>3, <1>4, <1>5, <1>6, <2>2 DEF KeepsOwners
    <3>2. pc'[t] \notin {"won", "leave", "mark", "pass", "post"}
      BY <1>1, <1>3, <1>4, <1>5, <1>6, <2>2
    <3> QED
      BY <3>1, <3>2, <1>3, WordFrame
  <2> QED
    BY <2>1, <2>2
<1>9. PendingIsOwn'
  <2>1. pc'[t] # "install" /\ \A q \in Privates : Installed(q)' => Installed(q)
    BY <1>1, <1>3, <1>4, <1>5, <1>6, WordAssumption DEF PlacesFit, Installed
  <2>2. \/ call'[t].d \notin Privates
        \/ pc'[t] = "ref"
        \/ /\ call'[t].d = call[t].d
           /\ pc[t] \in {"ref", "recheck", "dropRetry"} => pc'[t] \in {"ref", "recheck", "dropRetry"}
        \/ Installed(call'[t].d)
    BY <1>1, <1>3, <1>4, <1>5, <1>6, NoPrivateAssumption DEF PlacesFit, Installed
  <2> QED
    BY <2>1, <2>2, <1>3, PendingFrame
<1>10. PrivateStays'
  BY <1>1, WordAssumption, NoPrivateAssumption
     DEF TypeOK, PlacesFit, PrivateStays, Exclusive, FastTryLock, Goto, Set, Held, NoCall,
         Installed, vars
<1>11. MarkFits'
  BY <1>1, <1>3, <1>4, <1>5, <1>6, WordAssumption, NoPrivateAssumption
     DEF TypeOK, PlacesFit, OnlyMoves, MarkFits
<1>12. PassMeetsWaiters'
  BY <1>1, WordAssumption, NoPrivateAssumption
     DEF TypeOK, PlacesFit, PassMeetsWaiters, MarkFits, FastTryLock, Goto, Set, Held, NoCall,
         vars
<1>13. EndingIsAlone'
  <2>1. /\ tokens' = tokens /\ \A x \in Threads : pc'[x] \in Ending => waiters'[call[x].d] = waiters[call[x].d]
        /\ pc'[t] \in Ending => pc[t] \in Ending /\ call'[t] = call[t] /\ (pc'[t] = "clear" => pc[t] = "clear")
        /\ pc'[t] \in Counted => pc[t] \in Counted /\ call'[t].d = call[t].d
    BY <1>1, <1>3, <1>4, <1>5, <1>6
  <2>2. ASSUME NEW k \in Locks, NEW q \in Privates, dptr'[k] = q
        PROVE  \/ dptr[k] = q /\ (Owned(k)' => Owned(k))
               \/ \A x \in Threads : call[x].d = q => pc[x] # "clear"
    BY <1>1, <1>3, <1>4, <1>5, <1>6, <2>2, WordAssumption DEF Owned, OnlyMoves, PendingIsOwn
  <2> QED
    BY <2>1, <2>2, <1>3, EndingFrame
<1>14. TakeoverMeetsUnlock'
  <2>1. pc[t] # "clear" /\ pc'[t] # "takeover"
    BY <1>1, <1>3, <1>4, <1>5, <1>6
  <2>2. \A k \in Locks : \A q \in Privates : dptr'[k] = q =>
            \/ dptr[k] = q
            \/ \A x \in Threads : call[x].d = q => pc[x] # "takeover"
    BY <1>1, <1>3, <1>4, <1>5, <1>6, WordAssumption DEF PendingIsOwn
  <2> QED
    BY <2>1, <2>2, <1>3, TakeoverFrame
<1>15. TokenIsKept'
  <2>1. tokens' = tokens /\ \A q \in Privates : possiblyUnlocked[q] => possiblyUnlocked'[q]
    BY <1>1, <1>3, <1>4, <1>5, <1>6 DEF TypeOK
  <2>2. \A q \in Privates : tokens[q] > 0 /\ Installed(q) => Installed(q)'
    BY <1>1, <1>3, <1>4, <1>5, <1>6, WordAssumption DEF Installed
  <2>3. /\ pc[t] \in Keepers => \/ pc'[t] \in Keepers /\ call'[t].d = call[t].d
                                \/ possiblyUnlocked'[call[t].d]
        /\ pc'[t] \in {"pass", "post"} => pc[t] \in {"pass", "post"} /\ call'[t].d = call[t].d
    BY <1>1, <1>3, <1>4, <1>5, <1>6 DEF Keepers
  <2> QED
    BY <2>1, <2>2, <2>3, <1>3, TokenFrame
<1>16. RefsFit'
  <2>1. refCount' = refCount /\ possiblyUnlocked' = possiblyUnlocked
    BY <1>4
  <2>3. ASSUME NEW q \in Privates PROVE (Refers(t, q)' <=> Refers(t, q)) /\ Own(q)' = Own(q)
    <3>1. Refers(t, q)' <=> Refers(t, q)
      BY <1>1, <1>3, <1>4, <1>5, <1>6, NoPrivateAssumption DEF Refers, Referring
    <3>2. \A x \in Threads : Owns(x, q)' <=> Owns(x, q)
      BY <1>1, <1>3, <1>4, <1>5, <1>6, WordAssumption, NoPrivateAssumption
         DEF Owns, OnlyMoves, PlacesFit
    <3>3. Own(q)' = Own(q)
      BY <3>2, OwnForms, OwnThen
    <3> QED
      BY <3>1, <3>3
  <2> QED
    BY <2>1, <2>3, <1>3, RefsFrame
<1>17. WaitersFit'
  <2>1. waiters' = waiters /\ \A q \in Privates : Counts(t, q)' <=> Counts(t, q)
    BY <1>1, <1>3, <1>4, <1>5, <1>6, NoPrivateAssumption DEF Counts
  <2> QED
    BY <2>1, <1>3, WaitersFrame
<1> QED
  BY <1>5, <1>6, <1>7, <1>8, <1>9, <1>10, <1>11, <1>12, <1>13, <1>14, <1>15, <1>16, <1>17
     DEF IInv

LEMMA RetryKeeps ==
  ASSUME IInv, NEW t \in Threads, Retry(t)
  PROVE  IInv'
<1> USE DEF Entering, Owning, Leaving, Ending, Counted, Unlocked, DummyLocked, object
<1>1. TypeOK /\ PlacesFit /\ Exclusive /\ WordStands /\ PendingIsOwn /\ PrivateStays /\ MarkFits
      /\ PassMeetsWaiters /\ EndingIsAlone /\ TakeoverMeetsUnlock /\ TokenIsKept /\ RefsFit /\ WaitersFit
  BY DEF IInv
<1>2. PICK m \in Locks : m = call[t].lock
  BY <1>1 DEF PlacesFit, Retry
<1>3. OnlyMoves(t)
  BY <1>1 DEF OnlyMoves, TypeOK, Retry, Goto, Set
<1>4. /\ pc[t] = "retry" /\ UNCHANGED object
      /\ \/ dptr[m] = Unlocked /\ dptr'[m] = DummyLocked /\ (\A k \in Locks \ {m} : dptr'[k] = dptr[k])
           /\ pc'[t] = "held" /\ call'[t].lock = m /\ call'[t].d = NoPrivate
         \/ dptr[m] = DummyLocked /\ dptr' = dptr /\ pc'[t] = "allocate"
           /\ call'[t].lock = m /\ call'[t].d = NoPrivate
         \/ dptr[m] \in Privates /\ dptr' = dptr /\ pc'[t] = "ref"
           /\ call'[t].lock = m /\ call'[t].d = dptr[m]
  BY <1>1, <1>2, WordAssumption, BigNumberAssumption
     DEF TypeOK, PlacesFit, Exclusive, Retry, Goto, Set, Held, NoCall, vars, Deref, DerefWaiters
<1>5. TypeOK'
  <2>2. dptr' \in [Locks -> {Unlocked, DummyLocked} \cup Privates]
    BY <1>1, <1>2, <1>4 DEF TypeOK, Retry
  <2>3. refCount' \in [Privates -> Nat] /\ possiblyUnlocked' \in [Privates -> BOOLEAN] /\ tokens' \in [Privates -> {0, 1}]
    BY <1>1, <1>2, <1>4 DEF TypeOK, Retry, Deref
  <2>4. waiters' \in [Privates -> Int]
    BY <1>1, <1>2, <1>4, BigNumberAssumption DEF TypeOK, Retry, DerefWaiters
  <2>5. pc' \in [Threads -> {"idle"} \cup Entering \cup Owning \cup Leaving]
    BY <1>1 DEF TypeOK, Retry, Goto
  <2>6. call' \in [Threads -> [lock : Locks \cup {NoLock}, kind : Kinds \cup {"none"},
                             d : Privates \cup {NoPrivate}]]
    <3>1. \/ call' = [call EXCEPT ![t] = [lock |-> m, kind |-> "none", d |-> NoPrivate]]
          \/ call' = call
          \/ call' = [call EXCEPT ![t].d = dptr[m]] /\ dptr[m] \in Privates
      BY <1>1, <1>2, CallForms DEF Retry, Set, TypeOK
    <3>2. call[t].d \in Privates \cup {NoPrivate} /\ call[t] \in [lock : Locks \cup {NoLock}, kind : Kinds \cup {"none"}, d : Privates \cup {NoPrivate}]
      BY <1>1 DEF TypeOK
    <3>3. CASE call' = [call EXCEPT ![t] = [lock |-> m, kind |-> "none", d |-> NoPrivate]]
      BY <1>1, <3>3 DEF TypeOK
    <3>4. CASE call' = [call EXCEPT ![t].d = dptr[m]] /\ dptr[m] \in Privates
      BY <1>1, <3>2, <3>4 DEF TypeOK
    <3> QED
      BY <1>1, <3>1, <3>3, <3>4 DEF TypeOK
  <2> QED
    BY <2>2, <2>3, <2>4, <2>5, <2>6 DEF TypeOK
<1>6. PlacesFit'
  BY <1>1, <1>2, <1>4, NoPrivateAssumption, BigNumberAssumption
     DEF TypeOK, PlacesFit, Retry, Kinds, vars, Goto, Set, Held, NoCall, Deref, DerefWaiters
<1>7. Exclusive'
  <2>1. CASE dptr[m] = Unlocked
    <3>1. dptr'[m] = DummyLocked /\ pc'[t] = "held" /\ call'[t].lock = m /\ \A j \in Locks \ {m} : dptr'[j] = dptr[j]
      BY <1>1, <1>2, <1>3, <1>4, <1>5, <1>6, <2>1, WordAssumption
    <3>2. pc[t] \notin Owning \cup {"clear"} /\ tokens' = tokens
      BY <1>1, <1>2, <1>3, <1>4, <1>5, <1>6
    <3> QED
      BY <2>1, <3>1, <3>2, <1>3, TakenWord
  <2>2. CASE dptr[m] # Unlocked
    <3>1. dptr' = dptr /\ tokens' = tokens /\ KeepsOwners(t) /\ pc[t] # "clear"
      BY <1>1, <1>2, <1>3, <1>4, <1>5, <1>6, <2>2 DEF KeepsOwners
    <3>2. pc'[t] \notin {"won", "leave", "mark", "pass", "post"}
      BY <1>1, <1>2, <1>3, <1>4, <1>5, <1>6, <2>2
    <3> QED
      BY <3>1, <3>2, <1>3, ExclusiveFrame
  <2> QED
    BY <2>1, <2>2
<1>8. WordStands'
  <2>1. CASE dptr[m] = Unlocked
    <3>1. dptr'[m] = DummyLocked /\ pc'[t] = "held" /\ call'[t].lock = m /\ \A j \in Locks \ {m} : dptr'[j] = dptr[j]
      BY <1>1, <1>2, <1>3, <1>4, <1>5, <1>6, <2>1, WordAssumption
    <3>2. pc[t] \notin Owning \cup {"clear"} /\ tokens' = tokens
      BY <1>1, <1>2, <1>3, <1>4, <1>5, <1>6
    <3> QED
      BY <2>1, <3>1, <3>2, <1>3, TakenWord
  <2>2. CASE dptr[m] # Unlocked
    <3>1. dptr' = dptr /\ tokens' = tokens /\ KeepsOwners(t) /\ pc[t] # "clear"
      BY <1>1, <1>2, <1>3, <1>4, <1>5, <1>6, <2>2 DEF KeepsOwners
    <3>2. pc'[t] \notin {"won", "leave", "mark", "pass", "post"}
      BY <1>1, <1>2, <1>3, <1>4, <1>5, <1>6, <2>2
    <3> QED
      BY <3>1, <3>2, <1>3, WordFrame
  <2> QED
    BY <2>1, <2>2
<1>9. PendingIsOwn'
  <2>1. pc'[t] # "install" /\ \A q \in Privates : Installed(q)' => Installed(q)
    BY <1>1, <1>2, <1>3, <1>4, <1>5, <1>6, WordAssumption DEF PlacesFit, Installed
  <2>2. \/ call'[t].d \notin Privates
        \/ pc'[t] = "ref"
        \/ /\ call'[t].d = call[t].d
           /\ pc[t] \in {"ref", "recheck", "dropRetry"} => pc'[t] \in {"ref", "recheck", "dropRetry"}
        \/ Installed(call'[t].d)
    BY <1>1, <1>2, <1>3, <1>4, <1>5, <1>6, NoPrivateAssumption DEF PlacesFit, Installed
  <2> QED
    BY <2>1, <2>2, <1>3, PendingFrame
<1>10. PrivateStays'
  <2>1. pc'[t] \in {"held", "allocate", "ref"}
    BY <1>4
  <2>2. \A j \in Locks : \A q \in Privates : dptr'[j] = q <=> dptr[j] = q
    BY <1>4, WordAssumption
  <2> QED
    BY <1>1, <1>3, <2>1, <2>2 DEF PrivateStays, PlacesFit, OnlyMoves, Installed
<1>11. MarkFits'
  BY <1>1, <1>2, <1>3, <1>4, <1>5, <1>6, WordAssumption, NoPrivateAssumption
     DEF TypeOK, PlacesFit, OnlyMoves, MarkFits
<1>12. PassMeetsWaiters'
  BY <1>1, <1>2, <1>3, <1>4, <1>5, <1>6, WordAssumption, NoPrivateAssumption
     DEF TypeOK, PlacesFit, OnlyMoves, PassMeetsWaiters, MarkFits
<1>13. EndingIsAlone'
  <2>1. /\ tokens' = tokens /\ \A x \in Threads : pc'[x] \in Ending => waiters'[call[x].d] = waiters[call[x].d]
        /\ pc'[t] \in Ending => pc[t] \in Ending /\ call'[t] = call[t] /\ (pc'[t] = "clear" => pc[t] = "clear")
        /\ pc'[t] \in Counted => pc[t] \in Counted /\ call'[t].d = call[t].d
    BY <1>1, <1>2, <1>3, <1>4, <1>5, <1>6
  <2>2. ASSUME NEW k \in Locks, NEW q \in Privates, dptr'[k] = q
        PROVE  \/ dptr[k] = q /\ (Owned(k)' => Owned(k))
               \/ \A x \in Threads : call[x].d = q => pc[x] # "clear"
    BY <1>1, <1>2, <1>3, <1>4, <1>5, <1>6, <2>2, WordAssumption
       DEF Owned, OnlyMoves, PendingIsOwn
  <2> QED
    BY <2>1, <2>2, <1>3, EndingFrame
<1>14. TakeoverMeetsUnlock'
  <2>1. pc[t] # "clear" /\ pc'[t] # "takeover"
    BY <1>1, <1>2, <1>3, <1>4, <1>5, <1>6
  <2>2. \A k \in Locks : \A q \in Privates : dptr'[k] = q =>
            \/ dptr[k] = q
            \/ \A x \in Threads : call[x].d = q => pc[x] # "takeover"
    BY <1>1, <1>2, <1>3, <1>4, <1>5, <1>6, WordAssumption DEF PendingIsOwn
  <2> QED
    BY <2>1, <2>2, <1>3, TakeoverFrame
<1>15. TokenIsKept'
  <2>1. tokens' = tokens /\ \A q \in Privates : possiblyUnlocked[q] => possiblyUnlocked'[q]
    BY <1>1, <1>2, <1>3, <1>4, <1>5, <1>6 DEF TypeOK
  <2>2. \A q \in Privates : tokens[q] > 0 /\ Installed(q) => Installed(q)'
    BY <1>1, <1>2, <1>3, <1>4, <1>5, <1>6, WordAssumption DEF Installed
  <2>3. /\ pc[t] \in Keepers => \/ pc'[t] \in Keepers /\ call'[t].d = call[t].d
                                \/ possiblyUnlocked'[call[t].d]
        /\ pc'[t] \in {"pass", "post"} => pc[t] \in {"pass", "post"} /\ call'[t].d = call[t].d
    BY <1>1, <1>2, <1>3, <1>4, <1>5, <1>6 DEF Keepers
  <2> QED
    BY <2>1, <2>2, <2>3, <1>3, TokenFrame
<1>16. RefsFit'
  <2>1. refCount' = refCount /\ possiblyUnlocked' = possiblyUnlocked
    BY <1>4
  <2>3. ASSUME NEW q \in Privates PROVE (Refers(t, q)' <=> Refers(t, q)) /\ Own(q)' = Own(q)
    <3>1. Refers(t, q)' <=> Refers(t, q)
      <4>1. call[t].d = NoPrivate /\ q # NoPrivate
        BY <1>1, <1>4, NoPrivateAssumption DEF PlacesFit
      <4>2. pc'[t] \in {"held", "ref"} \/ call'[t].d = NoPrivate
        BY <1>4
      <4> QED
        BY <4>1, <4>2 DEF Refers, Referring
    <3>2. \A x \in Threads : Owns(x, q)' <=> Owns(x, q)
      BY <1>1, <1>2, <1>3, <1>4, <1>5, <1>6, WordAssumption, NoPrivateAssumption
         DEF Owns, OnlyMoves, PlacesFit
    <3>3. Own(q)' = Own(q)
      BY <3>2, OwnForms, OwnThen
    <3> QED
      BY <3>1, <3>3
  <2> QED
    BY <2>1, <2>3, <1>3, RefsFrame
<1>17. WaitersFit'
  <2>1. waiters' = waiters /\ \A q \in Privates : Counts(t, q)' <=> Counts(t, q)
    BY <1>1, <1>2, <1>3, <1>4, <1>5, <1>6, NoPrivateAssumption DEF Counts
  <2> QED
    BY <2>1, <1>3, WaitersFrame
<1> QED
  BY <1>5, <1>6, <1>7, <1>8, <1>9, <1>10, <1>11, <1>12, <1>13, <1>14, <1>15, <1>16, <1>17
     DEF IInv

LEMMA AllocateKeeps ==
  ASSUME IInv, NEW t \in Threads, Allocate(t)
  PROVE  IInv'
<1> USE DEF Entering, Owning, Leaving, Ending, Counted, Unlocked, DummyLocked, object
<1>1. TypeOK /\ PlacesFit /\ Exclusive /\ WordStands /\ PendingIsOwn /\ PrivateStays /\ MarkFits
      /\ PassMeetsWaiters /\ EndingIsAlone /\ TakeoverMeetsUnlock /\ TokenIsKept /\ RefsFit /\ WaitersFit
  BY DEF IInv
<1>2. PICK m \in Locks, p \in Privates :
         /\ m = call[t].lock
         /\ call' = [call EXCEPT ![t].d = p]
         /\ refCount' = [refCount EXCEPT ![p] = 1]
         /\ \/ refCount[p] = 0 /\ UNCHANGED possiblyUnlocked
            \/ Lost(p) /\ possiblyUnlocked' = [possiblyUnlocked EXCEPT ![p] = FALSE]
  BY <1>1 DEF PlacesFit, Allocate
<1>3. OnlyMoves(t)
  BY <1>1 DEF OnlyMoves, TypeOK, Allocate, Goto
<1>a. Usable(p) /\ R(p) = {} /\ Own(p) = 0 /\ (refCount[p] = 0 => ~possiblyUnlocked[p])
  BY <1>2, FreeIsUsable, LostIsUsable
<1>4. /\ pc[t] = "allocate" /\ pc'[t] = "install" /\ call[t].d = NoPrivate
      /\ call'[t].lock = m /\ call'[t].d = p /\ call'[t].kind = call[t].kind
      /\ UNCHANGED <<dptr, waiters, tokens>>
      /\ refCount'[p] = 1 /\ \A q \in Privates \ {p} : refCount'[q] = refCount[q]
      /\ ~possiblyUnlocked'[p] /\ \A q \in Privates \ {p} : possiblyUnlocked'[q] = possiblyUnlocked[q]
  BY <1>1, <1>2, <1>a DEF TypeOK, PlacesFit, Allocate, Goto
<1>5. TypeOK'
  <2>1. possiblyUnlocked' \in [Privates -> BOOLEAN]
    BY <1>1, <1>2 DEF TypeOK
  <2>2. call' \in [Threads -> [lock : Locks \cup {NoLock}, kind : Kinds \cup {"none"},
                             d : Privates \cup {NoPrivate}]]
    BY <1>1, <1>2 DEF TypeOK
  <2> QED
    BY <1>1, <1>2, <1>4, <2>1, <2>2 DEF TypeOK, Allocate, Goto
<1>6. PlacesFit'
  BY <1>1, <1>3, <1>4 DEF PlacesFit, OnlyMoves
<1>7. Exclusive'
  <2>1. dptr' = dptr /\ tokens' = tokens /\ KeepsOwners(t)
    BY <1>1, <1>2, <1>3, <1>4, <1>5, <1>6 DEF KeepsOwners
  <2>2. pc'[t] \in {"won", "leave", "mark", "pass", "post"} => dptr[call[t].lock] = call'[t].d
    BY <1>1, <1>2, <1>3, <1>4, <1>5, <1>6 DEF Exclusive
  <2> QED
    BY <2>1, <2>2, <1>3, ExclusiveFrame
<1>8. WordStands'
  <2>1. dptr' = dptr /\ tokens' = tokens /\ KeepsOwners(t) /\ pc[t] # "clear"
    BY <1>1, <1>2, <1>3, <1>4, <1>5, <1>6 DEF KeepsOwners
  <2> QED
    BY <2>1, <1>3, WordFrame
<1>9. PendingIsOwn'
  <2>1. ~Installed(p) /\ \A x \in Threads : call[x].d = p => pc[x] = "ref"
    BY <1>a DEF Usable
  <2>2. ~Installed(p)'
    BY <1>4, <2>1 DEF Installed
  <2>3. \A x \in Threads \ {t} : pc[x] = "install" => call[x].d \in Privates \ {p}
    BY <1>1, <2>1 DEF PlacesFit
  <2> QED
    BY <1>1, <1>3, <1>4, <2>1, <2>2, <2>3 DEF PendingIsOwn, OnlyMoves, Installed
<1>10. PrivateStays'
  BY <1>1, <1>3, <1>4 DEF PrivateStays, OnlyMoves, Installed
<1>11. MarkFits'
  BY <1>1, <1>3, <1>4 DEF MarkFits, OnlyMoves
<1>12. PassMeetsWaiters'
  BY <1>1, <1>3, <1>4 DEF PassMeetsWaiters, OnlyMoves
<1>13. EndingIsAlone'
  <2>1. /\ tokens' = tokens /\ \A x \in Threads : pc'[x] \in Ending => waiters'[call[x].d] = waiters[call[x].d]
        /\ pc'[t] \in Ending => pc[t] \in Ending /\ call'[t] = call[t] /\ (pc'[t] = "clear" => pc[t] = "clear")
        /\ pc'[t] \in Counted => pc[t] \in Counted /\ call'[t].d = call[t].d
    BY <1>1, <1>2, <1>3, <1>4, <1>5, <1>6
  <2>2. ASSUME NEW k \in Locks, NEW q \in Privates, dptr'[k] = q
        PROVE  \/ dptr[k] = q /\ (Owned(k)' => Owned(k))
               \/ \A x \in Threads : call[x].d = q => pc[x] # "clear"
    BY <1>1, <1>2, <1>3, <1>4, <1>5, <1>6, <2>2, WordAssumption
       DEF Owned, OnlyMoves, PendingIsOwn
  <2> QED
    BY <2>1, <2>2, <1>3, EndingFrame
<1>14. TakeoverMeetsUnlock'
  <2>1. pc[t] # "clear" /\ pc'[t] # "takeover"
    BY <1>1, <1>2, <1>3, <1>4, <1>5, <1>6
  <2>2. \A k \in Locks : \A q \in Privates : dptr'[k] = q =>
            \/ dptr[k] = q
            \/ \A x \in Threads : call[x].d = q => pc[x] # "takeover"
    BY <1>1, <1>2, <1>3, <1>4, <1>5, <1>6, WordAssumption DEF PendingIsOwn
  <2> QED
    BY <2>1, <2>2, <1>3, TakeoverFrame
<1>15. TokenIsKept'
  <2>1. tokens[p] = 0 /\ \A x \in Threads : call[x].d = p => pc[x] = "ref"
    BY <1>a DEF Usable
  <2>2. \A q \in Privates \ {p} : (Kept(q) => Kept(q)') /\ (Installed(q) => Installed(q)')
    BY <1>3, <1>4 DEF Kept, Installed, OnlyMoves
  <2>3. ASSUME NEW q \in Privates, tokens'[q] > 0 PROVE Installed(q)' /\ Kept(q)'
    BY <1>1, <1>4, <2>1, <2>2, <2>3 DEF TokenIsKept
  <2>4. ASSUME NEW x \in Threads, pc'[x] \in {"pass", "post"} PROVE Kept(call[x].d)'
    <3>1. pc[x] \in {"pass", "post"} /\ call'[x] = call[x]
      BY <1>3, <1>4, <2>4 DEF OnlyMoves
    <3>2. PICK q \in Privates : q = call[x].d
      BY <1>1, <3>1 DEF PlacesFit
    <3>3. Kept(q)'
      BY <1>1, <2>1, <2>2, <3>1, <3>2 DEF TokenIsKept
    <3> QED
      BY <3>1, <3>2, <3>3 DEF Kept
  <2> QED
    BY <2>3, <2>4 DEF TokenIsKept
<1>16. RefsFit'
  <2>1. SUFFICES ASSUME NEW q \in Privates PROVE refCount'[q] = (NR(q)' + Own(q)') + Flagged(q)'
    BY DEF RefsFit
  <2>2. Own(q)' = Own(q)
    <3>1. dptr' = dptr /\ KeepsOwners(t)
      BY <1>4 DEF KeepsOwners
    <3> QED
      BY <3>1, <1>3, SameOwn
  <2>3. CASE q # p
    <3>1. Refers(t, q) <=> Refers(t, q)'
      BY <1>4, <2>3, NoPrivateAssumption DEF Refers, Referring
    <3>2. NR(q)' = NR(q) /\ Flagged(q)' = Flagged(q)
      BY <1>3, <1>4, <2>3, <3>1, Recount DEF Flagged
    <3> QED
      BY <1>1, <1>4, <2>2, <2>3, <3>2 DEF RefsFit
  <2>4. CASE q = p
    <3>1. ~Refers(t, p) /\ Refers(t, p)'
      BY <1>4, NoPrivateAssumption DEF Refers, Referring
    <3>2. NR(p)' = NR(p) + 1 /\ NR(p) = 0
      BY <1>3, <1>a, <3>1, Recount, Finite
    <3>3. Flagged(p)' = 0
      BY <1>4 DEF Flagged
    <3> QED
      BY <1>4, <1>a, <2>2, <2>4, <3>2, <3>3
  <2> QED
    BY <2>3, <2>4
<1>17. WaitersFit'
  <2>1. waiters' = waiters /\ \A q \in Privates : Counts(t, q)' <=> Counts(t, q)
    BY <1>1, <1>2, <1>3, <1>4, <1>5, <1>6, NoPrivateAssumption DEF Counts
  <2> QED
    BY <2>1, <1>3, WaitersFrame
<1> QED
  BY <1>5, <1>6, <1>7, <1>8, <1>9, <1>10, <1>11, <1>12, <1>13, <1>14, <1>15, <1>16, <1>17
     DEF IInv

LEMMA InstallKeeps ==
  ASSUME IInv, NEW t \in Threads, Install(t)
  PROVE  IInv'
<1> USE DEF Entering, Owning, Leaving, Ending, Counted, Unlocked, DummyLocked, object
<1>1. TypeOK /\ PlacesFit /\ Exclusive /\ WordStands /\ PendingIsOwn /\ PrivateStays /\ MarkFits
      /\ PassMeetsWaiters /\ EndingIsAlone /\ TakeoverMeetsUnlock /\ TokenIsKept /\ RefsFit /\ WaitersFit
  BY DEF IInv
<1>2. PICK m \in Locks, p \in Privates : m = call[t].lock /\ p = call[t].d
  BY <1>1 DEF PlacesFit, Install
<1>3. OnlyMoves(t)
  BY <1>1 DEF OnlyMoves, TypeOK, Install, Goto, Set
<1>4. /\ pc[t] = "install" /\ UNCHANGED object /\ call' = call
      /\ \/ dptr[m] = DummyLocked /\ dptr'[m] = p /\ (\A k \in Locks \ {m} : dptr'[k] = dptr[k]) /\ pc'[t] = "ref"
         \/ dptr[m] # DummyLocked /\ dptr' = dptr /\ pc'[t] = "dropRetry"
  BY <1>1, <1>2, WordAssumption, BigNumberAssumption
     DEF TypeOK, PlacesFit, Exclusive, Install, Goto, Set, Held, NoCall, vars, Deref,
         DerefWaiters
<1>5. TypeOK'
  BY <1>1, <1>2, <1>4, NoPrivateAssumption, BigNumberAssumption
     DEF TypeOK, PlacesFit, Install, Kinds, vars, Goto, Set, Held, NoCall, Deref, DerefWaiters
<1>6. PlacesFit'
  BY <1>1, <1>2, <1>4, NoPrivateAssumption, BigNumberAssumption
     DEF TypeOK, PlacesFit, Install, Kinds, vars, Goto, Set, Held, NoCall, Deref, DerefWaiters
<1>7. Exclusive'
  <2>1. CASE dptr[m] = DummyLocked
    <3>1. tokens[p] = 0
      BY <1>1, <1>2, <1>4 DEF TypeOK, PendingIsOwn, TokenIsKept
    <3> QED
      BY <1>1, <1>2, <1>3, <1>4, <1>5, <1>6, <2>1, <3>1, WordAssumption
         DEF Exclusive, PlacesFit, OnlyMoves
  <2>2. CASE dptr[m] # DummyLocked
    <3>1. dptr' = dptr /\ tokens' = tokens /\ KeepsOwners(t) /\ pc'[t] \notin Owning
      BY <1>1, <1>2, <1>3, <1>4, <1>5, <1>6, <2>2 DEF KeepsOwners
    <3> QED
      BY <3>1, <1>3, ExclusiveFrame
  <2> QED
    BY <2>1, <2>2
<1>8. WordStands'
  <2>1. CASE dptr[m] = DummyLocked
    <3>1. \A j \in Locks : Owned(j) => Owned(j)'
      BY <1>1, <1>2, <1>3, <1>4, <1>5, <1>6 DEF Owned, OnlyMoves
    <3>2. Owned(m)
      BY <1>1, <2>1 DEF WordStands
    <3>3. \A j \in Locks : dptr[j] # p
      BY <1>1, <1>2, <1>4 DEF PendingIsOwn, Installed
    <3> QED
      BY <1>1, <1>2, <1>3, <1>4, <1>5, <1>6, <2>1, <3>1, <3>2, <3>3, WordAssumption
         DEF WordStands, OnlyMoves
  <2>2. CASE dptr[m] # DummyLocked
    <3>1. dptr' = dptr /\ tokens' = tokens /\ KeepsOwners(t) /\ pc[t] # "clear"
      BY <1>1, <1>2, <1>3, <1>4, <1>5, <1>6, <2>2 DEF KeepsOwners
    <3> QED
      BY <3>1, <1>3, WordFrame
  <2> QED
    BY <2>1, <2>2
<1>9. PendingIsOwn'
  BY <1>1, <1>2, <1>3, <1>4, <1>5, <1>6, WordAssumption, NoPrivateAssumption
     DEF TypeOK, PlacesFit, OnlyMoves, PendingIsOwn, PrivateStays, Installed
<1>10. PrivateStays'
  <2>1. \A x \in Threads \ {t} : call[x].d = p => pc[x] \in {"ref", "recheck", "dropRetry"}
    BY <1>1, <1>2, <1>4 DEF PendingIsOwn
  <2>2. \A j \in Locks : \A q \in Privates \ {p} : dptr'[j] = q => dptr[j] = q
    BY <1>1, <1>2, <1>3, <1>4, <1>5, <1>6
  <2>3. \A j \in Locks : \A q \in Privates : dptr[j] = q => dptr'[j] = q
    BY <1>1, <1>2, <1>3, <1>4, <1>5, <1>6, WordAssumption
  <2> QED
    BY <1>1, <1>2, <1>3, <1>4, <1>5, <1>6, <2>1, <2>2, <2>3
       DEF PrivateStays, PlacesFit, OnlyMoves, Installed
<1>11. MarkFits'
  BY <1>1, <1>2, <1>3, <1>4, <1>5, <1>6, WordAssumption, NoPrivateAssumption
     DEF TypeOK, PlacesFit, OnlyMoves, MarkFits
<1>12. PassMeetsWaiters'
  BY <1>1, <1>2, <1>3, <1>4, <1>5, <1>6, WordAssumption, NoPrivateAssumption
     DEF TypeOK, PlacesFit, OnlyMoves, PassMeetsWaiters, MarkFits
<1>13. EndingIsAlone'
  <2>1. /\ tokens' = tokens /\ \A x \in Threads : pc'[x] \in Ending => waiters'[call[x].d] = waiters[call[x].d]
        /\ pc'[t] \in Ending => pc[t] \in Ending /\ call'[t] = call[t] /\ (pc'[t] = "clear" => pc[t] = "clear")
        /\ pc'[t] \in Counted => pc[t] \in Counted /\ call'[t].d = call[t].d
    BY <1>1, <1>2, <1>3, <1>4, <1>5, <1>6
  <2>2. ASSUME NEW k \in Locks, NEW q \in Privates, dptr'[k] = q
        PROVE  \/ dptr[k] = q /\ (Owned(k)' => Owned(k))
               \/ \A x \in Threads : call[x].d = q => pc[x] # "clear"
    BY <1>1, <1>2, <1>3, <1>4, <1>5, <1>6, <2>2, WordAssumption
       DEF Owned, OnlyMoves, PendingIsOwn
  <2> QED
    BY <2>1, <2>2, <1>3, EndingFrame
<1>14. TakeoverMeetsUnlock'
  <2>1. pc[t] # "clear" /\ pc'[t] # "takeover"
    BY <1>1, <1>2, <1>3, <1>4, <1>5, <1>6
  <2>2. \A k \in Locks : \A q \in Privates : dptr'[k] = q =>
            \/ dptr[k] = q
            \/ \A x \in Threads : call[x].d = q => pc[x] # "takeover"
    BY <1>1, <1>2, <1>3, <1>4, <1>5, <1>6, WordAssumption DEF PendingIsOwn
  <2> QED
    BY <2>1, <2>2, <1>3, TakeoverFrame
<1>15. TokenIsKept'
  <2>1. tokens' = tokens /\ \A q \in Privates : possiblyUnlocked[q] => possiblyUnlocked'[q]
    BY <1>1, <1>2, <1>3, <1>4, <1>5, <1>6 DEF TypeOK
  <2>2. \A q \in Privates : tokens[q] > 0 /\ Installed(q) => Installed(q)'
    BY <1>1, <1>2, <1>3, <1>4, <1>5, <1>6, WordAssumption DEF Installed
  <2>3. /\ pc[t] \in Keepers => \/ pc'[t] \in Keepers /\ call'[t].d = call[t].d
                                \/ possiblyUnlocked'[call[t].d]
        /\ pc'[t] \in {"pass", "post"} => pc[t] \in {"pass", "post"} /\ call'[t].d = call[t].d
    BY <1>1, <1>2, <1>3, <1>4, <1>5, <1>6 DEF Keepers
  <2> QED
    BY <2>1, <2>2, <2>3, <1>3, TokenFrame
<1>16. RefsFit'
  <2>1. SUFFICES ASSUME NEW q \in Privates PROVE refCount'[q] = (NR(q)' + Own(q)') + Flagged(q)'
    BY DEF RefsFit
  <2>2. /\ refCount[q] = (NR(q) + Own(q)) + Flagged(q)
        /\ NR(q) \in Nat /\ Own(q) \in {0, 1} /\ Flagged(q) \in {0, 1}
    BY <1>1, Finite, FlaggedNat DEF RefsFit

  <2>3. refCount'[q] = refCount[q] /\ Flagged(q)' = Flagged(q)
    BY <1>4 DEF Flagged
  <2>4. CASE dptr[m] # DummyLocked
    <3>1. Refers(t, q)' <=> Refers(t, q)
      BY <1>4, <2>4 DEF Refers, Referring
    <3>2. dptr' = dptr /\ KeepsOwners(t)
      BY <1>4, <2>4 DEF KeepsOwners
    <3>3. NR(q)' = NR(q) /\ Own(q)' = Own(q)
      BY <1>3, <3>1, <3>2, Recount, SameOwn
    <3> QED
      BY <2>2, <2>3, <3>3
  <2>5. CASE dptr[m] = DummyLocked /\ q # p
    <3>1. Refers(t, q)' <=> Refers(t, q)
      BY <1>2, <1>4, <2>5 DEF Refers, Referring
    <3>2. \A x \in Threads : Owns(x, q)' <=> Owns(x, q)
      BY <1>1, <1>2, <1>3, <1>4, <1>5, <1>6, <2>5, WordAssumption DEF Owns, OnlyMoves, PlacesFit
    <3>3. NR(q)' = NR(q) /\ Own(q)' = Own(q)
      BY <1>3, <3>1, <3>2, OwnForms, OwnThen, Recount
    <3> QED
      BY <2>2, <2>3, <3>3
  <2>6. CASE dptr[m] = DummyLocked /\ q = p
    <3>1. Refers(t, p) /\ ~Refers(t, p)'
      BY <1>2, <1>4, <2>6 DEF Refers, Referring
    <3>2. ~\E x \in Threads : Owns(x, p)
      BY <1>1, <1>2, <1>4 DEF Owns, PendingIsOwn, Installed, PlacesFit
    <3>3. PICK x \in Threads : call[x].lock = m /\ pc[x] \in Owning
      BY <1>1, <2>6 DEF WordStands, Owned
    <3>4. Owns(x, p)'
      BY <1>3, <1>4, <2>6, <3>3 DEF Owns, OnlyMoves
    <3>5. Own(p) = 0 /\ Own(p)' = 1
      BY <3>2, <3>4, OwnForms, OwnThen
    <3>6. NR(p)' = NR(p) - 1
      BY <1>3, <3>1, Recount
    <3> QED
      BY <2>2, <2>3, <2>6, <3>5, <3>6
  <2> QED
    BY <2>4, <2>5, <2>6
<1>17. WaitersFit'
  <2>1. waiters' = waiters /\ \A q \in Privates : Counts(t, q)' <=> Counts(t, q)
    BY <1>1, <1>2, <1>3, <1>4, <1>5, <1>6, NoPrivateAssumption DEF Counts
  <2> QED
    BY <2>1, <1>3, WaitersFrame
<1> QED
  BY <1>5, <1>6, <1>7, <1>8, <1>9, <1>10, <1>11, <1>12, <1>13, <1>14, <1>15, <1>16, <1>17
     DEF IInv

LEMMA RefKeeps ==
  ASSUME IInv, NEW t \in Threads, Ref(t)
  PROVE  IInv'
<1> USE DEF Entering, Owning, Leaving, Ending, Counted, Unlocked, DummyLocked, object
<1>1. TypeOK /\ PlacesFit /\ Exclusive /\ WordStands /\ PendingIsOwn /\ PrivateStays /\ MarkFits
      /\ PassMeetsWaiters /\ EndingIsAlone /\ TakeoverMeetsUnlock /\ TokenIsKept /\ RefsFit /\ WaitersFit
  BY DEF IInv
<1>2. PICK m \in Locks, p \in Privates : m = call[t].lock /\ p = call[t].d
  BY <1>1 DEF PlacesFit, Ref
<1>3. OnlyMoves(t)
  BY <1>1 DEF OnlyMoves, TypeOK, Ref, Goto, Set
<1>4. /\ pc[t] = "ref" /\ UNCHANGED <<dptr, waiters, possiblyUnlocked, tokens>>
      /\ call'[t].lock = m /\ call'[t].kind = call[t].kind
      /\ \/ pc'[t] = "retry" /\ call'[t].d = NoPrivate /\ refCount[p] = 0 /\ refCount' = refCount
         \/ pc'[t] = "recheck" /\ call'[t].d = p /\ refCount[p] # 0
           /\ refCount'[p] = refCount[p] + 1 /\ (\A q \in Privates \ {p} : refCount'[q] = refCount[q])
  BY <1>1, <1>2, WordAssumption, BigNumberAssumption
     DEF TypeOK, PlacesFit, Exclusive, Ref, Goto, Set, Held, NoCall, vars, Deref, DerefWaiters
<1>5. TypeOK'
  <2>2. dptr' \in [Locks -> {Unlocked, DummyLocked} \cup Privates]
    BY <1>1, <1>2, <1>4 DEF TypeOK, Ref
  <2>3. refCount' \in [Privates -> Nat] /\ possiblyUnlocked' \in [Privates -> BOOLEAN] /\ tokens' \in [Privates -> {0, 1}]
    BY <1>1, <1>2, <1>4 DEF TypeOK, Ref, Deref
  <2>4. waiters' \in [Privates -> Int]
    BY <1>1, <1>2, <1>4, BigNumberAssumption DEF TypeOK, Ref, DerefWaiters
  <2>5. pc' \in [Threads -> {"idle"} \cup Entering \cup Owning \cup Leaving]
    BY <1>1 DEF TypeOK, Ref, Goto
  <2>6. call' \in [Threads -> [lock : Locks \cup {NoLock}, kind : Kinds \cup {"none"},
                             d : Privates \cup {NoPrivate}]]
    <3>1. call' = call \/ call' = [call EXCEPT ![t].d = NoPrivate]
      BY DEF Ref
    <3> QED
      BY <1>1, <3>1 DEF TypeOK
  <2> QED
    BY <2>2, <2>3, <2>4, <2>5, <2>6 DEF TypeOK
<1>6. PlacesFit'
  BY <1>1, <1>2, <1>4, NoPrivateAssumption, BigNumberAssumption
     DEF TypeOK, PlacesFit, Ref, Kinds, vars, Goto, Set, Held, NoCall, Deref, DerefWaiters
<1>7. Exclusive'
  <2>1. dptr' = dptr /\ tokens' = tokens /\ KeepsOwners(t)
    BY <1>1, <1>2, <1>3, <1>4, <1>5, <1>6 DEF KeepsOwners
  <2>2. pc'[t] \in {"won", "leave", "mark", "pass", "post"} => dptr[call[t].lock] = call'[t].d
    BY <1>1, <1>2, <1>3, <1>4, <1>5, <1>6 DEF Exclusive
  <2> QED
    BY <2>1, <2>2, <1>3, ExclusiveFrame
<1>8. WordStands'
  <2>1. dptr' = dptr /\ tokens' = tokens /\ KeepsOwners(t) /\ pc[t] # "clear"
    BY <1>1, <1>2, <1>3, <1>4, <1>5, <1>6 DEF KeepsOwners
  <2> QED
    BY <2>1, <1>3, WordFrame
<1>9. PendingIsOwn'
  <2>1. pc'[t] # "install" /\ \A q \in Privates : Installed(q)' => Installed(q)
    BY <1>1, <1>2, <1>3, <1>4, <1>5, <1>6, WordAssumption DEF PlacesFit, Installed
  <2>2. \/ call'[t].d \notin Privates
        \/ pc'[t] = "ref"
        \/ /\ call'[t].d = call[t].d
           /\ pc[t] \in {"ref", "recheck", "dropRetry"} => pc'[t] \in {"ref", "recheck", "dropRetry"}
        \/ Installed(call'[t].d)
    BY <1>1, <1>2, <1>3, <1>4, <1>5, <1>6, NoPrivateAssumption DEF PlacesFit, Installed
  <2> QED
    BY <2>1, <2>2, <1>3, PendingFrame
<1>10. PrivateStays'
  BY <1>1, <1>2, <1>3, <1>4, <1>5, <1>6, WordAssumption, NoPrivateAssumption
     DEF TypeOK, PlacesFit, OnlyMoves, PrivateStays, Exclusive, Installed
<1>11. MarkFits'
  BY <1>1, <1>2, <1>3, <1>4, <1>5, <1>6, WordAssumption, NoPrivateAssumption
     DEF TypeOK, PlacesFit, OnlyMoves, MarkFits
<1>12. PassMeetsWaiters'
  BY <1>1, <1>2, <1>3, <1>4, <1>5, <1>6, WordAssumption, NoPrivateAssumption
     DEF TypeOK, PlacesFit, OnlyMoves, PassMeetsWaiters, MarkFits
<1>13. EndingIsAlone'
  <2>1. /\ tokens' = tokens /\ \A x \in Threads : pc'[x] \in Ending => waiters'[call[x].d] = waiters[call[x].d]
        /\ pc'[t] \in Ending => pc[t] \in Ending /\ call'[t] = call[t] /\ (pc'[t] = "clear" => pc[t] = "clear")
        /\ pc'[t] \in Counted => pc[t] \in Counted /\ call'[t].d = call[t].d
    BY <1>1, <1>2, <1>3, <1>4, <1>5, <1>6
  <2>2. ASSUME NEW k \in Locks, NEW q \in Privates, dptr'[k] = q
        PROVE  \/ dptr[k] = q /\ (Owned(k)' => Owned(k))
               \/ \A x \in Threads : call[x].d = q => pc[x] # "clear"
    BY <1>1, <1>2, <1>3, <1>4, <1>5, <1>6, <2>2, WordAssumption
       DEF Owned, OnlyMoves, PendingIsOwn
  <2> QED
    BY <2>1, <2>2, <1>3, EndingFrame
<1>14. TakeoverMeetsUnlock'
  <2>1. pc[t] # "clear" /\ pc'[t] # "takeover"
    BY <1>1, <1>2, <1>3, <1>4, <1>5, <1>6
  <2>2. \A k \in Locks : \A q \in Privates : dptr'[k] = q =>
            \/ dptr[k] = q
            \/ \A x \in Threads : call[x].d = q => pc[x] # "takeover"
    BY <1>1, <1>2, <1>3, <1>4, <1>5, <1>6, WordAssumption DEF PendingIsOwn
  <2> QED
    BY <2>1, <2>2, <1>3, TakeoverFrame
<1>15. TokenIsKept'
  <2>1. tokens' = tokens /\ \A q \in Privates : possiblyUnlocked[q] => possiblyUnlocked'[q]
    BY <1>1, <1>2, <1>3, <1>4, <1>5, <1>6 DEF TypeOK
  <2>2. \A q \in Privates : tokens[q] > 0 /\ Installed(q) => Installed(q)'
    BY <1>1, <1>2, <1>3, <1>4, <1>5, <1>6, WordAssumption DEF Installed
  <2>3. /\ pc[t] \in Keepers => \/ pc'[t] \in Keepers /\ call'[t].d = call[t].d
                                \/ possiblyUnlocked'[call[t].d]
        /\ pc'[t] \in {"pass", "post"} => pc[t] \in {"pass", "post"} /\ call'[t].d = call[t].d
    BY <1>1, <1>2, <1>3, <1>4, <1>5, <1>6 DEF Keepers
  <2> QED
    BY <2>1, <2>2, <2>3, <1>3, TokenFrame
<1>16. RefsFit'
  <2>1. SUFFICES ASSUME NEW q \in Privates PROVE refCount'[q] = (NR(q)' + Own(q)') + Flagged(q)'
    BY DEF RefsFit
  <2>2. /\ refCount[q] = (NR(q) + Own(q)) + Flagged(q)
        /\ NR(q) \in Nat /\ Own(q) \in {0, 1} /\ Flagged(q) \in {0, 1}
    BY <1>1, Finite, FlaggedNat DEF RefsFit

  <2>3. Own(q)' = Own(q)
    <3>1. dptr' = dptr /\ KeepsOwners(t)
      BY <1>1, <1>2, <1>3, <1>4, <1>5, <1>6 DEF KeepsOwners
    <3> QED
      BY <3>1, <1>3, SameOwn
  <2>4. ASSUME q # p PROVE NR(q)' = NR(q) /\ Flagged(q)' = Flagged(q) /\ refCount'[q] = refCount[q]
    <3>1. Refers(t, q) <=> Refers(t, q)'
      BY <1>1, <1>2, <1>3, <1>4, <1>5, <1>6, <2>4, NoPrivateAssumption DEF Refers, Referring
    <3>2. NR(q)' = NR(q)
      BY <1>3, <3>1, Recount
    <3> QED
      BY <1>4, <2>4, <3>2 DEF Flagged

  <2>5. CASE q = p
    <3>1. Flagged(p)' = Flagged(p)
      BY <1>4 DEF Flagged
    <3>2. CASE pc'[t] = "retry"
      <4>1. ~Refers(t, p) /\ ~Refers(t, p)'
        BY <1>4, <3>2, NoPrivateAssumption DEF Refers, Referring
      <4>2. NR(p)' = NR(p) /\ refCount'[p] = refCount[p]
        BY <1>3, <1>4, <3>2, <4>1, Recount
      <4> QED
        BY <2>2, <2>3, <2>5, <3>1, <4>2
    <3>3. CASE pc'[t] = "recheck"
      <4>1. ~Refers(t, p) /\ Refers(t, p)'
        BY <1>4, <3>3 DEF Refers, Referring
      <4>2. NR(p)' = NR(p) + 1 /\ refCount'[p] = refCount[p] + 1
        BY <1>3, <1>4, <3>3, <4>1, Recount
      <4> QED
        BY <2>2, <2>3, <2>5, <3>1, <4>2
    <3> QED
      BY <1>4, <3>2, <3>3
  <2> QED
    BY <2>2, <2>3, <2>4, <2>5
<1>17. WaitersFit'
  <2>1. waiters' = waiters /\ \A q \in Privates : Counts(t, q)' <=> Counts(t, q)
    BY <1>1, <1>2, <1>3, <1>4, <1>5, <1>6, NoPrivateAssumption DEF Counts
  <2> QED
    BY <2>1, <1>3, WaitersFrame
<1> QED
  BY <1>5, <1>6, <1>7, <1>8, <1>9, <1>10, <1>11, <1>12, <1>13, <1>14, <1>15, <1>16, <1>17
     DEF IInv

LEMMA RecheckKeeps ==
  ASSUME IInv, NEW t \in Threads, Recheck(t)
  PROVE  IInv'
<1> USE DEF Entering, Owning, Leaving, Ending, Counted, Unlocked, DummyLocked, object
<1>1. TypeOK /\ PlacesFit /\ Exclusive /\ WordStands /\ PendingIsOwn /\ PrivateStays /\ MarkFits
      /\ PassMeetsWaiters /\ EndingIsAlone /\ TakeoverMeetsUnlock /\ TokenIsKept /\ RefsFit /\ WaitersFit
  BY DEF IInv
<1>2. PICK m \in Locks, p \in Privates : m = call[t].lock /\ p = call[t].d
  BY <1>1 DEF PlacesFit, Recheck
<1>3. OnlyMoves(t)
  BY <1>1 DEF OnlyMoves, TypeOK, Recheck, Goto, Set
<1>4. /\ pc[t] = "recheck" /\ UNCHANGED <<dptr, object, call>>
      /\ \/ dptr[m] = p /\ pc'[t] = "count"
         \/ dptr[m] # p /\ pc'[t] = "dropRetry"
  BY <1>1, <1>2, WordAssumption, BigNumberAssumption
     DEF TypeOK, PlacesFit, Exclusive, Recheck, Goto, Set, Held, NoCall, vars, Deref,
         DerefWaiters
<1>5. TypeOK'
  BY <1>1, <1>2, <1>4, NoPrivateAssumption, BigNumberAssumption
     DEF TypeOK, PlacesFit, Recheck, Kinds, vars, Goto, Set, Held, NoCall, Deref, DerefWaiters
<1>6. PlacesFit'
  BY <1>1, <1>2, <1>4, NoPrivateAssumption, BigNumberAssumption
     DEF TypeOK, PlacesFit, Recheck, Kinds, vars, Goto, Set, Held, NoCall, Deref, DerefWaiters
<1>7. Exclusive'
  BY <1>1, <1>2, <1>3, <1>4, <1>5, <1>6, WordAssumption, NoPrivateAssumption
     DEF TypeOK, PlacesFit, OnlyMoves, Exclusive
<1>8. WordStands'
  BY <1>1, <1>2, <1>3, <1>4, <1>5, <1>6, WordAssumption, NoPrivateAssumption
     DEF TypeOK, PlacesFit, OnlyMoves, Exclusive, WordStands, Owned
<1>9. PendingIsOwn'
  BY <1>1, <1>2, <1>3, <1>4, <1>5, <1>6, WordAssumption, NoPrivateAssumption
     DEF TypeOK, PlacesFit, OnlyMoves, PendingIsOwn, PrivateStays, Installed
<1>10. PrivateStays'
  BY <1>1, <1>2, <1>3, <1>4, <1>5, <1>6
     DEF PrivateStays, WordStands, PlacesFit, OnlyMoves, Installed
<1>11. MarkFits'
  BY <1>1, <1>2, <1>3, <1>4, <1>5, <1>6, WordAssumption, NoPrivateAssumption
     DEF TypeOK, PlacesFit, OnlyMoves, MarkFits
<1>12. PassMeetsWaiters'
  BY <1>1, <1>2, <1>3, <1>4, <1>5, <1>6, WordAssumption, NoPrivateAssumption
     DEF TypeOK, PlacesFit, OnlyMoves, PassMeetsWaiters, MarkFits
<1>13. EndingIsAlone'
  BY <1>1, <1>2, <1>3, <1>4, <1>5, <1>6, WordAssumption, NoPrivateAssumption
     DEF TypeOK, PlacesFit, OnlyMoves, EndingIsAlone, Owned, C
<1>14. TakeoverMeetsUnlock'
  BY <1>1, <1>2, <1>3, <1>4, <1>5, <1>6, WordAssumption, NoPrivateAssumption
     DEF TypeOK, PlacesFit, OnlyMoves, TakeoverMeetsUnlock, PrivateStays
<1>15. TokenIsKept'
  <2>1. tokens' = tokens /\ \A q \in Privates : possiblyUnlocked[q] => possiblyUnlocked'[q]
    BY <1>1, <1>2, <1>3, <1>4, <1>5, <1>6 DEF TypeOK
  <2>2. \A q \in Privates : tokens[q] > 0 /\ Installed(q) => Installed(q)'
    BY <1>1, <1>2, <1>3, <1>4, <1>5, <1>6, WordAssumption DEF Installed
  <2>3. /\ pc[t] \in Keepers => \/ pc'[t] \in Keepers /\ call'[t].d = call[t].d
                                \/ possiblyUnlocked'[call[t].d]
        /\ pc'[t] \in {"pass", "post"} => pc[t] \in {"pass", "post"} /\ call'[t].d = call[t].d
    BY <1>1, <1>2, <1>3, <1>4, <1>5, <1>6 DEF Keepers
  <2> QED
    BY <2>1, <2>2, <2>3, <1>3, TokenFrame
<1>16. RefsFit'
  <2>1. refCount' = refCount /\ possiblyUnlocked' = possiblyUnlocked
    BY <1>4
  <2>2. dptr' = dptr /\ KeepsOwners(t)
    BY <1>1, <1>2, <1>3, <1>4, <1>5, <1>6 DEF KeepsOwners
  <2>3. ASSUME NEW q \in Privates PROVE (Refers(t, q)' <=> Refers(t, q)) /\ Own(q)' = Own(q)
    <3>1. Refers(t, q)' <=> Refers(t, q)
      BY <1>1, <1>2, <1>3, <1>4, <1>5, <1>6, NoPrivateAssumption DEF Refers, Referring
    <3> QED
      BY <3>1, <1>3, <2>2, SameOwn
  <2> QED
    BY <2>1, <2>3, <1>3, RefsFrame
<1>17. WaitersFit'
  <2>1. waiters' = waiters /\ \A q \in Privates : Counts(t, q)' <=> Counts(t, q)
    BY <1>1, <1>2, <1>3, <1>4, <1>5, <1>6, NoPrivateAssumption DEF Counts
  <2> QED
    BY <2>1, <1>3, WaitersFrame
<1> QED
  BY <1>5, <1>6, <1>7, <1>8, <1>9, <1>10, <1>11, <1>12, <1>13, <1>14, <1>15, <1>16, <1>17
     DEF IInv

LEMMA CountInKeeps ==
  ASSUME IInv, NEW t \in Threads, CountIn(t)
  PROVE  IInv'
<1> USE DEF Entering, Owning, Leaving, Ending, Counted, Unlocked, DummyLocked, object
<1>1. TypeOK /\ PlacesFit /\ Exclusive /\ WordStands /\ PendingIsOwn /\ PrivateStays /\ MarkFits
      /\ PassMeetsWaiters /\ EndingIsAlone /\ TakeoverMeetsUnlock /\ TokenIsKept /\ RefsFit /\ WaitersFit
  BY DEF IInv
<1>2. PICK m \in Locks, p \in Privates : m = call[t].lock /\ p = call[t].d
  BY <1>1 DEF PlacesFit, CountIn
<1>3. OnlyMoves(t)
  BY <1>1 DEF OnlyMoves, TypeOK, CountIn, Goto, Set
<1>4. /\ pc[t] = "count" /\ UNCHANGED <<dptr, refCount, possiblyUnlocked, tokens, call>>
      /\ \/ waiters[p] = -BigNumber /\ waiters' = waiters /\ pc'[t] = "takeover"
         \/ waiters[p] # -BigNumber /\ waiters'[p] = waiters[p] + 1 /\ pc'[t] = "recheck2"
           /\ (\A q \in Privates \ {p} : waiters'[q] = waiters[q])
  BY <1>1, <1>2, WordAssumption, BigNumberAssumption
     DEF TypeOK, PlacesFit, Exclusive, CountIn, Goto, Set, Held, NoCall, vars, Deref,
         DerefWaiters
<1>5. TypeOK'
  BY <1>1, <1>2, <1>4, NoPrivateAssumption, BigNumberAssumption
     DEF TypeOK, PlacesFit, CountIn, Kinds, vars, Goto, Set, Held, NoCall, Deref, DerefWaiters
<1>6. PlacesFit'
  BY <1>1, <1>2, <1>4, NoPrivateAssumption, BigNumberAssumption
     DEF TypeOK, PlacesFit, CountIn, Kinds, vars, Goto, Set, Held, NoCall, Deref, DerefWaiters
<1>7. Exclusive'
  BY <1>1, <1>2, <1>3, <1>4, <1>5, <1>6, WordAssumption, NoPrivateAssumption
     DEF TypeOK, PlacesFit, OnlyMoves, Exclusive
<1>8. WordStands'
  BY <1>1, <1>2, <1>3, <1>4, <1>5, <1>6, WordAssumption, NoPrivateAssumption
     DEF TypeOK, PlacesFit, OnlyMoves, Exclusive, WordStands, Owned
<1>9. PendingIsOwn'
  <2>1. pc'[t] # "install" /\ \A q \in Privates : Installed(q)' => Installed(q)
    BY <1>1, <1>2, <1>3, <1>4, <1>5, <1>6, WordAssumption DEF PlacesFit, Installed
  <2>2. \/ call'[t].d \notin Privates
        \/ pc'[t] = "ref"
        \/ /\ call'[t].d = call[t].d
           /\ pc[t] \in {"ref", "recheck", "dropRetry"} => pc'[t] \in {"ref", "recheck", "dropRetry"}
        \/ Installed(call'[t].d)
    BY <1>1, <1>2, <1>3, <1>4, <1>5, <1>6, NoPrivateAssumption DEF PlacesFit, Installed
  <2> QED
    BY <2>1, <2>2, <1>3, PendingFrame
<1>10. PrivateStays'
  BY <1>1, <1>2, <1>3, <1>4, <1>5, <1>6, WordAssumption, NoPrivateAssumption
     DEF TypeOK, PlacesFit, OnlyMoves, PrivateStays, Exclusive, Installed
<1>11. MarkFits'
  <2>1. BigNumber \in Nat /\ waiters[p] \in Int
    BY <1>1, Finite DEF TypeOK
  <2> QED
    BY <1>1, <1>2, <1>3, <1>4, <1>5, <1>6, <2>1 DEF MarkFits, OnlyMoves, TypeOK
<1>12. PassMeetsWaiters'
  <2>1. waiters[p] \in {NC(p), NC(p) - BigNumber} /\ NC(p) \in Nat /\ BigNumber \in Nat /\ BigNumber > 0
    BY <1>1, Finite DEF WaitersFit
  <2>2. waiters[p] + 1 # -BigNumber
    BY <2>1
  <2> QED
    BY <1>1, <1>2, <1>3, <1>4, <1>5, <1>6, <2>2 DEF PassMeetsWaiters, PlacesFit, OnlyMoves
<1>13. EndingIsAlone'
  BY <1>1, <1>2, <1>3, <1>4, <1>5, <1>6, WordAssumption, NoPrivateAssumption
     DEF TypeOK, PlacesFit, OnlyMoves, EndingIsAlone, Owned, C
<1>14. TakeoverMeetsUnlock'
  <2>1. BigNumber \in Nat /\ BigNumber > 0
    BY Finite
  <2>2. ASSUME waiters[p] = -BigNumber, dptr[m] = p
        PROVE  \E x \in Threads : pc[x] = "clear" /\ call[x].d = p
    <3>1. PICK x \in Threads : call[x].d = p /\ pc[x] \in Ending \cup {"pass"}
      BY <1>1, <2>1, <2>2 DEF MarkFits
    <3> QED
      BY <1>1, <2>2, <3>1 DEF PassMeetsWaiters, PrivateStays, Installed
  <2> QED
    BY <1>1, <1>2, <1>3, <1>4, <1>5, <1>6, <2>2 DEF TakeoverMeetsUnlock, OnlyMoves
<1>15. TokenIsKept'
  BY <1>1, <1>2, <1>3, <1>4, <1>5, <1>6, WordAssumption, NoPrivateAssumption
     DEF TypeOK, PlacesFit, OnlyMoves, TokenIsKept, Installed, Kept
<1>16. RefsFit'
  <2>1. refCount' = refCount /\ possiblyUnlocked' = possiblyUnlocked
    BY <1>4
  <2>2. dptr' = dptr /\ KeepsOwners(t)
    BY <1>1, <1>2, <1>3, <1>4, <1>5, <1>6 DEF KeepsOwners
  <2>3. ASSUME NEW q \in Privates PROVE (Refers(t, q)' <=> Refers(t, q)) /\ Own(q)' = Own(q)
    <3>1. Refers(t, q)' <=> Refers(t, q)
      BY <1>1, <1>2, <1>3, <1>4, <1>5, <1>6, NoPrivateAssumption DEF Refers, Referring
    <3> QED
      BY <3>1, <1>3, <2>2, SameOwn
  <2> QED
    BY <2>1, <2>3, <1>3, RefsFrame
<1>17. WaitersFit'
  <2>1. SUFFICES ASSUME NEW q \in Privates PROVE waiters'[q] \in {NC(q)', NC(q)' - BigNumber}
    BY DEF WaitersFit
  <2>2. waiters[q] \in {NC(q), NC(q) - BigNumber} /\ NC(q) \in Nat /\ BigNumber \in Nat /\ NC(q) < BigNumber
    BY <1>1, Finite DEF WaitersFit
  <2>3. ASSUME q # p PROVE waiters'[q] = waiters[q] /\ NC(q)' = NC(q)
    <3>1. Counts(t, q) <=> Counts(t, q)'
      BY <1>1, <1>2, <1>3, <1>4, <1>5, <1>6, <2>3, NoPrivateAssumption DEF Counts
    <3> QED
      BY <1>3, <1>4, <2>3, <3>1, Recount

  <2>4. CASE q = p /\ pc'[t] = "takeover"
    <3>1. ~Counts(t, p) /\ ~Counts(t, p)'
      BY <1>4, <2>4 DEF Counts
    <3> QED
      BY <1>3, <1>4, <2>2, <2>4, <3>1, Recount
  <2>5. CASE q = p /\ pc'[t] = "recheck2"
    <3>1. ~Counts(t, p) /\ Counts(t, p)'
      BY <1>2, <1>4, <2>5 DEF Counts
    <3>2. NC(p)' = NC(p) + 1
      BY <1>3, <3>1, Recount
    <3>3. waiters'[p] = waiters[p] + 1
      BY <1>4, <2>5
    <3> QED
      BY <2>2, <2>5, <3>2, <3>3
  <2> QED
    BY <1>4, <2>2, <2>3, <2>4, <2>5
<1> QED
  BY <1>5, <1>6, <1>7, <1>8, <1>9, <1>10, <1>11, <1>12, <1>13, <1>14, <1>15, <1>16, <1>17
     DEF IInv

LEMMA TakeOverKeeps ==
  ASSUME IInv, NEW t \in Threads, TakeOver(t)
  PROVE  IInv'
<1> USE DEF Entering, Owning, Leaving, Ending, Counted, Unlocked, DummyLocked, object
<1>1. TypeOK /\ PlacesFit /\ Exclusive /\ WordStands /\ PendingIsOwn /\ PrivateStays /\ MarkFits
      /\ PassMeetsWaiters /\ EndingIsAlone /\ TakeoverMeetsUnlock /\ TokenIsKept /\ RefsFit /\ WaitersFit
  BY DEF IInv
<1>2. PICK m \in Locks, p \in Privates : m = call[t].lock /\ p = call[t].d
  BY <1>1 DEF PlacesFit, TakeOver
<1>3. OnlyMoves(t)
  BY <1>1 DEF OnlyMoves, TypeOK, TakeOver, Goto, Set
<1>4. /\ pc[t] = "takeover" /\ UNCHANGED <<object, call>>
      /\ \/ dptr[m] = p /\ dptr'[m] = DummyLocked /\ (\A k \in Locks \ {m} : dptr'[k] = dptr[k]) /\ pc'[t] = "dropHeld"
         \/ dptr[m] # p /\ dptr' = dptr /\ pc'[t] = "dropRetry"
  BY <1>1, <1>2, WordAssumption, BigNumberAssumption
     DEF TypeOK, PlacesFit, Exclusive, TakeOver, Goto, Set, Held, NoCall, vars, Deref,
         DerefWaiters
<1>5. TypeOK'
  BY <1>1, <1>2, <1>4, NoPrivateAssumption, BigNumberAssumption
     DEF TypeOK, PlacesFit, TakeOver, Kinds, vars, Goto, Set, Held, NoCall, Deref, DerefWaiters
<1>6. PlacesFit'
  BY <1>1, <1>2, <1>4, NoPrivateAssumption, BigNumberAssumption
     DEF TypeOK, PlacesFit, TakeOver, Kinds, vars, Goto, Set, Held, NoCall, Deref, DerefWaiters
<1>7. Exclusive'
  <2>1. ASSUME dptr[m] = p
        PROVE  ~Owned(m) /\ tokens[p] = 0 /\ C(p) = {}
    <3>1. PICK x \in Threads : pc[x] = "clear" /\ call[x].d = p
      BY <1>1, <1>2, <1>4, <2>1 DEF TakeoverMeetsUnlock
    <3>2. call[x].lock = m
      BY <1>1, <2>1, <3>1 DEF PrivateStays
    <3> QED
      BY <1>1, <2>1, <3>1, <3>2 DEF EndingIsAlone

  <2>2. CASE dptr[m] = p
    <3>1. \A x \in Threads : pc[x] \in Owning => call[x].lock # m /\ call[x].lock \in Locks
      BY <1>1, <2>1, <2>2 DEF Owned, PlacesFit
    <3>2. dptr'[m] = DummyLocked /\ (\A j \in Locks \ {m} : dptr'[j] = dptr[j]) /\ tokens' = tokens /\ call' = call
      BY <1>4, <2>2
    <3>3. \A x \in Threads \ {t} : pc'[x] = pc[x]
      BY <1>3 DEF OnlyMoves
    <3>4. pc'[t] \notin {"won", "leave", "mark", "pass", "post"} /\ pc'[t] = "dropHeld"
      BY <1>4, <2>2
    <3> QED
      BY <1>1, <1>2, <3>1, <3>2, <3>3, <3>4, WordAssumption DEF Exclusive
  <2>3. CASE dptr[m] # p
    <3>1. dptr' = dptr /\ tokens' = tokens /\ KeepsOwners(t) /\ pc'[t] \notin Owning
      BY <1>4, <2>3 DEF KeepsOwners
    <3> QED
      BY <3>1, <1>3, ExclusiveFrame
  <2> QED
    BY <2>2, <2>3
<1>8. WordStands'
  BY <1>1, <1>2, <1>3, <1>4, <1>5, <1>6, WordAssumption, NoPrivateAssumption
     DEF TypeOK, PlacesFit, OnlyMoves, Exclusive, WordStands, Owned
<1>9. PendingIsOwn'
  BY <1>1, <1>2, <1>3, <1>4, <1>5, <1>6, WordAssumption, NoPrivateAssumption
     DEF TypeOK, PlacesFit, OnlyMoves, PendingIsOwn, PrivateStays, Installed
<1>10. PrivateStays'
  <2>1. ASSUME dptr[m] = p
        PROVE  ~Owned(m) /\ tokens[p] = 0 /\ C(p) = {}
    <3>1. PICK x \in Threads : pc[x] = "clear" /\ call[x].d = p
      BY <1>1, <1>2, <1>4, <2>1 DEF TakeoverMeetsUnlock
    <3>2. call[x].lock = m
      BY <1>1, <2>1, <3>1 DEF PrivateStays
    <3> QED
      BY <1>1, <2>1, <3>1, <3>2 DEF EndingIsAlone

  <2>2. \A j \in Locks : dptr[j] = p => j = m
    BY <1>1, <1>2, <1>4 DEF PrivateStays

  <2>3. ~Installed(p)' \/ pc'[t] \notin {"dropHeld", "unflag", "unmark"}
    BY <1>1, <1>2, <1>3, <1>4, <1>5, <1>6, <2>2, WordAssumption DEF Installed
  <2>4. ASSUME NEW x \in Threads, pc'[x] \in {"wait", "timedout"} PROVE dptr'[call'[x].lock] = call'[x].d
    <3>1. pc[x] \in {"wait", "timedout"} /\ call'[x] = call[x] /\ call[x].lock \in Locks
      BY <1>1, <1>2, <1>3, <1>4, <1>5, <1>6, <2>4 DEF OnlyMoves, PlacesFit
    <3>2. dptr[m] = p => call[x].d # p
      BY <2>1, <3>1 DEF C
    <3> QED
      BY <1>1, <1>2, <1>3, <1>4, <1>5, <1>6, <3>1, <3>2 DEF PrivateStays
  <2>5. \A j \in Locks : \A q \in Privates : dptr'[j] = q => dptr[j] = q
    BY <1>1, <1>2, <1>3, <1>4, <1>5, <1>6, WordAssumption
  <2> QED
    BY <1>1, <1>2, <1>3, <1>4, <1>5, <1>6, <2>2, <2>3, <2>4, <2>5
       DEF PrivateStays, OnlyMoves, PlacesFit, Installed
<1>11. MarkFits'
  BY <1>1, <1>2, <1>3, <1>4, <1>5, <1>6, WordAssumption, NoPrivateAssumption
     DEF TypeOK, PlacesFit, OnlyMoves, MarkFits
<1>12. PassMeetsWaiters'
  BY <1>1, <1>2, <1>3, <1>4, <1>5, <1>6, WordAssumption, NoPrivateAssumption
     DEF TypeOK, PlacesFit, OnlyMoves, PassMeetsWaiters, MarkFits
<1>13. EndingIsAlone'
  BY <1>1, <1>2, <1>3, <1>4, <1>5, <1>6, WordAssumption, NoPrivateAssumption
     DEF TypeOK, PlacesFit, OnlyMoves, EndingIsAlone, Owned, C
<1>14. TakeoverMeetsUnlock'
  BY <1>1, <1>2, <1>3, <1>4, <1>5, <1>6, WordAssumption, NoPrivateAssumption
     DEF TypeOK, PlacesFit, OnlyMoves, TakeoverMeetsUnlock, PrivateStays
<1>15. TokenIsKept'
  <2>0. ASSUME dptr[m] = p
        PROVE  ~Owned(m) /\ tokens[p] = 0 /\ C(p) = {}
    <3>1. PICK x \in Threads : pc[x] = "clear" /\ call[x].d = p
      BY <1>1, <1>2, <1>4, <2>0 DEF TakeoverMeetsUnlock
    <3>2. call[x].lock = m
      BY <1>1, <2>0, <3>1 DEF PrivateStays
    <3> QED
      BY <1>1, <2>0, <3>1, <3>2 DEF EndingIsAlone
  <2>1. tokens' = tokens /\ \A q \in Privates : possiblyUnlocked[q] => possiblyUnlocked'[q]
    BY <1>1, <1>2, <1>3, <1>4, <1>5, <1>6 DEF TypeOK
  <2>2. \A q \in Privates : tokens[q] > 0 /\ Installed(q) => Installed(q)'
    BY <1>1, <1>2, <1>3, <1>4, <1>5, <1>6, <2>0, WordAssumption DEF Installed
  <2>3. /\ pc[t] \in Keepers => \/ pc'[t] \in Keepers /\ call'[t].d = call[t].d
                                \/ possiblyUnlocked'[call[t].d]
        /\ pc'[t] \in {"pass", "post"} => pc[t] \in {"pass", "post"} /\ call'[t].d = call[t].d
    BY <1>1, <1>2, <1>3, <1>4, <1>5, <1>6 DEF Keepers
  <2> QED
    BY <2>1, <2>2, <2>3, <1>3, TokenFrame
<1>16. RefsFit'
  <2>1. refCount' = refCount /\ possiblyUnlocked' = possiblyUnlocked
    BY <1>4
  <2>4. ASSUME dptr[m] = p
        PROVE  ~Owned(m) /\ tokens[p] = 0 /\ C(p) = {}
    <3>1. PICK x \in Threads : pc[x] = "clear" /\ call[x].d = p
      BY <1>1, <1>2, <1>4, <2>4 DEF TakeoverMeetsUnlock
    <3>2. call[x].lock = m
      BY <1>1, <2>4, <3>1 DEF PrivateStays
    <3> QED
      BY <1>1, <2>4, <3>1, <3>2 DEF EndingIsAlone
  <2>2. dptr[m] = p => \A x \in Threads : pc[x] \in Owning => call[x].lock # m
    BY <2>4 DEF Owned
  <2>3. ASSUME NEW q \in Privates PROVE (Refers(t, q)' <=> Refers(t, q)) /\ Own(q)' = Own(q)
    <3>1. Refers(t, q)' <=> Refers(t, q)
      BY <1>1, <1>2, <1>3, <1>4, <1>5, <1>6, NoPrivateAssumption DEF Refers, Referring
    <3>2. \A x \in Threads : Owns(x, q)' <=> Owns(x, q)
      BY <1>1, <1>2, <1>3, <1>4, <1>5, <1>6, <2>2, WordAssumption, NoPrivateAssumption
         DEF Owns, OnlyMoves, PlacesFit
    <3>3. Own(q)' = Own(q)
      BY <3>2, OwnForms, OwnThen
    <3> QED
      BY <3>1, <3>3
  <2> QED
    BY <2>1, <2>3, <1>3, RefsFrame
<1>17. WaitersFit'
  <2>1. waiters' = waiters /\ \A q \in Privates : Counts(t, q)' <=> Counts(t, q)
    BY <1>1, <1>2, <1>3, <1>4, <1>5, <1>6, NoPrivateAssumption DEF Counts
  <2> QED
    BY <2>1, <1>3, WaitersFrame
<1> QED
  BY <1>5, <1>6, <1>7, <1>8, <1>9, <1>10, <1>11, <1>12, <1>13, <1>14, <1>15, <1>16, <1>17
     DEF IInv

LEMMA RecheckCountedKeeps ==
  ASSUME IInv, NEW t \in Threads, RecheckCounted(t)
  PROVE  IInv'
<1> USE DEF Entering, Owning, Leaving, Ending, Counted, Unlocked, DummyLocked, object
<1>1. TypeOK /\ PlacesFit /\ Exclusive /\ WordStands /\ PendingIsOwn /\ PrivateStays /\ MarkFits
      /\ PassMeetsWaiters /\ EndingIsAlone /\ TakeoverMeetsUnlock /\ TokenIsKept /\ RefsFit /\ WaitersFit
  BY DEF IInv
<1>2. PICK m \in Locks, p \in Privates : m = call[t].lock /\ p = call[t].d
  BY <1>1 DEF PlacesFit, RecheckCounted
<1>3. OnlyMoves(t)
  BY <1>1 DEF OnlyMoves, TypeOK, RecheckCounted, Goto, Set
<1>4. /\ pc[t] = "recheck2" /\ UNCHANGED <<dptr, refCount, possiblyUnlocked, tokens, call>>
      /\ \/ dptr[m] = p /\ waiters' = waiters /\ pc'[t] = "wait"
         \/ dptr[m] # p /\ waiters'[p] = waiters[p] - 1 /\ pc'[t] = "dropRetry"
           /\ (\A q \in Privates \ {p} : waiters'[q] = waiters[q])
  BY <1>1, <1>2, WordAssumption, BigNumberAssumption
     DEF TypeOK, PlacesFit, Exclusive, RecheckCounted, Goto, Set, Held, NoCall, vars, Deref,
         DerefWaiters
<1>5. TypeOK'
  BY <1>1, WordAssumption, NoPrivateAssumption
     DEF TypeOK, PlacesFit, RecheckCounted, Goto, Set, Held, NoCall
<1>6. PlacesFit'
  BY <1>1, <1>2, <1>4, NoPrivateAssumption, BigNumberAssumption
     DEF TypeOK, PlacesFit, RecheckCounted, Kinds, vars, Goto, Set, Held, NoCall, Deref,
         DerefWaiters
<1>7. Exclusive'
  <2>1. dptr' = dptr /\ tokens' = tokens /\ KeepsOwners(t)
    BY <1>1, <1>2, <1>3, <1>4, <1>5, <1>6 DEF KeepsOwners
  <2>2. pc'[t] \in {"won", "leave", "mark", "pass", "post"} => dptr[call[t].lock] = call'[t].d
    BY <1>1, <1>2, <1>3, <1>4, <1>5, <1>6 DEF Exclusive
  <2> QED
    BY <2>1, <2>2, <1>3, ExclusiveFrame
<1>8. WordStands'
  <2>1. dptr' = dptr /\ tokens' = tokens /\ KeepsOwners(t) /\ pc[t] # "clear"
    BY <1>1, <1>2, <1>3, <1>4, <1>5, <1>6 DEF KeepsOwners
  <2> QED
    BY <2>1, <1>3, WordFrame
<1>9. PendingIsOwn'
  <2>1. pc'[t] # "install" /\ \A q \in Privates : Installed(q)' => Installed(q)
    BY <1>1, <1>2, <1>3, <1>4, <1>5, <1>6, WordAssumption DEF PlacesFit, Installed
  <2>2. \/ call'[t].d \notin Privates
        \/ pc'[t] = "ref"
        \/ /\ call'[t].d = call[t].d
           /\ pc[t] \in {"ref", "recheck", "dropRetry"} => pc'[t] \in {"ref", "recheck", "dropRetry"}
        \/ Installed(call'[t].d)
    BY <1>1, <1>2, <1>3, <1>4, <1>5, <1>6, NoPrivateAssumption DEF PlacesFit, Installed
  <2> QED
    BY <2>1, <2>2, <1>3, PendingFrame
<1>10. PrivateStays'
  BY <1>1, <1>2, <1>3, <1>4, <1>5, <1>6, WordAssumption, NoPrivateAssumption
     DEF TypeOK, PlacesFit, OnlyMoves, PrivateStays, Exclusive, Installed
<1>11. MarkFits'
  <2>1. Counts(t, p)
    BY <1>2, <1>4 DEF Counts
  <2>2. waiters[p] # 0 /\ waiters[p] \in Int
    BY <1>1, <2>1, CountedIsSeen DEF TypeOK
  <2>3. waiters'[p] < 0 => waiters[p] < 0
    BY <1>4, <2>2
  <2> QED
    BY <1>1, <1>2, <1>3, <1>4, <1>5, <1>6, <2>3 DEF MarkFits, OnlyMoves
<1>12. PassMeetsWaiters'
  <2>1. ASSUME dptr[m] # p, NEW x \in Threads, pc[x] \in {"pass", "post"} PROVE call[x].d # p
    <3>1. dptr[call[x].lock] = call[x].d /\ call[x].lock \in Locks
      BY <1>1, <2>1 DEF Exclusive, PlacesFit
    <3> QED
      BY <1>1, <1>2, <1>4, <2>1, <3>1 DEF PrivateStays

  <2> QED
    BY <1>1, <1>2, <1>3, <1>4, <1>5, <1>6, <2>1 DEF PassMeetsWaiters, PlacesFit, OnlyMoves
<1>13. EndingIsAlone'
  BY <1>1, <1>2, <1>3, <1>4, <1>5, <1>6, WordAssumption, NoPrivateAssumption
     DEF TypeOK, PlacesFit, OnlyMoves, EndingIsAlone, Owned, C
<1>14. TakeoverMeetsUnlock'
  BY <1>1, <1>2, <1>3, <1>4, <1>5, <1>6, WordAssumption, NoPrivateAssumption
     DEF TypeOK, PlacesFit, OnlyMoves, TakeoverMeetsUnlock, PrivateStays
<1>15. TokenIsKept'
  <2>1. ASSUME dptr[m] # p, NEW x \in Threads, pc[x] \in {"pass", "post"} PROVE call[x].d # p
    <3>1. dptr[call[x].lock] = call[x].d /\ call[x].lock \in Locks
      BY <1>1, <2>1 DEF Exclusive, PlacesFit
    <3> QED
      BY <1>1, <1>2, <1>4, <2>1, <3>1 DEF PrivateStays

  <2>2. dptr[m] # p => tokens[p] = 0
    BY <1>1, <1>2, <1>3, <1>4, <1>5, <1>6 DEF TypeOK, PrivateStays, TokenIsKept, Installed
  <2>3. \A q \in Privates : (q # p \/ dptr[m] = p) => (Kept(q) => Kept(q)') /\ (Installed(q) => Installed(q)')
    BY <1>1, <1>2, <1>3, <1>4, <1>5, <1>6 DEF Kept, Installed, OnlyMoves

  <2>4. ASSUME NEW q \in Privates, tokens'[q] > 0 PROVE Installed(q)' /\ Kept(q)'
    BY <1>1, <1>4, <2>2, <2>3, <2>4 DEF TokenIsKept
  <2>5. ASSUME NEW x \in Threads, pc'[x] \in {"pass", "post"} PROVE Kept(call[x].d)'
    <3>1. pc[x] \in {"pass", "post"} /\ call'[x] = call[x]
      BY <1>3, <1>4, <2>5 DEF OnlyMoves
    <3>2. PICK q \in Privates : q = call[x].d
      BY <1>1, <3>1 DEF PlacesFit
    <3>3. Kept(q)'
      BY <1>1, <2>1, <2>3, <3>1, <3>2 DEF TokenIsKept
    <3> QED
      BY <3>1, <3>2, <3>3 DEF Kept
  <2> QED
    BY <2>4, <2>5 DEF TokenIsKept
<1>16. RefsFit'
  <2>1. refCount' = refCount /\ possiblyUnlocked' = possiblyUnlocked
    BY <1>4
  <2>2. dptr' = dptr /\ KeepsOwners(t)
    BY <1>1, <1>2, <1>3, <1>4, <1>5, <1>6 DEF KeepsOwners
  <2>3. ASSUME NEW q \in Privates PROVE (Refers(t, q)' <=> Refers(t, q)) /\ Own(q)' = Own(q)
    <3>1. Refers(t, q)' <=> Refers(t, q)
      BY <1>1, <1>2, <1>3, <1>4, <1>5, <1>6, NoPrivateAssumption DEF Refers, Referring
    <3> QED
      BY <3>1, <1>3, <2>2, SameOwn
  <2> QED
    BY <2>1, <2>3, <1>3, RefsFrame
<1>17. WaitersFit'
  <2>1. SUFFICES ASSUME NEW q \in Privates PROVE waiters'[q] \in {NC(q)', NC(q)' - BigNumber}
    BY DEF WaitersFit
  <2>2. waiters[q] \in {NC(q), NC(q) - BigNumber} /\ NC(q) \in Nat /\ BigNumber \in Nat /\ NC(q) < BigNumber
    BY <1>1, Finite DEF WaitersFit
  <2>3. ASSUME q # p PROVE waiters'[q] = waiters[q] /\ NC(q)' = NC(q)
    <3>1. Counts(t, q) <=> Counts(t, q)'
      BY <1>1, <1>2, <1>3, <1>4, <1>5, <1>6, <2>3, NoPrivateAssumption DEF Counts
    <3> QED
      BY <1>3, <1>4, <2>3, <3>1, Recount

  <2>4. CASE q = p /\ pc'[t] = "wait"
    <3>1. Counts(t, p) /\ Counts(t, p)'
      BY <1>2, <1>4, <2>4 DEF Counts
    <3> QED
      BY <1>3, <1>4, <2>2, <2>4, <3>1, Recount
  <2>5. CASE q = p /\ pc'[t] = "dropRetry"
    <3>1. Counts(t, p) /\ ~Counts(t, p)'
      BY <1>2, <1>4, <2>5 DEF Counts
    <3>2. NC(p)' = NC(p) - 1
      BY <1>3, <3>1, Recount
    <3>3. waiters'[p] = waiters[p] - 1
      BY <1>4, <2>5
    <3> QED
      BY <2>2, <2>5, <3>2, <3>3
  <2> QED
    BY <1>4, <2>2, <2>3, <2>4, <2>5
<1> QED
  BY <1>5, <1>6, <1>7, <1>8, <1>9, <1>10, <1>11, <1>12, <1>13, <1>14, <1>15, <1>16, <1>17
     DEF IInv

LEMMA SemWaitKeeps ==
  ASSUME IInv, NEW t \in Threads, SemWait(t)
  PROVE  IInv'
<1> USE DEF Entering, Owning, Leaving, Ending, Counted, Unlocked, DummyLocked, object
<1>1. TypeOK /\ PlacesFit /\ Exclusive /\ WordStands /\ PendingIsOwn /\ PrivateStays /\ MarkFits
      /\ PassMeetsWaiters /\ EndingIsAlone /\ TakeoverMeetsUnlock /\ TokenIsKept /\ RefsFit /\ WaitersFit
  BY DEF IInv
<1>2. PICK m \in Locks, p \in Privates : m = call[t].lock /\ p = call[t].d
  BY <1>1 DEF PlacesFit, SemWait
<1>3. OnlyMoves(t)
  BY <1>1 DEF OnlyMoves, TypeOK, SemWait, Goto, Set
<1>4. /\ pc[t] = "wait" /\ pc'[t] = "won" /\ UNCHANGED <<dptr, refCount, waiters, possiblyUnlocked, call>>
      /\ tokens[p] = 1 /\ tokens'[p] = 0 /\ (\A q \in Privates \ {p} : tokens'[q] = tokens[q])
  BY <1>1, <1>2, WordAssumption, BigNumberAssumption
     DEF TypeOK, PlacesFit, Exclusive, SemWait, Goto, Set, Held, NoCall, vars, Deref,
         DerefWaiters
<1>5. TypeOK'
  BY <1>1, <1>2, <1>4, NoPrivateAssumption, BigNumberAssumption
     DEF TypeOK, PlacesFit, SemWait, Kinds, vars, Goto, Set, Held, NoCall, Deref, DerefWaiters
<1>6. PlacesFit'
  BY <1>1, <1>2, <1>4, NoPrivateAssumption, BigNumberAssumption
     DEF TypeOK, PlacesFit, SemWait, Kinds, vars, Goto, Set, Held, NoCall, Deref, DerefWaiters
<1>7. Exclusive'
  <2>1. dptr[m] = p /\ \A j \in Locks : dptr[j] = p => j = m
    BY <1>1, <1>2, <1>4 DEF PrivateStays, WordStands
  <2>2. \A x \in Threads : pc[x] \in Owning => call[x].lock # m /\ call[x].lock \in Locks /\ dptr[call[x].lock] # p
    BY <1>1, <1>2, <1>4, <2>1 DEF Exclusive, PlacesFit

  <2>3. \A q \in Privates : tokens[q] = 0 => tokens'[q] = 0
    BY <1>4
  <2> QED
    BY <1>1, <1>2, <1>3, <1>4, <1>5, <1>6, <2>1, <2>2, <2>3, WordAssumption
       DEF Exclusive, OnlyMoves
<1>8. WordStands'
  <2>1. dptr[m] = p /\ \A j \in Locks : dptr[j] = p => j = m
    BY <1>1, <1>2, <1>4 DEF PrivateStays, WordStands
  <2>2. \A x \in Threads : pc[x] \in Owning => call[x].lock # m /\ call[x].lock \in Locks /\ dptr[call[x].lock] # p
    BY <1>1, <1>2, <1>4, <2>1 DEF Exclusive, PlacesFit

  <2>3. Owned(m)'
    BY <1>1, <1>2, <1>3, <1>4, <1>5, <1>6 DEF Owned
  <2>4. \A j \in Locks : Owned(j) => Owned(j)'
    BY <1>1, <1>2, <1>3, <1>4, <1>5, <1>6 DEF Owned, OnlyMoves
  <2>5. \A x \in Threads \ {t} : pc'[x] = pc[x] /\ call'[x] = call[x]
    BY <1>3 DEF OnlyMoves
  <2> QED
    BY <1>1, <1>4, <2>1, <2>3, <2>4, <2>5 DEF WordStands
<1>9. PendingIsOwn'
  BY <1>1, <1>2, <1>3, <1>4, <1>5, <1>6, WordAssumption, NoPrivateAssumption
     DEF TypeOK, PlacesFit, OnlyMoves, PendingIsOwn, PrivateStays, Installed
<1>10. PrivateStays'
  BY <1>1, <1>2, <1>3, <1>4, <1>5, <1>6, WordAssumption, NoPrivateAssumption
     DEF TypeOK, PlacesFit, OnlyMoves, PrivateStays, Exclusive, Installed
<1>11. MarkFits'
  BY <1>1, <1>2, <1>3, <1>4, <1>5, <1>6, WordAssumption, NoPrivateAssumption
     DEF TypeOK, PlacesFit, OnlyMoves, MarkFits
<1>12. PassMeetsWaiters'
  BY <1>1, <1>2, <1>3, <1>4, <1>5, <1>6, WordAssumption, NoPrivateAssumption
     DEF TypeOK, PlacesFit, OnlyMoves, PassMeetsWaiters, MarkFits
<1>13. EndingIsAlone'
  <2>1. dptr[m] = p /\ \A j \in Locks : dptr[j] = p => j = m
    BY <1>1, <1>2, <1>4 DEF PrivateStays, WordStands
  <2>2. \A x \in Threads : pc[x] \in Owning => call[x].lock # m /\ call[x].lock \in Locks /\ dptr[call[x].lock] # p
    BY <1>1, <1>2, <1>4, <2>1 DEF Exclusive, PlacesFit

  <2>3. SUFFICES ASSUME NEW x \in Threads, pc'[x] \in Ending
                 PROVE  /\ waiters'[call'[x].d] = -BigNumber /\ C(call[x].d)' = {}
                        /\ \A y \in Threads : pc'[y] \in Ending /\ call'[y].d = call'[x].d => y = x
                        /\ pc'[x] = "clear" /\ dptr'[call'[x].lock] = call'[x].d =>
                             ~Owned(call[x].lock)' /\ tokens'[call'[x].d] = 0
    BY DEF EndingIsAlone
  <2>4. x # t /\ pc[x] \in Ending /\ pc'[x] = pc[x] /\ call' = call
    BY <1>3, <1>4, <2>3 DEF OnlyMoves
  <2>5. call[x].d # p /\ call[x].lock \in Locks /\ call[x].d \in Privates
    BY <1>1, <1>2, <1>4, <2>4 DEF EndingIsAlone, C, PlacesFit
  <2>6. waiters'[call'[x].d] = -BigNumber /\ \A y \in Threads : pc'[y] \in Ending /\ call'[y].d = call'[x].d => y = x
    BY <1>1, <1>3, <1>4, <2>4 DEF EndingIsAlone, OnlyMoves
  <2>7. C(call[x].d)' = {}
    BY <1>1, <1>2, <1>3, <1>4, <2>4, <2>5 DEF EndingIsAlone, OnlyMoves, C
  <2>8. ASSUME pc'[x] = "clear", dptr'[call'[x].lock] = call'[x].d
        PROVE  ~Owned(call[x].lock)' /\ tokens'[call'[x].d] = 0
    <3>1. pc[x] = "clear" /\ dptr[call[x].lock] = call[x].d
      BY <1>4, <2>4, <2>8
    <3>2. ~Owned(call[x].lock) /\ tokens[call[x].d] = 0
      BY <1>1, <3>1 DEF EndingIsAlone
    <3>3. call[x].lock # m
      BY <2>1, <2>5, <3>1
    <3> QED
      BY <1>2, <1>3, <1>4, <2>4, <2>5, <3>2, <3>3 DEF Owned, OnlyMoves
  <2> QED
    BY <2>6, <2>7, <2>8
<1>14. TakeoverMeetsUnlock'
  BY <1>1, <1>2, <1>3, <1>4, <1>5, <1>6, WordAssumption, NoPrivateAssumption
     DEF TypeOK, PlacesFit, OnlyMoves, TakeoverMeetsUnlock, PrivateStays
<1>15. TokenIsKept'
  <2>1. \A x \in Threads : pc[x] \in {"pass", "post"} => call[x].d # p
    BY <1>1, <1>2, <1>4 DEF Exclusive
  <2>2. tokens'[p] = 0
    BY <1>4
  <2>3. \A q \in Privates \ {p} : (Kept(q) => Kept(q)') /\ (Installed(q) => Installed(q)')
    BY <1>1, <1>2, <1>3, <1>4, <1>5, <1>6 DEF Kept, Installed, OnlyMoves

  <2>4. ASSUME NEW q \in Privates, tokens'[q] > 0 PROVE Installed(q)' /\ Kept(q)'
    BY <1>1, <1>4, <2>2, <2>3, <2>4 DEF TokenIsKept
  <2>5. ASSUME NEW x \in Threads, pc'[x] \in {"pass", "post"} PROVE Kept(call[x].d)'
    <3>1. pc[x] \in {"pass", "post"} /\ call'[x] = call[x]
      BY <1>3, <1>4, <2>5 DEF OnlyMoves
    <3>2. PICK q \in Privates : q = call[x].d
      BY <1>1, <3>1 DEF PlacesFit
    <3>3. Kept(q)'
      BY <1>1, <2>1, <2>3, <3>1, <3>2 DEF TokenIsKept
    <3> QED
      BY <3>1, <3>2, <3>3 DEF Kept
  <2> QED
    BY <2>4, <2>5 DEF TokenIsKept
<1>16. RefsFit'
  <2>1. SUFFICES ASSUME NEW q \in Privates PROVE refCount'[q] = (NR(q)' + Own(q)') + Flagged(q)'
    BY DEF RefsFit
  <2>2. /\ refCount[q] = (NR(q) + Own(q)) + Flagged(q)
        /\ NR(q) \in Nat /\ Own(q) \in {0, 1} /\ Flagged(q) \in {0, 1}
    BY <1>1, Finite, FlaggedNat DEF RefsFit

  <2>3. dptr[m] = p /\ \A x \in Threads \ {t} : pc[x] \in Owning => dptr[call[x].lock] # p
    <3>1. dptr[m] = p /\ \A j \in Locks : dptr[j] = p => j = m
      BY <1>1, <1>2, <1>4 DEF PrivateStays, Exclusive, WordStands
    <3> QED
      BY <1>1, <1>2, <1>4, <3>1 DEF Exclusive, PlacesFit

  <2>4. ASSUME q # p PROVE NR(q)' = NR(q) /\ Own(q)' = Own(q)
    <3>1. Refers(t, q) <=> Refers(t, q)'
      BY <1>1, <1>2, <1>3, <1>4, <1>5, <1>6, <2>4, NoPrivateAssumption DEF Refers, Referring
    <3>2. \A x \in Threads : Owns(x, q)' <=> Owns(x, q)
      BY <1>1, <1>2, <1>3, <1>4, <1>5, <1>6, <2>3, <2>4, WordAssumption
         DEF Owns, OnlyMoves, PlacesFit
    <3>3. Own(q)' = Own(q)
      BY <3>2, OwnForms, OwnThen
    <3> QED
      BY <1>3, <3>1, <3>3, Recount
  <2>5. ASSUME q = p PROVE NR(q)' = NR(q) - 1 /\ Own(q) = 0 /\ Own(q)' = 1
    <3>1. Refers(t, p) /\ ~Refers(t, p)'
      BY <1>2, <1>4 DEF Refers, Referring
    <3>2. ~(\E x \in Threads : Owns(x, p))
      BY <1>1, <1>2, <1>3, <1>4, <1>5, <1>6, <2>3 DEF Owns
    <3>3. \E x \in Threads : Owns(x, p)'
      BY <1>1, <1>2, <1>3, <1>4, <1>5, <1>6, <2>3 DEF Owns, OnlyMoves, PlacesFit
    <3>4. Own(p) = 0 /\ Own(p)' = 1
      BY <3>2, <3>3, OwnForms, OwnThen
    <3> QED
      BY <1>3, <2>5, <3>1, <3>4, Recount
  <2>6. refCount'[q] = refCount[q] /\ Flagged(q)' = Flagged(q)
    BY <1>4 DEF Flagged
  <2> QED
    BY <2>2, <2>4, <2>5, <2>6
<1>17. WaitersFit'
  <2>1. waiters' = waiters /\ \A q \in Privates : Counts(t, q)' <=> Counts(t, q)
    BY <1>1, <1>2, <1>3, <1>4, <1>5, <1>6, NoPrivateAssumption DEF Counts
  <2> QED
    BY <2>1, <1>3, WaitersFrame
<1> QED
  BY <1>5, <1>6, <1>7, <1>8, <1>9, <1>10, <1>11, <1>12, <1>13, <1>14, <1>15, <1>16, <1>17
     DEF IInv

LEMMA SemTimeoutKeeps ==
  ASSUME IInv, NEW t \in Threads, SemTimeout(t)
  PROVE  IInv'
<1> USE DEF Entering, Owning, Leaving, Ending, Counted, Unlocked, DummyLocked, object
<1>1. TypeOK /\ PlacesFit /\ Exclusive /\ WordStands /\ PendingIsOwn /\ PrivateStays /\ MarkFits
      /\ PassMeetsWaiters /\ EndingIsAlone /\ TakeoverMeetsUnlock /\ TokenIsKept /\ RefsFit /\ WaitersFit
  BY DEF IInv
<1>2. PICK m \in Locks, p \in Privates : m = call[t].lock /\ p = call[t].d
  BY <1>1 DEF PlacesFit, SemTimeout
<1>3. OnlyMoves(t)
  BY <1>1 DEF OnlyMoves, TypeOK, SemTimeout, Goto, Set
<1>4. /\ pc[t] = "wait" /\ call[t].kind = "timed" /\ pc'[t] = "timedout" /\ UNCHANGED <<dptr, object, call>>
  BY <1>1, <1>2, WordAssumption, BigNumberAssumption
     DEF TypeOK, PlacesFit, Exclusive, SemTimeout, Goto, Set, Held, NoCall, vars, Deref,
         DerefWaiters
<1>5. TypeOK'
  BY <1>1, <1>2, <1>4, NoPrivateAssumption, BigNumberAssumption
     DEF TypeOK, PlacesFit, SemTimeout, Kinds, vars, Goto, Set, Held, NoCall, Deref,
         DerefWaiters
<1>6. PlacesFit'
  BY <1>1, <1>2, <1>4, NoPrivateAssumption, BigNumberAssumption
     DEF TypeOK, PlacesFit, SemTimeout, Kinds, vars, Goto, Set, Held, NoCall, Deref,
         DerefWaiters
<1>7. Exclusive'
  <2>1. dptr' = dptr /\ tokens' = tokens /\ KeepsOwners(t)
    BY <1>1, <1>2, <1>3, <1>4, <1>5, <1>6 DEF KeepsOwners
  <2>2. pc'[t] \in {"won", "leave", "mark", "pass", "post"} => dptr[call[t].lock] = call'[t].d
    BY <1>1, <1>2, <1>3, <1>4, <1>5, <1>6 DEF Exclusive
  <2> QED
    BY <2>1, <2>2, <1>3, ExclusiveFrame
<1>8. WordStands'
  <2>1. dptr' = dptr /\ tokens' = tokens /\ KeepsOwners(t) /\ pc[t] # "clear"
    BY <1>1, <1>2, <1>3, <1>4, <1>5, <1>6 DEF KeepsOwners
  <2> QED
    BY <2>1, <1>3, WordFrame
<1>9. PendingIsOwn'
  <2>1. pc'[t] # "install" /\ \A q \in Privates : Installed(q)' => Installed(q)
    BY <1>1, <1>2, <1>3, <1>4, <1>5, <1>6, WordAssumption DEF PlacesFit, Installed
  <2>2. \/ call'[t].d \notin Privates
        \/ pc'[t] = "ref"
        \/ /\ call'[t].d = call[t].d
           /\ pc[t] \in {"ref", "recheck", "dropRetry"} => pc'[t] \in {"ref", "recheck", "dropRetry"}
        \/ Installed(call'[t].d)
    BY <1>1, <1>2, <1>3, <1>4, <1>5, <1>6, NoPrivateAssumption DEF PlacesFit, Installed
  <2> QED
    BY <2>1, <2>2, <1>3, PendingFrame
<1>10. PrivateStays'
  BY <1>1, <1>2, <1>3, <1>4, <1>5, <1>6, WordAssumption, NoPrivateAssumption
     DEF TypeOK, PlacesFit, OnlyMoves, PrivateStays, Exclusive, Installed
<1>11. MarkFits'
  BY <1>1, <1>2, <1>3, <1>4, <1>5, <1>6, WordAssumption, NoPrivateAssumption
     DEF TypeOK, PlacesFit, OnlyMoves, MarkFits
<1>12. PassMeetsWaiters'
  BY <1>1, <1>2, <1>3, <1>4, <1>5, <1>6, WordAssumption, NoPrivateAssumption
     DEF TypeOK, PlacesFit, OnlyMoves, PassMeetsWaiters, MarkFits
<1>13. EndingIsAlone'
  <2>1. /\ tokens' = tokens /\ \A x \in Threads : pc'[x] \in Ending => waiters'[call[x].d] = waiters[call[x].d]
        /\ pc'[t] \in Ending => pc[t] \in Ending /\ call'[t] = call[t] /\ (pc'[t] = "clear" => pc[t] = "clear")
        /\ pc'[t] \in Counted => pc[t] \in Counted /\ call'[t].d = call[t].d
    BY <1>1, <1>2, <1>3, <1>4, <1>5, <1>6
  <2>2. ASSUME NEW k \in Locks, NEW q \in Privates, dptr'[k] = q
        PROVE  \/ dptr[k] = q /\ (Owned(k)' => Owned(k))
               \/ \A x \in Threads : call[x].d = q => pc[x] # "clear"
    BY <1>1, <1>2, <1>3, <1>4, <1>5, <1>6, <2>2, WordAssumption
       DEF Owned, OnlyMoves, PendingIsOwn
  <2> QED
    BY <2>1, <2>2, <1>3, EndingFrame
<1>14. TakeoverMeetsUnlock'
  <2>1. pc[t] # "clear" /\ pc'[t] # "takeover"
    BY <1>1, <1>2, <1>3, <1>4, <1>5, <1>6
  <2>2. \A k \in Locks : \A q \in Privates : dptr'[k] = q =>
            \/ dptr[k] = q
            \/ \A x \in Threads : call[x].d = q => pc[x] # "takeover"
    BY <1>1, <1>2, <1>3, <1>4, <1>5, <1>6, WordAssumption DEF PendingIsOwn
  <2> QED
    BY <2>1, <2>2, <1>3, TakeoverFrame
<1>15. TokenIsKept'
  <2>1. tokens' = tokens /\ \A q \in Privates : possiblyUnlocked[q] => possiblyUnlocked'[q]
    BY <1>1, <1>2, <1>3, <1>4, <1>5, <1>6 DEF TypeOK
  <2>2. \A q \in Privates : tokens[q] > 0 /\ Installed(q) => Installed(q)'
    BY <1>1, <1>2, <1>3, <1>4, <1>5, <1>6, WordAssumption DEF Installed
  <2>3. /\ pc[t] \in Keepers => \/ pc'[t] \in Keepers /\ call'[t].d = call[t].d
                                \/ possiblyUnlocked'[call[t].d]
        /\ pc'[t] \in {"pass", "post"} => pc[t] \in {"pass", "post"} /\ call'[t].d = call[t].d
    BY <1>1, <1>2, <1>3, <1>4, <1>5, <1>6 DEF Keepers
  <2> QED
    BY <2>1, <2>2, <2>3, <1>3, TokenFrame
<1>16. RefsFit'
  <2>1. refCount' = refCount /\ possiblyUnlocked' = possiblyUnlocked
    BY <1>4
  <2>2. dptr' = dptr /\ KeepsOwners(t)
    BY <1>1, <1>2, <1>3, <1>4, <1>5, <1>6 DEF KeepsOwners
  <2>3. ASSUME NEW q \in Privates PROVE (Refers(t, q)' <=> Refers(t, q)) /\ Own(q)' = Own(q)
    <3>1. Refers(t, q)' <=> Refers(t, q)
      BY <1>1, <1>2, <1>3, <1>4, <1>5, <1>6, NoPrivateAssumption DEF Refers, Referring
    <3> QED
      BY <3>1, <1>3, <2>2, SameOwn
  <2> QED
    BY <2>1, <2>3, <1>3, RefsFrame
<1>17. WaitersFit'
  <2>1. waiters' = waiters /\ \A q \in Privates : Counts(t, q)' <=> Counts(t, q)
    BY <1>1, <1>2, <1>3, <1>4, <1>5, <1>6, NoPrivateAssumption DEF Counts
  <2> QED
    BY <2>1, <1>3, WaitersFrame
<1> QED
  BY <1>5, <1>6, <1>7, <1>8, <1>9, <1>10, <1>11, <1>12, <1>13, <1>14, <1>15, <1>16, <1>17
     DEF IInv

LEMMA ResetFlagKeeps ==
  ASSUME IInv, NEW t \in Threads, ResetFlag(t)
  PROVE  IInv'
<1> USE DEF Entering, Owning, Leaving, Ending, Counted, Unlocked, DummyLocked, object
<1>1. TypeOK /\ PlacesFit /\ Exclusive /\ WordStands /\ PendingIsOwn /\ PrivateStays /\ MarkFits
      /\ PassMeetsWaiters /\ EndingIsAlone /\ TakeoverMeetsUnlock /\ TokenIsKept /\ RefsFit /\ WaitersFit
  BY DEF IInv
<1>2. PICK m \in Locks, p \in Privates : m = call[t].lock /\ p = call[t].d
  BY <1>1 DEF PlacesFit, ResetFlag
<1>3. OnlyMoves(t)
  BY <1>1 DEF OnlyMoves, TypeOK, ResetFlag, Goto, Set
<1>4. /\ UNCHANGED <<dptr, waiters, tokens, call>>
      /\ (pc[t] = "won" /\ pc'[t] = "leave") \/ (pc[t] = "unflag" /\ pc'[t] = "unmark")
      /\ \/ ~possiblyUnlocked[p] /\ UNCHANGED <<refCount, possiblyUnlocked>>
         \/ possiblyUnlocked[p] /\ refCount'[p] = refCount[p] - 1 /\ possiblyUnlocked'[p] = FALSE
           /\ \A q \in Privates \ {p} : refCount'[q] = refCount[q] /\ possiblyUnlocked'[q] = possiblyUnlocked[q]
  BY <1>1, <1>2, WordAssumption, BigNumberAssumption
     DEF TypeOK, PlacesFit, Exclusive, ResetFlag, Goto, Set, Held, NoCall, vars, Deref,
         DerefWaiters
<1>5. TypeOK'
  <2>1. possiblyUnlocked[p] => refCount[p] >= 1
    BY ReferenceCounts
  <2>2. dptr' \in [Locks -> {Unlocked, DummyLocked} \cup Privates]
    BY <1>1, <1>2, <1>4 DEF TypeOK, ResetFlag
  <2>3. possiblyUnlocked' \in [Privates -> BOOLEAN] /\ tokens' \in [Privates -> {0, 1}]
    BY <1>1, <1>2 DEF TypeOK, ResetFlag
  <2>7. refCount' \in [Privates -> Nat]
    <3>1. refCount \in [Privates -> Nat] /\ (possiblyUnlocked[p] => refCount[p] - 1 \in Nat)
      BY <1>1, <2>1 DEF TypeOK
    <3>2. refCount' = refCount \/ (possiblyUnlocked[p] /\ refCount' = [refCount EXCEPT ![p] = refCount[p] - 1])
      BY <1>2 DEF ResetFlag, Deref
    <3> QED
      BY <3>1, <3>2
  <2>4. waiters' \in [Privates -> Int]
    BY <1>1, <1>2, <1>4, BigNumberAssumption DEF TypeOK, ResetFlag, DerefWaiters
  <2>5. pc' \in [Threads -> {"idle"} \cup Entering \cup Owning \cup Leaving]
    BY <1>1 DEF TypeOK, ResetFlag, Goto
  <2>6. call' \in [Threads -> [lock : Locks \cup {NoLock}, kind : Kinds \cup {"none"},
                             d : Privates \cup {NoPrivate}]]
    BY <1>1, <1>2, <1>4 DEF TypeOK, ResetFlag, Kinds, Set, Held, NoCall
  <2> QED
    BY <2>2, <2>3, <2>4, <2>5, <2>6, <2>7 DEF TypeOK
<1>6. PlacesFit'
  BY <1>1, <1>2, <1>4, NoPrivateAssumption, BigNumberAssumption
     DEF TypeOK, PlacesFit, ResetFlag, Kinds, vars, Goto, Set, Held, NoCall, Deref, DerefWaiters
<1>7. Exclusive'
  BY <1>1, WordAssumption, NoPrivateAssumption
     DEF TypeOK, PlacesFit, Exclusive, ResetFlag, Goto, Set, Held, NoCall
<1>8. WordStands'
  BY <1>1, <1>2, <1>3, <1>4, <1>5, <1>6, WordAssumption, NoPrivateAssumption
     DEF TypeOK, PlacesFit, OnlyMoves, Exclusive, WordStands, Owned
<1>9. PendingIsOwn'
  BY <1>1, <1>2, <1>3, <1>4, <1>5, <1>6, WordAssumption, NoPrivateAssumption
     DEF TypeOK, PlacesFit, OnlyMoves, PendingIsOwn, PrivateStays, Installed
<1>10. PrivateStays'
  BY <1>1, <1>2, <1>3, <1>4, <1>5, <1>6, WordAssumption, NoPrivateAssumption
     DEF TypeOK, PlacesFit, OnlyMoves, PrivateStays, Exclusive, Installed
<1>11. MarkFits'
  BY <1>1, <1>2, <1>3, <1>4, <1>5, <1>6, WordAssumption, NoPrivateAssumption
     DEF TypeOK, PlacesFit, OnlyMoves, MarkFits
<1>12. PassMeetsWaiters'
  BY <1>1, <1>2, <1>3, <1>4, <1>5, <1>6, WordAssumption, NoPrivateAssumption
     DEF TypeOK, PlacesFit, OnlyMoves, PassMeetsWaiters, MarkFits
<1>13. EndingIsAlone'
  BY <1>1, <1>2, <1>3, <1>4, <1>5, <1>6, WordAssumption, NoPrivateAssumption
     DEF TypeOK, PlacesFit, OnlyMoves, EndingIsAlone, Owned, C
<1>14. TakeoverMeetsUnlock'
  BY <1>1, <1>2, <1>3, <1>4, <1>5, <1>6, WordAssumption, NoPrivateAssumption
     DEF TypeOK, PlacesFit, OnlyMoves, TakeoverMeetsUnlock, PrivateStays
<1>15. TokenIsKept'
  <2>1. tokens[p] = 0
    BY <1>1, <1>2, <1>3, <1>4, <1>5, <1>6
       DEF TypeOK, Exclusive, PrivateStays, TokenIsKept, Installed
  <2>2. \A x \in Threads : pc[x] \in {"pass", "post"} => call[x].d # p
    <3>1. SUFFICES ASSUME NEW x \in Threads, pc[x] \in {"pass", "post"}, call[x].d = p PROVE FALSE
      OBVIOUS
    <3>2. dptr[call[x].lock] = p /\ call[x].lock \in Locks
      BY <1>1, <3>1 DEF Exclusive, PlacesFit
    <3>3. CASE pc[t] = "won"
      <4>1. call[x].lock = m
        BY <1>1, <1>2, <3>2, <3>3 DEF Exclusive, WordStands
      <4> QED
        BY <1>1, <1>2, <3>1, <3>3, <4>1 DEF Exclusive
    <3>4. CASE pc[t] = "unflag"
      BY <1>1, <1>2, <3>2, <3>4 DEF PrivateStays, Installed
    <3> QED
      BY <1>4, <3>3, <3>4
  <2>3. \A q \in Privates \ {p} : (Kept(q) => Kept(q)') /\ (Installed(q) => Installed(q)')
    BY <1>1, <1>2, <1>3, <1>4, <1>5, <1>6 DEF Kept, Installed, OnlyMoves
  <2>4. ASSUME NEW q \in Privates, tokens'[q] > 0 PROVE Installed(q)' /\ Kept(q)'
    BY <1>1, <1>4, <2>1, <2>3, <2>4 DEF TokenIsKept
  <2>5. ASSUME NEW x \in Threads, pc'[x] \in {"pass", "post"} PROVE Kept(call[x].d)'
    <3>1. pc[x] \in {"pass", "post"} /\ call'[x] = call[x]
      BY <1>3, <1>4, <2>5 DEF OnlyMoves
    <3>2. PICK q \in Privates : q = call[x].d
      BY <1>1, <3>1 DEF PlacesFit
    <3>3. Kept(q)'
      BY <1>1, <2>2, <2>3, <3>1, <3>2 DEF TokenIsKept
    <3> QED
      BY <3>1, <3>2, <3>3 DEF Kept
  <2> QED
    BY <2>4, <2>5 DEF TokenIsKept
<1>16. RefsFit'
  <2>1. SUFFICES ASSUME NEW q \in Privates PROVE refCount'[q] = (NR(q)' + Own(q)') + Flagged(q)'
    BY DEF RefsFit
  <2>2. /\ refCount[q] = (NR(q) + Own(q)) + Flagged(q)
        /\ NR(q) \in Nat /\ Own(q) \in {0, 1} /\ Flagged(q) \in {0, 1}
    BY <1>1, Finite, FlaggedNat DEF RefsFit

  <2>3. Own(q)' = Own(q)
    <3>1. dptr' = dptr /\ KeepsOwners(t)
      BY <1>1, <1>2, <1>3, <1>4, <1>5, <1>6 DEF KeepsOwners
    <3> QED
      BY <3>1, <1>3, SameOwn
  <2>4. ASSUME q # p PROVE NR(q)' = NR(q) /\ Flagged(q)' = Flagged(q) /\ refCount'[q] = refCount[q]
    <3>1. Refers(t, q) <=> Refers(t, q)'
      BY <1>1, <1>2, <1>3, <1>4, <1>5, <1>6, <2>4, NoPrivateAssumption DEF Refers, Referring
    <3>2. NR(q)' = NR(q)
      BY <1>3, <3>1, Recount
    <3> QED
      BY <1>4, <2>4, <3>2 DEF Flagged

  <2>5. CASE q = p
    <3>1. Refers(t, p) <=> Refers(t, p)'
      BY <1>1, <1>2, <1>4, NoPrivateAssumption DEF Refers, Referring, PlacesFit
    <3>2. NR(p)' = NR(p)
      BY <1>3, <3>1, Recount
    <3>3. CASE possiblyUnlocked[p]
      <4>1. Flagged(p) = 1 /\ Flagged(p)' = 0 /\ refCount'[p] = refCount[p] - 1
        BY <1>4, <3>3 DEF Flagged
      <4> QED
        BY <2>2, <2>3, <2>5, <3>2, <4>1
    <3>4. CASE ~possiblyUnlocked[p]
      <4>1. Flagged(p)' = Flagged(p) /\ refCount'[p] = refCount[p]
        BY <1>4, <3>4 DEF Flagged
      <4> QED
        BY <2>2, <2>3, <2>5, <3>2, <4>1
    <3> QED
      BY <3>3, <3>4
  <2> QED
    BY <2>2, <2>3, <2>4, <2>5
<1>17. WaitersFit'
  <2>1. waiters' = waiters /\ \A q \in Privates : Counts(t, q)' <=> Counts(t, q)
    BY <1>1, <1>2, <1>3, <1>4, <1>5, <1>6, NoPrivateAssumption DEF Counts
  <2> QED
    BY <2>1, <1>3, WaitersFrame
<1> QED
  BY <1>5, <1>6, <1>7, <1>8, <1>9, <1>10, <1>11, <1>12, <1>13, <1>14, <1>15, <1>16, <1>17
     DEF IInv

LEMMA CountOutKeeps ==
  ASSUME IInv, NEW t \in Threads, CountOut(t)
  PROVE  IInv'
<1> USE DEF Entering, Owning, Leaving, Ending, Counted, Unlocked, DummyLocked, object
<1>1. TypeOK /\ PlacesFit /\ Exclusive /\ WordStands /\ PendingIsOwn /\ PrivateStays /\ MarkFits
      /\ PassMeetsWaiters /\ EndingIsAlone /\ TakeoverMeetsUnlock /\ TokenIsKept /\ RefsFit /\ WaitersFit
  BY DEF IInv
<1>2. PICK m \in Locks, p \in Privates : m = call[t].lock /\ p = call[t].d
  BY <1>1 DEF PlacesFit, CountOut
<1>3. OnlyMoves(t)
  BY <1>1 DEF OnlyMoves, TypeOK, CountOut, Goto, Set
<1>4. /\ UNCHANGED <<dptr, refCount, possiblyUnlocked, tokens>> /\ (\A q \in Privates \ {p} : waiters'[q] = waiters[q])
      /\ waiters'[p] = IF waiters[p] < 0 THEN waiters[p] + BigNumber - 1 ELSE waiters[p] - 1
      /\ call'[t].lock = m
      /\ \/ pc[t] = "leave" /\ pc'[t] = "held" /\ call'[t].d = NoPrivate
         \/ pc[t] = "timedout" /\ pc'[t] = "flag" /\ call' = call
  BY <1>1, <1>2, WordAssumption, BigNumberAssumption
     DEF TypeOK, PlacesFit, Exclusive, CountOut, Goto, Set, Held, NoCall, vars, Deref,
         DerefWaiters
<1>5. TypeOK'
  <2>2. dptr' \in [Locks -> {Unlocked, DummyLocked} \cup Privates]
    BY <1>1, <1>2, <1>4 DEF TypeOK, CountOut
  <2>3. refCount' \in [Privates -> Nat] /\ possiblyUnlocked' \in [Privates -> BOOLEAN] /\ tokens' \in [Privates -> {0, 1}]
    BY <1>1, <1>2, <1>4 DEF TypeOK, CountOut, Deref
  <2>4. waiters' \in [Privates -> Int]
    BY <1>1, <1>2, <1>4, BigNumberAssumption DEF TypeOK, CountOut, DerefWaiters
  <2>5. pc' \in [Threads -> {"idle"} \cup Entering \cup Owning \cup Leaving]
    BY <1>1 DEF TypeOK, CountOut, Goto
  <2>6. call' \in [Threads -> [lock : Locks \cup {NoLock}, kind : Kinds \cup {"none"},
                             d : Privates \cup {NoPrivate}]]
    BY <1>1, <1>2, <1>4 DEF TypeOK, CountOut, Kinds, Set, Held, NoCall
  <2> QED
    BY <2>2, <2>3, <2>4, <2>5, <2>6 DEF TypeOK
<1>6. PlacesFit'
  BY <1>1, <1>2, <1>4, NoPrivateAssumption, BigNumberAssumption
     DEF TypeOK, PlacesFit, CountOut, Kinds, vars, Goto, Set, Held, NoCall, Deref, DerefWaiters
<1>7. Exclusive'
  <2>1. dptr' = dptr /\ tokens' = tokens /\ KeepsOwners(t)
    BY <1>1, <1>2, <1>3, <1>4, <1>5, <1>6 DEF KeepsOwners
  <2>2. pc'[t] \in {"won", "leave", "mark", "pass", "post"} => dptr[call[t].lock] = call'[t].d
    BY <1>1, <1>2, <1>3, <1>4, <1>5, <1>6 DEF Exclusive
  <2> QED
    BY <2>1, <2>2, <1>3, ExclusiveFrame
<1>8. WordStands'
  <2>1. dptr' = dptr /\ tokens' = tokens /\ KeepsOwners(t) /\ pc[t] # "clear"
    BY <1>1, <1>2, <1>3, <1>4, <1>5, <1>6 DEF KeepsOwners
  <2> QED
    BY <2>1, <1>3, WordFrame
<1>9. PendingIsOwn'
  <2>1. pc'[t] # "install" /\ \A q \in Privates : Installed(q)' => Installed(q)
    BY <1>1, <1>2, <1>3, <1>4, <1>5, <1>6, WordAssumption DEF PlacesFit, Installed
  <2>2. \/ call'[t].d \notin Privates
        \/ pc'[t] = "ref"
        \/ /\ call'[t].d = call[t].d
           /\ pc[t] \in {"ref", "recheck", "dropRetry"} => pc'[t] \in {"ref", "recheck", "dropRetry"}
        \/ Installed(call'[t].d)
    BY <1>1, <1>2, <1>3, <1>4, <1>5, <1>6, NoPrivateAssumption DEF PlacesFit, Installed
  <2> QED
    BY <2>1, <2>2, <1>3, PendingFrame
<1>10. PrivateStays'
  BY <1>1, <1>2, <1>3, <1>4, <1>5, <1>6
     DEF PlacesFit, PrivateStays, WordStands, OnlyMoves, Installed
<1>11. MarkFits'
  <2>1. Counts(t, p)
    BY <1>2, <1>4 DEF Counts
  <2>2. waiters'[p] = NC(p) - 1 /\ NC(p) >= 1 /\ NC(p) \in Nat /\ BigNumber \in Nat
    BY <1>4, <2>1, CountedIsSeen, Finite
  <2> QED
    BY <1>1, <1>2, <1>3, <1>4, <1>5, <1>6, <2>2 DEF MarkFits, OnlyMoves
<1>12. PassMeetsWaiters'
  <2>1. Counts(t, p)
    BY <1>2, <1>4 DEF Counts
  <2>2. waiters'[p] = NC(p) - 1 /\ NC(p) >= 1 /\ NC(p) \in Nat /\ BigNumber \in Nat
    BY <1>4, <2>1, CountedIsSeen, Finite
  <2>3. BigNumber > 0
    BY <2>2, Finite
  <2> QED
    BY <1>1, <1>2, <1>3, <1>4, <1>5, <1>6, <2>2, <2>3 DEF PassMeetsWaiters, PlacesFit, OnlyMoves
<1>13. EndingIsAlone'
  <2>0. Counts(t, p)
    BY <1>2, <1>4 DEF Counts
  <2>a. \A x \in Threads : pc[x] \in Ending => call[x].d # p
    BY <2>0, CountedIsSeen
  <2>1. /\ tokens' = tokens /\ \A x \in Threads : pc'[x] \in Ending => waiters'[call[x].d] = waiters[call[x].d]
        /\ pc'[t] \in Ending => pc[t] \in Ending /\ call'[t] = call[t] /\ (pc'[t] = "clear" => pc[t] = "clear")
        /\ pc'[t] \in Counted => pc[t] \in Counted /\ call'[t].d = call[t].d
    BY <1>1, <1>2, <1>3, <1>4, <1>5, <1>6, <2>a DEF OnlyMoves, PlacesFit
  <2>2. ASSUME NEW k \in Locks, NEW q \in Privates, dptr'[k] = q
        PROVE  \/ dptr[k] = q /\ (Owned(k)' => Owned(k))
               \/ \A x \in Threads : call[x].d = q => pc[x] # "clear"
    BY <1>1, <1>2, <1>3, <1>4, <1>5, <1>6, <2>2, WordAssumption
       DEF Owned, OnlyMoves, PendingIsOwn
  <2> QED
    BY <2>1, <2>2, <1>3, EndingFrame
<1>14. TakeoverMeetsUnlock'
  <2>1. pc[t] # "clear" /\ pc'[t] # "takeover"
    BY <1>1, <1>2, <1>3, <1>4, <1>5, <1>6
  <2>2. \A k \in Locks : \A q \in Privates : dptr'[k] = q =>
            \/ dptr[k] = q
            \/ \A x \in Threads : call[x].d = q => pc[x] # "takeover"
    BY <1>1, <1>2, <1>3, <1>4, <1>5, <1>6, WordAssumption DEF PendingIsOwn
  <2> QED
    BY <2>1, <2>2, <1>3, TakeoverFrame
<1>15. TokenIsKept'
  <2>1. tokens' = tokens /\ \A q \in Privates : possiblyUnlocked[q] => possiblyUnlocked'[q]
    BY <1>1, <1>2, <1>3, <1>4, <1>5, <1>6 DEF TypeOK
  <2>2. \A q \in Privates : tokens[q] > 0 /\ Installed(q) => Installed(q)'
    BY <1>1, <1>2, <1>3, <1>4, <1>5, <1>6, WordAssumption DEF Installed
  <2>3. /\ pc[t] \in Keepers => \/ pc'[t] \in Keepers /\ call'[t].d = call[t].d
                                \/ possiblyUnlocked'[call[t].d]
        /\ pc'[t] \in {"pass", "post"} => pc[t] \in {"pass", "post"} /\ call'[t].d = call[t].d
    BY <1>1, <1>2, <1>3, <1>4, <1>5, <1>6 DEF Keepers
  <2> QED
    BY <2>1, <2>2, <2>3, <1>3, TokenFrame
<1>16. RefsFit'
  <2>1. refCount' = refCount /\ possiblyUnlocked' = possiblyUnlocked
    BY <1>4
  <2>2. dptr' = dptr /\ KeepsOwners(t)
    BY <1>1, <1>2, <1>3, <1>4, <1>5, <1>6 DEF KeepsOwners
  <2>3. ASSUME NEW q \in Privates PROVE (Refers(t, q)' <=> Refers(t, q)) /\ Own(q)' = Own(q)
    <3>1. Refers(t, q)' <=> Refers(t, q)
      BY <1>1, <1>2, <1>3, <1>4, <1>5, <1>6, NoPrivateAssumption DEF Refers, Referring
    <3> QED
      BY <3>1, <1>3, <2>2, SameOwn
  <2> QED
    BY <2>1, <2>3, <1>3, RefsFrame
<1>17. WaitersFit'
  <2>1. SUFFICES ASSUME NEW q \in Privates PROVE waiters'[q] \in {NC(q)', NC(q)' - BigNumber}
    BY DEF WaitersFit
  <2>2. waiters[q] \in {NC(q), NC(q) - BigNumber} /\ NC(q) \in Nat /\ BigNumber \in Nat /\ NC(q) < BigNumber
    BY <1>1, Finite DEF WaitersFit
  <2>3. ASSUME q # p PROVE waiters'[q] = waiters[q] /\ NC(q)' = NC(q)
    <3>1. Counts(t, q) <=> Counts(t, q)'
      BY <1>1, <1>2, <1>3, <1>4, <1>5, <1>6, <2>3, NoPrivateAssumption DEF Counts
    <3> QED
      BY <1>3, <1>4, <2>3, <3>1, Recount

  <2>4. CASE q = p
    <3>1. Counts(t, p) /\ ~Counts(t, p)'
      BY <1>2, <1>4, NoPrivateAssumption DEF Counts
    <3>2. NC(p)' = NC(p) - 1
      BY <1>3, <3>1, Recount
    <3>3. waiters'[p] = NC(p) - 1
      BY <1>4, <2>2, <2>4, <3>1, CountedIsSeen
    <3> QED
      BY <2>4, <3>2, <3>3
  <2> QED
    BY <2>2, <2>3, <2>4
<1> QED
  BY <1>5, <1>6, <1>7, <1>8, <1>9, <1>10, <1>11, <1>12, <1>13, <1>14, <1>15, <1>16, <1>17
     DEF IInv

LEMMA FlagKeeps ==
  ASSUME IInv, NEW t \in Threads, Flag(t)
  PROVE  IInv'
<1> USE DEF Entering, Owning, Leaving, Ending, Counted, Unlocked, DummyLocked, object
<1>1. TypeOK /\ PlacesFit /\ Exclusive /\ WordStands /\ PendingIsOwn /\ PrivateStays /\ MarkFits
      /\ PassMeetsWaiters /\ EndingIsAlone /\ TakeoverMeetsUnlock /\ TokenIsKept /\ RefsFit /\ WaitersFit
  BY DEF IInv
<1>2. PICK m \in Locks, p \in Privates : m = call[t].lock /\ p = call[t].d
  BY <1>1 DEF PlacesFit, Flag
<1>3. OnlyMoves(t)
  BY <1>1 DEF OnlyMoves, TypeOK, Flag, Goto, Set
<1>4. /\ UNCHANGED <<dptr, waiters, tokens>>
      /\ pc[t] = "flag" /\ pc'[t] = "idle" /\ call'[t].d = NoPrivate
      /\ possiblyUnlocked'[p] = TRUE
      /\ \A q \in Privates \ {p} : refCount'[q] = refCount[q] /\ possiblyUnlocked'[q] = possiblyUnlocked[q]
      /\ \/ possiblyUnlocked[p] /\ refCount'[p] = refCount[p] - 1
         \/ ~possiblyUnlocked[p] /\ refCount'[p] = refCount[p]
  BY <1>1, <1>2, WordAssumption, BigNumberAssumption
     DEF TypeOK, PlacesFit, Exclusive, Flag, Goto, Set, Held, NoCall, vars, Deref, DerefWaiters
<1>5. TypeOK'
  <2>1. refCount[p] >= 1
    BY <1>2, <1>4, ReferenceCounts DEF Refers, Referring
  <2>2. dptr' \in [Locks -> {Unlocked, DummyLocked} \cup Privates]
    BY <1>1, <1>2, <1>4 DEF TypeOK, Flag
  <2>3. possiblyUnlocked' \in [Privates -> BOOLEAN] /\ tokens' \in [Privates -> {0, 1}]
    BY <1>1, <1>2 DEF TypeOK, Flag
  <2>7. refCount' \in [Privates -> Nat]
    <3>1. refCount \in [Privates -> Nat] /\ refCount[p] - 1 \in Nat
      BY <1>1, <2>1 DEF TypeOK
    <3>2. refCount' = refCount \/ refCount' = [refCount EXCEPT ![p] = refCount[p] - 1]
      BY <1>2 DEF Flag, Deref
    <3> QED
      BY <3>1, <3>2
  <2>4. waiters' \in [Privates -> Int]
    BY <1>1, <1>2, <1>4, BigNumberAssumption DEF TypeOK, Flag, DerefWaiters
  <2>5. pc' \in [Threads -> {"idle"} \cup Entering \cup Owning \cup Leaving]
    BY <1>1 DEF TypeOK, Flag, Goto
  <2>6. call' \in [Threads -> [lock : Locks \cup {NoLock}, kind : Kinds \cup {"none"},
                             d : Privates \cup {NoPrivate}]]
    BY <1>1, <1>2, <1>4 DEF TypeOK, Flag, Kinds, Set, Held, NoCall
  <2> QED
    BY <2>2, <2>3, <2>4, <2>5, <2>6, <2>7 DEF TypeOK
<1>6. PlacesFit'
  BY <1>1, <1>2, <1>4, NoPrivateAssumption, BigNumberAssumption
     DEF TypeOK, PlacesFit, Flag, Kinds, vars, Goto, Set, Held, NoCall, Deref, DerefWaiters
<1>7. Exclusive'
  BY <1>1, WordAssumption, NoPrivateAssumption
     DEF TypeOK, PlacesFit, Exclusive, Flag, Goto, Set, Held, NoCall, Deref
<1>8. WordStands'
  BY <1>1, WordAssumption, NoPrivateAssumption
     DEF TypeOK, PlacesFit, Exclusive, WordStands, Flag, Goto, Set, Held, NoCall, Owned, Deref
<1>9. PendingIsOwn'
  BY <1>1, WordAssumption, NoPrivateAssumption
     DEF TypeOK, PlacesFit, PendingIsOwn, PrivateStays, Flag, Goto, Set, Held, NoCall,
         Installed, Deref
<1>10. PrivateStays'
  BY <1>1, <1>2, <1>3, <1>4, <1>5, <1>6, WordAssumption, NoPrivateAssumption
     DEF TypeOK, PlacesFit, OnlyMoves, PrivateStays, Exclusive, Installed
<1>11. MarkFits'
  BY <1>1, <1>2, <1>3, <1>4, <1>5, <1>6, WordAssumption, NoPrivateAssumption
     DEF TypeOK, PlacesFit, OnlyMoves, MarkFits
<1>12. PassMeetsWaiters'
  BY <1>1, <1>2, <1>3, <1>4, <1>5, <1>6, WordAssumption, NoPrivateAssumption
     DEF TypeOK, PlacesFit, OnlyMoves, PassMeetsWaiters, MarkFits
<1>13. EndingIsAlone'
  <2>1. /\ tokens' = tokens /\ \A x \in Threads : pc'[x] \in Ending => waiters'[call[x].d] = waiters[call[x].d]
        /\ pc'[t] \in Ending => pc[t] \in Ending /\ call'[t] = call[t] /\ (pc'[t] = "clear" => pc[t] = "clear")
        /\ pc'[t] \in Counted => pc[t] \in Counted /\ call'[t].d = call[t].d
    BY <1>1, <1>2, <1>3, <1>4, <1>5, <1>6
  <2>2. ASSUME NEW k \in Locks, NEW q \in Privates, dptr'[k] = q
        PROVE  \/ dptr[k] = q /\ (Owned(k)' => Owned(k))
               \/ \A x \in Threads : call[x].d = q => pc[x] # "clear"
    BY <1>1, <1>2, <1>3, <1>4, <1>5, <1>6, <2>2, WordAssumption
       DEF Owned, OnlyMoves, PendingIsOwn
  <2> QED
    BY <2>1, <2>2, <1>3, EndingFrame
<1>14. TakeoverMeetsUnlock'
  <2>1. pc[t] # "clear" /\ pc'[t] # "takeover"
    BY <1>1, <1>2, <1>3, <1>4, <1>5, <1>6
  <2>2. \A k \in Locks : \A q \in Privates : dptr'[k] = q =>
            \/ dptr[k] = q
            \/ \A x \in Threads : call[x].d = q => pc[x] # "takeover"
    BY <1>1, <1>2, <1>3, <1>4, <1>5, <1>6, WordAssumption DEF PendingIsOwn
  <2> QED
    BY <2>1, <2>2, <1>3, TakeoverFrame
<1>15. TokenIsKept'
  <2>1. tokens' = tokens /\ \A q \in Privates : possiblyUnlocked[q] => possiblyUnlocked'[q]
    BY <1>1, <1>2, <1>3, <1>4, <1>5, <1>6 DEF TypeOK
  <2>2. \A q \in Privates : tokens[q] > 0 /\ Installed(q) => Installed(q)'
    BY <1>1, <1>2, <1>3, <1>4, <1>5, <1>6, WordAssumption DEF Installed
  <2>3. /\ pc[t] \in Keepers => \/ pc'[t] \in Keepers /\ call'[t].d = call[t].d
                                \/ possiblyUnlocked'[call[t].d]
        /\ pc'[t] \in {"pass", "post"} => pc[t] \in {"pass", "post"} /\ call'[t].d = call[t].d
    BY <1>1, <1>2, <1>3, <1>4, <1>5, <1>6 DEF Keepers
  <2> QED
    BY <2>1, <2>2, <2>3, <1>3, TokenFrame
<1>16. RefsFit'
  <2>1. SUFFICES ASSUME NEW q \in Privates PROVE refCount'[q] = (NR(q)' + Own(q)') + Flagged(q)'
    BY DEF RefsFit
  <2>2. /\ refCount[q] = (NR(q) + Own(q)) + Flagged(q)
        /\ NR(q) \in Nat /\ Own(q) \in {0, 1} /\ Flagged(q) \in {0, 1}
    BY <1>1, Finite, FlaggedNat DEF RefsFit

  <2>3. Own(q)' = Own(q)
    <3>1. dptr' = dptr /\ KeepsOwners(t)
      BY <1>1, <1>2, <1>3, <1>4, <1>5, <1>6 DEF KeepsOwners
    <3> QED
      BY <3>1, <1>3, SameOwn
  <2>4. ASSUME q # p PROVE NR(q)' = NR(q) /\ Flagged(q)' = Flagged(q) /\ refCount'[q] = refCount[q]
    <3>1. Refers(t, q) <=> Refers(t, q)'
      BY <1>1, <1>2, <1>3, <1>4, <1>5, <1>6, <2>4, NoPrivateAssumption DEF Refers, Referring
    <3>2. NR(q)' = NR(q)
      BY <1>3, <3>1, Recount
    <3> QED
      BY <1>4, <2>4, <3>2 DEF Flagged

  <2>5. CASE q = p
    <3>1. Refers(t, p) /\ ~Refers(t, p)'
      BY <1>1, <1>2, <1>4, NoPrivateAssumption DEF Refers, Referring, PlacesFit
    <3>2. NR(p)' = NR(p) - 1
      BY <1>3, <3>1, Recount
    <3>3. Flagged(p)' = 1 /\ refCount'[p] = refCount[p] - (IF possiblyUnlocked[p] THEN 1 ELSE 0)
      BY <1>4, <2>2, <2>5 DEF Flagged
    <3>4. Flagged(p) = IF possiblyUnlocked[p] THEN 1 ELSE 0
      BY DEF Flagged
    <3> QED
      BY <2>2, <2>3, <2>5, <3>2, <3>3, <3>4
  <2> QED
    BY <2>2, <2>3, <2>4, <2>5
<1>17. WaitersFit'
  <2>1. waiters' = waiters /\ \A q \in Privates : Counts(t, q)' <=> Counts(t, q)
    BY <1>1, <1>2, <1>3, <1>4, <1>5, <1>6, NoPrivateAssumption DEF Counts
  <2> QED
    BY <2>1, <1>3, WaitersFrame
<1> QED
  BY <1>5, <1>6, <1>7, <1>8, <1>9, <1>10, <1>11, <1>12, <1>13, <1>14, <1>15, <1>16, <1>17
     DEF IInv

LEMMA FastTryUnlockKeeps ==
  ASSUME IInv, NEW t \in Threads, FastTryUnlock(t)
  PROVE  IInv'
<1> USE DEF Entering, Owning, Leaving, Ending, Counted, Unlocked, DummyLocked, object
<1>1. TypeOK /\ PlacesFit /\ Exclusive /\ WordStands /\ PendingIsOwn /\ PrivateStays /\ MarkFits
      /\ PassMeetsWaiters /\ EndingIsAlone /\ TakeoverMeetsUnlock /\ TokenIsKept /\ RefsFit /\ WaitersFit
  BY DEF IInv
<1>2. PICK m \in Locks : m = call[t].lock
  BY <1>1 DEF PlacesFit, FastTryUnlock
<1>3. OnlyMoves(t)
  BY <1>1 DEF OnlyMoves, TypeOK, FastTryUnlock, Goto, Set
<1>4. /\ pc[t] = "held" /\ UNCHANGED object
      /\ \/ dptr[m] = DummyLocked /\ dptr'[m] = Unlocked /\ (\A k \in Locks \ {m} : dptr'[k] = dptr[k])
           /\ pc'[t] = "idle" /\ call'[t].d = NoPrivate
         \/ dptr[m] \in Privates /\ dptr' = dptr /\ pc'[t] = "mark"
           /\ call'[t].lock = m /\ call'[t].d = dptr[m]
  BY <1>1, <1>2, WordAssumption, BigNumberAssumption
     DEF TypeOK, PlacesFit, Exclusive, FastTryUnlock, Goto, Set, Held, NoCall, vars, Deref,
         DerefWaiters
<1>5. TypeOK'
  <2>2. dptr' \in [Locks -> {Unlocked, DummyLocked} \cup Privates]
    BY <1>1, <1>2, <1>4 DEF TypeOK, FastTryUnlock
  <2>3. refCount' \in [Privates -> Nat] /\ possiblyUnlocked' \in [Privates -> BOOLEAN] /\ tokens' \in [Privates -> {0, 1}]
    BY <1>1, <1>2, <1>4 DEF TypeOK, FastTryUnlock, Deref
  <2>4. waiters' \in [Privates -> Int]
    BY <1>1, <1>2, <1>4, BigNumberAssumption DEF TypeOK, FastTryUnlock, DerefWaiters
  <2>5. pc' \in [Threads -> {"idle"} \cup Entering \cup Owning \cup Leaving]
    BY <1>1 DEF TypeOK, FastTryUnlock, Goto
  <2>6. call' \in [Threads -> [lock : Locks \cup {NoLock}, kind : Kinds \cup {"none"},
                             d : Privates \cup {NoPrivate}]]
    <3>1. \/ call' = [call EXCEPT ![t] = NoCall]
          \/ call' = [call EXCEPT ![t].d = dptr[m]] /\ dptr[m] \in Privates
      BY <1>1, <1>2, WordAssumption DEF FastTryUnlock, Set, TypeOK, Exclusive
    <3>2. call[t] \in [lock : Locks \cup {NoLock}, kind : Kinds \cup {"none"}, d : Privates \cup {NoPrivate}]
      BY <1>1 DEF TypeOK
    <3>3. CASE call' = [call EXCEPT ![t] = NoCall]
      BY <1>1, <3>3 DEF TypeOK, NoCall
    <3>4. CASE call' = [call EXCEPT ![t].d = dptr[m]] /\ dptr[m] \in Privates
      BY <1>1, <3>2, <3>4 DEF TypeOK
    <3> QED
      BY <3>1, <3>3, <3>4
  <2> QED
    BY <2>2, <2>3, <2>4, <2>5, <2>6 DEF TypeOK
<1>6. PlacesFit'
  BY <1>1, <1>2, <1>4, NoPrivateAssumption, BigNumberAssumption
     DEF TypeOK, PlacesFit, FastTryUnlock, Kinds, vars, Goto, Set, Held, NoCall, Deref,
         DerefWaiters
<1>7. Exclusive'
  <2>1. CASE dptr[m] = DummyLocked
    <3>1. dptr'[m] = Unlocked /\ pc'[t] = "idle" /\ \A j \in Locks \ {m} : dptr'[j] = dptr[j]
      BY <1>1, <1>2, <1>3, <1>4, <1>5, <1>6, <2>1, WordAssumption
    <3>2. \A x \in Threads : pc'[x] \in Owning => pc[x] \in Owning /\ x # t /\ call'[x] = call[x] /\ pc'[x] = pc[x]
      BY <3>1, <1>3 DEF OnlyMoves
    <3>3. \A x \in Threads : pc'[x] \in Owning => call[x].lock # m /\ call[x].lock \in Locks
      BY <3>2, <1>1, <1>2, <1>3, <1>4, <1>5, <1>6 DEF Exclusive, PlacesFit
    <3> QED
      BY <1>1, <1>4, <3>1, <3>2, <3>3 DEF Exclusive
  <2>2. CASE dptr[m] # DummyLocked
    <3>1. dptr' = dptr /\ tokens' = tokens /\ KeepsOwners(t) /\ dptr[m] = call'[t].d
      BY <1>1, <1>2, <1>3, <1>4, <1>5, <1>6, <2>2 DEF KeepsOwners
    <3> QED
      BY <1>2, <3>1, <1>3, ExclusiveFrame
  <2> QED
    BY <2>1, <2>2
<1>8. WordStands'
  <2>1. CASE dptr[m] = DummyLocked
    <3>1. dptr'[m] = Unlocked /\ pc'[t] = "idle" /\ \A j \in Locks \ {m} : dptr'[j] = dptr[j]
      BY <1>1, <1>2, <1>3, <1>4, <1>5, <1>6, <2>1, WordAssumption
    <3>2. \A j \in Locks \ {m} : Owned(j) => Owned(j)'
      BY <1>1, <1>2, <1>3, <1>4, <1>5, <1>6 DEF Owned, OnlyMoves
    <3> QED
      BY <1>1, <1>2, <1>3, <1>4, <1>5, <1>6, <3>1, <3>2, WordAssumption
         DEF WordStands, OnlyMoves
  <2>2. CASE dptr[m] # DummyLocked
    <3>1. dptr' = dptr /\ tokens' = tokens /\ KeepsOwners(t) /\ pc[t] # "clear"
      BY <1>1, <1>2, <1>3, <1>4, <1>5, <1>6, <2>2 DEF KeepsOwners
    <3> QED
      BY <3>1, <1>3, WordFrame
  <2> QED
    BY <2>1, <2>2
<1>9. PendingIsOwn'
  <2>1. pc'[t] # "install" /\ \A q \in Privates : Installed(q)' => Installed(q)
    BY <1>1, <1>2, <1>3, <1>4, <1>5, <1>6, WordAssumption DEF PlacesFit, Installed
  <2>2. \/ call'[t].d \notin Privates
        \/ pc'[t] = "ref"
        \/ /\ call'[t].d = call[t].d
           /\ pc[t] \in {"ref", "recheck", "dropRetry"} => pc'[t] \in {"ref", "recheck", "dropRetry"}
        \/ Installed(call'[t].d)
    BY <1>1, <1>2, <1>3, <1>4, <1>5, <1>6, NoPrivateAssumption DEF PlacesFit, Installed
  <2> QED
    BY <2>1, <2>2, <1>3, PendingFrame
<1>10. PrivateStays'
  BY <1>1, <1>2, <1>3, <1>4, <1>5, <1>6, WordAssumption, NoPrivateAssumption
     DEF TypeOK, PlacesFit, OnlyMoves, PrivateStays, Exclusive, Installed
<1>11. MarkFits'
  BY <1>1, <1>2, <1>3, <1>4, <1>5, <1>6, WordAssumption, NoPrivateAssumption
     DEF TypeOK, PlacesFit, OnlyMoves, MarkFits
<1>12. PassMeetsWaiters'
  BY <1>1, <1>2, <1>3, <1>4, <1>5, <1>6, WordAssumption, NoPrivateAssumption
     DEF TypeOK, PlacesFit, OnlyMoves, PassMeetsWaiters, MarkFits
<1>13. EndingIsAlone'
  <2>1. /\ tokens' = tokens /\ \A x \in Threads : pc'[x] \in Ending => waiters'[call[x].d] = waiters[call[x].d]
        /\ pc'[t] \in Ending => pc[t] \in Ending /\ call'[t] = call[t] /\ (pc'[t] = "clear" => pc[t] = "clear")
        /\ pc'[t] \in Counted => pc[t] \in Counted /\ call'[t].d = call[t].d
    BY <1>1, <1>2, <1>3, <1>4, <1>5, <1>6
  <2>2. ASSUME NEW k \in Locks, NEW q \in Privates, dptr'[k] = q
        PROVE  \/ dptr[k] = q /\ (Owned(k)' => Owned(k))
               \/ \A x \in Threads : call[x].d = q => pc[x] # "clear"
    BY <1>1, <1>2, <1>3, <1>4, <1>5, <1>6, <2>2, WordAssumption
       DEF Owned, OnlyMoves, PendingIsOwn
  <2> QED
    BY <2>1, <2>2, <1>3, EndingFrame
<1>14. TakeoverMeetsUnlock'
  <2>1. pc[t] # "clear" /\ pc'[t] # "takeover"
    BY <1>1, <1>2, <1>3, <1>4, <1>5, <1>6
  <2>2. \A k \in Locks : \A q \in Privates : dptr'[k] = q =>
            \/ dptr[k] = q
            \/ \A x \in Threads : call[x].d = q => pc[x] # "takeover"
    BY <1>1, <1>2, <1>3, <1>4, <1>5, <1>6, WordAssumption DEF PendingIsOwn
  <2> QED
    BY <2>1, <2>2, <1>3, TakeoverFrame
<1>15. TokenIsKept'
  <2>1. tokens' = tokens /\ \A q \in Privates : possiblyUnlocked[q] => possiblyUnlocked'[q]
    BY <1>1, <1>2, <1>3, <1>4, <1>5, <1>6 DEF TypeOK
  <2>2. \A q \in Privates : tokens[q] > 0 /\ Installed(q) => Installed(q)'
    BY <1>1, <1>2, <1>3, <1>4, <1>5, <1>6, WordAssumption DEF Installed
  <2>3. /\ pc[t] \in Keepers => \/ pc'[t] \in Keepers /\ call'[t].d = call[t].d
                                \/ possiblyUnlocked'[call[t].d]
        /\ pc'[t] \in {"pass", "post"} => pc[t] \in {"pass", "post"} /\ call'[t].d = call[t].d
    BY <1>1, <1>2, <1>3, <1>4, <1>5, <1>6 DEF Keepers
  <2> QED
    BY <2>1, <2>2, <2>3, <1>3, TokenFrame
<1>16. RefsFit'
  <2>1. refCount' = refCount /\ possiblyUnlocked' = possiblyUnlocked
    BY <1>4
  <2>3. ASSUME NEW q \in Privates PROVE (Refers(t, q)' <=> Refers(t, q)) /\ Own(q)' = Own(q)
    <3>1. Refers(t, q)' <=> Refers(t, q)
      BY <1>1, <1>2, <1>3, <1>4, <1>5, <1>6, NoPrivateAssumption DEF Refers, Referring
    <3>2. \A x \in Threads : Owns(x, q)' <=> Owns(x, q)
      BY <1>1, <1>2, <1>3, <1>4, <1>5, <1>6, WordAssumption, NoPrivateAssumption
         DEF Owns, OnlyMoves, PlacesFit
    <3>3. Own(q)' = Own(q)
      BY <3>2, OwnForms, OwnThen
    <3> QED
      BY <3>1, <3>3
  <2> QED
    BY <2>1, <2>3, <1>3, RefsFrame
<1>17. WaitersFit'
  <2>1. waiters' = waiters /\ \A q \in Privates : Counts(t, q)' <=> Counts(t, q)
    BY <1>1, <1>2, <1>3, <1>4, <1>5, <1>6, NoPrivateAssumption DEF Counts
  <2> QED
    BY <2>1, <1>3, WaitersFrame
<1> QED
  BY <1>5, <1>6, <1>7, <1>8, <1>9, <1>10, <1>11, <1>12, <1>13, <1>14, <1>15, <1>16, <1>17
     DEF IInv

LEMMA MarkKeeps ==
  ASSUME IInv, NEW t \in Threads, Mark(t)
  PROVE  IInv'
<1> USE DEF Entering, Owning, Leaving, Ending, Counted, Unlocked, DummyLocked, object
<1>1. TypeOK /\ PlacesFit /\ Exclusive /\ WordStands /\ PendingIsOwn /\ PrivateStays /\ MarkFits
      /\ PassMeetsWaiters /\ EndingIsAlone /\ TakeoverMeetsUnlock /\ TokenIsKept /\ RefsFit /\ WaitersFit
  BY DEF IInv
<1>2. PICK m \in Locks, p \in Privates : m = call[t].lock /\ p = call[t].d
  BY <1>1 DEF PlacesFit, Mark
<1>3. OnlyMoves(t)
  BY <1>1 DEF OnlyMoves, TypeOK, Mark, Goto, Set
<1>4. /\ pc[t] = "mark" /\ UNCHANGED <<dptr, refCount, possiblyUnlocked, tokens, call>>
      /\ waiters'[p] = waiters[p] - BigNumber /\ (\A q \in Privates \ {p} : waiters'[q] = waiters[q])
      /\ \/ waiters[p] = 0 /\ pc'[t] = "clear"
         \/ waiters[p] # 0 /\ pc'[t] = "pass"
  BY <1>1, <1>2, WordAssumption, BigNumberAssumption
     DEF TypeOK, PlacesFit, Exclusive, Mark, Goto, Set, Held, NoCall, vars, Deref, DerefWaiters
<1>5. TypeOK'
  BY <1>1, <1>2, <1>4, BigNumberAssumption DEF TypeOK, Mark, Goto
<1>6. PlacesFit'
  BY <1>1, <1>2, <1>4, NoPrivateAssumption, BigNumberAssumption
     DEF TypeOK, PlacesFit, Mark, Kinds, vars, Goto, Set, Held, NoCall, Deref, DerefWaiters
<1>7. Exclusive'
  BY <1>1, <1>2, <1>3, <1>4, <1>5, <1>6, WordAssumption, NoPrivateAssumption
     DEF TypeOK, PlacesFit, OnlyMoves, Exclusive
<1>8. WordStands'
  BY <1>1, <1>2, <1>3, <1>4, <1>5, <1>6, WordAssumption, NoPrivateAssumption
     DEF TypeOK, PlacesFit, OnlyMoves, Exclusive, WordStands, Owned
<1>9. PendingIsOwn'
  BY <1>1, <1>2, <1>3, <1>4, <1>5, <1>6, WordAssumption, NoPrivateAssumption
     DEF TypeOK, PlacesFit, OnlyMoves, PendingIsOwn, PrivateStays, Installed
<1>10. PrivateStays'
  <2>1. dptr[m] = p /\ \A j \in Locks : dptr[j] = p => j = m
    BY <1>1, <1>2, <1>4 DEF Exclusive, WordStands
  <2>2. \A x \in Threads \ {t} : pc[x] \in Owning => call[x].lock # m /\ call[x].lock \in Locks /\ dptr[call[x].lock] # p
    BY <1>1, <1>2, <1>4, <2>1 DEF Exclusive, PlacesFit

  <2> QED
    BY <1>1, <1>2, <1>3, <1>4, <1>5, <1>6, <2>1
       DEF PrivateStays, OnlyMoves, PlacesFit, Installed
<1>11. MarkFits'
  BY <1>1, <1>2, <1>3, <1>4, <1>5, <1>6, WordAssumption, NoPrivateAssumption
     DEF TypeOK, PlacesFit, OnlyMoves, MarkFits
<1>12. PassMeetsWaiters'
  <2>3. waiters[p] = NC(p) /\ \A x \in Threads : call[x].d = p => pc[x] \notin Ending \cup {"pass"}
    BY <1>2, <1>4, NoMarkBefore
  <2>4. NC(p) \in Nat /\ BigNumber \in Nat /\ (NC(p) = 0 <=> C(p) = {})
    BY Finite

  <2>5. pc'[t] = "pass" => waiters'[p] # -BigNumber
    BY <1>4, <2>3, <2>4
  <2> QED
    BY <1>1, <1>2, <1>3, <1>4, <1>5, <1>6, <2>3, <2>5 DEF PassMeetsWaiters, PlacesFit, OnlyMoves
<1>13. EndingIsAlone'
  <2>1. dptr[m] = p /\ \A j \in Locks : dptr[j] = p => j = m
    BY <1>1, <1>2, <1>4 DEF Exclusive, WordStands
  <2>2. \A x \in Threads \ {t} : pc[x] \in Owning => call[x].lock # m /\ call[x].lock \in Locks /\ dptr[call[x].lock] # p
    BY <1>1, <1>2, <1>4, <2>1 DEF Exclusive, PlacesFit

  <2>3. waiters[p] = NC(p) /\ \A x \in Threads : call[x].d = p => pc[x] \notin Ending \cup {"pass"}
    BY <1>2, <1>4, NoMarkBefore
  <2>4. NC(p) \in Nat /\ BigNumber \in Nat /\ (NC(p) = 0 <=> C(p) = {})
    BY Finite

  <2>5. SUFFICES ASSUME NEW x \in Threads, pc'[x] \in Ending
                 PROVE  /\ waiters'[call'[x].d] = -BigNumber /\ C(call[x].d)' = {}
                        /\ \A y \in Threads : pc'[y] \in Ending /\ call'[y].d = call'[x].d => y = x
                        /\ pc'[x] = "clear" /\ dptr'[call'[x].lock] = call'[x].d =>
                             ~Owned(call[x].lock)' /\ tokens'[call'[x].d] = 0
    BY DEF EndingIsAlone
  <2>6. \A y \in Threads \ {t} : pc'[y] = pc[y]
    BY <1>3 DEF OnlyMoves
  <2>7. CASE x = t
    <3>1. waiters[p] = 0 /\ pc'[t] = "clear" /\ call' = call
      BY <1>4, <2>5, <2>7
    <3>2. C(p) = {} /\ waiters'[p] = -BigNumber
      BY <1>4, <2>3, <2>4, <3>1
    <3>3. C(call[x].d)' = {}
      BY <1>2, <2>6, <2>7, <3>1, <3>2 DEF C
    <3>4. \A y \in Threads : pc'[y] \in Ending /\ call'[y].d = call'[x].d => y = x
      BY <1>2, <2>3, <2>6, <2>7, <3>1
    <3>5. ~Owned(call[x].lock)'
      BY <1>2, <2>2, <2>6, <2>7, <3>1 DEF Owned
    <3>6. tokens[p] = 0
      BY <1>1, <1>2, <1>4, <2>1 DEF Exclusive
    <3> QED
      BY <1>2, <1>4, <2>7, <3>2, <3>3, <3>4, <3>5, <3>6
  <2>8. CASE x # t
    <3>1. pc[x] \in Ending /\ pc'[x] = pc[x] /\ call' = call /\ call[x].lock \in Locks /\ call[x].d \in Privates
      BY <1>1, <1>4, <2>5, <2>6, <2>8 DEF PlacesFit
    <3>2. call[x].d # p
      BY <2>3, <3>1
    <3>3. waiters'[call'[x].d] = -BigNumber
      BY <1>1, <1>4, <3>1, <3>2 DEF EndingIsAlone
    <3>4. \A y \in Threads : pc'[y] \in Ending /\ call'[y].d = call'[x].d => y = x
      BY <1>1, <1>2, <2>6, <3>1, <3>2 DEF EndingIsAlone
    <3>5. C(call[x].d)' = {}
      BY <1>1, <1>2, <2>6, <3>1, <3>2 DEF EndingIsAlone, C
    <3>6. pc'[x] = "clear" /\ dptr'[call'[x].lock] = call'[x].d => tokens'[call'[x].d] = 0 /\ ~Owned(call[x].lock)
      BY <1>1, <1>4, <3>1 DEF EndingIsAlone
    <3>7. Owned(call[x].lock)' => Owned(call[x].lock)
      BY <1>4, <2>6, <3>1 DEF Owned
    <3> QED
      BY <3>3, <3>4, <3>5, <3>6, <3>7
  <2> QED
    BY <2>7, <2>8
<1>14. TakeoverMeetsUnlock'
  BY <1>1, <1>2, <1>3, <1>4, <1>5, <1>6, WordAssumption, NoPrivateAssumption
     DEF TypeOK, PlacesFit, OnlyMoves, TakeoverMeetsUnlock, PrivateStays
<1>15. TokenIsKept'
  <2>1. dptr[m] = p /\ \A j \in Locks : dptr[j] = p => j = m
    BY <1>1, <1>2, <1>4 DEF Exclusive, WordStands
  <2>2. \A x \in Threads \ {t} : pc[x] \in Owning => call[x].lock # m /\ call[x].lock \in Locks /\ dptr[call[x].lock] # p
    BY <1>1, <1>2, <1>4, <2>1 DEF Exclusive, PlacesFit

  <2>3. waiters[p] = NC(p) /\ \A x \in Threads : call[x].d = p => pc[x] \notin Ending \cup {"pass"}
    BY <1>2, <1>4, NoMarkBefore
  <2>4. NC(p) \in Nat /\ BigNumber \in Nat /\ (NC(p) = 0 <=> C(p) = {})
    BY Finite

  <2>5. \A q \in Privates : (Kept(q) => Kept(q)') /\ (Installed(q) => Installed(q)')
    BY <1>1, <1>2, <1>3, <1>4, <1>5, <1>6 DEF Kept, Installed, OnlyMoves
  <2>6. ASSUME pc'[t] = "pass" PROVE Kept(p)
    <3>1. PICK y \in Threads : Counts(y, p)
      BY <1>4, <2>3, <2>4, <2>6 DEF C, Counts
    <3>2. pc[y] \notin {"won", "leave"}
      BY <1>1, <1>4, <2>2, <3>1 DEF Exclusive, Counts
    <3> QED
      BY <3>1, <3>2 DEF Kept, Counts
  <2>7. ASSUME NEW x \in Threads, pc'[x] \in {"pass", "post"} PROVE Kept(call[x].d)'
    <3>1. PICK q \in Privates : q = call[x].d /\ q = call'[x].d
      BY <1>1, <1>3, <1>4, <2>7 DEF PlacesFit, OnlyMoves
    <3>2. Kept(q)
      BY <1>1, <1>2, <1>3, <1>4, <2>6, <2>7, <3>1 DEF TokenIsKept, OnlyMoves
    <3>3. Kept(q)'
      BY <2>5, <3>2
    <3> QED
      BY <3>1, <3>3 DEF Kept
  <2>8. ASSUME NEW q \in Privates, tokens'[q] > 0 PROVE Installed(q)' /\ Kept(q)'
    BY <1>1, <1>4, <2>5, <2>8 DEF TokenIsKept
  <2> QED
    BY <2>7, <2>8 DEF TokenIsKept
<1>16. RefsFit'
  <2>1. SUFFICES ASSUME NEW q \in Privates PROVE refCount'[q] = (NR(q)' + Own(q)') + Flagged(q)'
    BY DEF RefsFit
  <2>2. /\ refCount[q] = (NR(q) + Own(q)) + Flagged(q)
        /\ NR(q) \in Nat /\ Own(q) \in {0, 1} /\ Flagged(q) \in {0, 1}
    BY <1>1, Finite, FlaggedNat DEF RefsFit

  <2>3. dptr[m] = p /\ \A x \in Threads \ {t} : pc[x] \in Owning => dptr[call[x].lock] # p
    <3>1. dptr[m] = p /\ \A j \in Locks : dptr[j] = p => j = m
      BY <1>1, <1>2, <1>4 DEF PrivateStays, Exclusive, WordStands
    <3> QED
      BY <1>1, <1>2, <1>4, <3>1 DEF Exclusive, PlacesFit
  <2>7. CASE pc'[t] = "clear"
    <3>4. ASSUME q # p PROVE NR(q)' = NR(q) /\ Own(q)' = Own(q)
      <4>1. Refers(t, q) <=> Refers(t, q)'
        BY <1>1, <1>2, <1>3, <1>4, <1>5, <1>6, <2>7, <3>4, NoPrivateAssumption
           DEF Refers, Referring
      <4>2. \A x \in Threads : Owns(x, q)' <=> Owns(x, q)
        BY <1>1, <1>2, <1>3, <1>4, <1>5, <1>6, <2>7, <2>3, <3>4, WordAssumption
           DEF Owns, OnlyMoves, PlacesFit
      <4>3. Own(q)' = Own(q)
        BY <4>2, OwnForms, OwnThen
      <4> QED
        BY <1>3, <4>1, <4>3, Recount
    <3>5. ASSUME q = p PROVE NR(q)' = NR(q) + 1 /\ Own(q) = 1 /\ Own(q)' = 0
      <4>1. ~Refers(t, p) /\ Refers(t, p)'
        BY <1>2, <1>4, <2>7 DEF Refers, Referring
      <4>2. \E x \in Threads : Owns(x, p)
        BY <1>1, <1>2, <1>3, <1>4, <1>5, <1>6, <2>7, <2>3 DEF Owns
      <4>3. ~(\E x \in Threads : Owns(x, p)')
        BY <1>1, <1>2, <1>3, <1>4, <1>5, <1>6, <2>7, <2>3 DEF Owns, OnlyMoves, PlacesFit
      <4>4. Own(p) = 1 /\ Own(p)' = 0
        BY <4>2, <4>3, OwnForms, OwnThen
      <4> QED
        BY <1>3, <3>5, <4>1, <4>4, Recount
    <3>6. refCount'[q] = refCount[q] /\ Flagged(q)' = Flagged(q)
      BY <1>4 DEF Flagged
    <3> QED
      BY <2>2, <3>4, <3>5, <3>6
  <2>8. CASE pc'[t] = "pass"
    <3>1. Refers(t, q)' <=> Refers(t, q)
      BY <1>4, <2>8 DEF Refers, Referring
    <3>2. dptr' = dptr /\ KeepsOwners(t)
      BY <1>4, <2>8 DEF KeepsOwners
    <3>3. NR(q)' = NR(q) /\ Own(q)' = Own(q) /\ Flagged(q)' = Flagged(q) /\ refCount'[q] = refCount[q]
      BY <1>3, <1>4, <3>1, <3>2, Recount, SameOwn DEF Flagged
    <3> QED
      BY <2>2, <3>3
  <2> QED
    BY <1>4, <2>7, <2>8
<1>17. WaitersFit'
  <2>1. SUFFICES ASSUME NEW q \in Privates PROVE waiters'[q] \in {NC(q)', NC(q)' - BigNumber}
    BY DEF WaitersFit
  <2>2. waiters[q] \in {NC(q), NC(q) - BigNumber} /\ NC(q) \in Nat /\ BigNumber \in Nat /\ NC(q) < BigNumber
    BY <1>1, Finite DEF WaitersFit
  <2>3. ASSUME q # p PROVE waiters'[q] = waiters[q] /\ NC(q)' = NC(q)
    <3>1. Counts(t, q) <=> Counts(t, q)'
      BY <1>1, <1>2, <1>3, <1>4, <1>5, <1>6, <2>3, NoPrivateAssumption DEF Counts
    <3> QED
      BY <1>3, <1>4, <2>3, <3>1, Recount

  <2>4. CASE q = p
    <3>1. ~Counts(t, p) /\ ~Counts(t, p)'
      BY <1>4 DEF Counts
    <3>2. NC(p)' = NC(p)
      BY <1>3, <3>1, Recount
    <3>3. waiters[p] = NC(p)
      BY <1>2, <1>4, NoMarkBefore
    <3> QED
      BY <1>4, <2>4, <3>2, <3>3
  <2> QED
    BY <2>2, <2>3, <2>4
<1> QED
  BY <1>5, <1>6, <1>7, <1>8, <1>9, <1>10, <1>11, <1>12, <1>13, <1>14, <1>15, <1>16, <1>17
     DEF IInv

LEMMA ClearKeeps ==
  ASSUME IInv, NEW t \in Threads, Clear(t)
  PROVE  IInv'
<1> USE DEF Entering, Owning, Leaving, Ending, Counted, Unlocked, DummyLocked, object
<1>1. TypeOK /\ PlacesFit /\ Exclusive /\ WordStands /\ PendingIsOwn /\ PrivateStays /\ MarkFits
      /\ PassMeetsWaiters /\ EndingIsAlone /\ TakeoverMeetsUnlock /\ TokenIsKept /\ RefsFit /\ WaitersFit
  BY DEF IInv
<1>2. PICK m \in Locks, p \in Privates : m = call[t].lock /\ p = call[t].d
  BY <1>1 DEF PlacesFit, Clear
<1>3. OnlyMoves(t)
  BY <1>1 DEF OnlyMoves, TypeOK, Clear, Goto, Set
<1>4. /\ pc[t] = "clear" /\ UNCHANGED <<object, call>>
      /\ \/ dptr[m] = p /\ dptr'[m] = Unlocked /\ (\A k \in Locks \ {m} : dptr'[k] = dptr[k]) /\ pc'[t] = "unflag"
         \/ dptr[m] # p /\ dptr' = dptr /\ pc'[t] = "unmark"
  BY <1>1, <1>2, WordAssumption, BigNumberAssumption
     DEF TypeOK, PlacesFit, Exclusive, Clear, Goto, Set, Held, NoCall, vars, Deref, DerefWaiters
<1>5. TypeOK'
  BY <1>1, <1>2, <1>4, NoPrivateAssumption, BigNumberAssumption
     DEF TypeOK, PlacesFit, Clear, Kinds, vars, Goto, Set, Held, NoCall, Deref, DerefWaiters
<1>6. PlacesFit'
  BY <1>1, <1>2, <1>4, NoPrivateAssumption, BigNumberAssumption
     DEF TypeOK, PlacesFit, Clear, Kinds, vars, Goto, Set, Held, NoCall, Deref, DerefWaiters
<1>7. Exclusive'
  <2>1. ASSUME dptr[m] = p
        PROVE  ~Owned(m) /\ tokens[p] = 0 /\ C(p) = {}
    BY <1>1, <1>2, <1>4, <2>1 DEF EndingIsAlone

  <2>2. CASE dptr[m] = p
    <3>1. \A x \in Threads : pc[x] \in Owning => call[x].lock # m /\ call[x].lock \in Locks
      BY <1>1, <2>1, <2>2 DEF Owned, PlacesFit
    <3>2. dptr'[m] = Unlocked /\ (\A j \in Locks \ {m} : dptr'[j] = dptr[j]) /\ tokens' = tokens /\ call' = call
      BY <1>4, <2>2
    <3>3. \A x \in Threads \ {t} : pc'[x] = pc[x]
      BY <1>3 DEF OnlyMoves
    <3>4. pc'[t] \notin {"won", "leave", "mark", "pass", "post"} /\ pc'[t] \notin Owning
      BY <1>4, <2>2
    <3> QED
      BY <1>1, <1>2, <3>1, <3>2, <3>3, <3>4, WordAssumption DEF Exclusive
  <2>3. CASE dptr[m] # p
    <3>1. dptr' = dptr /\ tokens' = tokens /\ KeepsOwners(t) /\ pc'[t] \notin Owning
      BY <1>4, <2>3 DEF KeepsOwners
    <3> QED
      BY <3>1, <1>3, ExclusiveFrame
  <2> QED
    BY <2>2, <2>3
<1>8. WordStands'
  <2>2. \A j \in Locks : dptr[j] = p => j = m
    BY <1>1, <1>2, <1>4 DEF PrivateStays

  <2>3. \A j \in Locks : Owned(j) => Owned(j)'
    BY <1>1, <1>2, <1>3, <1>4, <1>5, <1>6 DEF Owned, OnlyMoves
  <2>4. \A x \in Threads \ {t} : pc'[x] = pc[x] /\ call'[x] = call[x]
    BY <1>3 DEF OnlyMoves
  <2>5. \A j \in Locks : dptr'[j] \in Privates \cup {DummyLocked} => dptr'[j] = dptr[j] /\ dptr[j] # p
    BY <1>1, <1>2, <1>3, <1>4, <1>5, <1>6, <2>2, WordAssumption
  <2>6. ASSUME NEW j \in Locks, dptr'[j] \in Privates
        PROVE  \/ Owned(j)'
               \/ tokens'[dptr'[j]] = 1
               \/ \E x \in Threads : pc'[x] = "clear" /\ call'[x].d = dptr'[j]
    BY <1>1, <1>2, <1>4, <2>3, <2>4, <2>5, <2>6 DEF WordStands
  <2> QED
    BY <1>1, <1>4, <2>3, <2>5, <2>6, WordAssumption DEF WordStands
<1>9. PendingIsOwn'
  BY <1>1, <1>2, <1>3, <1>4, <1>5, <1>6, WordAssumption, NoPrivateAssumption
     DEF TypeOK, PlacesFit, OnlyMoves, PendingIsOwn, PrivateStays, Installed
<1>10. PrivateStays'
  <2>1. ASSUME dptr[m] = p
        PROVE  ~Owned(m) /\ tokens[p] = 0 /\ C(p) = {}
    BY <1>1, <1>2, <1>4, <2>1 DEF EndingIsAlone

  <2>2. \A j \in Locks : dptr[j] = p => j = m
    BY <1>1, <1>2, <1>4 DEF PrivateStays

  <2>3. ~Installed(p)' \/ pc'[t] \notin {"dropHeld", "unflag", "unmark"}
    BY <1>1, <1>2, <1>3, <1>4, <1>5, <1>6, <2>2, WordAssumption DEF Installed
  <2>4. ASSUME NEW x \in Threads, pc'[x] \in {"wait", "timedout"} PROVE dptr'[call'[x].lock] = call'[x].d
    <3>1. pc[x] \in {"wait", "timedout"} /\ call'[x] = call[x] /\ call[x].lock \in Locks
      BY <1>1, <1>2, <1>3, <1>4, <1>5, <1>6, <2>4 DEF OnlyMoves, PlacesFit
    <3>2. dptr[m] = p => call[x].d # p
      BY <2>1, <3>1 DEF C
    <3> QED
      BY <1>1, <1>2, <1>3, <1>4, <1>5, <1>6, <3>1, <3>2 DEF PrivateStays
  <2>5. \A j \in Locks : \A q \in Privates : dptr'[j] = q => dptr[j] = q
    BY <1>1, <1>2, <1>3, <1>4, <1>5, <1>6, WordAssumption
  <2> QED
    BY <1>1, <1>2, <1>3, <1>4, <1>5, <1>6, <2>2, <2>3, <2>4, <2>5
       DEF PrivateStays, OnlyMoves, PlacesFit, Installed
<1>11. MarkFits'
  BY <1>1, <1>2, <1>3, <1>4, <1>5, <1>6, WordAssumption, NoPrivateAssumption
     DEF TypeOK, PlacesFit, OnlyMoves, MarkFits
<1>12. PassMeetsWaiters'
  BY <1>1, <1>2, <1>3, <1>4, <1>5, <1>6, WordAssumption, NoPrivateAssumption
     DEF TypeOK, PlacesFit, OnlyMoves, PassMeetsWaiters, MarkFits
<1>13. EndingIsAlone'
  BY <1>1, <1>2, <1>3, <1>4, <1>5, <1>6, WordAssumption, NoPrivateAssumption
     DEF TypeOK, PlacesFit, OnlyMoves, EndingIsAlone, Owned, C
<1>14. TakeoverMeetsUnlock'
  BY <1>1, <1>2, <1>3, <1>4, <1>5, <1>6, WordAssumption, NoPrivateAssumption
     DEF TypeOK, PlacesFit, OnlyMoves, TakeoverMeetsUnlock, PrivateStays
<1>15. TokenIsKept'
  <2>0. ASSUME dptr[m] = p
        PROVE  ~Owned(m) /\ tokens[p] = 0 /\ C(p) = {}
    BY <1>1, <1>2, <1>4, <2>0 DEF EndingIsAlone
  <2>1. tokens' = tokens /\ \A q \in Privates : possiblyUnlocked[q] => possiblyUnlocked'[q]
    BY <1>1, <1>2, <1>3, <1>4, <1>5, <1>6 DEF TypeOK
  <2>2. \A q \in Privates : tokens[q] > 0 /\ Installed(q) => Installed(q)'
    BY <1>1, <1>2, <1>3, <1>4, <1>5, <1>6, <2>0, WordAssumption DEF Installed
  <2>3. /\ pc[t] \in Keepers => \/ pc'[t] \in Keepers /\ call'[t].d = call[t].d
                                \/ possiblyUnlocked'[call[t].d]
        /\ pc'[t] \in {"pass", "post"} => pc[t] \in {"pass", "post"} /\ call'[t].d = call[t].d
    BY <1>1, <1>2, <1>3, <1>4, <1>5, <1>6 DEF Keepers
  <2> QED
    BY <2>1, <2>2, <2>3, <1>3, TokenFrame
<1>16. RefsFit'
  <2>1. refCount' = refCount /\ possiblyUnlocked' = possiblyUnlocked
    BY <1>4
  <2>2. dptr[m] = p => \A x \in Threads : pc[x] \in Owning => call[x].lock # m
    BY <1>1, <1>2, <1>4 DEF EndingIsAlone, Owned
  <2>3. ASSUME NEW q \in Privates PROVE (Refers(t, q)' <=> Refers(t, q)) /\ Own(q)' = Own(q)
    <3>1. Refers(t, q)' <=> Refers(t, q)
      BY <1>1, <1>2, <1>3, <1>4, <1>5, <1>6, NoPrivateAssumption DEF Refers, Referring
    <3>2. \A x \in Threads : Owns(x, q)' <=> Owns(x, q)
      BY <1>1, <1>2, <1>3, <1>4, <1>5, <1>6, <2>2, WordAssumption, NoPrivateAssumption
         DEF Owns, OnlyMoves, PlacesFit
    <3>3. Own(q)' = Own(q)
      BY <3>2, OwnForms, OwnThen
    <3> QED
      BY <3>1, <3>3
  <2> QED
    BY <2>1, <2>3, <1>3, RefsFrame
<1>17. WaitersFit'
  <2>1. waiters' = waiters /\ \A q \in Privates : Counts(t, q)' <=> Counts(t, q)
    BY <1>1, <1>2, <1>3, <1>4, <1>5, <1>6, NoPrivateAssumption DEF Counts
  <2> QED
    BY <2>1, <1>3, WaitersFrame
<1> QED
  BY <1>5, <1>6, <1>7, <1>8, <1>9, <1>10, <1>11, <1>12, <1>13, <1>14, <1>15, <1>16, <1>17
     DEF IInv

LEMMA UnmarkKeeps ==
  ASSUME IInv, NEW t \in Threads, Unmark(t)
  PROVE  IInv'
<1> USE DEF Entering, Owning, Leaving, Ending, Counted, Unlocked, DummyLocked, object
<1>1. TypeOK /\ PlacesFit /\ Exclusive /\ WordStands /\ PendingIsOwn /\ PrivateStays /\ MarkFits
      /\ PassMeetsWaiters /\ EndingIsAlone /\ TakeoverMeetsUnlock /\ TokenIsKept /\ RefsFit /\ WaitersFit
  BY DEF IInv
<1>2. PICK m \in Locks, p \in Privates : m = call[t].lock /\ p = call[t].d
  BY <1>1 DEF PlacesFit, Unmark
<1>3. OnlyMoves(t)
  BY <1>1 DEF OnlyMoves, TypeOK, Unmark, Goto, Set
<1>4. /\ UNCHANGED <<dptr, refCount, possiblyUnlocked, tokens, call>> /\ (\A q \in Privates \ {p} : waiters'[q] = waiters[q])
      /\ waiters'[p] = IF waiters[p] < 0 THEN waiters[p] + BigNumber ELSE waiters[p]
      /\ (pc[t] = "unmark" /\ pc'[t] = "dropIdle") \/ (pc[t] = "pass" /\ pc'[t] = "post")
  BY <1>1, <1>2, WordAssumption, BigNumberAssumption
     DEF TypeOK, PlacesFit, Exclusive, Unmark, Goto, Set, Held, NoCall, vars, Deref,
         DerefWaiters
<1>5. TypeOK'
  BY <1>1, <1>2, <1>4, NoPrivateAssumption, BigNumberAssumption
     DEF TypeOK, PlacesFit, Unmark, Kinds, vars, Goto, Set, Held, NoCall, Deref, DerefWaiters
<1>6. PlacesFit'
  BY <1>1, <1>2, <1>4, NoPrivateAssumption, BigNumberAssumption
     DEF TypeOK, PlacesFit, Unmark, Kinds, vars, Goto, Set, Held, NoCall, Deref, DerefWaiters
<1>7. Exclusive'
  BY <1>1, <1>2, <1>3, <1>4, <1>5, <1>6, WordAssumption, NoPrivateAssumption
     DEF TypeOK, PlacesFit, OnlyMoves, Exclusive
<1>8. WordStands'
  BY <1>1, <1>2, <1>3, <1>4, <1>5, <1>6, WordAssumption, NoPrivateAssumption
     DEF TypeOK, PlacesFit, OnlyMoves, Exclusive, WordStands, Owned
<1>9. PendingIsOwn'
  BY <1>1, <1>2, <1>3, <1>4, <1>5, <1>6, WordAssumption, NoPrivateAssumption
     DEF TypeOK, PlacesFit, OnlyMoves, PendingIsOwn, PrivateStays, Installed
<1>10. PrivateStays'
  BY <1>1, <1>2, <1>3, <1>4, <1>5, <1>6, WordAssumption, NoPrivateAssumption
     DEF TypeOK, PlacesFit, OnlyMoves, PrivateStays, Exclusive, Installed
<1>11. MarkFits'
  <2>1. waiters[p] \in {NC(p), NC(p) - BigNumber} /\ waiters[p] \in Int
    BY <1>1 DEF WaitersFit, TypeOK
  <2>2. waiters'[p] = NC(p) /\ NC(p) \in Nat /\ BigNumber \in Nat /\ BigNumber > 0
    BY <1>4, <2>1, Finite
  <2> QED
    BY <1>1, <1>2, <1>3, <1>4, <1>5, <1>6, <2>2 DEF MarkFits, OnlyMoves
<1>12. PassMeetsWaiters'
  <2>1. waiters[p] \in {NC(p), NC(p) - BigNumber} /\ waiters[p] \in Int
    BY <1>1 DEF WaitersFit, TypeOK
  <2>2. waiters'[p] = NC(p) /\ NC(p) \in Nat /\ BigNumber \in Nat /\ BigNumber > 0
    BY <1>4, <2>1, Finite
  <2> QED
    BY <1>1, <1>2, <1>3, <1>4, <1>5, <1>6, <2>2 DEF PassMeetsWaiters, PlacesFit, OnlyMoves
<1>13. EndingIsAlone'
  <2>a. \A x \in Threads : pc'[x] \in Ending => call[x].d # p
    BY <1>1, <1>2, <1>3, <1>4, <1>5, <1>6 DEF EndingIsAlone, PassMeetsWaiters, OnlyMoves
  <2>1. /\ tokens' = tokens /\ \A x \in Threads : pc'[x] \in Ending => waiters'[call[x].d] = waiters[call[x].d]
        /\ pc'[t] \in Ending => pc[t] \in Ending /\ call'[t] = call[t] /\ (pc'[t] = "clear" => pc[t] = "clear")
        /\ pc'[t] \in Counted => pc[t] \in Counted /\ call'[t].d = call[t].d
    BY <1>1, <1>2, <1>3, <1>4, <1>5, <1>6, <2>a DEF OnlyMoves, PlacesFit
  <2>2. ASSUME NEW k \in Locks, NEW q \in Privates, dptr'[k] = q
        PROVE  \/ dptr[k] = q /\ (Owned(k)' => Owned(k))
               \/ \A x \in Threads : call[x].d = q => pc[x] # "clear"
    BY <1>1, <1>2, <1>3, <1>4, <1>5, <1>6, <2>2, WordAssumption
       DEF Owned, OnlyMoves, PendingIsOwn
  <2> QED
    BY <2>1, <2>2, <1>3, EndingFrame
<1>14. TakeoverMeetsUnlock'
  BY <1>1, <1>2, <1>3, <1>4, <1>5, <1>6, WordAssumption, NoPrivateAssumption
     DEF TypeOK, PlacesFit, OnlyMoves, TakeoverMeetsUnlock, PrivateStays
<1>15. TokenIsKept'
  <2>1. tokens' = tokens /\ \A q \in Privates : possiblyUnlocked[q] => possiblyUnlocked'[q]
    BY <1>1, <1>2, <1>3, <1>4, <1>5, <1>6 DEF TypeOK
  <2>2. \A q \in Privates : tokens[q] > 0 /\ Installed(q) => Installed(q)'
    BY <1>1, <1>2, <1>3, <1>4, <1>5, <1>6, WordAssumption DEF Installed
  <2>3. /\ pc[t] \in Keepers => \/ pc'[t] \in Keepers /\ call'[t].d = call[t].d
                                \/ possiblyUnlocked'[call[t].d]
        /\ pc'[t] \in {"pass", "post"} => pc[t] \in {"pass", "post"} /\ call'[t].d = call[t].d
    BY <1>1, <1>2, <1>3, <1>4, <1>5, <1>6 DEF Keepers
  <2> QED
    BY <2>1, <2>2, <2>3, <1>3, TokenFrame
<1>16. RefsFit'
  <2>1. refCount' = refCount /\ possiblyUnlocked' = possiblyUnlocked
    BY <1>4
  <2>2. dptr' = dptr /\ KeepsOwners(t)
    BY <1>1, <1>2, <1>3, <1>4, <1>5, <1>6 DEF KeepsOwners
  <2>3. ASSUME NEW q \in Privates PROVE (Refers(t, q)' <=> Refers(t, q)) /\ Own(q)' = Own(q)
    <3>1. Refers(t, q)' <=> Refers(t, q)
      BY <1>1, <1>2, <1>3, <1>4, <1>5, <1>6, NoPrivateAssumption DEF Refers, Referring
    <3> QED
      BY <3>1, <1>3, <2>2, SameOwn
  <2> QED
    BY <2>1, <2>3, <1>3, RefsFrame
<1>17. WaitersFit'
  <2>1. SUFFICES ASSUME NEW q \in Privates PROVE waiters'[q] \in {NC(q)', NC(q)' - BigNumber}
    BY DEF WaitersFit
  <2>2. waiters[q] \in {NC(q), NC(q) - BigNumber} /\ NC(q) \in Nat /\ BigNumber \in Nat /\ NC(q) < BigNumber
    BY <1>1, Finite DEF WaitersFit
  <2>3. ASSUME q # p PROVE waiters'[q] = waiters[q] /\ NC(q)' = NC(q)
    <3>1. Counts(t, q) <=> Counts(t, q)'
      BY <1>1, <1>2, <1>3, <1>4, <1>5, <1>6, <2>3, NoPrivateAssumption DEF Counts
    <3> QED
      BY <1>3, <1>4, <2>3, <3>1, Recount

  <2>4. CASE q = p
    <3>1. ~Counts(t, p) /\ ~Counts(t, p)'
      BY <1>4 DEF Counts
    <3>2. NC(p)' = NC(p)
      BY <1>3, <3>1, Recount
    <3>3. waiters'[p] = NC(p)
      BY <1>4, <2>2, <2>4
    <3> QED
      BY <2>4, <3>2, <3>3
  <2> QED
    BY <2>2, <2>3, <2>4
<1> QED
  BY <1>5, <1>6, <1>7, <1>8, <1>9, <1>10, <1>11, <1>12, <1>13, <1>14, <1>15, <1>16, <1>17
     DEF IInv

LEMMA WakeUpKeeps ==
  ASSUME IInv, NEW t \in Threads, WakeUp(t)
  PROVE  IInv'
<1> USE DEF Entering, Owning, Leaving, Ending, Counted, Unlocked, DummyLocked, object
<1>1. TypeOK /\ PlacesFit /\ Exclusive /\ WordStands /\ PendingIsOwn /\ PrivateStays /\ MarkFits
      /\ PassMeetsWaiters /\ EndingIsAlone /\ TakeoverMeetsUnlock /\ TokenIsKept /\ RefsFit /\ WaitersFit
  BY DEF IInv
<1>2. PICK m \in Locks, p \in Privates : m = call[t].lock /\ p = call[t].d
  BY <1>1 DEF PlacesFit, WakeUp
<1>3. OnlyMoves(t)
  BY <1>1 DEF OnlyMoves, TypeOK, WakeUp, Goto, Set
<1>4. /\ pc[t] = "post" /\ pc'[t] = "dropIdle" /\ UNCHANGED <<dptr, refCount, waiters, possiblyUnlocked, call>>
      /\ tokens'[p] = tokens[p] + 1 /\ (\A q \in Privates \ {p} : tokens'[q] = tokens[q])
  BY <1>1, <1>2, WordAssumption, BigNumberAssumption
     DEF TypeOK, PlacesFit, Exclusive, WakeUp, Goto, Set, Held, NoCall, vars, Deref,
         DerefWaiters
<1>5. TypeOK'
  <2>1. tokens[p] = 0
    BY <1>1, <1>2, <1>4 DEF Exclusive
  <2> QED
    BY <1>1, <1>2, <1>4, <2>1, NoPrivateAssumption, BigNumberAssumption
    DEF TypeOK, PlacesFit, WakeUp, Kinds, Goto, Set, Held, NoCall, Deref, DerefWaiters
<1>6. PlacesFit'
  BY <1>1, <1>2, <1>4, NoPrivateAssumption, BigNumberAssumption
     DEF TypeOK, PlacesFit, WakeUp, Kinds, vars, Goto, Set, Held, NoCall, Deref, DerefWaiters
<1>7. Exclusive'
  <2>1. dptr[m] = p /\ \A j \in Locks : dptr[j] = p => j = m
    BY <1>1, <1>2, <1>4 DEF Exclusive, WordStands
  <2>2. \A x \in Threads \ {t} : pc[x] \in Owning => call[x].lock # m /\ call[x].lock \in Locks /\ dptr[call[x].lock] # p
    BY <1>1, <1>2, <1>4, <2>1 DEF Exclusive, PlacesFit

  <2> QED
    BY <1>1, <1>2, <1>3, <1>4, <1>5, <1>6, <2>1, <2>2 DEF Exclusive, OnlyMoves
<1>8. WordStands'
  BY <1>1, <1>2, <1>3, <1>4, <1>5, <1>6, WordAssumption, NoPrivateAssumption
     DEF TypeOK, PlacesFit, OnlyMoves, Exclusive, WordStands, Owned
<1>9. PendingIsOwn'
  BY <1>1, WordAssumption, NoPrivateAssumption
     DEF TypeOK, PlacesFit, PendingIsOwn, PrivateStays, WakeUp, Goto, Set, Held, NoCall,
         Installed
<1>10. PrivateStays'
  BY <1>1, <1>2, <1>3, <1>4, <1>5, <1>6, WordAssumption, NoPrivateAssumption
     DEF TypeOK, PlacesFit, OnlyMoves, PrivateStays, Exclusive, Installed
<1>11. MarkFits'
  BY <1>1, <1>2, <1>3, <1>4, <1>5, <1>6, WordAssumption, NoPrivateAssumption
     DEF TypeOK, PlacesFit, OnlyMoves, MarkFits
<1>12. PassMeetsWaiters'
  BY <1>1, <1>2, <1>3, <1>4, <1>5, <1>6, WordAssumption, NoPrivateAssumption
     DEF TypeOK, PlacesFit, OnlyMoves, PassMeetsWaiters, MarkFits
<1>13. EndingIsAlone'
  <2>1. dptr[m] = p /\ \A j \in Locks : dptr[j] = p => j = m
    BY <1>1, <1>2, <1>4 DEF Exclusive, WordStands
  <2>2. \A x \in Threads \ {t} : pc[x] \in Owning => call[x].lock # m /\ call[x].lock \in Locks /\ dptr[call[x].lock] # p
    BY <1>1, <1>2, <1>4, <2>1 DEF Exclusive, PlacesFit

  <2>3. \A x \in Threads : pc[x] = "clear" /\ dptr[call[x].lock] = call[x].d => call[x].d # p
    <3>1. SUFFICES ASSUME NEW x \in Threads, pc[x] = "clear", dptr[call[x].lock] = p, call[x].d = p PROVE FALSE
      OBVIOUS
    <3>2. call[x].lock = m
      BY <1>1, <2>1, <3>1 DEF PlacesFit
    <3> QED
      BY <1>1, <1>2, <1>4, <3>1, <3>2 DEF EndingIsAlone, Owned
  <2>4. \A x \in Threads : pc'[x] \in Ending => pc[x] \in Ending /\ call'[x] = call[x] /\ pc'[x] = pc[x]
    BY <1>3, <1>4 DEF OnlyMoves
  <2>5. \A j \in Locks : Owned(j)' => Owned(j)
    BY <1>3, <1>4 DEF Owned, OnlyMoves
  <2>6. \A q : C(q)' = {} <=> C(q) = {}
    BY <1>3, <1>4 DEF C, OnlyMoves
  <2> QED
    BY <1>1, <1>2, <1>3, <1>4, <1>5, <1>6, <2>3, <2>4, <2>5, <2>6 DEF EndingIsAlone, PlacesFit
<1>14. TakeoverMeetsUnlock'
  BY <1>1, <1>2, <1>3, <1>4, <1>5, <1>6, WordAssumption, NoPrivateAssumption
     DEF TypeOK, PlacesFit, OnlyMoves, TakeoverMeetsUnlock, PrivateStays
<1>15. TokenIsKept'
  <2>1. \A q \in Privates : (Kept(q) => Kept(q)') /\ (Installed(q) => Installed(q)')
    BY <1>1, <1>2, <1>3, <1>4, <1>5, <1>6 DEF Kept, Installed, OnlyMoves
  <2>2. Kept(p) /\ Installed(p)
    BY <1>1, <1>2, <1>4 DEF TokenIsKept, Exclusive, Installed
  <2>3. ASSUME NEW q \in Privates, tokens'[q] > 0 PROVE Installed(q)' /\ Kept(q)'
    BY <1>1, <1>4, <2>1, <2>2, <2>3 DEF TokenIsKept
  <2>4. ASSUME NEW x \in Threads, pc'[x] \in {"pass", "post"} PROVE Kept(call[x].d)'
    <3>1. pc[x] \in {"pass", "post"} /\ call'[x] = call[x]
      BY <1>3, <1>4, <2>4 DEF OnlyMoves
    <3>2. PICK q \in Privates : q = call[x].d
      BY <1>1, <3>1 DEF PlacesFit
    <3>3. Kept(q)'
      BY <1>1, <2>1, <3>1, <3>2 DEF TokenIsKept
    <3> QED
      BY <3>1, <3>2, <3>3 DEF Kept
  <2> QED
    BY <2>3, <2>4 DEF TokenIsKept
<1>16. RefsFit'
  <2>1. SUFFICES ASSUME NEW q \in Privates PROVE refCount'[q] = (NR(q)' + Own(q)') + Flagged(q)'
    BY DEF RefsFit
  <2>2. /\ refCount[q] = (NR(q) + Own(q)) + Flagged(q)
        /\ NR(q) \in Nat /\ Own(q) \in {0, 1} /\ Flagged(q) \in {0, 1}
    BY <1>1, Finite, FlaggedNat DEF RefsFit

  <2>3. dptr[m] = p /\ \A x \in Threads \ {t} : pc[x] \in Owning => dptr[call[x].lock] # p
    <3>1. dptr[m] = p /\ \A j \in Locks : dptr[j] = p => j = m
      BY <1>1, <1>2, <1>4 DEF PrivateStays, Exclusive, WordStands
    <3> QED
      BY <1>1, <1>2, <1>4, <3>1 DEF Exclusive, PlacesFit

  <2>4. ASSUME q # p PROVE NR(q)' = NR(q) /\ Own(q)' = Own(q)
    <3>1. Refers(t, q) <=> Refers(t, q)'
      BY <1>1, <1>2, <1>3, <1>4, <1>5, <1>6, <2>4, NoPrivateAssumption DEF Refers, Referring
    <3>2. \A x \in Threads : Owns(x, q)' <=> Owns(x, q)
      BY <1>1, <1>2, <1>3, <1>4, <1>5, <1>6, <2>3, <2>4, WordAssumption
         DEF Owns, OnlyMoves, PlacesFit
    <3>3. Own(q)' = Own(q)
      BY <3>2, OwnForms, OwnThen
    <3> QED
      BY <1>3, <3>1, <3>3, Recount
  <2>5. ASSUME q = p PROVE NR(q)' = NR(q) + 1 /\ Own(q) = 1 /\ Own(q)' = 0
    <3>1. ~Refers(t, p) /\ Refers(t, p)'
      BY <1>2, <1>4 DEF Refers, Referring
    <3>2. \E x \in Threads : Owns(x, p)
      BY <1>1, <1>2, <1>3, <1>4, <1>5, <1>6, <2>3 DEF Owns
    <3>3. ~(\E x \in Threads : Owns(x, p)')
      BY <1>1, <1>2, <1>3, <1>4, <1>5, <1>6, <2>3 DEF Owns, OnlyMoves, PlacesFit
    <3>4. Own(p) = 1 /\ Own(p)' = 0
      BY <3>2, <3>3, OwnForms, OwnThen
    <3> QED
      BY <1>3, <2>5, <3>1, <3>4, Recount
  <2>6. refCount'[q] = refCount[q] /\ Flagged(q)' = Flagged(q)
    BY <1>4 DEF Flagged
  <2> QED
    BY <2>2, <2>4, <2>5, <2>6
<1>17. WaitersFit'
  <2>1. waiters' = waiters /\ \A q \in Privates : Counts(t, q)' <=> Counts(t, q)
    BY <1>1, <1>2, <1>3, <1>4, <1>5, <1>6, NoPrivateAssumption DEF Counts
  <2> QED
    BY <2>1, <1>3, WaitersFrame
<1> QED
  BY <1>5, <1>6, <1>7, <1>8, <1>9, <1>10, <1>11, <1>12, <1>13, <1>14, <1>15, <1>16, <1>17
     DEF IInv

LEMMA DropKeeps ==
  ASSUME IInv, NEW t \in Threads, Drop(t)
  PROVE  IInv'
<1> USE DEF Entering, Owning, Leaving, Ending, Counted, Unlocked, DummyLocked, object
<1>1. TypeOK /\ PlacesFit /\ Exclusive /\ WordStands /\ PendingIsOwn /\ PrivateStays /\ MarkFits
      /\ PassMeetsWaiters /\ EndingIsAlone /\ TakeoverMeetsUnlock /\ TokenIsKept /\ RefsFit /\ WaitersFit
  BY DEF IInv
<1>2. PICK m \in Locks, p \in Privates : m = call[t].lock /\ p = call[t].d
  BY <1>1 DEF PlacesFit, Drop
<1>3. OnlyMoves(t)
  BY <1>1 DEF OnlyMoves, TypeOK, Drop, Goto, Set
<1>4. /\ UNCHANGED <<dptr, waiters, possiblyUnlocked, tokens>>
      /\ refCount'[p] = refCount[p] - 1 /\ (\A q \in Privates \ {p} : refCount'[q] = refCount[q])
      /\ \/ pc[t] = "dropRetry" /\ pc'[t] = "retry" /\ call'[t].lock = m /\ call'[t].d = NoPrivate
         \/ pc[t] = "dropHeld" /\ pc'[t] = "held" /\ call'[t].lock = m /\ call'[t].d = NoPrivate
         \/ pc[t] = "dropIdle" /\ pc'[t] = "idle" /\ call'[t].d = NoPrivate
  BY <1>1, <1>2, WordAssumption, BigNumberAssumption
     DEF TypeOK, PlacesFit, Exclusive, Drop, Goto, Set, Held, NoCall, vars, Deref, DerefWaiters
<1>5. TypeOK'
  <2>1. refCount[p] >= 1
    BY <1>2, <1>4, ReferenceCounts DEF Refers, Referring
  <2>2. dptr' \in [Locks -> {Unlocked, DummyLocked} \cup Privates]
    BY <1>1, <1>2, <1>4 DEF TypeOK, Drop
  <2>3. refCount' \in [Privates -> Nat] /\ possiblyUnlocked' \in [Privates -> BOOLEAN] /\ tokens' \in [Privates -> {0, 1}]
    BY <1>1, <1>2, <1>4, <2>1 DEF TypeOK, Drop, Deref
  <2>4. waiters' \in [Privates -> Int]
    BY <1>1, <1>2, <1>4, BigNumberAssumption DEF TypeOK, Drop, DerefWaiters
  <2>5. pc' \in [Threads -> {"idle"} \cup Entering \cup Owning \cup Leaving]
    BY <1>1 DEF TypeOK, Drop, Goto
  <2>6. call' \in [Threads -> [lock : Locks \cup {NoLock}, kind : Kinds \cup {"none"},
                             d : Privates \cup {NoPrivate}]]
    BY <1>1, <1>2, <1>4 DEF TypeOK, Drop, Kinds, Set, Held, NoCall
  <2> QED
    BY <2>2, <2>3, <2>4, <2>5, <2>6 DEF TypeOK
<1>6. PlacesFit'
  <2>1. call'[t].kind = call[t].kind \/ pc[t] # "dropRetry"
    BY <1>1 DEF Drop, TypeOK
  <2> QED
    BY <1>1, <1>2, <1>3, <1>4, <2>1 DEF PlacesFit, OnlyMoves
<1>7. Exclusive'
  <2>1. dptr' = dptr /\ tokens' = tokens /\ KeepsOwners(t)
    BY <1>1, <1>2, <1>3, <1>4, <1>5, <1>6 DEF KeepsOwners
  <2>2. pc'[t] \in {"won", "leave", "mark", "pass", "post"} => dptr[call[t].lock] = call'[t].d
    BY <1>1, <1>2, <1>3, <1>4, <1>5, <1>6 DEF Exclusive
  <2> QED
    BY <2>1, <2>2, <1>3, ExclusiveFrame
<1>8. WordStands'
  <2>1. dptr' = dptr /\ tokens' = tokens /\ KeepsOwners(t) /\ pc[t] # "clear"
    BY <1>1, <1>2, <1>3, <1>4, <1>5, <1>6 DEF KeepsOwners
  <2> QED
    BY <2>1, <1>3, WordFrame
<1>9. PendingIsOwn'
  <2>1. pc'[t] # "install" /\ \A q \in Privates : Installed(q)' => Installed(q)
    BY <1>1, <1>2, <1>3, <1>4, <1>5, <1>6, WordAssumption DEF PlacesFit, Installed
  <2>2. \/ call'[t].d \notin Privates
        \/ pc'[t] = "ref"
        \/ /\ call'[t].d = call[t].d
           /\ pc[t] \in {"ref", "recheck", "dropRetry"} => pc'[t] \in {"ref", "recheck", "dropRetry"}
        \/ Installed(call'[t].d)
    BY <1>1, <1>2, <1>3, <1>4, <1>5, <1>6, NoPrivateAssumption DEF PlacesFit, Installed
  <2> QED
    BY <2>1, <2>2, <1>3, PendingFrame
<1>10. PrivateStays'
  BY <1>1, <1>2, <1>3, <1>4, <1>5, <1>6, WordAssumption, NoPrivateAssumption
     DEF TypeOK, PlacesFit, OnlyMoves, PrivateStays, Exclusive, Installed
<1>11. MarkFits'
  BY <1>1, <1>2, <1>3, <1>4, <1>5, <1>6, WordAssumption, NoPrivateAssumption
     DEF TypeOK, PlacesFit, OnlyMoves, MarkFits
<1>12. PassMeetsWaiters'
  BY <1>1, <1>2, <1>3, <1>4, <1>5, <1>6, WordAssumption, NoPrivateAssumption
     DEF TypeOK, PlacesFit, OnlyMoves, PassMeetsWaiters, MarkFits
<1>13. EndingIsAlone'
  <2>1. /\ tokens' = tokens /\ \A x \in Threads : pc'[x] \in Ending => waiters'[call[x].d] = waiters[call[x].d]
        /\ pc'[t] \in Ending => pc[t] \in Ending /\ call'[t] = call[t] /\ (pc'[t] = "clear" => pc[t] = "clear")
        /\ pc'[t] \in Counted => pc[t] \in Counted /\ call'[t].d = call[t].d
    BY <1>1, <1>2, <1>3, <1>4, <1>5, <1>6
  <2>2. ASSUME NEW k \in Locks, NEW q \in Privates, dptr'[k] = q
        PROVE  \/ dptr[k] = q /\ (Owned(k)' => Owned(k))
               \/ \A x \in Threads : call[x].d = q => pc[x] # "clear"
    BY <1>1, <1>2, <1>3, <1>4, <1>5, <1>6, <2>2, WordAssumption
       DEF Owned, OnlyMoves, PendingIsOwn
  <2> QED
    BY <2>1, <2>2, <1>3, EndingFrame
<1>14. TakeoverMeetsUnlock'
  <2>1. pc[t] # "clear" /\ pc'[t] # "takeover"
    BY <1>1, <1>2, <1>3, <1>4, <1>5, <1>6
  <2>2. \A k \in Locks : \A q \in Privates : dptr'[k] = q =>
            \/ dptr[k] = q
            \/ \A x \in Threads : call[x].d = q => pc[x] # "takeover"
    BY <1>1, <1>2, <1>3, <1>4, <1>5, <1>6, WordAssumption DEF PendingIsOwn
  <2> QED
    BY <2>1, <2>2, <1>3, TakeoverFrame
<1>15. TokenIsKept'
  <2>1. tokens' = tokens /\ \A q \in Privates : possiblyUnlocked[q] => possiblyUnlocked'[q]
    BY <1>1, <1>2, <1>3, <1>4, <1>5, <1>6 DEF TypeOK
  <2>2. \A q \in Privates : tokens[q] > 0 /\ Installed(q) => Installed(q)'
    BY <1>1, <1>2, <1>3, <1>4, <1>5, <1>6, WordAssumption DEF Installed
  <2>3. /\ pc[t] \in Keepers => \/ pc'[t] \in Keepers /\ call'[t].d = call[t].d
                                \/ possiblyUnlocked'[call[t].d]
        /\ pc'[t] \in {"pass", "post"} => pc[t] \in {"pass", "post"} /\ call'[t].d = call[t].d
    BY <1>1, <1>2, <1>3, <1>4, <1>5, <1>6 DEF Keepers
  <2> QED
    BY <2>1, <2>2, <2>3, <1>3, TokenFrame
<1>16. RefsFit'
  <2>1. SUFFICES ASSUME NEW q \in Privates PROVE refCount'[q] = (NR(q)' + Own(q)') + Flagged(q)'
    BY DEF RefsFit
  <2>2. /\ refCount[q] = (NR(q) + Own(q)) + Flagged(q)
        /\ NR(q) \in Nat /\ Own(q) \in {0, 1} /\ Flagged(q) \in {0, 1}
    BY <1>1, Finite, FlaggedNat DEF RefsFit

  <2>3. Own(q)' = Own(q)
    <3>1. dptr' = dptr /\ KeepsOwners(t)
      BY <1>1, <1>2, <1>3, <1>4, <1>5, <1>6 DEF KeepsOwners
    <3> QED
      BY <3>1, <1>3, SameOwn
  <2>4. ASSUME q # p PROVE NR(q)' = NR(q) /\ Flagged(q)' = Flagged(q) /\ refCount'[q] = refCount[q]
    <3>1. Refers(t, q) <=> Refers(t, q)'
      BY <1>1, <1>2, <1>3, <1>4, <1>5, <1>6, <2>4, NoPrivateAssumption DEF Refers, Referring
    <3>2. NR(q)' = NR(q)
      BY <1>3, <3>1, Recount
    <3> QED
      BY <1>4, <2>4, <3>2 DEF Flagged

  <2>5. CASE q = p
    <3>1. Refers(t, p) /\ ~Refers(t, p)'
      BY <1>1, <1>2, <1>4, NoPrivateAssumption DEF Refers, Referring, PlacesFit
    <3>2. NR(p)' = NR(p) - 1
      BY <1>3, <3>1, Recount
    <3>3. Flagged(p)' = Flagged(p)
      BY <1>4 DEF Flagged
    <3> QED
      BY <1>4, <2>2, <2>3, <2>5, <3>2, <3>3
  <2> QED
    BY <2>2, <2>3, <2>4, <2>5
<1>17. WaitersFit'
  <2>1. waiters' = waiters /\ \A q \in Privates : Counts(t, q)' <=> Counts(t, q)
    BY <1>1, <1>2, <1>3, <1>4, <1>5, <1>6, NoPrivateAssumption DEF Counts
  <2> QED
    BY <2>1, <1>3, WaitersFrame
<1> QED
  BY <1>5, <1>6, <1>7, <1>8, <1>9, <1>10, <1>11, <1>12, <1>13, <1>14, <1>15, <1>16, <1>17
     DEF IInv

-----------------------------------------------------------------------------
LEMMA InitIInv == Init => IInv
<1> SUFFICES ASSUME Init PROVE IInv
  OBVIOUS
<1> USE DEF Init, NoCall, Entering, Owning, Leaving, Ending, Counted, Referring, Unlocked, DummyLocked
<1>1. TypeOK /\ PlacesFit
  BY DEF TypeOK, PlacesFit, Kinds
<1>2. Exclusive /\ PendingIsOwn /\ PrivateStays /\ PassMeetsWaiters /\ EndingIsAlone /\ TakeoverMeetsUnlock
  BY
     DEF Exclusive, PendingIsOwn, PrivateStays, PassMeetsWaiters, EndingIsAlone,
         TakeoverMeetsUnlock
<1>3. WordStands /\ MarkFits /\ TokenIsKept
  BY WordAssumption DEF WordStands, MarkFits, TokenIsKept
<1>4. ASSUME NEW p \in Privates PROVE NR(p) = 0 /\ NC(p) = 0 /\ Own(p) = 0 /\ Flagged(p) = 0
  <2>1. R(p) = {} /\ C(p) = {}
    BY DEF R, C
  <2>2. NR(p) = 0 /\ NC(p) = 0
    BY <2>1, Finite
  <2> QED
    BY <2>2 DEF Own, Flagged
<1>5. RefsFit /\ WaitersFit
  BY <1>4 DEF RefsFit, WaitersFit
<1> QED
  BY <1>1, <1>2, <1>3, <1>5 DEF IInv

LEMMA StutterKeeps == IInv /\ UNCHANGED vars => IInv'
<1> SUFFICES ASSUME IInv, UNCHANGED vars PROVE IInv'
  OBVIOUS
<1>1. UNCHANGED <<dptr, refCount, waiters, possiblyUnlocked, tokens, pc, call>>
  BY DEF vars, object
<1>2. (TypeOK /\ PlacesFit /\ Exclusive)' /\ (WordStands /\ PendingIsOwn /\ PrivateStays)'
  BY <1>1
     DEF IInv, TypeOK, PlacesFit, Exclusive, WordStands, PendingIsOwn, PrivateStays, Owned,
         Installed
<1>3. (MarkFits /\ PassMeetsWaiters /\ EndingIsAlone)' /\ (TakeoverMeetsUnlock /\ TokenIsKept)'
  BY <1>1
     DEF IInv, MarkFits, PassMeetsWaiters, EndingIsAlone, TakeoverMeetsUnlock, TokenIsKept,
         Owned, C, Kept, Installed
<1>4. (RefsFit /\ WaitersFit)'
  BY <1>1 DEF IInv, RefsFit, WaitersFit, NR, NC, R, C, Own, Flagged
<1> QED
  BY <1>2, <1>3, <1>4 DEF IInv

LEMMA StepIInv == IInv /\ [Next]_vars => IInv'
<1>1. SUFFICES ASSUME IInv, [Next]_vars PROVE IInv'
  OBVIOUS
<1>2. CASE UNCHANGED vars
  BY <1>1, <1>2, StutterKeeps
<1>3. ASSUME NEW t \in Threads, NEW m \in Locks, NEW k \in Kinds, FastTryLock(t, m, k) PROVE IInv'
  BY <1>1, <1>2, <1>3, FastTryLockKeeps
<1>4. ASSUME NEW t \in Threads, Retry(t) \/ Allocate(t) \/ Install(t) \/ Ref(t) \/ Recheck(t) PROVE IInv'
  BY <1>1, <1>4, RetryKeeps, AllocateKeeps, InstallKeeps, RefKeeps, RecheckKeeps
<1>5. ASSUME NEW t \in Threads, CountIn(t) \/ TakeOver(t) \/ RecheckCounted(t) \/ SemWait(t) \/ SemTimeout(t)
      PROVE  IInv'
  BY <1>1, <1>5, CountInKeeps, TakeOverKeeps, RecheckCountedKeeps, SemWaitKeeps, SemTimeoutKeeps
<1>6. ASSUME NEW t \in Threads, ResetFlag(t) \/ CountOut(t) \/ Flag(t) \/ FastTryUnlock(t) PROVE IInv'
  BY <1>1, <1>6, ResetFlagKeeps, CountOutKeeps, FlagKeeps, FastTryUnlockKeeps
<1>7. ASSUME NEW t \in Threads, Mark(t) \/ Clear(t) \/ Unmark(t) \/ WakeUp(t) \/ Drop(t) PROVE IInv'
  BY <1>1, <1>7, MarkKeeps, ClearKeeps, UnmarkKeeps, WakeUpKeeps, DropKeeps
<1> QED
  BY <1>1, <1>2, <1>3, <1>4, <1>5, <1>6, <1>7 DEF Next, Internal

(* The protocol with privates keeps its invariant in every reachable state:*)
(* a QMutexPrivate has exactly the references it counts, and cannot move to*)
(* another mutex while a waiter, a token or an unlock() is bound to it.    *)
THEOREM PrivatesInvariant == Spec => []IInv
<1> QED
  BY InitIInv, StepIInv, PTL DEF Spec

(* Types; in particular refCount never goes below zero and the semaphore   *)
(* never holds more than one token, whatever waiters time out.             *)
THEOREM TypeCorrect == Spec => []TypeOK
<1>1. IInv => TypeOK
  BY DEF IInv
<1> QED
  BY <1>1, PrivatesInvariant, PTL

-----------------------------------------------------------------------------
LEMMA AtMostOne ==
  ASSUME NEW S, IsFiniteSet(S), \A x, y \in S : x = y
  PROVE  Cardinality(S) = IF S = {} THEN 0 ELSE 1
<1>1. CASE S = {}
  BY <1>1, FS_EmptySet
<1>2. CASE S # {}
  <2>1. PICK x \in S : S = {x}
    BY <1>2
  <2> QED
    BY <2>1, FS_Singleton
<1> QED
  BY <1>1, <1>2

LEMMA OwnersOf ==
  ASSUME IInv, NEW m \in Locks
  PROVE  /\ Owned(m) <=> In(m, Owning) # {}
         /\ \A x, y \in In(m, Owning) : x = y
         /\ IsFiniteSet(In(m, Owning))
<1>1. In(m, Owning) \subseteq Threads
  BY DEF In
<1>2. IsFiniteSet(In(m, Owning))
  BY <1>1, BigNumberAssumption, FS_Subset
<1>3. \A x, y \in In(m, Owning) : x = y
  BY DEF IInv, Exclusive, In
<1> QED
  BY <1>2, <1>3 DEF Owned, In

LEMMA OneOwnerNow == IInv => OneOwner
<1> SUFFICES ASSUME IInv, NEW m \in Locks
             PROVE  Cardinality(In(m, Owning)) + (IF dptr[m] \in Privates THEN tokens[dptr[m]] ELSE 0) <= 1
  BY DEF OneOwner
<1>1. Cardinality(In(m, Owning)) = IF In(m, Owning) = {} THEN 0 ELSE 1
  BY OwnersOf, AtMostOne
<1>2. dptr[m] \in Privates => tokens[dptr[m]] \in {0, 1}
  BY DEF IInv, TypeOK
<1>3. In(m, Owning) # {} /\ dptr[m] \in Privates => tokens[dptr[m]] = 0
  BY DEF IInv, Exclusive, In
<1> QED
  BY <1>1, <1>2, <1>3

LEMMA WordFitsOwnerNow == IInv => WordFitsOwner
  BY DEF IInv, WordFitsOwner, Exclusive, In, Owning

LEMMA CountsNow == IInv => CountsMatch
<1> SUFFICES ASSUME IInv, NEW p \in Privates
             PROVE  /\ refCount[p] = References(p)
                    /\ waiters[p] \in {NC(p), NC(p) - BigNumber}
  BY DEF CountsMatch, NC, C, Counted
<1> DEFINE O == {m \in Locks : dptr[m] = p /\ In(m, Owning) # {}}
<1>1. \A x, y \in O : x = y
  BY DEF IInv, WordStands
<1>2. IsFiniteSet(O) /\ (O = {} <=> Own(p) = 0) /\ Own(p) \in {0, 1}
  <2>1. O = {} <=> Own(p) = 0
    BY DEF Own, In, IInv, PlacesFit, Owning
  <2>2. CASE O = {}
    BY <2>1, <2>2, FlaggedNat, FS_EmptySet
  <2>3. CASE O # {}
    <3>1. PICK m \in O : O = {m}
      BY <1>1, <2>3
    <3>2. IsFiniteSet({m})
      BY FS_Singleton
    <3> QED
      BY <3>1, <3>2, <2>1, FlaggedNat
  <2> QED
    BY <2>2, <2>3
<1> HIDE DEF O
<1>3. Cardinality(O) = Own(p)
  BY <1>1, <1>2, AtMostOne
<1>4. References(p) = (NR(p) + Own(p)) + Flagged(p)
  BY <1>3 DEF References, NR, R, Referring, Flagged, O
<1> QED
  BY <1>4 DEF IInv, RefsFit, WaitersFit

LEMMA FreeIsClean == IInv => FreePrivatesAreClean
  BY FreeIsUsable DEF FreePrivatesAreClean, Usable

(* The counts of references and waiters are exact, a word never lies about *)
(* its owner, and an object goes back to the free list only when nothing   *)
(* of its last use is left - for any number of waiters that give up, and of*)
(* mutexes that share the objects (qmutex.cpp:750-853, 878-911).           *)
THEOREM PrivatesAccountedHolds == Spec => []PrivatesAccounted
<1>1. IInv => PrivatesAccounted
  BY OneOwnerNow, WordFitsOwnerNow, CountsNow, FreeIsClean DEF PrivatesAccounted
<1> QED
  BY <1>1, PrivatesInvariant, PTL

LEMMA ServedNow == IInv => WaitersAreServed
<1> SUFFICES ASSUME IInv, NEW m \in Locks, NEW t \in In(m, {"wait"})
             PROVE  dptr[m] = call[t].d /\ (In(m, Owning) # {} \/ tokens[call[t].d] > 0)
  BY DEF WaitersAreServed
<1>1. t \in Threads /\ pc[t] = "wait" /\ call[t].lock = m
  BY DEF In
<1>2. PICK p \in Privates : p = call[t].d
  BY <1>1 DEF IInv, PlacesFit
<1>3. dptr[m] = p
  BY <1>1, <1>2 DEF IInv, PrivateStays
<1>4. C(p) # {}
  BY <1>1, <1>2 DEF C, Counted
<1>5. \A x \in Threads : pc[x] = "clear" => call[x].d # p
  BY <1>4 DEF IInv, EndingIsAlone, Ending
<1>6. Owned(m) \/ tokens[p] = 1
  BY <1>3, <1>5 DEF IInv, WordStands
<1> QED
  BY <1>2, <1>3, <1>6, OwnersOf

(* No lost wake-up: who sleeps in the semaphore sleeps in the one that the *)
(* mutex uses, while somebody owns the mutex or the token is there, though *)
(* the same token may have been posted for a waiter that has timed out.    *)
THEOREM WaitersAreServedHolds == Spec => []WaitersAreServed
<1>1. IInv => WaitersAreServed
  BY ServedNow
<1> QED
  BY <1>1, PrivatesInvariant, PTL

-----------------------------------------------------------------------------
(* Refinement: what a thread is to a mutex, in the terms of MutexSpec.     *)
Place(t, m) == IF call[t].lock # m THEN "out"
               ELSE IF pc[t] \in Owning THEN "own"
               ELSE IF pc[t] \in Entering THEN call[t].kind
               ELSE "out"

AbstractStep(m) == \/ Abstract(m)!SpecNext
                   \/ UNCHANGED <<Owner(m), InCall(m, "lock"), InCall(m, "timed")>>

LEMMA PlaceForms ==
  ASSUME IInv, NEW m \in Locks
  PROVE  \A x \in Threads :
           /\ Place(x, m) \in {"out", "own", "lock", "timed"}
           /\ x \in In(m, Owning) <=> Place(x, m) = "own"
           /\ x \in InCall(m, "lock") <=> Place(x, m) = "lock"
           /\ x \in InCall(m, "timed") <=> Place(x, m) = "timed"
<1>1. \A x \in Threads : pc[x] \in Entering => call[x].kind \in {"lock", "timed"}
  BY DEF IInv, PlacesFit
<1>2. \A x \in Threads : pc[x] \in Entering => pc[x] \notin Owning
  BY DEF Entering, Owning
<1> QED
  BY <1>1, <1>2 DEF Place, In, InCall

LEMMA OwnerForms ==
  ASSUME IInv, NEW m \in Locks
  PROVE  /\ \A x \in Threads : x \in In(m, Owning) <=> Owner(m) = x
         /\ ~Owned(m) => Owner(m) = NoThread
<1>1. \A x, y \in In(m, Owning) : x = y
  BY OwnersOf
<1>2. CASE In(m, Owning) = {}
  <2>1. Owner(m) = NoThread
    BY <1>2 DEF Owner
  <2> QED
    BY <1>2, <2>1, NobodyAssumption
<1>3. CASE In(m, Owning) # {}
  <2>1. PICK x \in Threads : x \in In(m, Owning)
    BY <1>3 DEF In
  <2>2. \A y \in Threads : y \in In(m, Owning) => y = x
    BY <1>1, <2>1
  <2>3. Owner(m) = x
    BY <1>3, <2>1, <2>2 DEF Owner
  <2> QED
    BY <2>1, <2>2, <2>3, OwnersOf
<1> QED
  BY <1>2, <1>3

LEMMA FormsThen ==
  ASSUME IInv', NEW m \in Locks
  PROVE  /\ \A x \in Threads :
              /\ Place(x, m)' \in {"out", "own", "lock", "timed"}
              /\ x \in In(m, Owning)' <=> Place(x, m)' = "own"
              /\ x \in InCall(m, "lock")' <=> Place(x, m)' = "lock"
              /\ x \in InCall(m, "timed")' <=> Place(x, m)' = "timed"
         /\ \A x \in Threads : x \in In(m, Owning)' <=> Owner(m)' = x
         /\ ~Owned(m)' => Owner(m)' = NoThread
<1>1. (IInv => \A x \in Threads :
              /\ Place(x, m) \in {"out", "own", "lock", "timed"}
              /\ x \in In(m, Owning) <=> Place(x, m) = "own"
              /\ x \in InCall(m, "lock") <=> Place(x, m) = "lock"
              /\ x \in InCall(m, "timed") <=> Place(x, m) = "timed")'
  BY PlaceForms, PTL
<1>2. (IInv => /\ \A x \in Threads : x \in In(m, Owning) <=> Owner(m) = x
               /\ ~Owned(m) => Owner(m) = NoThread)'
  BY OwnerForms, PTL
<1> QED
  BY <1>1, <1>2

(* What a step may do with the places of its thread.                       *)
Moves(t, m) ==
    \/ Place(t, m)' = Place(t, m)
    \/ Place(t, m) # "own" /\ Place(t, m)' = "own" /\ ~Owned(m)
    \/ Place(t, m) = "out" /\ Place(t, m)' \in {"lock", "timed"}
    \/ Place(t, m) \in {"timed", "own"} /\ Place(t, m)' = "out"

(* A step that takes a thread from one place to another is one of the      *)
(* abstract mutex if it takes it in, lets it give up or release, or makes  *)
(* it the owner of a mutex that nobody owns.                               *)
LEMMA PlaceStep ==
  ASSUME IInv, IInv', NEW t \in Threads, OnlyMoves(t), NEW m \in Locks,
         Moves(t, m)
  PROVE  AbstractStep(m)
<1>1. \A x \in Threads \ {t} : Place(x, m)' = Place(x, m)
  BY DEF Place, OnlyMoves
<1>2. /\ In(m, Owning) \subseteq Threads /\ In(m, Owning)' \subseteq Threads
      /\ InCall(m, "lock") \subseteq Threads /\ InCall(m, "lock")' \subseteq Threads
      /\ InCall(m, "timed") \subseteq Threads /\ InCall(m, "timed")' \subseteq Threads
  BY DEF In, InCall
<1>3. /\ \A x \in Threads :
           /\ Place(x, m) \in {"out", "own", "lock", "timed"}
           /\ x \in In(m, Owning) <=> Place(x, m) = "own"
           /\ x \in InCall(m, "lock") <=> Place(x, m) = "lock"
           /\ x \in InCall(m, "timed") <=> Place(x, m) = "timed"
      /\ \A x \in Threads : x \in In(m, Owning) <=> Owner(m) = x
      /\ ~Owned(m) => Owner(m) = NoThread
  BY PlaceForms, OwnerForms
<1>4. /\ \A x \in Threads :
           /\ Place(x, m)' \in {"out", "own", "lock", "timed"}
           /\ x \in In(m, Owning)' <=> Place(x, m)' = "own"
           /\ x \in InCall(m, "lock")' <=> Place(x, m)' = "lock"
           /\ x \in InCall(m, "timed")' <=> Place(x, m)' = "timed"
      /\ \A x \in Threads : x \in In(m, Owning)' <=> Owner(m)' = x
      /\ ~Owned(m)' => Owner(m)' = NoThread
  BY FormsThen
<1>5. (Place(t, m)' = "own" <=> Place(t, m) = "own") => Owner(m)' = Owner(m)
  <2>1. SUFFICES ASSUME Place(t, m)' = "own" <=> Place(t, m) = "own" PROVE Owner(m)' = Owner(m)
    OBVIOUS
  <2>2. In(m, Owning)' = In(m, Owning)
    BY <1>1, <1>2, <1>3, <1>4, <2>1
  <2> QED
    BY <2>2 DEF Owner
<1>6. /\ Place(t, m)' # "lock" => InCall(m, "lock")' = InCall(m, "lock") \ {t}
      /\ Place(t, m)' = "lock" => InCall(m, "lock")' = InCall(m, "lock") \cup {t}
      /\ Place(t, m)' # "timed" => InCall(m, "timed")' = InCall(m, "timed") \ {t}
      /\ Place(t, m)' = "timed" => InCall(m, "timed")' = InCall(m, "timed") \cup {t}
  BY <1>1, <1>2, <1>3, <1>4
<1> USE DEF AbstractStep, Abstract!SpecNext
<1>7. CASE Place(t, m)' = Place(t, m)
  <2>1. InCall(m, "lock")' = InCall(m, "lock") /\ InCall(m, "timed")' = InCall(m, "timed")
    BY <1>3, <1>6, <1>7
  <2> QED
    BY <1>5, <1>7, <2>1
<1>8. CASE Place(t, m) # "own" /\ Place(t, m)' = "own" /\ ~Owned(m)
  <2>1. Owner(m) = NoThread /\ Owner(m)' = t
    BY <1>3, <1>4, <1>8
  <2>2. InCall(m, "lock")' = InCall(m, "lock") \ {t} /\ InCall(m, "timed")' = InCall(m, "timed") \ {t}
    BY <1>6, <1>8
  <2>3. CASE Place(t, m) = "out"
    <3>1. t # Owner(m) /\ t \notin InCall(m, "lock") \cup InCall(m, "timed")
      BY <1>3, <2>1, <2>3, NobodyAssumption
    <3>2. InCall(m, "lock")' = InCall(m, "lock") /\ InCall(m, "timed")' = InCall(m, "timed")
      BY <2>2, <3>1
    <3> QED
      BY <2>1, <3>1, <3>2 DEF Abstract!AcquireNow, Abstract!Idle
  <2>4. CASE Place(t, m) \in {"lock", "timed"}
    <3>1. t \in InCall(m, "lock") \cup InCall(m, "timed")
      BY <1>3, <2>4
    <3> QED
      BY <2>1, <2>2, <3>1 DEF Abstract!AcquireBlocked
  <2> QED
    BY <1>3, <1>8, <2>3, <2>4
<1>9. CASE Place(t, m) = "out" /\ Place(t, m)' \in {"lock", "timed"}
  <2>1. t # Owner(m) /\ t \notin InCall(m, "lock") \cup InCall(m, "timed")
    BY <1>3, <1>9
  <2>2. Owner(m)' = Owner(m)
    BY <1>5, <1>9
  <2>3. CASE Place(t, m)' = "lock"
    <3>1. InCall(m, "lock")' = InCall(m, "lock") \cup {t} /\ InCall(m, "timed")' = InCall(m, "timed")
      BY <1>6, <2>1, <2>3
    <3> QED
      BY <2>1, <2>2, <3>1 DEF Abstract!Block, Abstract!Idle
  <2>4. CASE Place(t, m)' = "timed"
    <3>1. InCall(m, "timed")' = InCall(m, "timed") \cup {t} /\ InCall(m, "lock")' = InCall(m, "lock")
      BY <1>6, <2>1, <2>4
    <3> QED
      BY <2>1, <2>2, <3>1 DEF Abstract!BlockTimed, Abstract!Idle
  <2> QED
    BY <1>9, <2>3, <2>4
<1>10. CASE Place(t, m) = "timed" /\ Place(t, m)' = "out"
  <2>1. Owner(m)' = Owner(m) /\ t \in InCall(m, "timed") /\ t \notin InCall(m, "lock")
    BY <1>3, <1>5, <1>10
  <2>2. InCall(m, "timed")' = InCall(m, "timed") \ {t} /\ InCall(m, "lock")' = InCall(m, "lock")
    BY <1>6, <1>10, <2>1
  <2> QED
    BY <2>1, <2>2 DEF Abstract!GiveUp
<1>11. CASE Place(t, m) = "own" /\ Place(t, m)' = "out"
  <2>1. Owner(m) = t /\ t \in In(m, Owning) /\ t \notin InCall(m, "lock") /\ t \notin InCall(m, "timed")
    BY <1>3, <1>11
  <2>2. \A x \in Threads : x \notin In(m, Owning)'
    <3>1. \A x \in Threads \ {t} : x \notin In(m, Owning)
      BY <1>3, <2>1
    <3> QED
      BY <1>1, <1>3, <1>4, <1>11, <3>1
  <2>3. ~Owned(m)'
    BY <2>2 DEF Owned, In
  <2>4. Owner(m)' = NoThread
    BY <1>4, <2>3
  <2>5. InCall(m, "lock")' = InCall(m, "lock") /\ InCall(m, "timed")' = InCall(m, "timed")
    BY <1>6, <1>11, <2>1
  <2> QED
    BY <2>1, <2>4, <2>5 DEF Abstract!Release
<1> QED
  BY <1>7, <1>8, <1>9, <1>10, <1>11 DEF Moves

(* Most steps leave every thread in its place.                             *)
LEMMA StaysInPlace ==
  ASSUME IInv, NEW t \in Threads, NEW m \in Locks,
         \/ Allocate(t) \/ Install(t) \/ Ref(t) \/ Recheck(t) \/ CountIn(t) \/ RecheckCounted(t)
         \/ SemTimeout(t) \/ ResetFlag(t) \/ CountOut(t) \/ Clear(t) \/ Unmark(t) \/ Drop(t)
  PROVE  OnlyMoves(t) /\ Place(t, m)' = Place(t, m)
<1>1. TypeOK /\ PlacesFit
  BY DEF IInv
<1> USE DEF Entering, Owning, Goto, Set
<1>2. ASSUME Allocate(t) PROVE OnlyMoves(t) /\ Place(t, m)' = Place(t, m)
  BY <1>1, <1>2 DEF TypeOK, PlacesFit, OnlyMoves, Place, Allocate
<1>3. ASSUME Install(t) PROVE OnlyMoves(t) /\ Place(t, m)' = Place(t, m)
  BY <1>1, <1>3 DEF TypeOK, PlacesFit, OnlyMoves, Place, Install
<1>4. ASSUME Ref(t) PROVE OnlyMoves(t) /\ Place(t, m)' = Place(t, m)
  BY <1>1, <1>4 DEF TypeOK, PlacesFit, OnlyMoves, Place, Ref
<1>5. ASSUME Recheck(t) PROVE OnlyMoves(t) /\ Place(t, m)' = Place(t, m)
  BY <1>1, <1>5 DEF TypeOK, PlacesFit, OnlyMoves, Place, Recheck
<1>6. ASSUME CountIn(t) PROVE OnlyMoves(t) /\ Place(t, m)' = Place(t, m)
  BY <1>1, <1>6 DEF TypeOK, PlacesFit, OnlyMoves, Place, CountIn
<1>7. ASSUME RecheckCounted(t) PROVE OnlyMoves(t) /\ Place(t, m)' = Place(t, m)
  BY <1>1, <1>7 DEF TypeOK, PlacesFit, OnlyMoves, Place, RecheckCounted
<1>8. ASSUME SemTimeout(t) PROVE OnlyMoves(t) /\ Place(t, m)' = Place(t, m)
  BY <1>1, <1>8 DEF TypeOK, PlacesFit, OnlyMoves, Place, SemTimeout
<1>9. ASSUME ResetFlag(t) PROVE OnlyMoves(t) /\ Place(t, m)' = Place(t, m)
  BY <1>1, <1>9 DEF TypeOK, PlacesFit, OnlyMoves, Place, ResetFlag, Deref
<1>10. ASSUME CountOut(t) PROVE OnlyMoves(t) /\ Place(t, m)' = Place(t, m)
  BY <1>1, <1>10 DEF TypeOK, PlacesFit, OnlyMoves, Place, CountOut, DerefWaiters, Held, NoCall
<1>11. ASSUME Clear(t) PROVE OnlyMoves(t) /\ Place(t, m)' = Place(t, m)
  BY <1>1, <1>11 DEF TypeOK, PlacesFit, OnlyMoves, Place, Clear
<1>12. ASSUME Unmark(t) PROVE OnlyMoves(t) /\ Place(t, m)' = Place(t, m)
  BY <1>1, <1>12 DEF TypeOK, PlacesFit, OnlyMoves, Place, Unmark, DerefWaiters
<1>13. ASSUME Drop(t) PROVE OnlyMoves(t) /\ Place(t, m)' = Place(t, m)
  BY <1>1, <1>13 DEF TypeOK, PlacesFit, OnlyMoves, Place, Drop, Deref, Held, NoCall
<1> QED
  BY <1>2, <1>3, <1>4, <1>5, <1>6, <1>7, <1>8, <1>9, <1>10, <1>11, <1>12, <1>13

(* Nobody owns a mutex whose word is free, whose token is there, or that   *)
(* a waiter takes over from an unlock().                                   *)
LEMMA FreeWordHasNoOwner ==
  ASSUME IInv, NEW m \in Locks,
         \/ dptr[m] = Unlocked
         \/ dptr[m] \in Privates /\ tokens[dptr[m]] = 1
         \/ \E x \in Threads : pc[x] = "takeover" /\ call[x].lock = m /\ dptr[m] = call[x].d
  PROVE  ~Owned(m)
<1>1. TypeOK /\ PlacesFit /\ Exclusive /\ PrivateStays /\ EndingIsAlone /\ TakeoverMeetsUnlock
  BY DEF IInv
<1>2. CASE dptr[m] = Unlocked \/ (dptr[m] \in Privates /\ tokens[dptr[m]] = 1)
  BY <1>1, <1>2 DEF Exclusive, Owned
<1>3. ASSUME NEW x \in Threads, pc[x] = "takeover", call[x].lock = m, dptr[m] = call[x].d
      PROVE  ~Owned(m)
  <2>1. PICK y \in Threads : pc[y] = "clear" /\ call[y].d = call[x].d
    BY <1>1, <1>3 DEF TakeoverMeetsUnlock
  <2>2. call[y].lock = m
    BY <1>1, <1>3, <2>1 DEF PrivateStays
  <2> QED
    BY <1>1, <1>3, <2>1, <2>2 DEF EndingIsAlone, Ending
<1> QED
  BY <1>2, <1>3

(* The others take a mutex that nobody owns, enter a call, give up a timed *)
(* one, or hand the mutex on.                                              *)
LEMMA LeavesPlace ==
  ASSUME IInv, NEW t \in Threads, NEW m \in Locks,
         \/ Retry(t) \/ TakeOver(t) \/ SemWait(t) \/ Flag(t) \/ FastTryUnlock(t) \/ Mark(t) \/ WakeUp(t)
         \/ \E l \in Locks, k \in Kinds : FastTryLock(t, l, k)
  PROVE  OnlyMoves(t) /\ Moves(t, m)
<1>1. TypeOK /\ PlacesFit
  BY DEF IInv
<1> USE DEF Entering, Owning, Goto, Set
<1>2. ASSUME Retry(t) PROVE OnlyMoves(t) /\ Moves(t, m)
  <2>1. OnlyMoves(t)
    BY <1>1, <1>2 DEF TypeOK, OnlyMoves, Retry
  <2>2. PICK l \in Locks : l = call[t].lock
    BY <1>1, <1>2 DEF PlacesFit, Retry
  <2>3. CASE dptr[l] = Unlocked
    <3>1. call' = [call EXCEPT ![t] = [lock |-> l, kind |-> "none", d |-> NoPrivate]]
      BY <1>2, <2>2, <2>3, CallForms DEF Retry
    <3>2. pc[t] = "retry" /\ pc'[t] = "held" /\ call'[t].lock = l
      BY <1>1, <1>2, <2>2, <2>3, <3>1 DEF Retry, TypeOK
    <3>3. Place(t, l)' = "own" /\ Place(t, l) # "own" /\ (l # m => Place(t, m)' = Place(t, m))
      BY <1>1, <2>2, <3>2 DEF Place, PlacesFit
    <3> QED
      BY <2>1, <2>3, <3>3, FreeWordHasNoOwner DEF Moves
  <2>4. CASE dptr[l] # Unlocked
    <3>1. pc[t] \in Entering /\ pc'[t] \in Entering \ Owning /\ call'[t].lock = call[t].lock /\ call'[t].kind = call[t].kind
      BY <1>1, <1>2, <2>2, <2>4 DEF Retry, TypeOK
    <3>2. Place(t, m)' = Place(t, m)
      BY <3>1 DEF Place
    <3> QED
      BY <2>1, <3>2 DEF Moves
  <2> QED
    BY <2>3, <2>4
<1>3. ASSUME TakeOver(t) PROVE OnlyMoves(t) /\ Moves(t, m)
  <2>1. OnlyMoves(t)
    BY <1>1, <1>3 DEF TypeOK, OnlyMoves, TakeOver
  <2>2. PICK l \in Locks : l = call[t].lock
    BY <1>1, <1>3 DEF PlacesFit, TakeOver
  <2>3. CASE dptr[l] = call[t].d
    <3>1. pc[t] = "takeover" /\ pc'[t] = "dropHeld" /\ call' = call
      BY <1>1, <1>3, <2>2, <2>3 DEF TakeOver, TypeOK
    <3>2. Place(t, l)' = "own" /\ Place(t, l) # "own" /\ (l # m => Place(t, m)' = Place(t, m))
      BY <1>1, <2>2, <3>1 DEF Place, PlacesFit
    <3>3. ~Owned(l)
      BY <2>2, <2>3, <3>1, FreeWordHasNoOwner
    <3> QED
      BY <2>1, <3>2, <3>3 DEF Moves
  <2>4. CASE dptr[l] # call[t].d
    <3>1. pc[t] = "takeover" /\ pc'[t] = "dropRetry" /\ call' = call
      BY <1>1, <1>3, <2>2, <2>4 DEF TakeOver, TypeOK
    <3>2. Place(t, m)' = Place(t, m)
      BY <3>1 DEF Place
    <3> QED
      BY <2>1, <3>2 DEF Moves
  <2> QED
    BY <2>3, <2>4
<1>4. ASSUME SemWait(t) PROVE OnlyMoves(t) /\ Moves(t, m)
  <2>1. OnlyMoves(t) /\ pc[t] = "wait" /\ pc'[t] = "won" /\ call' = call
    BY <1>1, <1>4 DEF TypeOK, OnlyMoves, SemWait
  <2>2. PICK l \in Locks, p \in Privates : l = call[t].lock /\ p = call[t].d
    BY <1>1, <2>1 DEF PlacesFit
  <2>3. dptr[l] = p /\ tokens[p] = 1
    BY <1>1, <1>4, <2>1, <2>2 DEF IInv, PrivateStays, SemWait, TypeOK
  <2>4. ~Owned(l)
    BY <2>3, FreeWordHasNoOwner
  <2>5. Place(t, l)' = "own" /\ Place(t, l) # "own" /\ (l # m => Place(t, m)' = Place(t, m))
    BY <1>1, <2>1, <2>2 DEF Place, PlacesFit
  <2> QED
    BY <2>1, <2>4, <2>5 DEF Moves
<1>5. ASSUME Flag(t) PROVE OnlyMoves(t) /\ Moves(t, m)
  <2>1. OnlyMoves(t) /\ pc[t] = "flag" /\ pc'[t] = "idle"
    BY <1>1, <1>5 DEF TypeOK, OnlyMoves, Flag
  <2>2. Place(t, m) \in {"out", "timed"} /\ Place(t, m)' = "out"
    BY <1>1, <2>1 DEF Place, PlacesFit
  <2> QED
    BY <2>1, <2>2 DEF Moves
<1>6. ASSUME FastTryUnlock(t) PROVE OnlyMoves(t) /\ Moves(t, m)
  <2>1. OnlyMoves(t) /\ pc[t] = "held"
    BY <1>1, <1>6 DEF TypeOK, OnlyMoves, FastTryUnlock
  <2>2. pc'[t] = "idle" \/ (pc'[t] = "mark" /\ call'[t].lock = call[t].lock)
    BY <1>1, <1>6 DEF TypeOK, FastTryUnlock
  <2>3. Place(t, m) \in {"out", "own"} /\ Place(t, m)' \in {"out", Place(t, m)}
    BY <2>1, <2>2 DEF Place
  <2> QED
    BY <2>1, <2>3 DEF Moves
<1>7. ASSUME Mark(t) \/ WakeUp(t) PROVE OnlyMoves(t) /\ Moves(t, m)
  <2>1. OnlyMoves(t) /\ pc[t] \in Owning /\ pc'[t] \in {"clear", "pass", "dropIdle"} /\ call' = call
    BY <1>1, <1>7 DEF TypeOK, OnlyMoves, Mark, WakeUp
  <2>2. Place(t, m) \in {"out", "own"} /\ Place(t, m)' \in {"out", Place(t, m)}
    BY <2>1 DEF Place
  <2> QED
    BY <2>1, <2>2 DEF Moves
<1>8. ASSUME NEW l \in Locks, NEW k \in Kinds, FastTryLock(t, l, k) PROVE OnlyMoves(t) /\ Moves(t, m)
  <2>1. OnlyMoves(t) /\ pc[t] = "idle"
    BY <1>1, <1>8 DEF TypeOK, OnlyMoves, FastTryLock
  <2>2. Place(t, m) = "out"
    BY <2>1 DEF Place
  <2>3. CASE pc'[t] = "held" /\ dptr[l] = Unlocked
    <3>1. call' = [call EXCEPT ![t] = [lock |-> l, kind |-> "none", d |-> NoPrivate]]
      BY <1>1, <1>8, <2>3, CallForms DEF FastTryLock, TypeOK
    <3>2. Place(t, m)' = IF l = m THEN "own" ELSE "out"
      BY <1>1, <2>3, <3>1 DEF Place, TypeOK
    <3> QED
      BY <2>1, <2>2, <2>3, <3>2, FreeWordHasNoOwner DEF Moves
  <2>4. CASE pc'[t] = "retry" /\ k # "try" /\ Set(t, [Held(l) EXCEPT !.kind = k])
    <3>1. call' = [call EXCEPT ![t] = [lock |-> l, kind |-> k, d |-> NoPrivate]]
      BY <2>4, CallForms
    <3>2. Place(t, m)' = IF l = m THEN k ELSE "out"
      BY <1>1, <2>4, <3>1 DEF Place, TypeOK
    <3>3. k \in {"lock", "timed"}
      BY <2>4 DEF Kinds
    <3> QED
      BY <2>1, <2>2, <3>2, <3>3 DEF Moves
  <2>5. CASE UNCHANGED <<pc, call>>
    BY <2>1, <2>5 DEF Moves, Place
  <2> QED
    BY <1>1, <1>8, <2>3, <2>4, <2>5 DEF FastTryLock, TypeOK
<1> QED
  BY <1>2, <1>3, <1>4, <1>5, <1>6, <1>7, <1>8

LEMMA InitRefines == Init => \A m \in Locks : Abstract(m)!SpecInit
<1> SUFFICES ASSUME Init, NEW m \in Locks PROVE Abstract(m)!SpecInit
  OBVIOUS
<1>1. In(m, Owning) = {} /\ InCall(m, "lock") = {} /\ InCall(m, "timed") = {}
  BY DEF Init, In, InCall, Owning, Entering
<1> QED
  BY <1>1 DEF Abstract!SpecInit, Owner

LEMMA StepRefines == IInv /\ IInv' /\ [Next]_vars => [\A m \in Locks : AbstractStep(m)]_vars
<1> SUFFICES ASSUME IInv, IInv', Next, NEW m \in Locks PROVE AbstractStep(m)
  OBVIOUS
<1>1. PICK t \in Threads : \/ \E l \in Locks, k \in Kinds : FastTryLock(t, l, k)
                           \/ Internal(t) \/ SemTimeout(t) \/ FastTryUnlock(t)
  BY DEF Next
<1>2. OnlyMoves(t) /\ Moves(t, m)
  BY <1>1, StaysInPlace, LeavesPlace DEF Internal, Moves
<1> QED
  BY <1>2, PlaceStep

(* Every mutex on top of the shared privates implements the abstract one:  *)
(* at most one owner, a lock() that ends only as owner, and a tryLock()    *)
(* that may also give up, each step of the code being one of it or none.   *)
THEOREM Refinement == Spec => ImplementsMutexSpec
<1>1. Init => \A m \in Locks : Abstract(m)!SpecInit
  BY InitRefines
<1>2. IInv /\ IInv' /\ [Next]_vars => [\A m \in Locks : AbstractStep(m)]_vars
  BY StepRefines
<1> HIDE DEF IInv, Init, Next, vars, AbstractStep
<1>3. Spec => (\A m \in Locks : Abstract(m)!SpecInit) /\ [][\A m \in Locks : AbstractStep(m)]_vars
  BY <1>1, <1>2, PrivatesInvariant, PTL DEF Spec
<1> QED
  BY <1>3 DEF ImplementsMutexSpec, AbstractStep
==============================================================================
