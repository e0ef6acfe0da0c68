---------------------------- MODULE PostEventList ----------------------------
(***************************************************************************)
(* QPostEventList: src/corelib/thread/qthread_p.h, addEvent() in           *)
(* qthread.cpp, and what qcoreapplication.cpp does with its entries.       *)
(*                                                                         *)
(* A list is a sequence of entries with two offsets, counted from 0 as in  *)
(* the code. An entry whose event has been delivered, removed or re-posted *)
(* stays where it is, with a null event, while somebody walks the list.    *)
(***************************************************************************)
EXTENDS Integers, SequencesExt

CONSTANTS NoEvent, NoReceiver

EmptyList == [entries |-> <<>>, startOffset |-> 0, insertionOffset |-> 0]

Size(l) == Len(l.entries)

(* Mistake: events also go before those that a walk has passed.            *)
AddEvent_Anywhere(l, ev) ==
    LET later == {i \in 1..Size(l) : l.entries[i].priority < ev.priority}
        at == Min(later \cup {Size(l) + 1}) IN
    [l EXCEPT !.entries = InsertAt(@, at, ev)]

(* addEvent(): behind everything of its priority and above, but not before *)
(* insertionOffset. From there on the list is sorted, which makes the code *)
(* for the end of the list and std::upper_bound agree with this.           *)
AddEvent(l, ev) ==
    LET later == {i \in l.insertionOffset + 1 .. Size(l) :
                    l.entries[i].priority < ev.priority}
        at == Min(later \cup {Size(l) + 1}) IN
    [l EXCEPT !.entries = InsertAt(@, at, ev)]

Null(entry) == [entry EXCEPT !.event = NoEvent, !.receiver = NoReceiver,
                             !.type = "normal", !.level = 0]

NullAt(l, i) == [l EXCEPT !.entries[i] = Null(@)]

(* What s has at the places in S, in order.                                *)
Nth(S, k) == CHOOSE i \in S : Cardinality({j \in S : j <= i}) = k
Only(s, S) == [k \in 1..Cardinality(S) |-> s[Nth(S, k)]]

(* Mistake: leaving the entries to somebody who walks the list.            *)
RemoveEvents_UnlessWalked(l, r, walked) ==
    IF walked THEN l
    ELSE [l EXCEPT !.entries = Only(@, {i \in 1..Size(l) : @[i].receiver # r})]

(* removePostedEvents(): the entries of r are nulled; or taken out, unless *)
(* somebody walks the list.                                                *)
RemoveEvents(l, r, walked) ==
    [l EXCEPT !.entries =
       IF walked THEN [i \in 1..Size(l) |-> IF @[i].receiver = r THEN Null(@[i]) ELSE @[i]]
                 ELSE Only(@, {i \in 1..Size(l) : @[i].receiver # r})]

(* Mistake: the next walk over all events begins where this one ended.     *)
EraseSent_KeepsStart(l) ==
    [entries |-> SubSeq(l.entries, l.startOffset + 1, Size(l)),
     insertionOffset |-> l.insertionOffset - l.startOffset,
     startOffset |-> l.startOffset]

(* The end of a walk over all events: what was sent is erased.             *)
EraseSent(l) ==
    [entries |-> SubSeq(l.entries, l.startOffset + 1, Size(l)),
     insertionOffset |-> l.insertionOffset - l.startOffset,
     startOffset |-> 0]
=============================================================================
