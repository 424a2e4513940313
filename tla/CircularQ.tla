----------------------------- MODULE CircularQ -----------------------------
(***************************************************************************)
(* circular_q<T> (details/circular_q.h): a queue over a vector used as a   *)
(* ring.  One slot more than the requested capacity is allocated; the slot *)
(* under tail_ is never part of the contents, so that head_ = tail_ means  *)
(* empty and tail_ + 1 = head_ means full.                                 *)
(*                                                                         *)
(* A queue is a record with the fields of the class.  This module has the  *)
(* member functions as operators over that record and no state of its own: *)
(* CircularQObjects, MpmcQueue and the sinks that own a queue use it.      *)
(***************************************************************************)
EXTENDS Integers, Sequences

CONSTANTS
    Items,      \* the values of type T that callers push
    NoItem,     \* a default-constructed or moved-from T
    SizeMod     \* the number of values of size_t: 2^64 in the build

ASSUME ItemsAssumption == NoItem \notin Items
ASSUME SizeModAssumption == SizeMod \in Nat /\ SizeMod >= 2

(* size_t arithmetic wraps around. *)
SizeT == 0 .. (SizeMod - 1)

Slot == Items \cup {NoItem}

Ring(max_items, head, tail, overruns, v) ==
    [max_items_ |-> max_items, head_ |-> head, tail_ |-> tail,
     overrun_counter_ |-> overruns, v_ |-> v]

-----------------------------------------------------------------------------
(* circular_q(max_items): max_items + 1 is computed in size_t, so asking   *)
(* for the largest size_t gives a disabled queue.                          *)
New(max_items) ==
    LET m == (max_items + 1) % SizeMod
    IN  Ring(m, 0, 0, 0, [i \in 0 .. (m - 1) |-> NoItem])

(* circular_q(): the disabled queue, and what a move leaves in its source. *)
Disabled == Ring(0, 0, 0, 0, [i \in 0 .. -1 |-> NoItem])

Enabled(q) == q.max_items_ > 0

(* Faults: the index runs one past the vector; size() counts the marker    *)
(* slot of a wrapped queue; an overrun does not give up the oldest item.   *)
NextSlot_past_the_end(q, i) == (i + 1) % (q.max_items_ + 1)

NextSlot(q, i) == (i + 1) % q.max_items_

Empty(q) == q.tail_ = q.head_

Full(q) == Enabled(q) /\ NextSlot(q, q.tail_) = q.head_

Size_counts_marker(q) ==
    IF q.tail_ >= q.head_
    THEN q.tail_ - q.head_
    ELSE (q.max_items_ + 1) - (q.head_ - q.tail_)

Size(q) ==
    IF q.tail_ >= q.head_
    THEN q.tail_ - q.head_
    ELSE q.max_items_ - (q.head_ - q.tail_)

Front(q) == q.v_[q.head_]

At(q, i) == q.v_[(q.head_ + i) % q.max_items_]

PushBack_keeps_head(q, item) ==
    IF ~ Enabled(q) THEN q
    ELSE Ring(q.max_items_, q.head_, NextSlot(q, q.tail_),
              IF NextSlot(q, q.tail_) = q.head_
              THEN (q.overrun_counter_ + 1) % SizeMod ELSE q.overrun_counter_,
              [q.v_ EXCEPT ![q.tail_] = item])

(* push_back: store under the tail, advance it, and if it has met the head *)
(* give up the oldest item.                                                *)
PushBack(q, item) ==
    IF ~ Enabled(q) THEN q
    ELSE LET tail == NextSlot(q, q.tail_)
             overrun == tail = q.head_
         IN  Ring(q.max_items_,
                  IF overrun THEN NextSlot(q, q.head_) ELSE q.head_,
                  tail,
                  IF overrun THEN (q.overrun_counter_ + 1) % SizeMod
                             ELSE q.overrun_counter_,
                  [q.v_ EXCEPT ![q.tail_] = item])

(* pop_front: undefined on an empty queue, which callers must not pop. *)
PopFront(q) ==
    Ring(q.max_items_, NextSlot(q, q.head_), q.tail_, q.overrun_counter_, q.v_)

(* item = std::move(front()); pop_front(): the slot is left moved-from.    *)
TakeFront(q) ==
    Ring(q.max_items_, NextSlot(q, q.head_), q.tail_, q.overrun_counter_,
         [q.v_ EXCEPT ![q.head_] = NoItem])

(* What an observer reads with at(0), ..., at(size() - 1). *)
Contents(q) == [i \in 1 .. Size(q) |-> At(q, i - 1)]

-----------------------------------------------------------------------------
(* The shape of every queue reachable by the member functions. *)
RingOK(q) ==
    /\ q = Ring(q.max_items_, q.head_, q.tail_, q.overrun_counter_, q.v_)
    /\ q.max_items_ \in SizeT
    /\ q.overrun_counter_ \in SizeT
    /\ q.v_ \in [0 .. (q.max_items_ - 1) -> Slot]
    /\ IF Enabled(q)
       THEN q.head_ \in 0 .. (q.max_items_ - 1) /\ q.tail_ \in 0 .. (q.max_items_ - 1)
       ELSE q.head_ = 0 /\ q.tail_ = 0

(* A slot that holds neither an item of the contents nor the marker. *)
Vacant(q, i) ==
    IF q.head_ <= q.tail_ THEN i < q.head_ \/ i > q.tail_
                          ELSE q.tail_ < i /\ i < q.head_

(* Where items are only taken with TakeFront, vacant slots are moved-from. *)
VacantCleared(q) ==
    \A i \in 0 .. (q.max_items_ - 1) : Vacant(q, i) => q.v_[i] = NoItem
=============================================================================
