-------------------------- MODULE CircularQProofs --------------------------
(***************************************************************************)
(* circular_q for every capacity, every set of items and every width of    *)
(* size_t.  First facts about its operations: the index arithmetic is      *)
(* reduced once to comparisons (ModSmall, ModWrap, NextSlotIs); after that *)
(* the contents of the ring after each call are compared, index by index,  *)
(* with the sequence that the abstract queue holds.  Then theorems about   *)
(* the objects of the class: their shape, their queries and that they      *)
(* implement the drop-oldest queue of OverrunQueue.  The queues and sinks  *)
(* that own a ring are proved correct from the same facts.                 *)
(***************************************************************************)
EXTENDS CircularQObjects, SequenceTheorems, TLAPS

(* The remainder of a number below the divisor is the number. *)
LEMMA ModSmall == ASSUME NEW m \in Nat, m > 0, NEW i \in 0 .. (m - 1)
                  PROVE  i % m = i
  BY SMTT(20)

(* One wrap-around of the ring is one subtraction. *)
LEMMA ModWrap == ASSUME NEW m \in Nat, m > 0, NEW i \in m .. (2 * m - 1)
                 PROVE  i % m = i - m
  BY SMTT(20)

(* The index after i, as head_ and tail_ are advanced (circular_q.h:54,58,101). *)
LEMMA NextSlotIs ==
    ASSUME NEW q, RingOK(q), Enabled(q), NEW i \in 0 .. (q.max_items_ - 1)
    PROVE  /\ NextSlot(q, i) = IF i + 1 = q.max_items_ THEN 0 ELSE i + 1
           /\ NextSlot(q, i) \in 0 .. (q.max_items_ - 1)
<1>1. q.max_items_ \in Nat /\ q.max_items_ > 0
  BY SizeModAssumption DEF RingOK, Enabled, SizeT
<1>2. CASE i + 1 = q.max_items_
  <2>1. (i + 1) % q.max_items_ = 0
    BY <1>1, <1>2, ModWrap
  <2> QED BY <1>1, <1>2, <2>1 DEF NextSlot
<1>3. CASE i + 1 # q.max_items_
  <2>1. (i + 1) % q.max_items_ = i + 1
    BY <1>1, <1>3, ModSmall
  <2> QED BY <1>1, <1>3, <2>1 DEF NextSlot
<1> QED BY <1>2, <1>3

(* The slot that at(i) reads (circular_q.h:94). *)
LEMMA SlotOfIs ==
    ASSUME NEW q, RingOK(q), Enabled(q),
           NEW h \in 0 .. (q.max_items_ - 1), NEW i \in 0 .. (q.max_items_ - 1)
    PROVE  (h + i) % q.max_items_ =
               IF h + i < q.max_items_ THEN h + i ELSE h + i - q.max_items_
<1>1. q.max_items_ \in Nat /\ q.max_items_ > 0
  BY SizeModAssumption DEF RingOK, Enabled, SizeT
<1>2. CASE h + i < q.max_items_
  BY <1>1, <1>2, ModSmall
<1>3. CASE ~ (h + i < q.max_items_)
  BY <1>1, <1>3, ModWrap
<1> QED BY <1>2, <1>3

(* size() counts at most the capacity, empty() is size() = 0 and full() is *)
(* size() at the capacity.                                                 *)
LEMMA SizeFacts ==
    ASSUME NEW q, RingOK(q)
    PROVE  /\ Size(q) \in Nat
           /\ Empty(q) <=> Size(q) = 0
           /\ Enabled(q) => Size(q) \in 0 .. (q.max_items_ - 1)
           /\ ~ Enabled(q) => Size(q) = 0
           /\ Full(q) <=> Enabled(q) /\ Size(q) = q.max_items_ - 1
<1>1. q.max_items_ \in Nat
  BY SizeModAssumption DEF RingOK, SizeT
<1>2. CASE ~ Enabled(q)
  BY <1>1, <1>2 DEF RingOK, Enabled, Size, Empty, Full
<1>3. CASE Enabled(q)
  <2>1. q.head_ \in 0 .. (q.max_items_ - 1) /\ q.tail_ \in 0 .. (q.max_items_ - 1)
    BY <1>3 DEF RingOK
  <2>2. NextSlot(q, q.tail_) =
            IF q.tail_ + 1 = q.max_items_ THEN 0 ELSE q.tail_ + 1
    BY <1>3, <2>1, NextSlotIs
  <2> QED BY <1>1, <1>3, <2>1, <2>2 DEF Enabled, Size, Empty, Full
<1> QED BY <1>2, <1>3

-----------------------------------------------------------------------------
(* The constructors make a well-formed ring. *)
LEMMA DisabledOK == RingOK(Disabled)
  BY SizeModAssumption DEF RingOK, Ring, Disabled, Enabled, SizeT, Slot

(* A constructed ring is well formed. *)
LEMMA NewOK ==
    ASSUME NEW n \in SizeT
    PROVE  /\ RingOK(New(n))
           /\ New(n).max_items_ = IF n = SizeMod - 1 THEN 0 ELSE n + 1
           /\ New(n).head_ = 0 /\ New(n).tail_ = 0 /\ New(n).overrun_counter_ = 0
<1>1. (n + 1) % SizeMod = IF n = SizeMod - 1 THEN 0 ELSE n + 1
  <2>1. CASE n = SizeMod - 1
    BY <2>1, ModWrap, SizeModAssumption
  <2>2. CASE n # SizeMod - 1
    BY <2>2, ModSmall, SizeModAssumption DEF SizeT
  <2> QED BY <2>1, <2>2
<1> QED BY <1>1, SizeModAssumption DEF New, RingOK, Ring, Enabled, SizeT, Slot

(* push_back leaves a well-formed ring. *)
LEMMA PushBackOK ==
    ASSUME NEW q, RingOK(q), NEW x \in Items
    PROVE  RingOK(PushBack(q, x))
<1>1. CASE ~ Enabled(q)
  BY <1>1 DEF PushBack
<1>2. CASE Enabled(q)
  <2> DEFINE tail == NextSlot(q, q.tail_)
             over == tail = q.head_
  <2>1. q.head_ \in 0 .. (q.max_items_ - 1) /\ q.tail_ \in 0 .. (q.max_items_ - 1)
    BY <1>2 DEF RingOK
  <2>2. /\ NextSlot(q, q.tail_) \in 0 .. (q.max_items_ - 1)
        /\ NextSlot(q, q.head_) \in 0 .. (q.max_items_ - 1)
    BY <1>2, <2>1, NextSlotIs
  <2>3. (q.overrun_counter_ + 1) % SizeMod \in SizeT
    BY SizeModAssumption DEF RingOK, SizeT
  <2>4. PushBack(q, x) =
          Ring(q.max_items_, IF over THEN NextSlot(q, q.head_) ELSE q.head_, tail,
               IF over THEN (q.overrun_counter_ + 1) % SizeMod ELSE q.overrun_counter_,
               [q.v_ EXCEPT ![q.tail_] = x])
    BY <1>2 DEF PushBack
  <2>5. [q.v_ EXCEPT ![q.tail_] = x] \in [0 .. (q.max_items_ - 1) -> Slot]
    BY DEF RingOK, Slot
  <2> HIDE DEF over, tail
  <2>6. PushBack(q, x).max_items_ = q.max_items_
    BY <2>4 DEF Ring
  <2>7. Enabled(PushBack(q, x))
    BY <1>2, <2>6 DEF Enabled
  <2>8. /\ PushBack(q, x).head_ \in 0 .. (q.max_items_ - 1)
        /\ PushBack(q, x).tail_ \in 0 .. (q.max_items_ - 1)
    BY <2>1, <2>2, <2>4 DEF tail, Ring
  <2>9. PushBack(q, x).overrun_counter_ \in SizeT
    BY <2>3, <2>4 DEF RingOK, Ring
  <2> QED BY <2>4, <2>5, <2>6, <2>7, <2>8, <2>9 DEF RingOK, Ring
<1> QED BY <1>1, <1>2

(* pop_front of a non-empty queue leaves a well-formed ring. *)
LEMMA PopFrontOK ==
    ASSUME NEW q, RingOK(q), ~ Empty(q)
    PROVE  RingOK(PopFront(q)) /\ RingOK(TakeFront(q))
<1>1. Enabled(q)
  BY DEF RingOK, Empty
<1>2. q.head_ \in 0 .. (q.max_items_ - 1) /\ q.tail_ \in 0 .. (q.max_items_ - 1)
  BY <1>1 DEF RingOK
<1>3. NextSlot(q, q.head_) \in 0 .. (q.max_items_ - 1)
  BY <1>1, <1>2, NextSlotIs
<1>4. [q.v_ EXCEPT ![q.head_] = NoItem] \in [0 .. (q.max_items_ - 1) -> Slot]
  BY DEF RingOK, Slot
<1> QED BY <1>1, <1>2, <1>3, <1>4 DEF RingOK, PopFront, TakeFront, Ring, Enabled

-----------------------------------------------------------------------------
(* The fields of an enabled ring. *)
LEMMA EnabledFacts ==
    ASSUME NEW q, RingOK(q), Enabled(q)
    PROVE  /\ q.max_items_ \in Nat /\ q.max_items_ > 0
           /\ q.head_ \in 0 .. (q.max_items_ - 1)
           /\ q.tail_ \in 0 .. (q.max_items_ - 1)
           /\ q.v_ \in [0 .. (q.max_items_ - 1) -> Slot]
  BY SizeModAssumption DEF RingOK, Enabled, SizeT

(* The index of the i-th slot counted from h, as SlotOfIs computes it. *)
Wrap(h, i, m) == IF h + i < m THEN h + i ELSE h + i - m

(* An index wrapped round the vector is an index of the vector. *)
LEMMA WrapRange ==
    ASSUME NEW m \in Nat, m > 0, NEW h \in 0 .. (m - 1), NEW i \in 0 .. (m - 1)
    PROVE  Wrap(h, i, m) \in 0 .. (m - 1)
  BY DEF Wrap

(* operator[] of the queue, in terms of the vector. *)
LEMMA AtIs ==
    ASSUME NEW q, RingOK(q), Enabled(q), NEW i \in 0 .. (q.max_items_ - 1)
    PROVE  At(q, i) = q.v_[Wrap(q.head_, i, q.max_items_)]
<1>1. (q.head_ + i) % q.max_items_ = Wrap(q.head_, i, q.max_items_)
  BY EnabledFacts, SlotOfIs DEF Wrap
<1> QED BY <1>1 DEF At

(* The slot under tail_ follows the contents and is none of theirs. *)
LEMMA TailSlot ==
    ASSUME NEW q, RingOK(q), Enabled(q)
    PROVE  /\ q.tail_ = Wrap(q.head_, Size(q), q.max_items_)
           /\ \A i \in 0 .. (Size(q) - 1) : Wrap(q.head_, i, q.max_items_) # q.tail_
<1>1. /\ q.max_items_ \in Nat /\ q.max_items_ > 0
      /\ q.head_ \in 0 .. (q.max_items_ - 1) /\ q.tail_ \in 0 .. (q.max_items_ - 1)
  BY EnabledFacts
<1> QED BY <1>1 DEF Size, Wrap

(* The contents of a ring are a sequence as long as size(). *)
LEMMA ContentsFacts ==
    ASSUME NEW q, RingOK(q)
    PROVE  /\ Contents(q) \in Seq(Slot)
           /\ Len(Contents(q)) = Size(q)
           /\ \A i \in 1 .. Size(q) : Contents(q)[i] = At(q, i - 1)
<1>1. Size(q) \in Nat
  BY SizeFacts
<1>2. ASSUME NEW i \in 1 .. Size(q)
      PROVE  At(q, i - 1) \in Slot
  <2>1. Enabled(q) /\ Size(q) \in 0 .. (q.max_items_ - 1)
    BY <1>1, SizeFacts
  <2>2. i - 1 \in 0 .. (q.max_items_ - 1)
    BY <2>1, EnabledFacts
  <2>3. Wrap(q.head_, i - 1, q.max_items_) \in 0 .. (q.max_items_ - 1)
    BY <2>1, <2>2, EnabledFacts, WrapRange
  <2> QED BY <2>1, <2>2, <2>3, AtIs, EnabledFacts
<1>3. Contents(q) \in Seq(Slot)
  BY <1>1, <1>2, IsASeq DEF Contents
<1> QED BY <1>1, <1>3 DEF Contents

(* A push with room appends the item and leaves the counter alone. *)
LEMMA PushWithRoom ==
    ASSUME NEW q, RingOK(q), Enabled(q), Size(q) < q.max_items_ - 1, NEW x \in Items
    PROVE  /\ Contents(PushBack(q, x)) = Append(Contents(q), x)
           /\ PushBack(q, x).overrun_counter_ = q.overrun_counter_
           /\ PushBack(q, x).max_items_ = q.max_items_
<1> DEFINE p == PushBack(q, x)
           m == q.max_items_
<1>1. /\ m \in Nat /\ m > 0
      /\ q.head_ \in 0 .. (m - 1) /\ q.tail_ \in 0 .. (m - 1)
      /\ q.v_ \in [0 .. (m - 1) -> Slot]
  BY EnabledFacts
<1>2. NextSlot(q, q.tail_) = IF q.tail_ + 1 = m THEN 0 ELSE q.tail_ + 1
  BY <1>1, NextSlotIs
<1>3. NextSlot(q, q.tail_) # q.head_
  BY SizeFacts DEF Full
<1>4. p = Ring(m, q.head_, NextSlot(q, q.tail_), q.overrun_counter_,
               [q.v_ EXCEPT ![q.tail_] = x])
  BY <1>3 DEF PushBack
<1>5. /\ p.max_items_ = m /\ p.head_ = q.head_ /\ p.tail_ = NextSlot(q, q.tail_)
      /\ p.overrun_counter_ = q.overrun_counter_
      /\ p.v_ = [q.v_ EXCEPT ![q.tail_] = x]
  BY <1>4 DEF Ring
<1>6. RingOK(p) /\ Enabled(p)
  BY <1>5, PushBackOK DEF Enabled
<1> HIDE DEF p
<1>7. Size(p) = Size(q) + 1 /\ Size(q) \in 0 .. (m - 2)
  <2>1. Size(q) \in 0 .. (m - 2)
    BY <1>1, SizeFacts
  <2> DEFINE t == NextSlot(q, q.tail_)
  <2>2. Size(p) = IF t >= q.head_ THEN t - q.head_ ELSE m - (q.head_ - t)
    BY <1>5 DEF Size
  <2>3. Size(q) = IF q.tail_ >= q.head_ THEN q.tail_ - q.head_
                                        ELSE m - (q.head_ - q.tail_)
    BY DEF Size
  <2>4. t # q.head_ /\ t = IF q.tail_ + 1 = m THEN 0 ELSE q.tail_ + 1
    BY <1>2, <1>3
  <2>5. ASSUME NEW h \in 0 .. (m - 1), NEW l \in 0 .. (m - 1), NEW u \in 0 .. (m - 1),
               u # h, u = IF l + 1 = m THEN 0 ELSE l + 1
        PROVE  (IF u >= h THEN u - h ELSE m - (h - u)) =
                   1 + (IF l >= h THEN l - h ELSE m - (h - l))
    BY <1>1, <2>5
  <2>6. t \in 0 .. (m - 1)
    BY <1>1, <2>4
  <2> HIDE DEF t, m
  <2>7. Size(p) = 1 + Size(q)
    BY <1>1, <2>2, <2>3, <2>4, <2>5, <2>6
  <2> QED BY <2>1, <2>7
<1>8. ASSUME NEW i \in 1 .. Size(p)
      PROVE  Contents(p)[i] = Append(Contents(q), x)[i]
  <2>1. i - 1 \in 0 .. (m - 1)
    BY <1>1, <1>7
  <2> DEFINE k == Wrap(q.head_, i - 1, m)
  <2>2. At(p, i - 1) = p.v_[k] /\ At(q, i - 1) = q.v_[k]
    <3>1. i - 1 \in 0 .. (p.max_items_ - 1)
      BY <1>5, <2>1
    <3>2. At(p, i - 1) = p.v_[Wrap(p.head_, i - 1, p.max_items_)]
      BY <1>6, <3>1, AtIs
    <3>3. At(q, i - 1) = q.v_[k]
      BY <2>1, AtIs
    <3> QED BY <1>5, <3>2, <3>3
  <2>3. k \in 0 .. (m - 1)
    BY <1>1, <2>1, WrapRange
  <2>4. Contents(p)[i] = p.v_[k]
    BY <1>6, <2>2, ContentsFacts
  <2>5. CASE i = Size(q) + 1
    <3>1. i - 1 = Size(q)
      BY <1>7, <2>5
    <3>2. k = q.tail_
      BY <3>1, TailSlot
    <3>3. Append(Contents(q), x)[i] = x
      BY <2>5, ContentsFacts, AppendProperties DEF Slot
    <3> QED BY <1>1, <1>5, <2>4, <3>2, <3>3
  <2>6. CASE i # Size(q) + 1
    <3>1. i \in 1 .. Size(q) /\ i - 1 \in 0 .. (Size(q) - 1)
      BY <1>7, <2>6
    <3>2. k # q.tail_
      BY <3>1, TailSlot
    <3>3. Append(Contents(q), x)[i] = q.v_[k]
      BY <2>2, <3>1, ContentsFacts, AppendProperties DEF Slot
    <3> HIDE DEF k
    <3> QED BY <1>1, <1>5, <2>3, <2>4, <3>2, <3>3
  <2> QED BY <2>5, <2>6
<1>9. Contents(p) \in Seq(Slot) /\ Len(Contents(p)) = Size(q) + 1
  BY <1>6, <1>7, ContentsFacts
<1>10. Append(Contents(q), x) \in Seq(Slot) /\ Len(Append(Contents(q), x)) = Size(q) + 1
  BY ContentsFacts, AppendProperties DEF Slot
<1>11. Contents(p) = Append(Contents(q), x)
  BY <1>7, <1>8, <1>9, <1>10, SeqEqual
<1> QED BY <1>5, <1>11 DEF p

(* Counting i slots from the next head is counting i + 1 from the head. *)
LEMMA WrapNext ==
    ASSUME NEW m \in Nat, NEW h \in 0 .. (m - 1), NEW i \in 0 .. (m - 2)
    PROVE  Wrap(IF h + 1 = m THEN 0 ELSE h + 1, i, m) = Wrap(h, i + 1, m)
  BY DEF Wrap

(* A push into a full ring gives up the oldest item and counts it. *)
LEMMA PushWhenFull ==
    ASSUME NEW q, RingOK(q), Enabled(q), Size(q) = q.max_items_ - 1, NEW x \in Items
    PROVE  /\ Contents(PushBack(q, x)) = Tail(Append(Contents(q), x))
           /\ PushBack(q, x).overrun_counter_ = (q.overrun_counter_ + 1) % SizeMod
           /\ PushBack(q, x).max_items_ = q.max_items_
<1> DEFINE p == PushBack(q, x)
           m == q.max_items_
           nh == NextSlot(q, q.head_)
<1>1. /\ m \in Nat /\ m > 0
      /\ q.head_ \in 0 .. (m - 1) /\ q.tail_ \in 0 .. (m - 1)
      /\ q.v_ \in [0 .. (m - 1) -> Slot]
  BY EnabledFacts
<1>2. /\ NextSlot(q, q.tail_) = IF q.tail_ + 1 = m THEN 0 ELSE q.tail_ + 1
      /\ nh = IF q.head_ + 1 = m THEN 0 ELSE q.head_ + 1
      /\ nh \in 0 .. (m - 1)
  BY <1>1, NextSlotIs
<1>3. NextSlot(q, q.tail_) = q.head_
  BY SizeFacts DEF Full
<1>4. p = Ring(m, nh, q.head_, (q.overrun_counter_ + 1) % SizeMod,
               [q.v_ EXCEPT ![q.tail_] = x])
  BY <1>3 DEF PushBack
<1>5. /\ p.max_items_ = m /\ p.head_ = nh /\ p.tail_ = q.head_
      /\ p.overrun_counter_ = (q.overrun_counter_ + 1) % SizeMod
      /\ p.v_ = [q.v_ EXCEPT ![q.tail_] = x]
  BY <1>4 DEF Ring
<1>6. RingOK(p) /\ Enabled(p)
  BY <1>5, PushBackOK DEF Enabled
<1> HIDE DEF p
<1>7. Size(p) = m - 1
  <2>1. Size(p) = IF q.head_ >= nh THEN q.head_ - nh ELSE m - (nh - q.head_)
    BY <1>5 DEF Size
  <2> QED BY <1>1, <1>2, <2>1
<1>8. /\ Append(Contents(q), x) \in Seq(Slot) /\ Append(Contents(q), x) # <<>>
      /\ Len(Append(Contents(q), x)) = m
  BY <1>1, ContentsFacts, AppendProperties DEF Slot
<1>9. /\ Tail(Append(Contents(q), x)) \in Seq(Slot)
      /\ Len(Tail(Append(Contents(q), x))) = m - 1
      /\ \A i \in 1 .. (m - 1) :
             Tail(Append(Contents(q), x))[i] = Append(Contents(q), x)[i + 1]
  BY <1>8, HeadTailProperties
<1>10. ASSUME NEW i \in 1 .. (m - 1)
       PROVE  Contents(p)[i] = Append(Contents(q), x)[i + 1]
  <2> DEFINE k == Wrap(q.head_, i, m)
  <2>1. i - 1 \in 0 .. (m - 2) /\ i - 1 \in 0 .. (m - 1) /\ i \in 0 .. (m - 1)
    BY <1>1
  <2>2. Wrap(nh, i - 1, m) = k
    <3>1. Wrap(nh, i - 1, m) = Wrap(q.head_, (i - 1) + 1, m)
      BY <1>1, <1>2, <2>1, WrapNext
    <3> QED BY <3>1
  <2>3. At(p, i - 1) = p.v_[k]
    <3>1. i - 1 \in 0 .. (p.max_items_ - 1)
      BY <1>5, <2>1
    <3>2. At(p, i - 1) = p.v_[Wrap(p.head_, i - 1, p.max_items_)]
      BY <1>6, <3>1, AtIs
    <3> QED BY <1>5, <2>2, <3>2
  <2>4. k \in 0 .. (m - 1)
    BY <1>1, <2>1, WrapRange
  <2>5. Contents(p)[i] = p.v_[k]
    BY <1>6, <1>7, <2>3, ContentsFacts
  <2>6. CASE i = m - 1
    <3>1. k = q.tail_
      BY <2>6, TailSlot
    <3>2. Append(Contents(q), x)[i + 1] = x
      BY <2>6, ContentsFacts, AppendProperties DEF Slot
    <3> QED BY <1>1, <1>5, <2>5, <3>1, <3>2
  <2>7. CASE i # m - 1
    <3>1. i \in 0 .. (Size(q) - 1) /\ i + 1 \in 1 .. Size(q)
      BY <1>1, <2>7
    <3>2. k # q.tail_
      BY <3>1, TailSlot
    <3>3. Contents(q)[i + 1] = At(q, (i + 1) - 1)
      BY <3>1, ContentsFacts
    <3>4. At(q, i) = q.v_[k]
      BY <2>1, AtIs
    <3>5. Append(Contents(q), x)[i + 1] = q.v_[k]
      BY <3>1, <3>3, <3>4, ContentsFacts, AppendProperties DEF Slot
    <3> HIDE DEF k
    <3> QED BY <1>1, <1>5, <2>4, <2>5, <3>2, <3>5
  <2> QED BY <2>6, <2>7
<1>11. Contents(p) \in Seq(Slot) /\ Len(Contents(p)) = m - 1
  BY <1>6, <1>7, ContentsFacts
<1>12. Contents(p) = Tail(Append(Contents(q), x))
  BY <1>9, <1>10, <1>11, SeqEqual
<1> QED BY <1>5, <1>12 DEF p

(* pop_front removes the front item, which is what front() reads. *)
LEMMA PopContents ==
    ASSUME NEW q, RingOK(q), ~ Empty(q),
           NEW p, p = PopFront(q) \/ p = TakeFront(q)
    PROVE  /\ Contents(p) = Tail(Contents(q))
           /\ Contents(q) # <<>> /\ Front(q) = Head(Contents(q))
           /\ p.overrun_counter_ = q.overrun_counter_ /\ p.max_items_ = q.max_items_
<1> DEFINE m == q.max_items_
           nh == NextSlot(q, q.head_)
<1>1. Enabled(q)
  BY DEF RingOK, Empty
<1>2. /\ m \in Nat /\ m > 0
      /\ q.head_ \in 0 .. (m - 1) /\ q.tail_ \in 0 .. (m - 1)
      /\ q.v_ \in [0 .. (m - 1) -> Slot]
  BY <1>1, EnabledFacts
<1>3. /\ nh = IF q.head_ + 1 = m THEN 0 ELSE q.head_ + 1
      /\ nh \in 0 .. (m - 1)
  BY <1>1, <1>2, NextSlotIs
<1>4. /\ p.max_items_ = m /\ p.head_ = nh /\ p.tail_ = q.tail_
      /\ p.overrun_counter_ = q.overrun_counter_
      /\ \A k \in 0 .. (m - 1) : k # q.head_ => p.v_[k] = q.v_[k]
  <2>1. CASE p = PopFront(q)
    BY <2>1 DEF PopFront, Ring
  <2>2. CASE p = TakeFront(q)
    BY <1>2, <2>2 DEF TakeFront, Ring
  <2> QED BY <2>1, <2>2
<1>5. RingOK(p) /\ Enabled(p)
  <2>1. RingOK(p)
    BY PopFrontOK
  <2> QED BY <1>1, <1>4, <2>1 DEF Enabled
<1>6. Size(q) \in 1 .. (m - 1)
  BY <1>1, <1>2, SizeFacts
<1>7. Size(p) = Size(q) - 1
  <2>1. Size(p) = IF q.tail_ >= nh THEN q.tail_ - nh ELSE m - (nh - q.tail_)
    BY <1>4 DEF Size
  <2>2. Size(q) = IF q.tail_ >= q.head_ THEN q.tail_ - q.head_
                                        ELSE m - (q.head_ - q.tail_)
    BY DEF Size
  <2>3. q.tail_ # q.head_
    BY DEF Empty
  <2> HIDE DEF nh
  <2> QED BY <1>2, <1>3, <2>1, <2>2, <2>3
<1>8. /\ Contents(q) \in Seq(Slot) /\ Len(Contents(q)) = Size(q) /\ Contents(q) # <<>>
  BY <1>6, ContentsFacts
<1>9. /\ Tail(Contents(q)) \in Seq(Slot)
      /\ Len(Tail(Contents(q))) = Size(q) - 1
      /\ \A i \in 1 .. (Size(q) - 1) : Tail(Contents(q))[i] = Contents(q)[i + 1]
  BY <1>8, HeadTailProperties
<1>10. ASSUME NEW i \in 1 .. (Size(q) - 1)
       PROVE  Contents(p)[i] = Contents(q)[i + 1]
  <2> DEFINE k == Wrap(q.head_, i, m)
  <2>1. /\ i - 1 \in 0 .. (m - 2) /\ i - 1 \in 0 .. (m - 1) /\ i \in 0 .. (m - 1)
        /\ i + 1 \in 1 .. Size(q)
    BY <1>2, <1>6
  <2>2. Wrap(nh, i - 1, m) = k
    <3>1. Wrap(nh, i - 1, m) = Wrap(q.head_, (i - 1) + 1, m)
      BY <1>2, <1>3, <2>1, WrapNext
    <3> QED BY <3>1
  <2>3. At(p, i - 1) = p.v_[k]
    <3>1. i - 1 \in 0 .. (p.max_items_ - 1)
      BY <1>4, <2>1
    <3>2. At(p, i - 1) = p.v_[Wrap(p.head_, i - 1, p.max_items_)]
      BY <1>5, <3>1, AtIs
    <3> QED BY <1>4, <2>2, <3>2
  <2>4. k \in 0 .. (m - 1) /\ k # q.head_
    BY <1>2, <2>1 DEF Wrap
  <2>5. Contents(p)[i] = p.v_[k]
    BY <1>5, <1>7, <2>3, ContentsFacts
  <2>6. Contents(q)[i + 1] = At(q, (i + 1) - 1)
    BY <2>1, ContentsFacts
  <2>7. At(q, i) = q.v_[k]
    BY <1>1, <2>1, AtIs
  <2> HIDE DEF k
  <2> QED BY <1>4, <2>4, <2>5, <2>6, <2>7
<1>11. Contents(p) \in Seq(Slot) /\ Len(Contents(p)) = Size(q) - 1
  BY <1>5, <1>7, ContentsFacts
<1>12. Contents(p) = Tail(Contents(q))
  BY <1>7, <1>9, <1>10, <1>11, SeqEqual
<1>13. Front(q) = Head(Contents(q))
  <2>1. Contents(q)[1] = At(q, 1 - 1) /\ 0 \in 0 .. (m - 1)
    BY <1>2, <1>6, ContentsFacts
  <2>2. At(q, 0) = q.v_[Wrap(q.head_, 0, m)]
    BY <1>1, <2>1, AtIs
  <2>3. Wrap(q.head_, 0, m) = q.head_
    BY <1>2 DEF Wrap
  <2>4. Head(Contents(q)) = Contents(q)[1]
    BY <1>8
  <2> QED BY <2>1, <2>2, <2>3, <2>4 DEF Front
<1> QED BY <1>4, <1>8, <1>12, <1>13

(* An empty ring has no contents. *)
LEMMA EmptyContents ==
    ASSUME NEW q, RingOK(q), Empty(q)
    PROVE  Contents(q) = <<>>
<1>1. Len(Contents(q)) = 0 /\ Contents(q) \in Seq(Slot)
  BY SizeFacts, ContentsFacts
<1> QED BY <1>1, EmptySeq

-----------------------------------------------------------------------------
(* The constructor leaves nothing in any slot. *)
LEMMA VacantNew ==
    ASSUME NEW n \in SizeT
    PROVE  /\ VacantCleared(New(n))
           /\ n # SizeMod - 1 => New(n).v_[New(n).tail_] = NoItem
<1>1. New(n).v_ = [i \in 0 .. (New(n).max_items_ - 1) |-> NoItem]
  BY DEF New, Ring
<1>2. n \in Nat
  BY SizeModAssumption DEF SizeT
<1> QED BY <1>1, <1>2, NewOK DEF VacantCleared

(* After a push with room the marker slot is moved-from. *)
LEMMA MarkerAfterPush ==
    ASSUME NEW q, RingOK(q), Enabled(q), Size(q) < q.max_items_ - 1, NEW x \in Items,
           VacantCleared(q)
    PROVE  /\ VacantCleared(PushBack(q, x))
           /\ PushBack(q, x).v_[PushBack(q, x).tail_] = NoItem
<1> DEFINE p == PushBack(q, x)
           m == q.max_items_
           t == NextSlot(q, q.tail_)
<1>1. /\ m \in Nat /\ m > 0
      /\ q.head_ \in 0 .. (m - 1) /\ q.tail_ \in 0 .. (m - 1)
      /\ q.v_ \in [0 .. (m - 1) -> Slot]
  BY EnabledFacts
<1>2. t = IF q.tail_ + 1 = m THEN 0 ELSE q.tail_ + 1
  BY <1>1, NextSlotIs
<1>3. t # q.head_
  BY SizeFacts DEF Full
<1>4. p = Ring(m, q.head_, t, q.overrun_counter_, [q.v_ EXCEPT ![q.tail_] = x])
  BY <1>3 DEF PushBack
<1>5. /\ p.max_items_ = m /\ p.head_ = q.head_ /\ p.tail_ = t
      /\ p.v_ = [q.v_ EXCEPT ![q.tail_] = x]
  BY <1>4 DEF Ring
<1> HIDE DEF p
<1>6. t \in 0 .. (m - 1) /\ t # q.tail_ /\ Vacant(q, t)
  <2> HIDE DEF t, m
  <2> QED BY <1>1, <1>2, <1>3 DEF Vacant
<1>7. ASSUME NEW i \in 0 .. (m - 1), Vacant(p, i)
      PROVE  i # q.tail_ /\ Vacant(q, i)
  BY <1>1, <1>2, <1>3, <1>5, <1>7 DEF Vacant
<1>8. ASSUME NEW i \in 0 .. (m - 1), i # q.tail_, Vacant(q, i)
      PROVE  p.v_[i] = NoItem
  BY <1>1, <1>5, <1>8 DEF VacantCleared
<1>9. VacantCleared(p)
  BY <1>5, <1>7, <1>8 DEF VacantCleared
<1>10. p.v_[p.tail_] = NoItem
  BY <1>5, <1>6, <1>8
<1> QED BY <1>9, <1>10 DEF p

(* After an overrun the marker slot holds the item that was given up. *)
LEMMA MarkerAfterOverrun ==
    ASSUME NEW q, RingOK(q), Enabled(q), Size(q) = q.max_items_ - 1, NEW x \in Items
    PROVE  /\ VacantCleared(PushBack(q, x))
           /\ PushBack(q, x).v_[PushBack(q, x).tail_] = Head(Append(Contents(q), x))
<1> DEFINE p == PushBack(q, x)
           m == q.max_items_
           nh == NextSlot(q, q.head_)
<1>1. /\ m \in Nat /\ m > 0
      /\ q.head_ \in 0 .. (m - 1) /\ q.tail_ \in 0 .. (m - 1)
      /\ q.v_ \in [0 .. (m - 1) -> Slot]
  BY EnabledFacts
<1>2. /\ NextSlot(q, q.tail_) = IF q.tail_ + 1 = m THEN 0 ELSE q.tail_ + 1
      /\ nh = IF q.head_ + 1 = m THEN 0 ELSE q.head_ + 1
  BY <1>1, NextSlotIs
<1>3. NextSlot(q, q.tail_) = q.head_
  BY SizeFacts DEF Full
<1>4. p = Ring(m, nh, q.head_, (q.overrun_counter_ + 1) % SizeMod,
               [q.v_ EXCEPT ![q.tail_] = x])
  BY <1>3 DEF PushBack
<1>5. /\ p.max_items_ = m /\ p.head_ = nh /\ p.tail_ = q.head_
      /\ p.v_ = [q.v_ EXCEPT ![q.tail_] = x]
  BY <1>4 DEF Ring
<1> HIDE DEF p
<1>6. ASSUME NEW i \in 0 .. (m - 1)
      PROVE  ~ Vacant(p, i)
  BY <1>1, <1>2, <1>5 DEF Vacant
<1>7. VacantCleared(p)
  BY <1>5, <1>6 DEF VacantCleared
<1>8. /\ Contents(q) \in Seq(Slot) /\ Len(Contents(q)) = m - 1
      /\ Append(Contents(q), x) \in Seq(Slot) /\ Append(Contents(q), x) # <<>>
      /\ Head(Append(Contents(q), x)) = Append(Contents(q), x)[1]
  BY <1>1, ContentsFacts, AppendProperties DEF Slot
<1>9. CASE m = 1
  <2>1. Append(Contents(q), x)[1] = x
    BY <1>8, <1>9, AppendProperties DEF Slot
  <2>2. q.head_ = q.tail_
    BY <1>1, <1>9
  <2> QED BY <1>1, <1>5, <1>7, <1>8, <2>1, <2>2 DEF p
<1>10. CASE m # 1
  <2>1. Append(Contents(q), x)[1] = Contents(q)[1] /\ 1 \in 1 .. Size(q)
    BY <1>1, <1>8, <1>10, AppendProperties DEF Slot
  <2>2. Contents(q)[1] = At(q, 0)
    <3>1. Contents(q)[1] = At(q, 1 - 1)
      BY <2>1, ContentsFacts
    <3> QED BY <3>1
  <2>3. At(q, 0) = q.v_[q.head_]
    <3>1. 0 \in 0 .. (m - 1) /\ Wrap(q.head_, 0, m) = q.head_
      BY <1>1 DEF Wrap
    <3> QED BY <3>1, AtIs
  <2>4. q.head_ # q.tail_
    BY <1>1, <1>2, <1>3, <1>10
  <2> QED BY <1>1, <1>5, <1>7, <1>8, <2>1, <2>2, <2>3, <2>4 DEF p
<1> QED BY <1>9, <1>10

(* Taking the front item leaves the marker slot alone. *)
LEMMA MarkerAfterTake ==
    ASSUME NEW q, RingOK(q), ~ Empty(q), VacantCleared(q)
    PROVE  /\ VacantCleared(TakeFront(q))
           /\ TakeFront(q).v_[TakeFront(q).tail_] = q.v_[q.tail_]
<1> DEFINE p == TakeFront(q)
           m == q.max_items_
           nh == NextSlot(q, q.head_)
<1>1. Enabled(q)
  BY DEF RingOK, Empty
<1>2. /\ m \in Nat /\ m > 0
      /\ q.head_ \in 0 .. (m - 1) /\ q.tail_ \in 0 .. (m - 1)
      /\ q.v_ \in [0 .. (m - 1) -> Slot]
  BY <1>1, EnabledFacts
<1>3. nh = IF q.head_ + 1 = m THEN 0 ELSE q.head_ + 1
  BY <1>1, <1>2, NextSlotIs
<1>4. /\ p.max_items_ = m /\ p.head_ = nh /\ p.tail_ = q.tail_
      /\ p.v_ = [q.v_ EXCEPT ![q.head_] = NoItem]
  BY DEF TakeFront, Ring
<1>5. q.head_ # q.tail_
  BY DEF Empty
<1> HIDE DEF p
<1>6. ASSUME NEW i \in 0 .. (m - 1), Vacant(p, i)
      PROVE  i = q.head_ \/ Vacant(q, i)
  BY <1>2, <1>3, <1>4, <1>5, <1>6 DEF Vacant
<1>7. VacantCleared(p)
  BY <1>2, <1>4, <1>6 DEF VacantCleared
<1>8. p.v_[p.tail_] = q.v_[q.tail_]
  BY <1>2, <1>4, <1>5
<1> QED BY <1>7, <1>8 DEF p

-----------------------------------------------------------------------------
(* Every object stays a well-formed ring: head_ and tail_ never leave the  *)
(* allocated slots, whatever is constructed, pushed, popped, copied or     *)
(* moved (circular_q.h:27-102, 126-138).                                   *)
THEOREM ObjectsTypeCorrect == ObjectsSpec => []ObjectsOK
<1>1. ObjectsInit => ObjectsOK
  BY DisabledOK DEF ObjectsInit, ObjectsOK
<1>2. ObjectsOK /\ [ObjectsNext]_objectsVars => ObjectsOK'
  <2> SUFFICES ASSUME ObjectsOK, [ObjectsNext]_objectsVars PROVE ObjectsOK'
    OBVIOUS
  <2> USE DEF ObjectsOK
  <2>1. ASSUME NEW o \in Objects, NEW n \in Capacities, Construct(o, n)
        PROVE  ObjectsOK'
    <3>1. RingOK(New(n))
      BY CapacitiesAssumption, NewOK
    <3> QED BY <2>1, <3>1 DEF Construct
  <2>2. ASSUME NEW o \in Objects, NEW x \in Items, Push(o, x)
        PROVE  ObjectsOK'
    <3>1. RingOK(PushBack(qs[o], x))
      BY PushBackOK
    <3> QED BY <2>2, <3>1 DEF Push
  <2>3. ASSUME NEW o \in Objects, Pop(o) \/ Take(o)
        PROVE  ObjectsOK'
    <3>1. RingOK(PopFront(qs[o])) /\ RingOK(TakeFront(qs[o]))
      BY <2>3, PopFrontOK DEF Pop, Take
    <3> QED BY <2>3, <3>1 DEF Pop, Take
  <2>4. ASSUME NEW o \in Objects, NEW from \in Objects, Copy(o, from) \/ Move(o, from)
        PROVE  ObjectsOK'
    BY <2>4, DisabledOK DEF Copy, Move
  <2>5. CASE UNCHANGED objectsVars
    BY <2>5 DEF objectsVars
  <2> QED BY <2>1, <2>2, <2>3, <2>4, <2>5 DEF ObjectsNext
<1> QED BY <1>1, <1>2, PTL DEF ObjectsSpec

(* empty(), full() and size() agree in every reachable queue. *)
THEOREM QueriesCorrect == ObjectsSpec => []QueriesAgree
<1>1. ObjectsOK => QueriesAgree
  BY SizeFacts DEF ObjectsOK, QueriesAgree
<1> QED BY <1>1, ObjectsTypeCorrect, PTL

-----------------------------------------------------------------------------
(* The abstract queue of a new, a disabled, a pushed and a popped ring. *)
LEMMA AbstractDisabled == Abstract(Disabled) = Queues!Off
<1>1. Contents(Disabled) = <<>>
  BY DisabledOK, EmptyContents DEF Disabled, Ring, Empty
<1> QED BY <1>1 DEF Abstract, Disabled, Ring, Enabled, Queues!Off, Queues!Queue

(* A new queue holds nothing and has dropped nothing. *)
LEMMA AbstractNew ==
    ASSUME NEW n \in SizeT
    PROVE  Abstract(New(n)) = Queues!Created(n)
<1>1. Contents(New(n)) = <<>>
  BY NewOK, EmptyContents DEF Empty
<1>2. n \in Nat
  BY SizeModAssumption DEF SizeT
<1> QED BY <1>1, <1>2, NewOK
       DEF Abstract, Enabled, Queues!Created, Queues!Off, Queues!Queue

(* Pushing appends, and drops the oldest item of a full queue. *)
LEMMA AbstractPush ==
    ASSUME NEW q, RingOK(q), NEW x \in Items
    PROVE  Abstract(PushBack(q, x)) = Queues!Pushed(Abstract(q), x)
<1>1. CASE ~ Enabled(q)
  BY <1>1, SizeModAssumption DEF PushBack, Enabled, RingOK, SizeT, Abstract, Queues!Pushed
<1>2. CASE Enabled(q)
  <2> DEFINE p == PushBack(q, x)
  <2>1. /\ Size(q) \in 0 .. (q.max_items_ - 1) /\ Len(Contents(q)) = Size(q)
        /\ q.max_items_ \in Nat /\ q.max_items_ > 0
    BY <1>2, SizeFacts, ContentsFacts, EnabledFacts
  <2>2. /\ Abstract(q).capacity = q.max_items_ - 1
        /\ Abstract(q).items = Contents(q)
        /\ Abstract(q).overruns = q.overrun_counter_
    BY DEF Abstract
  <2>3. ~ (Abstract(q).capacity < 0)
    BY <2>1, <2>2
  <2>4. CASE Size(q) < q.max_items_ - 1
    <3>1. Queues!Pushed(Abstract(q), x) =
            Queues!Queue(q.max_items_ - 1, Append(Contents(q), x), q.overrun_counter_)
      BY <2>1, <2>2, <2>3, <2>4 DEF Queues!Pushed
    <3>2. /\ Contents(p) = Append(Contents(q), x)
          /\ p.overrun_counter_ = q.overrun_counter_ /\ p.max_items_ = q.max_items_
      BY <1>2, <2>4, PushWithRoom
    <3> HIDE DEF p
    <3> QED BY <3>1, <3>2 DEF Abstract, Queues!Queue, p
  <2>5. CASE Size(q) = q.max_items_ - 1
    <3>1. Queues!Pushed(Abstract(q), x) =
            Queues!Queue(q.max_items_ - 1, Tail(Append(Contents(q), x)),
                         (q.overrun_counter_ + 1) % SizeMod)
      BY <2>1, <2>2, <2>3, <2>5 DEF Queues!Pushed
    <3>2. /\ Contents(p) = Tail(Append(Contents(q), x))
          /\ p.overrun_counter_ = (q.overrun_counter_ + 1) % SizeMod
          /\ p.max_items_ = q.max_items_
      BY <1>2, <2>5, PushWhenFull
    <3> HIDE DEF p
    <3> QED BY <3>1, <3>2 DEF Abstract, Queues!Queue, p
  <2> QED BY <2>1, <2>4, <2>5
<1> QED BY <1>1, <1>2

(* Popping removes the oldest item. *)
LEMMA AbstractPop ==
    ASSUME NEW q, RingOK(q), ~ Empty(q),
           NEW p, p = PopFront(q) \/ p = TakeFront(q)
    PROVE  /\ Abstract(p) = Queues!Popped(Abstract(q))
           /\ Abstract(q).items # <<>>
  BY PopContents DEF Abstract, Enabled, Queues!Popped, Queues!Queue

(* The ring of slots implements the drop-oldest queue of capacity n, for   *)
(* every n, every item set and every width of size_t.                      *)
THEOREM RingImplementsOverrunQueue == ObjectsSpec => ImplementsOverrunQueue
<1>1. ObjectsInit => Queues!Init
  BY AbstractDisabled DEF ObjectsInit, Queues!Init
<1>2. ObjectsOK /\ [ObjectsNext]_objectsVars => [Queues!Next]_(Queues!vars)
  <2> SUFFICES ASSUME ObjectsOK, [ObjectsNext]_objectsVars PROVE [Queues!Next]_(Queues!vars)
    OBVIOUS
  <2> USE DEF ObjectsOK
  <2>1. ASSUME NEW o \in Objects, NEW n \in Capacities, Construct(o, n)
        PROVE  Queues!Next
    <3>1. Abstract(New(n)) = Queues!Created(n) /\ n \in 0 .. (SizeMod - 1)
      BY CapacitiesAssumption, AbstractNew DEF SizeT
    <3>2. Queues!Construct(o, n)
      BY <2>1, <3>1 DEF Construct, Queues!Construct
    <3> QED BY <3>1, <3>2 DEF Queues!Next
  <2>2. ASSUME NEW o \in Objects, NEW x \in Items, Push(o, x)
        PROVE  Queues!Next
    <3>1. Abstract(PushBack(qs[o], x)) = Queues!Pushed(Abstract(qs[o]), x)
      BY AbstractPush
    <3>2. Queues!Push(o, x)
      BY <2>2, <3>1 DEF Push, Queues!Push
    <3> QED BY <3>2 DEF Queues!Next
  <2>3. ASSUME NEW o \in Objects, Pop(o) \/ Take(o)
        PROVE  Queues!Next
    <3>1. PICK p : /\ p = PopFront(qs[o]) \/ p = TakeFront(qs[o])
                   /\ ~ Empty(qs[o])
                   /\ qs' = [qs EXCEPT ![o] = p]
      BY <2>3 DEF Pop, Take
    <3>2. /\ Abstract(p) = Queues!Popped(Abstract(qs[o]))
          /\ Abstract(qs[o]).items # <<>>
      BY <3>1, AbstractPop
    <3>3. Queues!Pop(o)
      BY <3>1, <3>2 DEF Queues!Pop
    <3> QED BY <3>3 DEF Queues!Next
  <2>4. ASSUME NEW o \in Objects, NEW from \in Objects, Copy(o, from)
        PROVE  Queues!Next
    <3>1. Queues!Copy(o, from)
      BY <2>4 DEF Copy, Queues!Copy
    <3> QED BY <3>1 DEF Queues!Next
  <2>5. ASSUME NEW o \in Objects, NEW from \in Objects, Move(o, from)
        PROVE  Queues!Next
    <3>1. Queues!Move(o, from)
      BY <2>5, AbstractDisabled DEF Move, Queues!Move
    <3> QED BY <3>1 DEF Queues!Next
  <2>6. CASE UNCHANGED objectsVars
    BY <2>6 DEF objectsVars, Queues!vars
  <2> QED BY <2>1, <2>2, <2>3, <2>4, <2>5, <2>6 DEF ObjectsNext
<1> QED BY <1>1, <1>2, ObjectsTypeCorrect, PTL DEF ObjectsSpec, ImplementsOverrunQueue, Queues!Spec
=============================================================================
