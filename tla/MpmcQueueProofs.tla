-------------------------- MODULE MpmcQueueProofs --------------------------
(***************************************************************************)
(* Theorems about mpmc_blocking_queue for any number of producers and      *)
(* consumers, any capacity and both builds.  Inv is inductive; mutual      *)
(* exclusion, that blocking calls do not overrun, that no wakeup is lost   *)
(* and that the calls are atomic follow from it.                           *)
(***************************************************************************)
EXTENDS MpmcQueue, CircularQProofs, FiniteSetTheorems

(* The labels before and after acquiring the mutex. *)
LEMMA WantedFacts ==
    /\ DOMAIN Wanted = {"lock_enqueue", "lock_nowait", "lock_dequeue", "lock_timed_out"}
    /\ Wanted["lock_enqueue"] = "enqueue" /\ Wanted["lock_nowait"] = "nowait"
    /\ Wanted["lock_dequeue"] = "dequeue" /\ Wanted["lock_timed_out"] = "timed_out"
  BY DEF Wanted

(* Where a thread can be. *)
LEMMA LabelsAre ==
    Labels = {"idle", "wait", "notify", "lock_enqueue", "lock_nowait", "lock_dequeue",
              "lock_timed_out", "enqueue", "nowait", "dequeue", "timed_out"}
  BY WantedFacts DEF Labels

(* The ring of the queue in every state: well formed, of the capacity given *)
(* to the constructor, never the disabled one.                              *)
LEMMA RingFacts ==
    ASSUME Inv
    PROVE  /\ RingOK(q_) /\ Enabled(q_) /\ VacantCleared(q_)
           /\ q_.max_items_ = QMaxItems + 1 /\ QMaxItems \in Nat
           /\ Size(q_) \in 0 .. QMaxItems
           /\ Empty(q_) <=> Size(q_) = 0
           /\ Full(q_) <=> Size(q_) = QMaxItems
<1>1. QMaxItems \in Nat
  BY MpmcAssumption, SizeModAssumption
<1>2. RingOK(q_) /\ q_.max_items_ = QMaxItems + 1 /\ VacantCleared(q_)
  BY DEF Inv, TypeOK
<1>3. Enabled(q_)
  BY <1>1, <1>2 DEF Enabled
<1> QED BY <1>1, <1>2, <1>3, SizeFacts

(* What a push does to it. *)
LEMMA PushFacts ==
    ASSUME Inv, NEW x \in Items
    PROVE  /\ RingOK(PushBack(q_, x)) /\ VacantCleared(PushBack(q_, x))
           /\ PushBack(q_, x).max_items_ = QMaxItems + 1
<1>1. /\ RingOK(q_) /\ Enabled(q_) /\ VacantCleared(q_) /\ QMaxItems \in Nat
      /\ q_.max_items_ = QMaxItems + 1 /\ Size(q_) \in 0 .. QMaxItems
  BY RingFacts
<1>2. RingOK(PushBack(q_, x))
  BY <1>1, PushBackOK
<1>3. CASE Size(q_) < QMaxItems
  <2>1. Size(q_) < q_.max_items_ - 1
    BY <1>1, <1>3
  <2> QED BY <1>1, <1>2, <2>1, PushWithRoom, MarkerAfterPush
<1>4. CASE Size(q_) = QMaxItems
  <2>1. Size(q_) = q_.max_items_ - 1
    BY <1>1, <1>4
  <2> QED BY <1>1, <1>2, <2>1, PushWhenFull, MarkerAfterOverrun
<1> QED BY <1>1, <1>3, <1>4

(* ... and a take. *)
LEMMA TakeFacts ==
    ASSUME Inv, ~ Empty(q_)
    PROVE  /\ RingOK(TakeFront(q_)) /\ VacantCleared(TakeFront(q_))
           /\ TakeFront(q_).max_items_ = QMaxItems + 1
<1>1. /\ RingOK(q_) /\ VacantCleared(q_) /\ q_.max_items_ = QMaxItems + 1
  BY RingFacts
<1> QED BY <1>1, PopFrontOK, PopContents, MarkerAfterTake

-----------------------------------------------------------------------------
(* The constructor establishes the invariant: an empty ring, no call begun. *)
LEMMA InitInv == Init => Inv
<1> SUFFICES ASSUME Init PROVE Inv
  OBVIOUS
<1>1. QMaxItems \in SizeT /\ QMaxItems # SizeMod - 1 /\ QMaxItems \in Nat
  BY MpmcAssumption, SizeModAssumption DEF SizeT
<1>2. RingOK(q_) /\ q_.max_items_ = QMaxItems + 1 /\ VacantCleared(q_)
  BY <1>1, NewOK, VacantNew DEF Init
<1>3. \A t \in Threads : pc[t] = "idle"
  BY DEF Init
<1>4. Producers \subseteq Threads /\ Consumers \subseteq Threads /\ Nobody \notin Threads
  BY MpmcAssumption DEF Threads
<1>5. pc \in [Threads -> Labels]
  BY LabelsAre DEF Init
<1>6. /\ sent \in [Producers -> 0 .. Quota] /\ wakeups \in 0 .. MaxWakeups
  BY MpmcAssumption DEF Init
<1>7. \A t \in Threads : Critical(t) <=> queue_mutex_ = t
  BY <1>3, <1>4 DEF Init, Critical
<1>8. push_cv_ = {} /\ pop_cv_ = {}
  BY DEF Init
<1>9. CallsOK
  BY <1>3, <1>4 DEF CallsOK
<1> QED BY <1>2, <1>3, <1>4, <1>5, <1>6, <1>7, <1>8, <1>9 DEF Inv, TypeOK

(* A step that leaves the queue alone preserves Inv if it preserves what   *)
(* Inv says of the threads.                                                *)
ThreadsOK ==
    /\ pc \in [Threads -> Labels]
    /\ sent \in [Producers -> 0 .. Quota]
    /\ wakeups \in 0 .. MaxWakeups
    /\ \A t \in Threads : Critical(t) <=> queue_mutex_ = t
    /\ push_cv_ = {c \in Consumers : pc[c] = "wait"}
    /\ pop_cv_ = {p \in Producers : pc[p] = "wait"}
    /\ CallsOK

RingInv == RingOK(q_) /\ q_.max_items_ = QMaxItems + 1 /\ VacantCleared(q_)

(* The invariant speaks of the ring and of the threads. *)
LEMMA InvParts == Inv <=> RingInv /\ ThreadsOK
  BY DEF Inv, TypeOK, RingInv, ThreadsOK

(* The threads, apart from the queue itself. *)
LEMMA ThreadsStep == Inv /\ [Next]_vars => ThreadsOK'
<1> SUFFICES ASSUME ThreadsOK, [Next]_vars, Inv PROVE ThreadsOK'
  BY InvParts
<1>0. /\ Producers \subseteq Threads /\ Consumers \subseteq Threads
      /\ Producers \cap Consumers = {} /\ Nobody \notin Threads
      /\ Threads = Producers \cup Consumers
      /\ Quota \in Nat /\ MaxWakeups \in Nat
  BY MpmcAssumption DEF Threads
<1> USE <1>0, LabelsAre DEF ThreadsOK, CallsOK, Critical, Goto
<1>1. ASSUME NEW p \in Producers, CallEnqueue(p) \/ CallEnqueueNowait(p)
      PROVE  ThreadsOK'
  BY <1>1 DEF CallEnqueue, CallEnqueueNowait
<1>2. ASSUME NEW c \in Consumers, CallDequeue(c)
      PROVE  ThreadsOK'
  BY <1>2 DEF CallDequeue
<1>3. ASSUME NEW t \in Threads, Acquire(t)
      PROVE  ThreadsOK'
  <2>1. PICK l \in {"enqueue", "nowait", "dequeue", "timed_out"} :
          /\ pc' = [pc EXCEPT ![t] = l]
          /\ <<pc[t], l>> \in {<<"lock_enqueue", "enqueue">>, <<"lock_nowait", "nowait">>,
                               <<"lock_dequeue", "dequeue">>,
                               <<"lock_timed_out", "timed_out">>}
    BY <1>3, WantedFacts DEF Acquire
  <2> QED BY <1>3, <2>1 DEF Acquire
<1>4. ASSUME NEW p \in Producers, BlockProducer(p)
      PROVE  ThreadsOK'
  BY <1>4 DEF BlockProducer
<1>5. ASSUME NEW p \in Producers, PushItem(p)
      PROVE  ThreadsOK'
  BY <1>5 DEF PushItem, UnlockBeforeNotify
<1>6. ASSUME NEW c \in Consumers, BlockConsumer(c) \/ ReturnFalse(c)
      PROVE  ThreadsOK'
  BY <1>6 DEF BlockConsumer, ReturnFalse
<1>7. ASSUME NEW c \in Consumers, TakeItem(c)
      PROVE  ThreadsOK'
  BY <1>7 DEF TakeItem, UnlockBeforeNotify
<1>8. ASSUME NEW p \in Producers, NotifyPush(p)
      PROVE  ThreadsOK'
  BY <1>8 DEF NotifyPush, UnlockAfterNotify
<1>9. ASSUME NEW c \in Consumers, NotifyPop(c)
      PROVE  ThreadsOK'
  BY <1>9 DEF NotifyPop, UnlockAfterNotify
<1>10. ASSUME NEW c \in Consumers, Timeout(c)
       PROVE  ThreadsOK'
  BY <1>10 DEF Timeout
<1>11. ASSUME NEW t \in Threads, SpuriousWakeup(t)
       PROVE  ThreadsOK'
  BY <1>11 DEF SpuriousWakeup
<1>12. CASE UNCHANGED vars
  BY <1>12 DEF vars
<1> QED BY <1>1, <1>2, <1>3, <1>4, <1>5, <1>6, <1>7, <1>8, <1>9, <1>10, <1>11, <1>12
       DEF Next, Calling, Producing, Consuming, Stopped
(* The queue itself changes when an item is pushed or taken. *)
LEMMA QueueChanges ==
    ASSUME Inv, [Next]_vars
    PROVE  \/ q_' = q_
           \/ \E p \in Producers : PushItem(p) /\ Current(p) \in Items
           \/ \E c \in Consumers : TakeItem(c)
<1>1. ASSUME NEW p \in Producers, PushItem(p)
      PROVE  Current(p) \in Items
  <2>1. sent[p] < Quota /\ sent[p] \in 0 .. Quota /\ Quota \in Nat
    BY <1>1, MpmcAssumption DEF Inv, TypeOK, CallsOK, PushItem
  <2>2. sent[p] + 1 \in 1 .. Quota
    BY <2>1
  <2> QED BY <2>2, MpmcAssumption DEF Current
<1>2. ASSUME NEW p \in Producers, Calling(p) \/ Producing(p)
      PROVE  q_' = q_ \/ PushItem(p)
  BY <1>2 DEF Calling, Producing, CallEnqueue, CallEnqueueNowait, BlockProducer, NotifyPush
<1>3. ASSUME NEW c \in Consumers, Consuming(c) \/ Timeout(c)
      PROVE  q_' = q_ \/ TakeItem(c)
  BY <1>3 DEF Consuming, CallDequeue, BlockConsumer, ReturnFalse, NotifyPop, Timeout
<1>4. ASSUME NEW t \in Threads, Acquire(t) \/ SpuriousWakeup(t)
      PROVE  q_' = q_
  BY <1>4 DEF Acquire, SpuriousWakeup
<1>5. CASE UNCHANGED vars
  BY <1>5 DEF vars
<1> QED BY <1>1, <1>2, <1>3, <1>4, <1>5 DEF Next, Stopped

(* Every step of every thread keeps the invariant ... *)
LEMMA InvStep == Inv /\ [Next]_vars => Inv'
<1> SUFFICES ASSUME Inv, [Next]_vars PROVE RingInv'
  BY ThreadsStep DEF Inv, TypeOK, RingInv, ThreadsOK
<1>1. CASE q_' = q_
  BY <1>1, InvParts DEF RingInv
<1>2. ASSUME NEW p \in Producers, PushItem(p), Current(p) \in Items
      PROVE  RingInv'
  BY <1>2, PushFacts DEF PushItem, RingInv
<1>3. ASSUME NEW c \in Consumers, TakeItem(c)
      PROVE  RingInv'
  BY <1>3, TakeFacts DEF TakeItem, RingInv
<1> QED BY <1>1, <1>2, <1>3, QueueChanges

(* ... so it holds in every reachable state. *)
LEMMA InvHolds == Spec => []Inv
  BY InitInv, InvStep, PTL DEF Spec

(* The shape of the queue is kept, the mutex is held by exactly the thread *)
(* that is inside the critical section, and the waiters are those that     *)
(* wait (mpmc_blocking_q.h:31-67, and 72-103 for the MinGW build).         *)
THEOREM TypeCorrect == Spec => []TypeOK
  BY InvHolds, PTL DEF Inv

(* No two threads are between the lock and the unlock of a call at once.   *)
MutualExclusion == \A t, u \in Threads : Critical(t) /\ Critical(u) => t = u

(* The mutex does its work: no two calls are in the critical section. *)
THEOREM MutexExcludes == Spec => []MutualExclusion
<1>1. Inv => MutualExclusion
  BY DEF Inv, TypeOK, MutualExclusion
<1> QED BY <1>1, InvHolds, PTL

(* A blocking enqueue never drops an item: the predicate it has evaluated  *)
(* still holds when it pushes, because it has held the mutex in between    *)
(* (mpmc_blocking_q.h:36-37).                                              *)
THEOREM BlockingKeepsItems == Spec => BlockingNeverOverruns
<1>1. ASSUME Inv, [Next]_vars, NEW p \in Producers, pc[p] = "enqueue", sent'[p] # sent[p]
      PROVE  q_'.overrun_counter_ = q_.overrun_counter_
  <2>1. CASE q_' = q_
    BY <2>1
  <2>2. ASSUME NEW u \in Producers, PushItem(u), Current(u) \in Items
        PROVE  q_'.overrun_counter_ = q_.overrun_counter_
    <3>1. Critical(u) /\ Critical(p) /\ u \in Threads /\ p \in Threads
      BY <1>1, <2>2 DEF Critical, PushItem, Threads
    <3>2. u = p
      BY <1>1, <3>1 DEF Inv, TypeOK
    <3>3. ~ Full(q_)
      BY <1>1, <2>2, <3>2 DEF PushItem
    <3>4. /\ RingOK(q_) /\ Enabled(q_) /\ Size(q_) < q_.max_items_ - 1
      BY <1>1, <3>3, RingFacts
    <3> QED BY <2>2, <3>4, PushWithRoom DEF PushItem
  <2>3. ASSUME NEW c \in Consumers, TakeItem(c)
        PROVE  q_'.overrun_counter_ = q_.overrun_counter_
    BY <1>1, <2>3, RingFacts, PopContents DEF TakeItem
  <2> QED BY <1>1, <2>1, <2>2, <2>3, QueueChanges
<1>2. Inv /\ [Next]_vars =>
        [\A p \in Producers : pc[p] = "enqueue" /\ sent'[p] # sent[p]
             => q_'.overrun_counter_ = q_.overrun_counter_]_vars
  BY <1>1
<1> QED BY <1>2, InvHolds, PTL DEF Spec, BlockingNeverOverruns

-----------------------------------------------------------------------------
(* The mutex makes the calls atomic: pushing an item is an enqueue or an   *)
(* enqueue_nowait of the abstract queue, taking one is a dequeue, and every *)
(* other step changes nothing it has.                                      *)
THEOREM CallsAreAtomic == Spec => ImplementsMessageQueue
<1>1. Init => Atomic!QueueInit
  <2> SUFFICES ASSUME Init PROVE Atomic!QueueInit
    OBVIOUS
  <2>1. QMaxItems \in SizeT /\ QMaxItems # SizeMod - 1
    BY MpmcAssumption, SizeModAssumption DEF SizeT
  <2>2. /\ RingOK(q_) /\ Empty(q_) /\ q_.overrun_counter_ = 0
        /\ q_.v_[q_.tail_] = NoItem
    BY <2>1, NewOK, VacantNew DEF Init, Empty
  <2> QED BY <2>2, EmptyContents DEF Atomic!QueueInit
<1>2. Inv /\ [Next]_vars => [Atomic!QueueNext]_(Atomic!queueVars)
  <2> SUFFICES ASSUME Inv, [Next]_vars
               PROVE  [Atomic!QueueNext]_(Atomic!queueVars)
    OBVIOUS
  <2>0. /\ RingOK(q_) /\ Enabled(q_) /\ VacantCleared(q_) /\ QMaxItems \in Nat
        /\ q_.max_items_ = QMaxItems + 1 /\ Size(q_) \in 0 .. QMaxItems
        /\ Len(Contents(q_)) = Size(q_)
        /\ Full(q_) <=> Size(q_) = QMaxItems
    BY RingFacts, ContentsFacts
  <2>1. CASE q_' = q_
    <3>1. UNCHANGED Atomic!queueVars
      BY <2>1 DEF Atomic!queueVars, Contents, Size, At
    <3> QED BY <3>1
  <2>2. ASSUME NEW p \in Producers, PushItem(p), Current(p) \in Items
        PROVE  Atomic!QueueNext
    <3> DEFINE x == Current(p)
    <3>1. q_' = PushBack(q_, x)
      BY <2>2 DEF PushItem
    <3>2. CASE Size(q_) < QMaxItems
      <4>1. Size(q_) < q_.max_items_ - 1
        BY <2>0, <3>2
      <4>2. /\ Contents(PushBack(q_, x)) = Append(Contents(q_), x)
            /\ PushBack(q_, x).overrun_counter_ = q_.overrun_counter_
            /\ PushBack(q_, x).v_[PushBack(q_, x).tail_] = NoItem
        BY <2>0, <2>2, <4>1, PushWithRoom, MarkerAfterPush
      <4>3. Atomic!HasRoom /\ Atomic!Put(x)
        BY <2>0, <3>1, <3>2, <4>2 DEF Atomic!HasRoom, Atomic!Put
      <4> QED BY <2>2, <4>3 DEF Atomic!QueueNext, Atomic!Enqueue
    <3>3. CASE Size(q_) = QMaxItems
      <4>1. Size(q_) = q_.max_items_ - 1
        BY <2>0, <3>3
      <4>2. /\ Contents(PushBack(q_, x)) = Tail(Append(Contents(q_), x))
            /\ PushBack(q_, x).overrun_counter_ = (q_.overrun_counter_ + 1) % SizeMod
            /\ PushBack(q_, x).v_[PushBack(q_, x).tail_] = Head(Append(Contents(q_), x))
        BY <2>0, <2>2, <4>1, PushWhenFull, MarkerAfterOverrun
      <4>3. ~ Atomic!HasRoom /\ Atomic!Overrun(x)
        BY <2>0, <3>1, <3>3, <4>2 DEF Atomic!HasRoom, Atomic!Overrun
      <4> QED BY <2>2, <4>3 DEF Atomic!QueueNext, Atomic!EnqueueNowait
    <3> QED BY <2>0, <3>2, <3>3
  <2>3. ASSUME NEW c \in Consumers, TakeItem(c)
        PROVE  Atomic!QueueNext
    <3>1. q_' = TakeFront(q_) /\ ~ Empty(q_)
      BY <2>3 DEF TakeItem
    <3>2. /\ Contents(TakeFront(q_)) = Tail(Contents(q_)) /\ Contents(q_) # <<>>
          /\ TakeFront(q_).overrun_counter_ = q_.overrun_counter_
          /\ TakeFront(q_).v_[TakeFront(q_).tail_] = q_.v_[q_.tail_]
      BY <2>0, <3>1, PopContents, MarkerAfterTake
    <3>3. Atomic!Dequeue
      BY <3>1, <3>2 DEF Atomic!Dequeue
    <3> QED BY <3>3 DEF Atomic!QueueNext
  <2> QED BY <2>1, <2>2, <2>3, QueueChanges
<1> QED BY <1>1, <1>2, InvHolds, PTL DEF Spec, ImplementsMessageQueue, Atomic!QueueSpec
-----------------------------------------------------------------------------
(* The four sets that NoLostWakeup counts: notifications still to be sent, *)
(* and threads on their way to the queue.                                  *)
PushPending == {p \in Producers : pc[p] = "notify"}
PopPending == {c \in Consumers : pc[c] = "notify"}
ComingToTake ==
    {c \in Consumers : pc[c] \in {"lock_dequeue", "dequeue", "lock_timed_out", "timed_out"}}
ComingToPush == {p \in Producers : pc[p] \in {"lock_enqueue", "enqueue"}}

ConsumersCovered ==
    push_cv_ # {} => Size(q_) <= Cardinality(PushPending) + Cardinality(ComingToTake)

ProducersCovered ==
    pop_cv_ # {} => QMaxItems - Size(q_) <= Cardinality(PopPending) + Cardinality(ComingToPush)

(* No lost wakeup, on either side. *)
LEMMA CoveredIs == NoLostWakeup <=> ConsumersCovered /\ ProducersCovered
  BY DEF NoLostWakeup, ConsumersCovered, ProducersCovered,
         PushPending, PopPending, ComingToTake, ComingToPush

(* The threads that owe a notification, or are on their way, can be counted. *)
LEMMA PendingFinite ==
    /\ IsFiniteSet(PushPending) /\ Cardinality(PushPending) \in Nat
    /\ IsFiniteSet(PopPending) /\ Cardinality(PopPending) \in Nat
    /\ IsFiniteSet(ComingToTake) /\ Cardinality(ComingToTake) \in Nat
    /\ IsFiniteSet(ComingToPush) /\ Cardinality(ComingToPush) \in Nat
<1>1. /\ PushPending \subseteq Producers /\ PopPending \subseteq Consumers
      /\ ComingToTake \subseteq Consumers /\ ComingToPush \subseteq Producers
  BY DEF PushPending, PopPending, ComingToTake, ComingToPush
<1>2. IsFiniteSet(Producers) /\ IsFiniteSet(Consumers)
  BY MpmcAssumption
<1>3. /\ IsFiniteSet(PushPending) /\ IsFiniteSet(PopPending)
      /\ IsFiniteSet(ComingToTake) /\ IsFiniteSet(ComingToPush)
  BY <1>1, <1>2, FS_Subset
<1> QED BY <1>3, FS_CardinalityType

(* Adding an element to a finite set ... *)
LEMMA Added ==
    ASSUME NEW S, IsFiniteSet(S), NEW x, x \notin S
    PROVE  Cardinality(S \cup {x}) = Cardinality(S) + 1
  BY FS_AddElement

(* ... and removing one from it. *)
LEMMA Removed ==
    ASSUME NEW S, IsFiniteSet(S), NEW x \in S
    PROVE  Cardinality(S \ {x}) = Cardinality(S) - 1
  BY FS_RemoveElement

(* The size after a push ... *)
LEMMA SizeAfterPush ==
    ASSUME Inv, NEW x \in Items
    PROVE  Size(PushBack(q_, x)) = IF Full(q_) THEN Size(q_) ELSE Size(q_) + 1
<1>1. /\ RingOK(q_) /\ Enabled(q_) /\ QMaxItems \in Nat
      /\ q_.max_items_ = QMaxItems + 1 /\ Size(q_) \in 0 .. QMaxItems
      /\ Full(q_) <=> Size(q_) = QMaxItems
      /\ Contents(q_) \in Seq(Slot) /\ Len(Contents(q_)) = Size(q_)
  BY RingFacts, ContentsFacts
<1>2. /\ Append(Contents(q_), x) \in Seq(Slot) /\ Append(Contents(q_), x) # <<>>
      /\ Len(Append(Contents(q_), x)) = Size(q_) + 1
  BY <1>1, AppendProperties DEF Slot
<1>3. Len(Tail(Append(Contents(q_), x))) = Size(q_)
  BY <1>1, <1>2, HeadTailProperties
<1>4. Len(Contents(PushBack(q_, x))) = Size(PushBack(q_, x))
  BY PushFacts, ContentsFacts
<1>5. CASE Full(q_)
  <2>1. Size(q_) = q_.max_items_ - 1
    BY <1>1, <1>5
  <2> QED BY <1>1, <1>3, <1>4, <1>5, <2>1, PushWhenFull
<1>6. CASE ~ Full(q_)
  <2>1. Size(q_) < q_.max_items_ - 1
    BY <1>1, <1>6
  <2> QED BY <1>1, <1>2, <1>4, <1>6, <2>1, PushWithRoom
<1> QED BY <1>5, <1>6

(* ... and after a take. *)
LEMMA SizeAfterTake ==
    ASSUME Inv, ~ Empty(q_)
    PROVE  Size(TakeFront(q_)) = Size(q_) - 1
<1>1. /\ RingOK(q_) /\ Contents(q_) \in Seq(Slot) /\ Len(Contents(q_)) = Size(q_)
      /\ Size(q_) \in Nat
  BY RingFacts, ContentsFacts, SizeFacts
<1>2. Contents(TakeFront(q_)) = Tail(Contents(q_)) /\ Contents(q_) # <<>>
  BY <1>1, PopContents
<1>3. Len(Contents(TakeFront(q_))) = Size(TakeFront(q_))
  BY TakeFacts, ContentsFacts
<1> QED BY <1>1, <1>2, <1>3, HeadTailProperties

(* At first nobody waits. *)
LEMMA InitCovered == Init => NoLostWakeup
  BY DEF Init, NoLostWakeup

(* Every step keeps waiting threads covered: a step that adds an item or a *)
(* place adds the notification for it, a notification or a wakeup that is  *)
(* used up puts a thread on its way, and a thread that goes back to waiting*)
(* has seen that there is nothing for it.                                  *)
LEMMA CoveredStep == Inv /\ NoLostWakeup /\ [Next]_vars => NoLostWakeup'
<1> SUFFICES ASSUME Inv, ConsumersCovered, ProducersCovered, [Next]_vars
             PROVE  ConsumersCovered' /\ ProducersCovered'
  BY CoveredIs DEF NoLostWakeup, ConsumersCovered, ProducersCovered,
                   PushPending, PopPending, ComingToTake, ComingToPush
<1>0. /\ Producers \subseteq Threads /\ Consumers \subseteq Threads
      /\ Producers \cap Consumers = {}
      /\ Threads = Producers \cup Consumers
      /\ pc \in [Threads -> Labels]
      /\ push_cv_ = {c \in Consumers : pc[c] = "wait"}
      /\ pop_cv_ = {p \in Producers : pc[p] = "wait"}
  BY MpmcAssumption DEF Threads, Inv, TypeOK
<1>s. /\ Size(q_) \in 0 .. QMaxItems /\ QMaxItems \in Nat
      /\ Empty(q_) <=> Size(q_) = 0
      /\ Full(q_) <=> Size(q_) = QMaxItems
  BY RingFacts
<1> DEFINE n1 == Cardinality(PushPending)
           n2 == Cardinality(ComingToTake)
           n3 == Cardinality(PopPending)
           n4 == Cardinality(ComingToPush)
<1>f. n1 \in Nat /\ n2 \in Nat /\ n3 \in Nat /\ n4 \in Nat
  BY PendingFinite
<1>1. ASSUME NEW p \in Producers, CallEnqueue(p)
      PROVE  ConsumersCovered' /\ ProducersCovered'
  <2>1. /\ PushPending' = PushPending /\ ComingToTake' = ComingToTake
        /\ PopPending' = PopPending /\ ComingToPush' = ComingToPush \cup {p}
        /\ p \notin ComingToPush
    BY <1>0, <1>1 DEF CallEnqueue, Goto, PushPending, ComingToTake, PopPending, ComingToPush
  <2>2. Cardinality(ComingToPush') = n4 + 1
    BY <2>1, PendingFinite, Added
  <2>3. q_' = q_ /\ push_cv_' = push_cv_ /\ pop_cv_' = pop_cv_
    BY <1>1 DEF CallEnqueue
  <2> QED BY <1>s, <1>f, <2>1, <2>2, <2>3 DEF ConsumersCovered, ProducersCovered, Size
<1>2. ASSUME NEW p \in Producers, CallEnqueueNowait(p)
      PROVE  ConsumersCovered' /\ ProducersCovered'
  <2>1. /\ PushPending' = PushPending /\ ComingToTake' = ComingToTake
        /\ PopPending' = PopPending /\ ComingToPush' = ComingToPush
    BY <1>0, <1>2 DEF CallEnqueueNowait, Goto, PushPending, ComingToTake, PopPending, ComingToPush
  <2>2. q_' = q_ /\ push_cv_' = push_cv_ /\ pop_cv_' = pop_cv_
    BY <1>2 DEF CallEnqueueNowait
  <2> QED BY <2>1, <2>2 DEF ConsumersCovered, ProducersCovered, Size
<1>3. ASSUME NEW c \in Consumers, CallDequeue(c)
      PROVE  ConsumersCovered' /\ ProducersCovered'
  <2>1. /\ PushPending' = PushPending /\ ComingToTake' = ComingToTake \cup {c}
        /\ PopPending' = PopPending /\ ComingToPush' = ComingToPush
        /\ c \notin ComingToTake
    BY <1>0, <1>3 DEF CallDequeue, Goto, PushPending, ComingToTake, PopPending, ComingToPush
  <2>2. Cardinality(ComingToTake') = n2 + 1
    BY <2>1, PendingFinite, Added
  <2>3. q_' = q_ /\ push_cv_' = push_cv_ /\ pop_cv_' = pop_cv_
    BY <1>3 DEF CallDequeue
  <2> QED BY <1>s, <1>f, <2>1, <2>2, <2>3 DEF ConsumersCovered, ProducersCovered, Size
<1>4. ASSUME NEW t \in Threads, Acquire(t)
      PROVE  ConsumersCovered' /\ ProducersCovered'
  <2>1. PICK l \in {"enqueue", "nowait", "dequeue", "timed_out"} :
          /\ pc' = [pc EXCEPT ![t] = l]
          /\ <<pc[t], l>> \in {<<"lock_enqueue", "enqueue">>, <<"lock_nowait", "nowait">>,
                               <<"lock_dequeue", "dequeue">>,
                               <<"lock_timed_out", "timed_out">>}
    BY <1>4, WantedFacts DEF Acquire, Goto
  <2>2. /\ PushPending' = PushPending /\ ComingToTake' = ComingToTake
        /\ PopPending' = PopPending /\ ComingToPush' = ComingToPush
    BY <1>0, <2>1 DEF PushPending, ComingToTake, PopPending, ComingToPush
  <2>3. q_' = q_ /\ push_cv_' = push_cv_ /\ pop_cv_' = pop_cv_
    BY <1>4 DEF Acquire
  <2> QED BY <2>2, <2>3 DEF ConsumersCovered, ProducersCovered, Size
<1>5. ASSUME NEW p \in Producers, BlockProducer(p)
      PROVE  ConsumersCovered' /\ ProducersCovered'
  <2>1. PushPending' = PushPending /\ ComingToTake' = ComingToTake
    BY <1>0, <1>5 DEF BlockProducer, Goto, PushPending, ComingToTake
  <2>2. q_' = q_ /\ push_cv_' = push_cv_ /\ Size(q_) = QMaxItems
    BY <1>s, <1>5 DEF BlockProducer
  <2>3. Cardinality(PopPending') \in Nat /\ Cardinality(ComingToPush') \in Nat
    <3>1. PopPending' \subseteq Consumers /\ ComingToPush' \subseteq Producers
      BY DEF PopPending, ComingToPush
    <3> QED BY <3>1, MpmcAssumption, FS_Subset, FS_CardinalityType
  <2> QED BY <1>s, <2>1, <2>2, <2>3 DEF ConsumersCovered, ProducersCovered, Size
<1>6. ASSUME NEW p \in Producers, PushItem(p), Current(p) \in Items
      PROVE  ConsumersCovered' /\ ProducersCovered'
  <2>1. /\ PushPending' = PushPending \cup {p} /\ p \notin PushPending
        /\ ComingToTake' = ComingToTake /\ PopPending' = PopPending
        /\ ComingToPush' = ComingToPush \ {p}
        /\ pc[p] = "enqueue" <=> p \in ComingToPush
    BY <1>0, <1>6 DEF PushItem, Goto, PushPending, ComingToTake, PopPending, ComingToPush
  <2>2. /\ Cardinality(PushPending') = n1 + 1
        /\ Cardinality(ComingToPush') = IF pc[p] = "enqueue" THEN n4 - 1 ELSE n4
    BY <2>1, PendingFinite, Added, FS_RemoveElement
  <2>3. /\ Size(q_)' = IF Full(q_) THEN Size(q_) ELSE Size(q_) + 1
        /\ Full(q_) => pc[p] # "enqueue"
        /\ push_cv_' = push_cv_ /\ pop_cv_' = pop_cv_
    BY <1>6, SizeAfterPush DEF PushItem
  <2> HIDE DEF n1, n2, n3, n4
  <2>4. /\ ConsumersCovered => (push_cv_ # {} => Size(q_) <= n1 + n2)
        /\ ProducersCovered => (pop_cv_ # {} => QMaxItems - Size(q_) <= n3 + n4)
    BY DEF ConsumersCovered, ProducersCovered, n1, n2, n3, n4
  <2>5. /\ push_cv_ # {} => Size(q_)' <= (n1 + 1) + n2
        /\ pop_cv_ # {} => QMaxItems - Size(q_)' <=
                              n3 + (IF pc[p] = "enqueue" THEN n4 - 1 ELSE n4)
    BY <1>s, <1>f, <2>3, <2>4
  <2> QED BY <2>1, <2>2, <2>3, <2>5 DEF ConsumersCovered, ProducersCovered, n1, n2, n3, n4
<1>7. ASSUME NEW c \in Consumers, BlockConsumer(c) \/ ReturnFalse(c)
      PROVE  ConsumersCovered' /\ ProducersCovered'
  <2>1. PopPending' = PopPending /\ ComingToPush' = ComingToPush
    BY <1>0, <1>7 DEF BlockConsumer, ReturnFalse, Goto, PopPending, ComingToPush
  <2>2. q_' = q_ /\ pop_cv_' = pop_cv_ /\ Size(q_) = 0
    BY <1>s, <1>7 DEF BlockConsumer, ReturnFalse
  <2>3. Cardinality(PushPending') \in Nat /\ Cardinality(ComingToTake') \in Nat
    <3>1. PushPending' \subseteq Producers /\ ComingToTake' \subseteq Consumers
      BY DEF PushPending, ComingToTake
    <3> QED BY <3>1, MpmcAssumption, FS_Subset, FS_CardinalityType
  <2> QED BY <2>1, <2>2, <2>3 DEF ConsumersCovered, ProducersCovered, Size
<1>8. ASSUME NEW c \in Consumers, TakeItem(c)
      PROVE  ConsumersCovered' /\ ProducersCovered'
  <2>1. /\ PopPending' = PopPending \cup {c} /\ c \notin PopPending
        /\ ComingToTake' = ComingToTake \ {c} /\ c \in ComingToTake
        /\ PushPending' = PushPending /\ ComingToPush' = ComingToPush
    BY <1>0, <1>8 DEF TakeItem, Goto, PushPending, ComingToTake, PopPending, ComingToPush
  <2>2. Cardinality(PopPending') = n3 + 1 /\ Cardinality(ComingToTake') = n2 - 1
    BY <2>1, PendingFinite, Added, Removed
  <2>3. /\ Size(q_)' = Size(q_) - 1
        /\ push_cv_' = push_cv_ /\ pop_cv_' = pop_cv_
    BY <1>8, SizeAfterTake DEF TakeItem
  <2> QED BY <1>s, <1>f, <2>1, <2>2, <2>3 DEF ConsumersCovered, ProducersCovered
<1>9. ASSUME NEW p \in Producers, NotifyPush(p)
      PROVE  ConsumersCovered' /\ ProducersCovered'
  <2>1. q_' = q_ /\ pop_cv_' = pop_cv_ /\ pc[p] = "notify"
    BY <1>9 DEF NotifyPush
  <2>2. CASE push_cv_ = {} /\ Goto(p, "idle") /\ UNCHANGED push_cv_
    <3>1. PopPending' = PopPending /\ ComingToPush' = ComingToPush
      BY <1>0, <2>1, <2>2 DEF Goto, PopPending, ComingToPush
    <3> QED BY <2>1, <2>2, <3>1 DEF ConsumersCovered, ProducersCovered, Size
  <2>3. ASSUME NEW c \in push_cv_,
               push_cv_' = push_cv_ \ {c},
               pc' = [pc EXCEPT ![p] = "idle", ![c] = "lock_dequeue"]
        PROVE  ConsumersCovered' /\ ProducersCovered'
    <3>0. c \in Consumers /\ pc[c] = "wait" /\ c # p
      BY <1>0, <2>3
    <3>1. /\ PushPending' = PushPending \ {p} /\ p \in PushPending
          /\ ComingToTake' = ComingToTake \cup {c} /\ c \notin ComingToTake
          /\ PopPending' = PopPending /\ ComingToPush' = ComingToPush
      BY <1>0, <2>1, <2>3, <3>0 DEF PushPending, ComingToTake, PopPending, ComingToPush
    <3>2. Cardinality(PushPending') = n1 - 1 /\ Cardinality(ComingToTake') = n2 + 1
      BY <3>1, PendingFinite, Added, Removed
    <3> QED BY <1>s, <1>f, <2>1, <2>3, <3>1, <3>2
            DEF ConsumersCovered, ProducersCovered, Size
  <2> QED BY <1>9, <2>2, <2>3 DEF NotifyPush
<1>10. ASSUME NEW c \in Consumers, NotifyPop(c)
       PROVE  ConsumersCovered' /\ ProducersCovered'
  <2>1. q_' = q_ /\ push_cv_' = push_cv_ /\ pc[c] = "notify"
    BY <1>10 DEF NotifyPop
  <2>2. CASE pop_cv_ = {} /\ Goto(c, "idle") /\ UNCHANGED pop_cv_
    <3>1. PushPending' = PushPending /\ ComingToTake' = ComingToTake
      BY <1>0, <2>1, <2>2 DEF Goto, PushPending, ComingToTake
    <3> QED BY <2>1, <2>2, <3>1 DEF ConsumersCovered, ProducersCovered, Size
  <2>3. ASSUME NEW p \in pop_cv_,
               pop_cv_' = pop_cv_ \ {p},
               pc' = [pc EXCEPT ![c] = "idle", ![p] = "lock_enqueue"]
        PROVE  ConsumersCovered' /\ ProducersCovered'
    <3>0. p \in Producers /\ pc[p] = "wait" /\ c # p
      BY <1>0, <2>3
    <3>1. /\ PopPending' = PopPending \ {c} /\ c \in PopPending
          /\ ComingToPush' = ComingToPush \cup {p} /\ p \notin ComingToPush
          /\ PushPending' = PushPending /\ ComingToTake' = ComingToTake
      BY <1>0, <2>1, <2>3, <3>0 DEF PushPending, ComingToTake, PopPending, ComingToPush
    <3>2. Cardinality(PopPending') = n3 - 1 /\ Cardinality(ComingToPush') = n4 + 1
      BY <3>1, PendingFinite, Added, Removed
    <3> QED BY <1>s, <1>f, <2>1, <2>3, <3>1, <3>2
            DEF ConsumersCovered, ProducersCovered, Size
  <2> QED BY <1>10, <2>2, <2>3 DEF NotifyPop
<1>11. ASSUME NEW c \in Consumers, Timeout(c) \/ (SpuriousWakeup(c) /\ c \in push_cv_)
       PROVE  ConsumersCovered' /\ ProducersCovered'
  <2>0. PICK l \in {"lock_dequeue", "lock_timed_out"} :
          /\ pc' = [pc EXCEPT ![c] = l] /\ pc[c] = "wait"
          /\ push_cv_' = push_cv_ \ {c} /\ pop_cv_' = pop_cv_ /\ q_' = q_
    BY <1>0, <1>11 DEF Timeout, SpuriousWakeup, Goto
  <2>1. /\ PushPending' = PushPending /\ ComingToTake' = ComingToTake \cup {c}
        /\ PopPending' = PopPending /\ ComingToPush' = ComingToPush
        /\ c \notin ComingToTake /\ push_cv_ # {}
    BY <1>0, <2>0 DEF PushPending, ComingToTake, PopPending, ComingToPush
  <2>2. Cardinality(ComingToTake') = n2 + 1
    BY <2>1, PendingFinite, Added
  <2> QED BY <1>s, <1>f, <2>0, <2>1, <2>2 DEF ConsumersCovered, ProducersCovered, Size
<1>12. ASSUME NEW p \in Producers, SpuriousWakeup(p)
       PROVE  ConsumersCovered' /\ ProducersCovered'
  <2>0. /\ pc' = [pc EXCEPT ![p] = "lock_enqueue"] /\ pc[p] = "wait"
        /\ pop_cv_' = pop_cv_ \ {p} /\ push_cv_' = push_cv_ /\ q_' = q_
    BY <1>0, <1>12 DEF SpuriousWakeup, Goto
  <2>1. /\ PushPending' = PushPending /\ ComingToTake' = ComingToTake
        /\ PopPending' = PopPending /\ ComingToPush' = ComingToPush \cup {p}
        /\ p \notin ComingToPush /\ pop_cv_ # {}
    BY <1>0, <2>0 DEF PushPending, ComingToTake, PopPending, ComingToPush
  <2>2. Cardinality(ComingToPush') = n4 + 1
    BY <2>1, PendingFinite, Added
  <2> QED BY <1>s, <1>f, <2>0, <2>1, <2>2 DEF ConsumersCovered, ProducersCovered, Size
<1>13. CASE UNCHANGED vars
  BY <1>13 DEF vars, ConsumersCovered, ProducersCovered, PushPending, ComingToTake,
               PopPending, ComingToPush, Size
<1> QED
  <2>1. ASSUME NEW t \in Threads, SpuriousWakeup(t)
        PROVE  ConsumersCovered' /\ ProducersCovered'
    <3>1. CASE t \in Producers
      BY <1>12, <2>1, <3>1
    <3>2. CASE t \notin Producers
      BY <1>0, <1>11, <2>1, <3>2 DEF SpuriousWakeup
    <3> QED BY <3>1, <3>2
  <2>2. ASSUME NEW p \in Producers, PushItem(p)
        PROVE  Current(p) \in Items
    <3>1. sent[p] < Quota /\ sent[p] \in 0 .. Quota /\ Quota \in Nat
      BY <2>2, MpmcAssumption DEF Inv, TypeOK, CallsOK, PushItem
    <3>2. sent[p] + 1 \in 1 .. Quota
      BY <3>1
    <3> QED BY <3>2, MpmcAssumption DEF Current
  <2> QED BY <1>1, <1>2, <1>3, <1>4, <1>5, <1>6, <1>7, <1>8, <1>9, <1>10, <1>11, <1>13,
             <2>1, <2>2 DEF Next, Calling, Producing, Consuming, Stopped

(* No wakeup is ever lost, for any number of threads: while a consumer     *)
(* waits every item has a notification or a consumer coming for it, and    *)
(* while a producer waits every free place has one                         *)
(* (mpmc_blocking_q.h:31-67).                                              *)
THEOREM WakeupsAreNotLost == Spec => []NoLostWakeup
  BY InitCovered, CoveredStep, InvHolds, PTL DEF Spec
=============================================================================
