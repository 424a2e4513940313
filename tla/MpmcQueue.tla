----------------------------- MODULE MpmcQueue -----------------------------
(***************************************************************************)
(* mpmc_blocking_queue<T> (details/mpmc_blocking_q.h): producers and       *)
(* consumers share a circular_q under queue_mutex_.  Producers that block  *)
(* wait on pop_cv_, consumers wait on push_cv_; each successful call       *)
(* notifies one waiter of the other side.  In the usual build the mutex is *)
(* released before the notification, in the MinGW build after it.          *)
(*                                                                         *)
(* A thread's steps are: call, acquire the mutex, evaluate the predicate   *)
(* (and either block, which releases the mutex and joins the waiters in    *)
(* one step, or change the queue), notify and return.                      *)
(***************************************************************************)
EXTENDS CircularQ, FiniteSets

CONSTANTS
    Producers, Consumers,   \* the threads
    QMaxItems,              \* the capacity given to the constructor
    MinGW,                  \* TRUE models the __MINGW32__ branch
    Quota,                  \* bound: items each producer enqueues
    MaxWakeups,             \* bound: timeouts and spurious wakeups in a behaviour
    Nobody                  \* the mutex is free

Threads == Producers \cup Consumers

ASSUME MpmcAssumption ==
    /\ IsFiniteSet(Producers) /\ IsFiniteSet(Consumers)
    /\ Producers \cap Consumers = {}
    /\ Nobody \notin Threads
    /\ QMaxItems \in 0 .. (SizeMod - 2)
    /\ MinGW \in BOOLEAN
    /\ Quota \in Nat /\ MaxWakeups \in Nat
    /\ Items = Producers \X (1 .. Quota)

VARIABLES
    q_,             \* the circular_q
    queue_mutex_,   \* the thread holding it, or Nobody
    push_cv_,       \* consumers blocked until something is pushed
    pop_cv_,        \* producers blocked until something is popped
    pc,             \* where each thread is
    sent,           \* how many items each producer has handed to the queue
    wakeups         \* timeouts and spurious wakeups so far

vars == <<q_, queue_mutex_, push_cv_, pop_cv_, pc, sent, wakeups>>

Init ==
    /\ q_ = New(QMaxItems)
    /\ queue_mutex_ = Nobody
    /\ push_cv_ = {} /\ pop_cv_ = {}
    /\ pc = [t \in Threads |-> "idle"]
    /\ sent = [p \in Producers |-> 0]
    /\ wakeups = 0

-----------------------------------------------------------------------------
Goto(t, label) == pc' = [pc EXCEPT ![t] = label]

Current(p) == <<p, sent[p] + 1>>    \* the item that producer p is enqueueing

(* enqueue, enqueue_nowait and dequeue_for are called. *)
CallEnqueue(p) ==
    /\ pc[p] = "idle" /\ sent[p] < Quota
    /\ Goto(p, "lock_enqueue")
    /\ UNCHANGED <<q_, queue_mutex_, push_cv_, pop_cv_, sent, wakeups>>

CallEnqueueNowait(p) ==
    /\ pc[p] = "idle" /\ sent[p] < Quota
    /\ Goto(p, "lock_nowait")
    /\ UNCHANGED <<q_, queue_mutex_, push_cv_, pop_cv_, sent, wakeups>>

CallDequeue(c) ==
    /\ pc[c] = "idle"
    /\ Goto(c, "lock_dequeue")
    /\ UNCHANGED <<q_, queue_mutex_, push_cv_, pop_cv_, sent, wakeups>>

(* A thread that wants the mutex, and what it does once it has it. *)
Wanted == [lock_enqueue |-> "enqueue", lock_nowait |-> "nowait",
           lock_dequeue |-> "dequeue", lock_timed_out |-> "timed_out"]

Acquire(t) ==
    /\ pc[t] \in DOMAIN Wanted
    /\ queue_mutex_ = Nobody
    /\ queue_mutex_' = t
    /\ Goto(t, Wanted[pc[t]])
    /\ UNCHANGED <<q_, push_cv_, pop_cv_, sent, wakeups>>

(* The usual build unlocks at the end of the block that changed the queue, *)
(* the MinGW build at the end of the function.                             *)
UnlockBeforeNotify == queue_mutex_' = IF MinGW THEN queue_mutex_ ELSE Nobody

(* pop_cv_.wait: the predicate fails, release the mutex and block. *)
BlockProducer(p) ==
    /\ pc[p] = "enqueue" /\ Full(q_)
    /\ pop_cv_' = pop_cv_ \cup {p}
    /\ queue_mutex_' = Nobody
    /\ Goto(p, "wait")
    /\ UNCHANGED <<q_, push_cv_, sent, wakeups>>

(* Fault: woken up, the producer does not look at the predicate again. *)
PushItem_without_predicate(p) ==
    /\ pc[p] \in {"enqueue", "nowait"}
    /\ q_' = PushBack(q_, Current(p))
    /\ sent' = [sent EXCEPT ![p] = @ + 1]
    /\ UnlockBeforeNotify
    /\ Goto(p, "notify")
    /\ UNCHANGED <<push_cv_, pop_cv_, wakeups>>

PushItem(p) ==
    /\ \/ pc[p] = "enqueue" /\ ~ Full(q_)
       \/ pc[p] = "nowait"
    /\ q_' = PushBack(q_, Current(p))
    /\ sent' = [sent EXCEPT ![p] = @ + 1]
    /\ UnlockBeforeNotify
    /\ Goto(p, "notify")
    /\ UNCHANGED <<push_cv_, pop_cv_, wakeups>>

(* Fault: the consumer waits with the mutex held. *)
BlockConsumer_keeps_mutex(c) ==
    /\ pc[c] = "dequeue" /\ Empty(q_)
    /\ push_cv_' = push_cv_ \cup {c}
    /\ Goto(c, "wait")
    /\ UNCHANGED <<q_, queue_mutex_, pop_cv_, sent, wakeups>>

(* push_cv_.wait_for: nothing to take, release the mutex and block. *)
BlockConsumer(c) ==
    /\ pc[c] = "dequeue" /\ Empty(q_)
    /\ push_cv_' = push_cv_ \cup {c}
    /\ queue_mutex_' = Nobody
    /\ Goto(c, "wait")
    /\ UNCHANGED <<q_, pop_cv_, sent, wakeups>>

(* Fault: a wait that has timed out is taken for one that was satisfied. *)
TakeItem_after_timeout(c) ==
    /\ \/ pc[c] = "dequeue" /\ ~ Empty(q_)
       \/ pc[c] = "timed_out"
    /\ q_' = TakeFront(q_)
    /\ UnlockBeforeNotify
    /\ Goto(c, "notify")
    /\ UNCHANGED <<push_cv_, pop_cv_, sent, wakeups>>

(* An item is there, even if the wait has timed out: take it. *)
TakeItem(c) ==
    /\ pc[c] \in {"dequeue", "timed_out"} /\ ~ Empty(q_)
    /\ q_' = TakeFront(q_)
    /\ UnlockBeforeNotify
    /\ Goto(c, "notify")
    /\ UNCHANGED <<push_cv_, pop_cv_, sent, wakeups>>

(* The wait has timed out and the queue is still empty: return false. *)
ReturnFalse(c) ==
    /\ pc[c] = "timed_out" /\ Empty(q_)
    /\ queue_mutex_' = Nobody
    /\ Goto(c, "idle")
    /\ UNCHANGED <<q_, push_cv_, pop_cv_, sent, wakeups>>

UnlockAfterNotify == queue_mutex_' = IF MinGW THEN Nobody ELSE queue_mutex_

(* Faults: the notification of the other side is left out. *)
NotifyPush_forgets(p) ==
    /\ p \in Producers /\ pc[p] = "notify"
    /\ Goto(p, "idle")
    /\ UnlockAfterNotify
    /\ UNCHANGED <<q_, push_cv_, pop_cv_, sent, wakeups>>

NotifyPop_forgets(c) ==
    /\ c \in Consumers /\ pc[c] = "notify"
    /\ Goto(c, "idle")
    /\ UnlockAfterNotify
    /\ UNCHANGED <<q_, push_cv_, pop_cv_, sent, wakeups>>

(* notify_one: some waiter, if there is one, stops waiting and goes for the *)
(* mutex; the notifying call returns.                                       *)
NotifyPush(p) ==
    /\ p \in Producers /\ pc[p] = "notify"
    /\ \/ /\ push_cv_ = {} /\ Goto(p, "idle") /\ UNCHANGED push_cv_
       \/ \E c \in push_cv_ :
            /\ push_cv_' = push_cv_ \ {c}
            /\ pc' = [pc EXCEPT ![p] = "idle", ![c] = "lock_dequeue"]
    /\ UnlockAfterNotify
    /\ UNCHANGED <<q_, pop_cv_, sent, wakeups>>

NotifyPop(c) ==
    /\ c \in Consumers /\ pc[c] = "notify"
    /\ \/ /\ pop_cv_ = {} /\ Goto(c, "idle") /\ UNCHANGED pop_cv_
       \/ \E p \in pop_cv_ :
            /\ pop_cv_' = pop_cv_ \ {p}
            /\ pc' = [pc EXCEPT ![c] = "idle", ![p] = "lock_enqueue"]
    /\ UnlockAfterNotify
    /\ UNCHANGED <<q_, push_cv_, sent, wakeups>>

(* The wait of a consumer times out. *)
Timeout(c) ==
    /\ c \in push_cv_ /\ wakeups < MaxWakeups
    /\ push_cv_' = push_cv_ \ {c}
    /\ wakeups' = wakeups + 1
    /\ Goto(c, "lock_timed_out")
    /\ UNCHANGED <<q_, queue_mutex_, pop_cv_, sent>>

(* A waiting thread wakes up without having been notified. *)
SpuriousWakeup(t) ==
    /\ wakeups < MaxWakeups
    /\ wakeups' = wakeups + 1
    /\ \/ /\ t \in push_cv_ /\ push_cv_' = push_cv_ \ {t}
          /\ Goto(t, "lock_dequeue") /\ UNCHANGED pop_cv_
       \/ /\ t \in pop_cv_ /\ pop_cv_' = pop_cv_ \ {t}
          /\ Goto(t, "lock_enqueue") /\ UNCHANGED push_cv_
    /\ UNCHANGED <<q_, queue_mutex_, sent>>

(* Every producer has used up its quota and every consumer waits on an     *)
(* empty queue: nothing is left to do.                                     *)
Quiescent ==
    /\ \A p \in Producers : pc[p] = "idle" /\ sent[p] = Quota
    /\ \A c \in Consumers : pc[c] = "wait"
    /\ Empty(q_)

Stopped == Quiescent /\ UNCHANGED vars

Calling(p) == CallEnqueue(p) \/ CallEnqueueNowait(p)

Producing(p) == BlockProducer(p) \/ PushItem(p) \/ NotifyPush(p)

Consuming(c) ==
    CallDequeue(c) \/ BlockConsumer(c) \/ TakeItem(c) \/ ReturnFalse(c) \/ NotifyPop(c)

Next ==
    \/ \E p \in Producers : Calling(p) \/ Producing(p)
    \/ \E c \in Consumers : Consuming(c) \/ Timeout(c)
    \/ \E t \in Threads : Acquire(t) \/ SpuriousWakeup(t)
    \/ Stopped

Spec == Init /\ [][Next]_vars

(* A call once made keeps running, and consumers call again when they      *)
(* return, as the workers of thread_pool do.  Nothing obliges a producer to *)
(* make a call, and nothing is assumed about timeouts and spurious wakeups: *)
(* they may happen, and nothing may depend on them.                        *)
Fairness ==
    /\ \A p \in Producers : WF_vars(Producing(p) \/ Acquire(p))
    /\ \A c \in Consumers : WF_vars(Consuming(c) \/ Acquire(c))

FairSpec == Spec /\ Fairness

-----------------------------------------------------------------------------
Labels == {"idle", "wait", "notify"} \cup DOMAIN Wanted
             \cup {"enqueue", "nowait", "dequeue", "timed_out"}

(* The labels of a thread inside the critical section. *)
Critical(t) ==
    \/ pc[t] \in {"enqueue", "nowait", "dequeue", "timed_out"}
    \/ MinGW /\ pc[t] = "notify"

(* The queue keeps its shape, the mutex has the one holder that is inside  *)
(* the critical section, and the waiters are the threads that wait.        *)
TypeOK ==
    /\ RingOK(q_) /\ q_.max_items_ = QMaxItems + 1
    /\ pc \in [Threads -> Labels]
    /\ sent \in [Producers -> 0 .. Quota]
    /\ wakeups \in 0 .. MaxWakeups
    /\ \A t \in Threads : Critical(t) <=> queue_mutex_ = t
    /\ push_cv_ = {c \in Consumers : pc[c] = "wait"}
    /\ pop_cv_ = {p \in Producers : pc[p] = "wait"}

(* Where producers and consumers can be, that a producer inside a call has *)
(* an item left to enqueue, and that slots outside the contents and the    *)
(* marker own nothing: with TypeOK, an inductive invariant.                *)
CallsOK ==
    /\ \A p \in Producers :
          /\ pc[p] \in {"idle", "lock_enqueue", "lock_nowait", "enqueue", "nowait",
                       "wait", "notify"}
          /\ pc[p] \notin {"idle", "notify"} => sent[p] < Quota
    /\ \A c \in Consumers :
          pc[c] \in {"idle", "lock_dequeue", "lock_timed_out", "dequeue", "timed_out",
                    "wait", "notify"}

Inv == TypeOK /\ CallsOK /\ VacantCleared(q_)

(* No wakeup is lost.  While a consumer waits, every item in the queue is  *)
(* matched by a notification still to be sent or by a consumer that is     *)
(* already on its way to take one; while a producer waits, the same holds  *)
(* of every free place (mpmc_blocking_q.h:36-39, 58-65: notify_one after   *)
(* each change is enough, whatever the order of unlocks and notifications, *)
(* and whether or not waits time out or wake up spuriously).               *)
NoLostWakeup ==
    /\ push_cv_ # {} =>
         Size(q_) <= Cardinality({p \in Producers : pc[p] = "notify"})
                   + Cardinality({c \in Consumers :
                        pc[c] \in {"lock_dequeue", "dequeue", "lock_timed_out", "timed_out"}})
    /\ pop_cv_ # {} =>
         QMaxItems - Size(q_) <= Cardinality({c \in Consumers : pc[c] = "notify"})
                   + Cardinality({p \in Producers : pc[p] \in {"lock_enqueue", "enqueue"}})

(* The blocking enqueue never makes room by dropping an item, not even     *)
(* when the place it was woken up for is taken by another producer before  *)
(* it has the mutex again.                                                 *)
BlockingNeverOverruns ==
    [][\A p \in Producers :
          pc[p] = "enqueue" /\ sent'[p] # sent[p]
             => q_'.overrun_counter_ = q_.overrun_counter_]_vars

(* The threads, the mutex and the condition variables together implement a *)
(* queue whose calls are atomic.  The third variable says what the vector  *)
(* still owns outside the contents: the last overrun item, in the marker   *)
(* slot, until the next push.                                              *)
Atomic == INSTANCE MessageQueue WITH
    items <- Contents(q_),
    overruns <- q_.overrun_counter_,
    leftover <- q_.v_[q_.tail_]

ImplementsMessageQueue == Atomic!QueueSpec

(* Under fair threads every call of enqueue and enqueue_nowait returns. *)
EnqueueReturns == \A p \in Producers : (pc[p] # "idle") ~> (pc[p] = "idle")

(* Under fair threads every item is eventually dequeued or overrun. *)
QueueDrains == <>[](Empty(q_))
=============================================================================
