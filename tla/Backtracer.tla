----------------------------- MODULE Backtracer -----------------------------
(***************************************************************************)
(* backtracer (details/backtracer-inl.h): a flag, a circular_q of the      *)
(* latest messages, and a mutex that enable, disable and push_back hold    *)
(* for one step and foreach_pop for as long as it runs its function.  The  *)
(* flag is atomic and read without the mutex.  The queue is the drop-      *)
(* oldest queue that circular_q implements (CircularQObjects).             *)
(***************************************************************************)
EXTENDS Naturals, Sequences

CONSTANT Nobody     \* no thread: the mutex is free

VARIABLES
    enabled_,
    messages_,      \* the contents of the queue, the oldest first
    max_items_,     \* its capacity
    mutex_          \* the thread that holds the mutex, or Nobody

tracerVars == <<enabled_, messages_, max_items_, mutex_>>

TracerInit ==
    /\ enabled_ = FALSE /\ messages_ = <<>> /\ max_items_ = 0
    /\ mutex_ = Nobody

(* After a call of enable. *)
TracerEnabled(size) ==
    /\ enabled_ = TRUE /\ messages_ = <<>> /\ max_items_ = size
    /\ mutex_ = Nobody

(* enable: the messages kept so far are forgotten. *)
Enable(size) ==
    /\ mutex_ = Nobody
    /\ enabled_' = TRUE /\ messages_' = <<>> /\ max_items_' = size
    /\ UNCHANGED mutex_

(* disable: they stay where they are. *)
Disable ==
    /\ mutex_ = Nobody
    /\ enabled_' = FALSE
    /\ UNCHANGED <<messages_, max_items_, mutex_>>

(* Faults: the queue keeps one message too many; the message is pushed in   *)
(* front.                                                                  *)
PushBack_one_more(m) ==
    /\ mutex_ = Nobody
    /\ LET q == Append(messages_, m)
       IN  messages_' = IF Len(q) > max_items_ + 1 THEN Tail(q) ELSE q
    /\ UNCHANGED <<enabled_, max_items_, mutex_>>

PushBack_in_front(m) ==
    /\ mutex_ = Nobody
    /\ LET q == <<m>> \o messages_
       IN  messages_' = IF Len(q) > max_items_ THEN Tail(q) ELSE q
    /\ UNCHANGED <<enabled_, max_items_, mutex_>>

(* push_back, also by a caller that has read the flag before it was        *)
(* cleared; a queue without capacity takes nothing.                        *)
PushBack(m) ==
    /\ mutex_ = Nobody
    /\ LET q == Append(messages_, m)
       IN  messages_' = IF Len(q) > max_items_ THEN Tail(q) ELSE q
    /\ UNCHANGED <<enabled_, max_items_, mutex_>>

(* foreach_pop: the mutex is taken ... *)
Lock(t) ==
    /\ mutex_ = Nobody
    /\ mutex_' = t
    /\ UNCHANGED <<enabled_, messages_, max_items_>>

(* Fault: the wrong end is popped. *)
PopFront_newest ==
    /\ messages_' = SubSeq(messages_, 1, Len(messages_) - 1)
    /\ UNCHANGED <<enabled_, max_items_, mutex_>>

(* ... the message in front is popped after the function has returned ...  *)
PopFront ==
    /\ messages_' = Tail(messages_)
    /\ UNCHANGED <<enabled_, max_items_, mutex_>>

(* ... and the lock_guard releases the mutex, at the end or when an        *)
(* exception leaves.                                                       *)
Release(t) == mutex_' = IF mutex_ = t THEN Nobody ELSE mutex_

Unlock(t) ==
    /\ Release(t)
    /\ UNCHANGED <<enabled_, messages_, max_items_>>
=============================================================================
