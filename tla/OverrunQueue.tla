--------------------------- MODULE OverrunQueue ----------------------------
(***************************************************************************)
(* What circular_q promises: a set of queue objects, each a sequence of    *)
(* items with a capacity.  A push into a full queue gives up the oldest    *)
(* item and counts it; a queue that is disabled ignores pushes.            *)
(***************************************************************************)
EXTENDS Integers, Sequences

CONSTANTS Objects, Items, SizeMod

VARIABLE queues     \* Objects -> abstract queue

vars == <<queues>>

Queue(capacity, items, overruns) ==
    [capacity |-> capacity, items |-> items, overruns |-> overruns]

(* A disabled queue has room for less than nothing. *)
Off == Queue(-1, <<>>, 0)

(* A capacity that leaves no room for the marker in size_t is no queue.    *)
Created(capacity) ==
    IF capacity = SizeMod - 1 THEN Off ELSE Queue(capacity, <<>>, 0)

Pushed(a, x) ==
    IF a.capacity < 0 THEN a
    ELSE IF Len(a.items) < a.capacity
         THEN Queue(a.capacity, Append(a.items, x), a.overruns)
         ELSE Queue(a.capacity, Tail(Append(a.items, x)),
                    (a.overruns + 1) % SizeMod)

Popped(a) == Queue(a.capacity, Tail(a.items), a.overruns)

Init == queues = [o \in Objects |-> Off]

Construct(o, capacity) == queues' = [queues EXCEPT ![o] = Created(capacity)]

Push(o, x) == queues' = [queues EXCEPT ![o] = Pushed(@, x)]

Pop(o) ==
    /\ queues[o].items # <<>>
    /\ queues' = [queues EXCEPT ![o] = Popped(@)]

Copy(to, from) == queues' = [queues EXCEPT ![to] = queues[from]]

Move(to, from) ==
    /\ to # from
    /\ queues' = [queues EXCEPT ![to] = queues[from], ![from] = Off]

Next ==
    \E o \in Objects :
        \/ \E c \in 0 .. (SizeMod - 1) : Construct(o, c)
        \/ \E x \in Items : Push(o, x)
        \/ Pop(o)
        \/ \E p \in Objects : Copy(o, p) \/ Move(o, p)

Spec == Init /\ [][Next]_vars
=============================================================================
