--------------------------- MODULE MessageQueue ----------------------------
(***************************************************************************)
(* What mpmc_blocking_queue promises to the threads that share it, each    *)
(* call taking effect in one step:                                         *)
(*   enqueue          waits for room and appends;                          *)
(*   enqueue_nowait   appends at once and gives up the oldest item if there*)
(*                    was no room;                                         *)
(*   dequeue_for      removes the oldest item if there is one.             *)
(* An item given up by enqueue_nowait is not destroyed at once: it stays in*)
(* the vector's marker slot, outside the contents, until the next enqueue  *)
(* overwrites it.  leftover is that item; it matters because queued        *)
(* messages own their logger.                                              *)
(***************************************************************************)
EXTENDS Integers, Sequences

CONSTANTS Items, NoItem, SizeMod, QMaxItems

ASSUME QMaxItemsAssumption ==
    /\ SizeMod \in Nat
    /\ QMaxItems \in 0 .. (SizeMod - 2)     \* QMaxItems + 1 does not wrap

VARIABLES
    items,      \* the messages in the queue, oldest first
    overruns,   \* overrun_counter()
    leftover    \* the last item given up, while its slot still holds it

queueVars == <<items, overruns, leftover>>

QueueInit ==
    /\ items = <<>>
    /\ overruns = 0
    /\ leftover = NoItem

(* Faults: one place too many; the newest message is served first. *)
HasRoom_one_more == Len(items) <= QMaxItems

HasRoom == Len(items) < QMaxItems

Put_in_front(x) ==
    /\ items' = <<x>> \o items
    /\ leftover' = NoItem
    /\ UNCHANGED overruns

Put(x) ==
    /\ items' = Append(items, x)
    /\ leftover' = NoItem
    /\ UNCHANGED overruns

Overrun(x) ==
    /\ items' = Tail(Append(items, x))
    /\ leftover' = Head(Append(items, x))
    /\ overruns' = (overruns + 1) % SizeMod

Enqueue(x) == HasRoom /\ Put(x)

EnqueueNowait(x) ==
    \/ HasRoom /\ Put(x)
    \/ ~ HasRoom /\ Overrun(x)

Dequeue ==
    /\ items # <<>>
    /\ items' = Tail(items)
    /\ UNCHANGED <<overruns, leftover>>

QueueNext ==
    \/ \E x \in Items : Enqueue(x) \/ EnqueueNowait(x)
    \/ Dequeue

QueueSpec == QueueInit /\ [][QueueNext]_queueVars
=============================================================================
