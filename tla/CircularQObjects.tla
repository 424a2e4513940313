------------------------- MODULE CircularQObjects --------------------------
(***************************************************************************)
(* Objects of class circular_q and the calls a program makes on them: the  *)
(* constructors, push_back, pop_front of a non-empty queue, and copy and   *)
(* move between objects (backtracer keeps its queue by assigning a new one *)
(* over it, a copied logger copies it, a moved logger moves it).           *)
(***************************************************************************)
EXTENDS CircularQ

CONSTANTS
    Objects,    \* the queue objects
    Capacities  \* the arguments given to the constructor

ASSUME CapacitiesAssumption == Capacities \subseteq SizeT

VARIABLE qs     \* Objects -> ring

objectsVars == <<qs>>

ObjectsInit == qs = [o \in Objects |-> Disabled]

Construct(o, max_items) == qs' = [qs EXCEPT ![o] = New(max_items)]

Push(o, item) == qs' = [qs EXCEPT ![o] = PushBack(@, item)]

Pop(o) ==
    /\ ~ Empty(qs[o])
    /\ qs' = [qs EXCEPT ![o] = PopFront(@)]

(* dequeue_for moves the item out of its slot before it pops it. *)
Take(o) ==
    /\ ~ Empty(qs[o])
    /\ qs' = [qs EXCEPT ![o] = TakeFront(@)]

Copy(to, from) == qs' = [qs EXCEPT ![to] = qs[from]]

(* copy_moveable: the source is left disabled. *)
Move(to, from) ==
    /\ to # from
    /\ qs' = [qs EXCEPT ![to] = qs[from], ![from] = Disabled]

ObjectsNext ==
    \E o \in Objects :
        \/ \E n \in Capacities : Construct(o, n)
        \/ \E x \in Items : Push(o, x)
        \/ Pop(o)
        \/ Take(o)
        \/ \E p \in Objects : Copy(o, p) \/ Move(o, p)

ObjectsSpec == ObjectsInit /\ [][ObjectsNext]_objectsVars

-----------------------------------------------------------------------------
(* Every object keeps the shape of a ring: its indices stay inside the     *)
(* allocated vector, whatever sequence of calls is made on it.             *)
ObjectsOK ==
    /\ qs = [o \in Objects |-> qs[o]]
    /\ \A o \in Objects : RingOK(qs[o])

(* The query functions agree with each other: empty() is size() = 0, and   *)
(* full() holds exactly when size() has reached the capacity that the      *)
(* constructor was given (circular_q.h:77-117).                            *)
QueriesAgree ==
    \A o \in Objects :
        LET q == qs[o]
        IN  /\ Empty(q) <=> Size(q) = 0
            /\ Enabled(q) => Size(q) \in 0 .. (q.max_items_ - 1)
            /\ Full(q) <=> Enabled(q) /\ Size(q) = q.max_items_ - 1

(* The abstract queue of an object. *)
Abstract(q) ==
    [capacity |-> q.max_items_ - 1, items |-> Contents(q),
     overruns |-> q.overrun_counter_]

Queues == INSTANCE OverrunQueue WITH queues <- [o \in Objects |-> Abstract(qs[o])]

(* The ring implements the drop-oldest queue: every call has the effect on *)
(* the contents, the capacity and the overrun counter that the abstract    *)
(* operation has.                                                          *)
ImplementsOverrunQueue == Queues!Spec
=============================================================================
