---------------------------- MODULE MCCircularQ ----------------------------
(* Two queue objects, two distinct items, and a size_t of four values, so  *)
(* that capacities 0 (only the marker), 1, 2 and 3 (wraps to a disabled    *)
(* queue) and the wrap-around of the overrun counter all occur.            *)
EXTENDS CircularQObjects, TLC

MCCapacities == 0 .. 3

(* Neither items nor objects are told apart by the specification. *)
MCSymmetry == Permutations(Items) \cup Permutations(Objects)
=============================================================================
