------------------------------ MODULE MCLogger ------------------------------
(* One sink that takes everything and one that takes info and above. *)
EXTENDS Logger, TLC
MCSinkLevel == <<0, 2>>
MCSymmetry == Permutations(Threads)
=============================================================================
