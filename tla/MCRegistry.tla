----------------------------- MODULE MCRegistry -----------------------------
(* An empty table of levels, and one with an entry for the other logger. *)
EXTENDS Registry, TLC
MCTables ==
    {[n \in Names |-> NoLevel],
     [n \in Names |-> IF n = DefaultName THEN NoLevel ELSE 4]}
=============================================================================
