-------------------------- MODULE MCDupFilterSink --------------------------
(* Two texts; two ticks in a second and one within which a duplicate is    *)
(* skipped; times that go back; a message below the level of a child.      *)
EXTENDS DupFilterSink, TLC
Message(p, l, t) == [payload |-> p, level |-> l, time |-> t]
MCMessages ==
    {Message("A", 1, 2), Message("A", 2, 4), Message("B", 2, 5)}
MCTimes == {5}
MCItems == MCMessages \cup {Message("skipped", 2, t) : t \in MCTimes}
MCChildLevel == [tcp |-> 2, ring |-> 1]
Symmetry == Permutations(Threads)
=============================================================================
