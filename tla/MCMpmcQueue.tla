---------------------------- MODULE MCMpmcQueue ----------------------------
EXTENDS MpmcQueue, TLC

MCItems == Producers \X (1 .. Quota)

MCSymmetry == Permutations(Consumers)
=============================================================================
