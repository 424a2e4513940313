--------------------------- MODULE MCThreadPool ----------------------------
(* Instances of the asynchronous pipeline: two clients, one or two workers, *)
(* a blocking and an overrunning logger that share a sink.                 *)
EXTENDS ThreadPool, TLC

CONSTANTS c1, c2, w1, w2, lb, lo, s1, s2

MixedPolicy == lb :> "block" @@ lo :> "overrun_oldest"
BlockPolicy == lb :> "block" @@ lo :> "block"

(* Each client has its own logger, or the second client has both. *)
OwnHandles == c1 :> {lb} @@ c2 :> {lo}
SharedHandles == c1 :> {lb} @@ c2 :> {lb, lo}

(* The blocking logger has two sinks, and shares the first with the other. *)
TwoSinks == lb :> <<s1, s2>> @@ lo :> <<s1>>
OneSink == lb :> <<s1>> @@ lo :> <<s1>>
NoSinks == lb :> <<>> @@ lo :> <<>>

(* A message of level 2 does not reach s2, and asks logger lb for a flush  *)
(* but not lo.  One of level 6 (off) reaches both and asks neither.        *)
MCSinkLevel == s1 :> 1 @@ s2 :> 3
MCFlushLevel == lb :> 2 @@ lo :> 3

(* The workers of a pool are interchangeable. *)
MCSymmetry == Permutations(Workers)
=============================================================================
