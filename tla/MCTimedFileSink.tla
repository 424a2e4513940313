-------------------------- MODULE MCTimedFileSink ---------------------------
EXTENDS TimedFileSink

MCNames == 0 .. NameAt(Horizon)

(* The clock stands still during the constructor and during a call of      *)
(* sink_it_, which only leaves behaviours out: what goes wrong here does    *)
(* so because of messages that come late, not because of the moments at    *)
(* which a call reads the clock.                                           *)
InstantCalls == now' # now => pc \in {"none", "idle"}

SpecInstantCalls == Init /\ [][Next /\ InstantCalls]_vars
=============================================================================
