--------------------------- MODULE RingbufferSink ---------------------------
(***************************************************************************)
(* ringbuffer_sink (sinks/ringbuffer_sink.h) with the time that its        *)
(* pattern_formatter keeps (pattern_formatter-inl.h): the broken-down time *)
(* is computed only when the second differs from that of the last message  *)
(* formatted.  A broken-down time is the number of the second it stands    *)
(* for, Zeroed when the memory has only been cleared.  The mutex is held   *)
(* for one step.                                                           *)
(***************************************************************************)
EXTENDS CircularQ

CONSTANTS
    PerSecond,      \* ticks of the clock in a second
    RingSize        \* n_items

ASSUME RingbufferAssumption == PerSecond \in Nat \ {0} /\ RingSize \in SizeT

VARIABLES
    q_,             \* the messages, records with a time
    cached_tm_, last_log_secs_

ringVars == <<q_, cached_tm_, last_log_secs_>>

Zeroed == -1

RingInit ==
    /\ q_ = New(RingSize)
    /\ cached_tm_ = Zeroed
    /\ last_log_secs_ = 0

RingSinkIt(m) == q_' = PushBack(q_, m) /\ UNCHANGED <<cached_tm_, last_log_secs_>>

(* set_formatter: a clone has nothing in its cache. *)
RingSetFormatter == cached_tm_' = Zeroed /\ last_log_secs_' = 0 /\ UNCHANGED q_

Second(m) == m.time \div PerSecond

(* The time that format writes for a message, given the cache <<tm, secs>>. *)
(* (Fault: it is computed only when a later second begins.)                *)
Format_of_later(cache, m) ==
    IF Second(m) > cache[2] THEN <<Second(m), Second(m)>> ELSE cache

Format(cache, m) == IF Second(m) # cache[2] THEN <<Second(m), Second(m)>> ELSE cache

(* last_raw: the latest lim messages, or all. *)
LastRaw(lim) ==
    LET available == Size(q_)
        n == IF lim > 0 /\ lim < available THEN lim ELSE available
    IN  [i \in 1 .. n |-> At(q_, available - n + i - 1)]

(* What the cache is while last_formatted writes the latest lim messages. *)
Caches(lim) ==
    LET last == LastRaw(lim)
        cache[i \in 0 .. Len(last)] ==
            IF i = 0 THEN <<cached_tm_, last_log_secs_>> ELSE Format(cache[i - 1], last[i])
    IN  cache

LastFormatted(lim) ==
    /\ Size(q_) > 0
    /\ LET cache == Caches(lim)[Len(LastRaw(lim))]
       IN  cached_tm_' = cache[1] /\ last_log_secs_' = cache[2]
    /\ UNCHANGED q_

-----------------------------------------------------------------------------
(* Every message that last_formatted returns has its own time, in whatever *)
(* order messages came and whatever was formatted before                   *)
(* (pattern_formatter-inl.h:1052-1057, ringbuffer_sink.h:42-56).           *)
FormatsOwnTime ==
    \A lim \in 0 .. RingSize :
        \A i \in 1 .. Len(LastRaw(lim)) : Caches(lim)[i][1] = Second(LastRaw(lim)[i])
=============================================================================
