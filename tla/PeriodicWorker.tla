--------------------------- MODULE PeriodicWorker ---------------------------
(***************************************************************************)
(* periodic_worker (details/periodic_worker-inl.h): a thread that calls a  *)
(* function at intervals until the object is destroyed.  Workers are       *)
(* numbered in the order of their construction.  The object's mutex is     *)
(* held by its thread while the function runs, and by the destructor for   *)
(* one step; cv_.wait_for gives it up.  What the function does is for the  *)
(* module that owns the workers to say.                                    *)
(***************************************************************************)
EXTENDS Naturals

CONSTANT MaxWorkers     \* bound: workers constructed

Workers == 1 .. MaxWorkers

VARIABLES
    active_,            \* of each worker
    wpc,                \* "none" (no thread), "lock", "wait", "timeout",
                        \* "callback", "gone" (the thread has returned), ...
    constructed         \* how many workers there have been

workerVars == <<active_, wpc, constructed>>

WorkerInit ==
    /\ active_ = [w \in Workers |-> FALSE]
    /\ wpc = [w \in Workers |-> "none"]
    /\ constructed = 0

(* The constructor of worker constructed + 1; without an interval it       *)
(* starts no thread.                                                       *)
ConstructWorker(interval) ==
    /\ constructed < MaxWorkers
    /\ constructed' = constructed + 1
    /\ active_' = [active_ EXCEPT ![constructed'] = interval > 0]
    /\ wpc' = [wpc EXCEPT ![constructed'] = IF interval > 0 THEN "lock" ELSE "none"]

Joinable(w) == wpc[w] # "none"
InCallback(w) == wpc[w] \in {"callback", "flushing"}

-----------------------------------------------------------------------------
(* wait_for evaluates its predicate before it waits, and when it wakes up: *)
(* the thread returns if it has been told to stop.                         *)
Evaluate(w) ==
    /\ wpc[w] = "lock"
    /\ wpc' = [wpc EXCEPT ![w] = IF active_[w] THEN "wait" ELSE "gone"]
    /\ UNCHANGED <<active_, constructed>>

(* The interval is over, or the wait ends for no reason ... *)
WaitEnds(w) ==
    /\ wpc[w] = "wait"
    /\ wpc' \in {[wpc EXCEPT ![w] = "timeout"], [wpc EXCEPT ![w] = "lock"]}
    /\ UNCHANGED <<active_, constructed>>

(* ... and with the mutex again, the predicate decides. *)
AfterTimeout(w) ==
    /\ wpc[w] = "timeout"
    /\ wpc' = [wpc EXCEPT ![w] = IF active_[w] THEN "callback" ELSE "gone"]
    /\ UNCHANGED <<active_, constructed>>

(* The function has returned; the next round takes the mutex again. *)
CallbackReturns(w) == wpc' = [wpc EXCEPT ![w] = "lock"]

-----------------------------------------------------------------------------
(* The destructor: the flag is cleared under the mutex, so not during the  *)
(* function, nor between the predicate and the wait ...                    *)
ClearActive(w) ==
    /\ ~ InCallback(w)
    /\ active_' = [active_ EXCEPT ![w] = FALSE]
    /\ UNCHANGED <<wpc, constructed>>

(* ... then, without it, notify_one.  (Fault: nobody is notified.) *)
Notify_forgets(w) == UNCHANGED workerVars

Notify(w) ==
    /\ wpc' = [wpc EXCEPT ![w] = IF @ = "wait" THEN "lock" ELSE @]
    /\ UNCHANGED <<active_, constructed>>

(* join returns.  (Fault: the thread is detached.) *)
Joined_detached(w) == wpc[w] \in STRING

Joined(w) == wpc[w] \in {"none", "gone"}
=============================================================================
