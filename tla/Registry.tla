------------------------------ MODULE Registry ------------------------------
(***************************************************************************)
(* The registry of loggers (details/registry-inl.h) with its periodic      *)
(* flusher, the factories that create loggers (async.h,                    *)
(* synchronous_factory.h) and set_levels as the configuration calls it     *)
(* (cfg/helpers-inl.h).                                                    *)
(*                                                                         *)
(* Operations under logger_map_mutex_ are one step that waits for the      *)
(* mutex; flush_all, which the flusher's thread runs, holds it for as many *)
(* steps as there are loggers.  Who holds a mutex follows from where the   *)
(* threads are, so that there is no variable for it.                       *)
(*                                                                         *)
(* A pool is a number, 0 for none.  Asynchronous loggers have a weak       *)
(* reference to theirs, so a pool lives as long as the registry has it.    *)
(***************************************************************************)
EXTENDS PeriodicWorker, Sequences, FiniteSets

CONSTANTS
    Threads,
    Names,          \* names of loggers
    DefaultName,    \* "", the name of the first default logger
    Levels,         \* levels given to set_level, flush_on and set_levels
    Info, Off,      \* level::info and level::off, which a logger starts with
    NoLevel,        \* no entry in a table of levels, or no global level
    Tables,         \* the tables of levels given to set_levels: a level
                    \* without a name is the global level
    MaxLoggers,     \* bound: loggers created
    MaxCalls        \* bound: calls of the registry

ASSUME RegistryAssumption ==
    /\ DefaultName \in Names
    /\ NoLevel \notin Levels \cup {Info, Off}
    /\ Tables \subseteq [Names -> Levels \cup {NoLevel}]
    /\ \A table \in Tables : table[DefaultName] = NoLevel
    /\ {MaxWorkers, MaxLoggers, MaxCalls} \subseteq Nat

VARIABLES
    loggers_,       \* name -> logger, 0 if there is none
    default_logger_,
    log_levels_, global_log_level_,
    flush_level_,   \* stands for the other settings that loggers inherit
    automatic_registration_,
    periodic_flusher_, \* the worker, 0 if there is none
    tp_,            \* the pool
    all,            \* every logger: its name, level, flush level and pool
    pools,          \* pools created so far
    pc, arg,        \* where each thread is; the name it creates, the worker it stops
    shutting,       \* whether a thread is in shutdown
    todo,           \* names that flush_all has still to flush
    ncalls,
    byHand,         \* loggers that the user registered
    overridden,     \* loggers whose level the table no longer tells
    before          \* what there was when a thread called shutdown

configVars == <<log_levels_, global_log_level_, flush_level_, automatic_registration_>>
mapVars == <<loggers_, default_logger_, all>>
poolVars == <<tp_, pools>>
placeVars == <<pc, arg, shutting>>
history == <<byHand, overridden, before>>
vars == <<workerVars, configVars, mapVars, poolVars, periodic_flusher_, placeVars, todo,
          ncalls, history>>

Nothing == [loggers |-> {}, worker |-> 0, pool |-> 0]

(* The constructor registers the default logger. *)
Init ==
    /\ WorkerInit
    /\ loggers_ = [n \in Names |-> IF n = DefaultName THEN 1 ELSE 0]
    /\ default_logger_ = 1
    /\ all = <<[name |-> DefaultName, level |-> Info, flush |-> Off, pool |-> 0]>>
    /\ log_levels_ = [n \in Names |-> NoLevel]
    /\ global_log_level_ = Info /\ flush_level_ = Off
    /\ automatic_registration_ = TRUE
    /\ periodic_flusher_ = 0 /\ tp_ = 0 /\ pools = 0
    /\ pc = [t \in Threads |-> "idle"] /\ arg = [t \in Threads |-> 0]
    /\ shutting = [t \in Threads |-> FALSE]
    /\ todo = {} /\ ncalls = 0
    /\ byHand = {} /\ overridden = {}
    /\ before = [t \in Threads |-> Nothing]

-----------------------------------------------------------------------------
Registered == {loggers_[n] : n \in Names} \ {0}

(* Fault: the factory locks the pool's mutex only to look the pool up.     *)
PoolFree_briefly == TRUE

(* The mutexes: flush_all has the first, a thread that stops a flusher the  *)
(* second, an asynchronous factory the third.                               *)
MapFree == \A w \in Workers : wpc[w] # "flushing"
FlusherFree == \A t \in Threads : pc[t] \notin {"clear", "notify", "join"}
PoolFree == \A t \in Threads : pc[t] # "initialize"

Terminated == \E w \in Workers : wpc[w] = "terminate"

Call(t) ==
    /\ pc[t] = "idle" /\ ncalls < MaxCalls
    /\ ncalls' = ncalls + 1

(* The bound on loggers leaves room for the one a factory is making. *)
Room == Len(all) + Cardinality({t \in Threads : pc[t] = "initialize"}) < MaxLoggers

(* An operation that is one critical section of the map's mutex. *)
Atomic(t) ==
    /\ Call(t) /\ MapFree
    /\ UNCHANGED <<workerVars, poolVars, periodic_flusher_, placeVars, todo, before>>

Goto(t, place, value) ==
    /\ pc' = [pc EXCEPT ![t] = place]
    /\ arg' = [arg EXCEPT ![t] = value]
    /\ UNCHANGED shutting

-----------------------------------------------------------------------------
(* "set new level according to previously configured level or default"     *)
LevelFor(name) ==
    IF log_levels_[name] # NoLevel THEN log_levels_[name] ELSE global_log_level_

(* initialize_logger and register_logger_: nothing is left of a logger     *)
(* whose name is taken.                                                    *)
Initialize(name, pool) ==
    /\ IF automatic_registration_ /\ loggers_[name] # 0
       THEN UNCHANGED <<all, loggers_>>
       ELSE /\ all' = Append(all, [name |-> name, level |-> LevelFor(name),
                                   flush |-> flush_level_, pool |-> pool])
            /\ loggers_' = IF automatic_registration_
                           THEN [loggers_ EXCEPT ![name] = Len(all')] ELSE loggers_
    /\ UNCHANGED <<default_logger_, configVars, byHand, overridden>>

(* synchronous_factory::create *)
Create(t, name) == Room /\ Atomic(t) /\ Initialize(name, 0)

(* async_factory_impl::create: the pool's mutex is taken, and a pool       *)
(* created if there is none ...                                            *)
CreateAsync(t, name) ==
    /\ Call(t) /\ PoolFree /\ Room
    /\ IF tp_ = 0 THEN tp_' = pools + 1 /\ pools' = pools + 1
                  ELSE UNCHANGED poolVars
    /\ Goto(t, "initialize", name)
    /\ UNCHANGED <<workerVars, configVars, mapVars, periodic_flusher_, todo, history>>

(* Fault: the level is looked up before the mutex is taken, and applied    *)
(* after others have changed it.                                           *)
InitializeAsync_unlocked(t) ==
    /\ pc[t] = "initialize" /\ MapFree
    /\ loggers_[arg[t]] = 0
    /\ all' = Append(all, [name |-> arg[t], level |-> Info, flush |-> flush_level_, pool |-> tp_])
    /\ loggers_' = [loggers_ EXCEPT ![arg[t]] = Len(all')]
    /\ Goto(t, "idle", 0)
    /\ UNCHANGED <<default_logger_, configVars, byHand, overridden>>
    /\ UNCHANGED <<workerVars, poolVars, periodic_flusher_, todo, ncalls, before>>

(* ... and, after the sink, the logger, under both mutexes. *)
InitializeAsync(t) ==
    /\ pc[t] = "initialize" /\ MapFree
    /\ Initialize(arg[t], tp_)
    /\ Goto(t, "idle", 0)
    /\ UNCHANGED <<workerVars, poolVars, periodic_flusher_, todo, ncalls, before>>

(* The sink's constructor throws: the pool stays. *)
SinkThrows(t) ==
    /\ pc[t] = "initialize"
    /\ Goto(t, "idle", 0)
    /\ UNCHANGED <<workerVars, configVars, mapVars, poolVars, periodic_flusher_, todo,
                   ncalls, history>>

(* What a shutdown has still to clean no longer includes a logger that is  *)
(* registered again meanwhile.                                             *)
RegisteredAgain(l) ==
    before' = [t \in Threads |-> [before[t] EXCEPT !.loggers = @ \ {l}]]

RegisterByHand(l) ==
    /\ byHand' = IF l \in Registered THEN byHand ELSE byHand \cup {l}
    /\ RegisteredAgain(l)
    /\ UNCHANGED overridden

(* The user makes a logger without the registry. *)
MakeLogger(t, name) ==
    /\ pc[t] = "idle" /\ Room
    /\ all' = Append(all, [name |-> name, level |-> Info, flush |-> Off, pool |-> 0])
    /\ UNCHANGED <<workerVars, configVars, loggers_, default_logger_, poolVars,
                   periodic_flusher_, placeVars, todo, ncalls, history>>

(* An operation under the map's mutex that may register a logger again. *)
Registering(t) ==
    /\ Call(t) /\ MapFree
    /\ UNCHANGED <<workerVars, configVars, poolVars, periodic_flusher_, all, placeVars, todo>>

(* register_logger: throws if the name is taken. *)
RegisterLogger(t, l) ==
    /\ Registering(t)
    /\ loggers_[all[l].name] = 0
    /\ loggers_' = [loggers_ EXCEPT ![all[l].name] = l]
    /\ RegisterByHand(l)
    /\ UNCHANGED default_logger_

Erase(name) == [loggers_ EXCEPT ![name] = 0]
DefaultErased == IF default_logger_ = 0 THEN loggers_ ELSE Erase(all[default_logger_].name)

(* Fault: the previous default logger stays in the map under its name, and *)
(* the new one is not put there if the name is taken.                      *)
SetDefaultLogger_keeps_map(t, l) ==
    /\ Registering(t)
    /\ loggers_' = IF loggers_[all[l].name] # 0 THEN loggers_
                   ELSE [loggers_ EXCEPT ![all[l].name] = l]
    /\ default_logger_' = l
    /\ RegisterByHand(l)

(* set_default_logger: the previous default logger leaves the map, and the *)
(* new one replaces whatever has its name.                                 *)
SetDefaultLogger(t, l) ==
    /\ Registering(t)
    /\ loggers_' = [DefaultErased EXCEPT ![all[l].name] = l]
    /\ default_logger_' = l
    /\ RegisterByHand(l)

SetNoDefaultLogger(t) ==
    /\ Registering(t)
    /\ loggers_' = DefaultErased /\ default_logger_' = 0
    /\ UNCHANGED history

(* drop: the default logger too, if it has that name. *)
Drop(t, name) ==
    /\ Registering(t)
    /\ loggers_' = Erase(name)
    /\ default_logger_' = IF default_logger_ # 0 /\ all[default_logger_].name = name
                          THEN 0 ELSE default_logger_
    /\ UNCHANGED history

(* Fault: the default logger is kept. *)
ClearMap_keeps_default == loggers_' = [n \in Names |-> 0] /\ UNCHANGED default_logger_

ClearMap == loggers_' = [n \in Names |-> 0] /\ default_logger_' = 0

DropAll(t) == Registering(t) /\ ClearMap /\ UNCHANGED history

-----------------------------------------------------------------------------
(* A loop over the loggers in the map: each becomes what changed has for it. *)
ForRegistered(changed) ==
    all' = [l \in 1 .. Len(all) |-> IF l \in Registered THEN changed[l] ELSE all[l]]

(* Fault: the level of loggers to come is not set. *)
SetLevel_of_existing(t, level) ==
    /\ Atomic(t)
    /\ ForRegistered([l \in Registered |-> [all[l] EXCEPT !.level = level]])
    /\ overridden' = {l \in Registered : log_levels_[all[l].name] # NoLevel}
    /\ UNCHANGED <<loggers_, default_logger_, configVars, byHand>>

(* set_level: every logger, and those to come that the table does not name. *)
SetLevel(t, level) ==
    /\ Atomic(t)
    /\ ForRegistered([l \in Registered |-> [all[l] EXCEPT !.level = level]])
    /\ global_log_level_' = level
    /\ overridden' = {l \in Registered : log_levels_[all[l].name] # NoLevel}
    /\ UNCHANGED <<loggers_, default_logger_, log_levels_, flush_level_,
                   automatic_registration_, byHand>>

(* set_levels, as load_levels calls it: the table is replaced; a logger    *)
(* gets the level of its name, or the global level if one is given.        *)
SetLevels(t, table, global) ==
    /\ Atomic(t)
    /\ log_levels_' = table
    /\ global_log_level_' = IF global # NoLevel THEN global ELSE global_log_level_
    /\ ForRegistered([l \in Registered |->
          [all[l] EXCEPT !.level = IF table[all[l].name] # NoLevel THEN table[all[l].name]
                                   ELSE IF global # NoLevel THEN global ELSE @]])
    /\ overridden' =
          {l \in Registered : /\ table[all[l].name] = NoLevel /\ global = NoLevel
                              /\ l \in overridden \/ log_levels_[all[l].name] # NoLevel}
    /\ UNCHANGED <<loggers_, default_logger_, flush_level_, automatic_registration_, byHand>>

(* flush_on; set_formatter, set_error_handler, enable_backtrace and        *)
(* disable_backtrace do the same with their settings.                      *)
FlushOn(t, level) ==
    /\ Atomic(t)
    /\ ForRegistered([l \in Registered |-> [all[l] EXCEPT !.flush = level]])
    /\ flush_level_' = level
    /\ UNCHANGED <<loggers_, default_logger_, log_levels_, global_log_level_,
                   automatic_registration_, byHand, overridden>>

SetAutomaticRegistration(t, on) ==
    /\ Atomic(t)
    /\ automatic_registration_' = on
    /\ UNCHANGED <<mapVars, log_levels_, global_log_level_, flush_level_, byHand, overridden>>

(* init_thread_pool, set_tp: the previous pool goes. *)
InitThreadPool(t) ==
    /\ Call(t) /\ PoolFree
    /\ tp_' = pools + 1 /\ pools' = pools + 1
    /\ UNCHANGED <<workerVars, configVars, mapVars, periodic_flusher_, placeVars, todo, history>>

-----------------------------------------------------------------------------
(* flush_every: the new worker is constructed and takes the pointer; then  *)
(* the previous one is destroyed, with flusher_mutex_ held.                *)
FlushEvery(t, interval) ==
    /\ Call(t) /\ FlusherFree
    /\ ConstructWorker(interval)
    /\ periodic_flusher_' = constructed'
    /\ IF periodic_flusher_ # 0 /\ Joinable(periodic_flusher_)
       THEN Goto(t, "clear", periodic_flusher_) ELSE UNCHANGED placeVars
    /\ UNCHANGED <<configVars, mapVars, poolVars, todo, history>>

(* shutdown: the flusher first ... *)
Shutdown(t) ==
    /\ Call(t) /\ FlusherFree
    /\ periodic_flusher_' = 0
    /\ shutting' = [shutting EXCEPT ![t] = TRUE]
    /\ IF periodic_flusher_ # 0 /\ Joinable(periodic_flusher_)
       THEN /\ pc' = [pc EXCEPT ![t] = "clear"]
            /\ arg' = [arg EXCEPT ![t] = periodic_flusher_]
       ELSE pc' = [pc EXCEPT ![t] = "drop_all"] /\ UNCHANGED arg
    /\ before' = [before EXCEPT ![t] =
                    [loggers |-> Registered, worker |-> periodic_flusher_, pool |-> tp_]]
    /\ UNCHANGED <<workerVars, configVars, mapVars, poolVars, todo, byHand, overridden>>

(* ~periodic_worker, step by step. *)
StopClear(t) ==
    /\ pc[t] = "clear" /\ ClearActive(arg[t])
    /\ Goto(t, "notify", arg[t])
    /\ UNCHANGED <<configVars, mapVars, poolVars, periodic_flusher_, todo, ncalls, history>>

StopNotify(t) ==
    /\ pc[t] = "notify" /\ Notify(arg[t])
    /\ Goto(t, "join", arg[t])
    /\ UNCHANGED <<configVars, mapVars, poolVars, periodic_flusher_, todo, ncalls, history>>

StopJoin(t) ==
    /\ pc[t] = "join" /\ Joined(arg[t])
    /\ Goto(t, IF shutting[t] THEN "drop_all" ELSE "idle", 0)
    /\ UNCHANGED <<workerVars, configVars, mapVars, poolVars, periodic_flusher_, todo,
                   ncalls, history>>

(* ... then the map, in a critical section of its own ... *)
ShutdownMap(t) ==
    /\ pc[t] = "drop_all" /\ MapFree
    /\ ClearMap
    /\ Goto(t, "release_pool", 0)
    /\ UNCHANGED <<workerVars, configVars, all, poolVars, periodic_flusher_, todo,
                   ncalls, history>>

(* ... and the pool in another. *)
ShutdownPool(t) ==
    /\ pc[t] = "release_pool" /\ PoolFree
    /\ tp_' = 0
    /\ pc' = [pc EXCEPT ![t] = "idle"] /\ shutting' = [shutting EXCEPT ![t] = FALSE]
    /\ before' = [before EXCEPT ![t] = Nothing]
    /\ UNCHANGED <<workerVars, configVars, mapVars, pools, periodic_flusher_, arg, todo,
                   ncalls, byHand, overridden>>

-----------------------------------------------------------------------------
(* flush_all, which the flusher's thread calls. *)
BeginPass(w) ==
    /\ wpc[w] = "callback" /\ MapFree
    /\ wpc' = [wpc EXCEPT ![w] = "flushing"]
    /\ todo' = {n \in Names : loggers_[n] # 0}
    /\ UNCHANGED <<active_, constructed, configVars, mapVars, poolVars, periodic_flusher_,
                   placeVars, ncalls, history>>

HasPool(l) == all[l].pool = 0 \/ all[l].pool = tp_

FlushLogger(w) ==
    /\ wpc[w] = "flushing"
    /\ \E n \in todo : HasPool(loggers_[n]) /\ todo' = todo \ {n}
    /\ UNCHANGED <<workerVars, configVars, mapVars, poolVars, periodic_flusher_,
                   placeVars, ncalls, history>>

(* "async flush: thread pool doesn't exist anymore": the exception leaves   *)
(* flush_all and the thread's function, which ends the process.             *)
FlushThrows(w) ==
    /\ wpc[w] = "flushing"
    /\ \E n \in todo : ~ HasPool(loggers_[n])
    /\ wpc' = [wpc EXCEPT ![w] = "terminate"]
    /\ UNCHANGED <<active_, constructed, configVars, mapVars, poolVars, periodic_flusher_,
                   placeVars, todo, ncalls, history>>

EndPass(w) ==
    /\ wpc[w] = "flushing" /\ todo = {}
    /\ CallbackReturns(w)
    /\ UNCHANGED <<active_, constructed, configVars, mapVars, poolVars, periodic_flusher_,
                   placeVars, todo, ncalls, history>>

(* The worker's own steps; it waits with nothing else changing. *)
Looping(w) ==
    /\ Evaluate(w) \/ AfterTimeout(w)
    /\ UNCHANGED <<configVars, mapVars, poolVars, periodic_flusher_, placeVars, todo,
                   ncalls, history>>

Waiting(w) ==
    /\ WaitEnds(w)
    /\ UNCHANGED <<configVars, mapVars, poolVars, periodic_flusher_, placeVars, todo,
                   ncalls, history>>

-----------------------------------------------------------------------------
Calling(t) ==
    \/ \E n \in Names : Create(t, n) \/ CreateAsync(t, n) \/ MakeLogger(t, n) \/ Drop(t, n)
    \/ \E l \in 1 .. Len(all) : RegisterLogger(t, l) \/ SetDefaultLogger(t, l)
    \/ SetNoDefaultLogger(t) \/ DropAll(t)
    \/ \E level \in Levels : SetLevel(t, level) \/ FlushOn(t, level)
    \/ \E table \in Tables, global \in Levels \cup {NoLevel} : SetLevels(t, table, global)
    \/ \E on \in BOOLEAN : SetAutomaticRegistration(t, on)
    \/ InitThreadPool(t)
    \/ \E interval \in {0, 1} : FlushEvery(t, interval)
    \/ Shutdown(t)

Running(t) ==
    \/ InitializeAsync(t)
    \/ StopClear(t) \/ StopNotify(t) \/ StopJoin(t)
    \/ ShutdownMap(t) \/ ShutdownPool(t)

Working(w) ==
    Looping(w) \/ BeginPass(w) \/ FlushLogger(w) \/ FlushThrows(w) \/ EndPass(w)

Step ==
    /\ ~ Terminated
    /\ \/ \E t \in Threads : Calling(t) \/ Running(t) \/ SinkThrows(t)
       \/ \E w \in Workers : Working(w) \/ Waiting(w)

(* The process has ended, or nobody has anything left to do. *)
Stopped ==
    /\ Terminated \/ \A t \in Threads : pc[t] = "idle"
    /\ UNCHANGED vars

Next == Step \/ Stopped

Spec == Init /\ [][Next]_vars

(* A thread in a call gets the mutexes it asks for, and so does a flusher, *)
(* because others release them: a flusher waits a second or more between   *)
(* passes.  Nothing says when an interval is over.                         *)
Fairness ==
    /\ \A t \in Threads : SF_vars(~ Terminated /\ Running(t))
    /\ \A w \in Workers : SF_vars(~ Terminated /\ Working(w))

FairSpec == Spec /\ Fairness

-----------------------------------------------------------------------------
Places == {"idle", "initialize", "clear", "notify", "join", "drop_all", "release_pool"}
Loggers == 1 .. Len(all)
AllLevels == Levels \cup {Info, Off}

TypeOK ==
    /\ active_ \in [Workers -> BOOLEAN]
    /\ wpc \in [Workers -> {"none", "lock", "wait", "timeout", "callback", "flushing",
                             "terminate", "gone"}]
    /\ constructed \in 0 .. MaxWorkers
    /\ loggers_ \in [Names -> 0 .. Len(all)]
    /\ default_logger_ \in 0 .. Len(all)
    /\ all \in Seq([name : Names, level : AllLevels, flush : AllLevels, pool : Nat])
    /\ \A n \in Names : loggers_[n] # 0 => all[loggers_[n]].name = n
    /\ log_levels_ \in [Names -> Levels \cup {NoLevel}]
    /\ global_log_level_ \in AllLevels /\ flush_level_ \in AllLevels
    /\ automatic_registration_ \in BOOLEAN
    /\ periodic_flusher_ \in 0 .. constructed
    /\ pools \in Nat /\ tp_ \in 0 .. pools
    /\ pc \in [Threads -> Places]
    /\ \A t \in Threads :
          /\ pc[t] = "initialize" => arg[t] \in Names /\ tp_ # 0
          /\ pc[t] \in {"clear", "notify", "join"} => arg[t] \in 1 .. constructed
    /\ shutting \in [Threads -> BOOLEAN]
    /\ todo \subseteq Names

(* The default logger is kept twice, as a pointer and in the map: whatever *)
(* sequence of set_default_logger, register_logger, drop, drop_all and     *)
(* shutdown, the map has it under its name (registry-inl.h:110-126,        *)
(* 227-242).                                                               *)
DefaultIsRegistered ==
    default_logger_ # 0 => loggers_[all[default_logger_].name] = default_logger_

(* A logger that the registry made has the settings that one made now      *)
(* would get, however creations and changes were interleaved; except for   *)
(* its level where set_level has overridden an entry of the table, or the  *)
(* table it was in has been replaced (registry-inl.h:61-87, 172-190,       *)
(* 271-290).                                                               *)
SettingsAgree ==
    \A n \in Names :
        LET l == loggers_[n]
        IN  l \notin byHand \cup {0} =>
                /\ all[l].flush = flush_level_
                /\ l \notin overridden => all[l].level = LevelFor(n)

(* A flusher's thread runs only while the registry owns its worker or a     *)
(* thread is waiting for it to stop: when flush_every or shutdown returns,  *)
(* the previous flusher is gone and will not flush again                    *)
(* (registry-inl.h:192-197, 247-250; periodic_worker-inl.h:35-46).          *)
FlusherIsOwned ==
    \A w \in Workers :
        wpc[w] \notin {"none", "gone", "terminate"} =>
            \/ w = periodic_flusher_
            \/ \E t \in Threads : pc[t] \in {"clear", "notify", "join"} /\ arg[t] = w

(* "clean all resources and threads started by the registry": when shutdown *)
(* returns, what was registered when it was called is not, unless somebody  *)
(* has registered it again, the flusher is gone and so is the pool          *)
(* (registry-inl.h:245-258).                                                *)
ShutdownCleans ==
    [][\A t \in Threads : shutting[t] /\ ~ shutting'[t] =>
          /\ before[t].loggers \cap Registered' = {}
          /\ default_logger_' \notin before[t].loggers
          /\ before[t].worker # 0 => wpc'[before[t].worker] \in {"none", "gone"}
          /\ before[t].pool # 0 => tp_' # before[t].pool]_vars

(* Every call of the registry returns, shutdown and flush_every among them, *)
(* without waiting for an interval to end (periodic_worker-inl.h:37-45).    *)
CallsReturn == \A t \in Threads : (pc[t] # "idle") ~> (pc[t] = "idle" \/ Terminated)

(* "Flush all *registered* loggers using a worker thread every 3 seconds."  *)
(* (example/example.cpp:100): a pass of the flusher reaches every logger.   *)
PassesComplete == \A w \in Workers : wpc[w] # "terminate"
=============================================================================
