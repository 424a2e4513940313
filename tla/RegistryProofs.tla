--------------------------- MODULE RegistryProofs ---------------------------
(***************************************************************************)
(* Theorems about the registry, for any threads, names, levels and tables  *)
(* and any number of calls, loggers, pools and flushers.                   *)
(*                                                                         *)
(* The invariant has four parts that are inductive one after the other:    *)
(* the settings for new loggers; the loggers, pools and their map; the     *)
(* flushers and the threads that stop them; and what a shutdown has        *)
(* cleaned.  That the settings agree is a fifth.                           *)
(***************************************************************************)
EXTENDS Registry, SequenceTheorems, TLAPS

Logger == [name : Names, level : AllLevels, flush : AllLevels, pool : Nat]

ConfigOK ==
    /\ log_levels_ \in [Names -> Levels \cup {NoLevel}]
    /\ global_log_level_ \in AllLevels /\ flush_level_ \in AllLevels
    /\ automatic_registration_ \in BOOLEAN

PoolOK ==
    /\ pools \in Nat /\ tp_ \in 0 .. pools
    /\ pc \in [Threads -> Places]
    /\ \A t \in Threads : pc[t] = "initialize" => arg[t] \in Names /\ tp_ # 0

MapOK ==
    /\ all \in Seq(Logger)
    /\ loggers_ \in [Names -> 0 .. Len(all)]
    /\ default_logger_ \in 0 .. Len(all)
    /\ \A n \in Names : loggers_[n] # 0 => all[loggers_[n]].name = n
    /\ todo \subseteq Names

WorkerOK ==
    /\ active_ \in [Workers -> BOOLEAN]
    /\ wpc \in [Workers -> {"none", "lock", "wait", "timeout", "callback", "flushing",
                             "terminate", "gone"}]
    /\ constructed \in 0 .. MaxWorkers
    /\ periodic_flusher_ \in 0 .. constructed
    /\ pc \in [Threads -> Places]
    /\ arg = [t \in Threads |-> arg[t]]
    /\ shutting \in [Threads -> BOOLEAN]
    /\ \A t \in Threads : pc[t] \in {"clear", "notify", "join"} => arg[t] \in 1 .. constructed

-----------------------------------------------------------------------------
(* The settings for loggers to come keep their types (registry.h:94-101).  *)
LEMMA ConfigStep ==
    ASSUME ConfigOK, [Next]_vars
    PROVE  ConfigOK'
<1> USE DEF ConfigOK
<1>1. CASE UNCHANGED vars
  BY <1>1 DEF vars, configVars
<1>2. ASSUME NEW t \in Threads, Calling(t)
      PROVE  ConfigOK'
  <2>1. CASE \E n \in Names : Create(t, n) \/ CreateAsync(t, n) \/ MakeLogger(t, n) \/ Drop(t, n)
    BY <2>1 DEF Create, CreateAsync, MakeLogger, Drop, Initialize, Registering, configVars
  <2>2. CASE \E l \in 1 .. Len(all) : RegisterLogger(t, l) \/ SetDefaultLogger(t, l)
    BY <2>2 DEF RegisterLogger, SetDefaultLogger, Registering, configVars
  <2>3. CASE SetNoDefaultLogger(t) \/ DropAll(t)
    BY <2>3 DEF SetNoDefaultLogger, DropAll, Registering, configVars
  <2>4. CASE \E level \in Levels : SetLevel(t, level) \/ FlushOn(t, level)
    BY <2>4 DEF SetLevel, FlushOn, AllLevels
  <2>5. CASE \E table \in Tables, global \in Levels \cup {NoLevel} : SetLevels(t, table, global)
    BY <2>5, RegistryAssumption DEF SetLevels, AllLevels
  <2>6. CASE \E on \in BOOLEAN : SetAutomaticRegistration(t, on)
    BY <2>6 DEF SetAutomaticRegistration
  <2>7. CASE InitThreadPool(t) \/ Shutdown(t) \/ \E interval \in {0, 1} : FlushEvery(t, interval)
    BY <2>7 DEF InitThreadPool, Shutdown, FlushEvery, configVars
  <2> QED BY <1>2, <2>1, <2>2, <2>3, <2>4, <2>5, <2>6, <2>7 DEF Calling
<1>3. ASSUME NEW t \in Threads, Running(t) \/ SinkThrows(t)
      PROVE  ConfigOK'
  BY <1>3 DEF Running, SinkThrows, InitializeAsync, Initialize, StopClear, StopNotify, StopJoin,
              ShutdownMap, ShutdownPool, configVars
<1>4. ASSUME NEW w \in Workers, Working(w) \/ Waiting(w)
      PROVE  ConfigOK'
  BY <1>4 DEF Working, Looping, Waiting, BeginPass, FlushLogger, FlushThrows, EndPass, configVars
<1> QED BY <1>1, <1>2, <1>3, <1>4 DEF Next, Step, Stopped

(* A pool is there from when a factory has found or made it until the      *)
(* factory gives up the pool's mutex (async.h:44-57).                      *)
LEMMA PoolStep ==
    ASSUME PoolOK, arg = [t \in Threads |-> arg[t]], [Next]_vars
    PROVE  PoolOK'
<1> USE DEF PoolOK
<1>1. CASE UNCHANGED vars
  BY <1>1 DEF vars, poolVars, placeVars
<1>2. ASSUME NEW t \in Threads, Calling(t)
      PROVE  PoolOK'
  <2>1. CASE \E n \in Names : Create(t, n) \/ MakeLogger(t, n) \/ Drop(t, n)
    BY <2>1 DEF Create, MakeLogger, Drop, Atomic, Registering, poolVars, placeVars
  <2>2. CASE \E n \in Names : CreateAsync(t, n)
    BY <2>2 DEF CreateAsync, Goto, poolVars, Places
  <2>3. CASE \E l \in 1 .. Len(all) : RegisterLogger(t, l) \/ SetDefaultLogger(t, l)
    BY <2>3 DEF RegisterLogger, SetDefaultLogger, Registering, poolVars, placeVars
  <2>4. CASE SetNoDefaultLogger(t) \/ DropAll(t)
    BY <2>4 DEF SetNoDefaultLogger, DropAll, Registering, poolVars, placeVars
  <2>5. CASE \E level \in Levels : SetLevel(t, level) \/ FlushOn(t, level)
    BY <2>5 DEF SetLevel, FlushOn, Atomic, poolVars, placeVars
  <2>6. CASE \E table \in Tables, global \in Levels \cup {NoLevel} : SetLevels(t, table, global)
    BY <2>6 DEF SetLevels, Atomic, poolVars, placeVars
  <2>7. CASE \E on \in BOOLEAN : SetAutomaticRegistration(t, on)
    BY <2>7 DEF SetAutomaticRegistration, Atomic, poolVars, placeVars
  <2>8. CASE InitThreadPool(t)
    BY <2>8 DEF InitThreadPool, placeVars
  <2>9. CASE \E interval \in {0, 1} : FlushEvery(t, interval)
    BY <2>9 DEF FlushEvery, Goto, poolVars, placeVars, Places
  <2>10. CASE Shutdown(t)
    BY <2>10 DEF Shutdown, poolVars, Places
  <2> QED BY <1>2, <2>1, <2>2, <2>3, <2>4, <2>5, <2>6, <2>7, <2>8, <2>9, <2>10 DEF Calling
<1>3. ASSUME NEW t \in Threads, Running(t) \/ SinkThrows(t)
      PROVE  PoolOK'
  <2>1. CASE InitializeAsync(t) \/ SinkThrows(t)
    BY <2>1 DEF InitializeAsync, SinkThrows, Goto, poolVars, Places
  <2>2. CASE StopClear(t) \/ StopNotify(t) \/ StopJoin(t)
    BY <2>2 DEF StopClear, StopNotify, StopJoin, Goto, poolVars, Places
  <2>3. CASE ShutdownMap(t)
    BY <2>3 DEF ShutdownMap, Goto, poolVars, Places
  <2>4. CASE ShutdownPool(t)
    BY <2>4 DEF ShutdownPool, PoolFree, Places
  <2> QED BY <1>3, <2>1, <2>2, <2>3, <2>4 DEF Running
<1>4. ASSUME NEW w \in Workers, Working(w) \/ Waiting(w)
      PROVE  PoolOK'
  BY <1>4 DEF Working, Looping, Waiting, BeginPass, FlushLogger, FlushThrows, EndPass,
              poolVars, placeVars
<1> QED BY <1>1, <1>2, <1>3, <1>4 DEF Next, Step, Stopped

-----------------------------------------------------------------------------
(* A logger is made: it has the next number, the others stay as they are.  *)
LEMMA MadeFacts ==
    ASSUME MapOK, NEW r \in Logger, all' = Append(all, r)
    PROVE  /\ Len(all) \in Nat /\ Len(all') = Len(all) + 1
           /\ all' \in Seq(Logger)
           /\ \A l \in 1 .. Len(all) : all'[l] = all[l]
           /\ all'[Len(all) + 1] = r
  BY AppendProperties, LenProperties DEF MapOK

(* A loop over the registered loggers changes these and no other.          *)
LEMMA LoopFacts ==
    ASSUME MapOK, NEW changed, ForRegistered(changed),
           \A l \in Registered : changed[l] \in Logger
    PROVE  /\ all' \in Seq(Logger) /\ Len(all') = Len(all)
           /\ \A l \in 1 .. Len(all) :
                 all'[l] = IF l \in Registered THEN changed[l] ELSE all[l]
<1>1. Len(all) \in Nat /\ \A l \in 1 .. Len(all) : all[l] \in Logger
  BY ElementOfSeq, LenProperties DEF MapOK
<1>2. all' = [l \in 1 .. Len(all) |-> IF l \in Registered THEN changed[l] ELSE all[l]]
  BY DEF ForRegistered
<1>3. all' \in [1 .. Len(all) -> Logger]
  BY <1>1, <1>2
<1>4. all' \in Seq(Logger) /\ Len(all') = Len(all)
  BY <1>1, <1>3
<1> QED BY <1>2, <1>4

(* What is in the map is a logger of that name. *)
LEMMA RegisteredFacts ==
    ASSUME MapOK
    PROVE  /\ Len(all) \in Nat
           /\ \A l \in 1 .. Len(all) : all[l] \in Logger
           /\ \A l \in Registered : l \in 1 .. Len(all) /\ loggers_[all[l].name] = l
<1>1. Len(all) \in Nat /\ \A l \in 1 .. Len(all) : all[l] \in Logger
  BY ElementOfSeq, LenProperties DEF MapOK
<1> QED BY <1>1 DEF MapOK, Registered

(* The invariant of the map: it is well-formed and has the default logger. *)
MapInv == MapOK /\ DefaultIsRegistered

(* initialize_logger keeps it (registry-inl.h:61-87). *)
LEMMA InitializeStep ==
    ASSUME MapInv, ConfigOK, NEW name \in Names, NEW pool \in Nat,
           Initialize(name, pool), UNCHANGED todo
    PROVE  MapInv'
<1> USE DEF MapInv
<1>1. CASE UNCHANGED <<all, loggers_>>
  BY <1>1 DEF Initialize, MapOK, DefaultIsRegistered
<1>2. CASE ~ (automatic_registration_ /\ loggers_[name] # 0)
  <2> DEFINE r == [name |-> name, level |-> LevelFor(name), flush |-> flush_level_, pool |-> pool]
  <2>1. r \in Logger
    BY DEF Logger, LevelFor, ConfigOK, AllLevels
  <2>2. all' = Append(all, r) /\ r.name = name
    BY <1>2 DEF Initialize
  <2>3. /\ Len(all) \in Nat /\ Len(all') = Len(all) + 1
        /\ all' \in Seq(Logger)
        /\ \A l \in 1 .. Len(all) : all'[l] = all[l]
        /\ all'[Len(all) + 1] = r
    BY <2>1, <2>2, MadeFacts
  <2> HIDE DEF r
  <2>4. loggers_' \in {loggers_, [loggers_ EXCEPT ![name] = Len(all) + 1]}
    BY <1>2, <2>3 DEF Initialize
  <2>5. MapOK'
    <3>1. UNCHANGED <<default_logger_, todo>>
      BY DEF Initialize
    <3>2. loggers_' \in [Names -> 0 .. Len(all')]
      BY <2>3, <2>4 DEF MapOK
    <3>3. \A n \in Names : loggers_'[n] # 0 => all'[loggers_'[n]].name = n
      <4> SUFFICES ASSUME NEW n \in Names, loggers_'[n] # 0
                   PROVE  all'[loggers_'[n]].name = n
        OBVIOUS
      <4>1. CASE loggers_'[n] = loggers_[n]
        BY <2>3, <4>1 DEF MapOK
      <4>2. CASE loggers_'[n] # loggers_[n]
        <5>1. n = name /\ loggers_'[n] = Len(all) + 1
          BY <2>4, <4>2 DEF MapOK
        <5> QED BY <2>2, <2>3, <5>1
      <4> QED BY <4>1, <4>2
    <3> QED BY <2>3, <3>1, <3>2, <3>3 DEF MapOK
  <2>6. DefaultIsRegistered'
    <3> SUFFICES ASSUME default_logger_ # 0
                 PROVE  loggers_'[all'[default_logger_].name] = default_logger_
      BY DEF DefaultIsRegistered, Initialize
    <3>1. default_logger_ \in 1 .. Len(all) /\ all[default_logger_].name \in Names
      <4>1. default_logger_ \in 1 .. Len(all)
        BY <2>3 DEF MapOK
      <4> QED BY <4>1, RegisteredFacts DEF Logger
    <3>2. loggers_[all[default_logger_].name] = default_logger_
      BY DEF DefaultIsRegistered
    <3>3. CASE loggers_' = loggers_
      BY <2>3, <3>1, <3>2, <3>3
    <3>4. CASE loggers_' # loggers_
      <4>1. loggers_[name] = 0
        BY <1>2, <3>4 DEF Initialize, ConfigOK
      <4> QED BY <2>3, <2>4, <3>1, <3>2, <4>1 DEF MapOK
    <3> QED BY <3>3, <3>4
  <2> QED BY <2>5, <2>6
<1> QED BY <1>1, <1>2 DEF Initialize

(* Loggers that change their settings keep their names. *)
LEMMA LoopStep ==
    ASSUME MapInv, NEW changed, ForRegistered(changed),
           \A l \in Registered : changed[l] \in Logger /\ changed[l].name = all[l].name,
           UNCHANGED <<loggers_, default_logger_, todo>>
    PROVE  MapInv'
<1>1. /\ all' \in Seq(Logger) /\ Len(all') = Len(all)
      /\ \A l \in 1 .. Len(all) :
            all'[l] = IF l \in Registered THEN changed[l] ELSE all[l]
  BY LoopFacts DEF MapInv
<1>2. \A l \in 1 .. Len(all) : all'[l].name = all[l].name
  BY <1>1
<1>3. Len(all) \in Nat
  BY LenProperties DEF MapInv, MapOK
<1> QED BY <1>1, <1>2, <1>3 DEF MapInv, MapOK, DefaultIsRegistered

(* Loggers that the registry does not know yet may come to be. *)
LEMMA MakeLoggerStep ==
    ASSUME MapInv, NEW t \in Threads, NEW name \in Names, MakeLogger(t, name)
    PROVE  MapInv'
<1> DEFINE r == [name |-> name, level |-> Info, flush |-> Off, pool |-> 0]
<1>1. r \in Logger /\ all' = Append(all, r) /\ UNCHANGED <<loggers_, default_logger_, todo>>
  BY DEF MakeLogger, Logger, AllLevels
<1>2. /\ Len(all) \in Nat /\ Len(all') = Len(all) + 1
      /\ all' \in Seq(Logger)
      /\ \A l \in 1 .. Len(all) : all'[l] = all[l]
  BY <1>1, MadeFacts DEF MapInv
<1> QED BY <1>1, <1>2 DEF MapInv, MapOK, DefaultIsRegistered

(* Each entry of the map that changes is emptied or gets a logger of its   *)
(* name; the default logger stays, loses its entry and its place as the    *)
(* default, or is the one that is put in the map.                          *)
LEMMA EntriesStep ==
    ASSUME MapInv, UNCHANGED <<all, todo>>,
           loggers_' \in [Names -> 0 .. Len(all)], default_logger_' \in 0 .. Len(all),
           \A n \in Names : loggers_'[n] \notin {0, loggers_[n]} => all[loggers_'[n]].name = n,
           default_logger_' # 0 => loggers_'[all[default_logger_'].name] = default_logger_'
    PROVE  MapInv'
  BY DEF MapInv, MapOK, DefaultIsRegistered

(* The operations that register and drop loggers.                          *)
LEMMA RegisteringStep ==
    ASSUME MapInv, NEW t \in Threads,
           \/ \E n \in Names : Drop(t, n)
           \/ \E l \in 1 .. Len(all) : RegisterLogger(t, l) \/ SetDefaultLogger(t, l)
           \/ SetNoDefaultLogger(t) \/ DropAll(t) \/ ShutdownMap(t)
    PROVE  MapInv'
<1>1. /\ Len(all) \in Nat
      /\ \A l \in 1 .. Len(all) : all[l].name \in Names
      /\ loggers_ \in [Names -> 0 .. Len(all)] /\ default_logger_ \in 0 .. Len(all)
      /\ default_logger_ # 0 => loggers_[all[default_logger_].name] = default_logger_
  BY RegisteredFacts DEF MapInv, Logger, MapOK, DefaultIsRegistered
<1>2. UNCHANGED <<all, todo>>
  BY DEF Drop, RegisterLogger, SetDefaultLogger, SetNoDefaultLogger, DropAll, ShutdownMap,
         Registering
<1>3. ASSUME NEW n \in Names, Drop(t, n)
      PROVE  MapInv'
  BY <1>1, <1>2, <1>3, EntriesStep DEF Drop, Erase
<1>4. ASSUME NEW l \in 1 .. Len(all), RegisterLogger(t, l)
      PROVE  MapInv'
  <2>1. /\ loggers_[all[l].name] = 0
        /\ loggers_' = [loggers_ EXCEPT ![all[l].name] = l] /\ UNCHANGED default_logger_
    BY <1>4 DEF RegisterLogger
  <2> QED BY <1>1, <1>2, <2>1, EntriesStep
<1>5. ASSUME NEW l \in 1 .. Len(all), SetDefaultLogger(t, l)
      PROVE  MapInv'
  <2>1. loggers_' = [DefaultErased EXCEPT ![all[l].name] = l] /\ default_logger_' = l
    BY <1>5 DEF SetDefaultLogger
  <2>2. /\ DefaultErased \in [Names -> 0 .. Len(all)]
        /\ \A n \in Names : DefaultErased[n] \in {0, loggers_[n]}
    BY <1>1 DEF DefaultErased, Erase
  <2> QED BY <1>1, <1>2, <2>1, <2>2, EntriesStep
<1>6. CASE SetNoDefaultLogger(t)
  <2>1. loggers_' = DefaultErased /\ default_logger_' = 0
    BY <1>6 DEF SetNoDefaultLogger
  <2> QED BY <1>1, <1>2, <2>1, EntriesStep DEF DefaultErased, Erase
<1>7. CASE DropAll(t) \/ ShutdownMap(t)
  <2>1. loggers_' = [n \in Names |-> 0] /\ default_logger_' = 0
    BY <1>7 DEF DropAll, ShutdownMap, ClearMap
  <2> QED BY <1>1, <1>2, <2>1, EntriesStep
<1> QED BY <1>3, <1>4, <1>5, <1>6, <1>7

(* The operations that change the settings of all loggers.                 *)
LEMMA SettingStep ==
    ASSUME MapInv, NEW t \in Threads,
           \/ \E level \in Levels : SetLevel(t, level) \/ FlushOn(t, level)
           \/ \E table \in Tables, global \in Levels \cup {NoLevel} : SetLevels(t, table, global)
    PROVE  MapInv'
<1>1. UNCHANGED <<loggers_, default_logger_, todo>>
  BY DEF SetLevel, FlushOn, SetLevels, Atomic
<1>2. \A l \in Registered : all[l] \in Logger
  BY RegisteredFacts DEF MapInv
<1>3. ASSUME NEW level \in Levels, SetLevel(t, level)
      PROVE  MapInv'
  <2> DEFINE changed == [l \in Registered |-> [all[l] EXCEPT !.level = level]]
  <2>1. \A l \in Registered : changed[l] \in Logger /\ changed[l].name = all[l].name
    BY <1>2 DEF Logger, AllLevels
  <2>2. ForRegistered(changed)
    BY <1>3 DEF SetLevel
  <2> HIDE DEF changed
  <2> QED BY <1>1, <2>1, <2>2, LoopStep
<1>4. ASSUME NEW level \in Levels, FlushOn(t, level)
      PROVE  MapInv'
  <2> DEFINE changed == [l \in Registered |-> [all[l] EXCEPT !.flush = level]]
  <2>1. \A l \in Registered : changed[l] \in Logger /\ changed[l].name = all[l].name
    BY <1>2 DEF Logger, AllLevels
  <2>2. ForRegistered(changed)
    BY <1>4 DEF FlushOn
  <2> HIDE DEF changed
  <2> QED BY <1>1, <2>1, <2>2, LoopStep
<1>5. ASSUME NEW table \in Tables, NEW global \in Levels \cup {NoLevel}, SetLevels(t, table, global)
      PROVE  MapInv'
  <2> DEFINE level(l) == IF table[all[l].name] # NoLevel THEN table[all[l].name]
                         ELSE IF global # NoLevel THEN global ELSE all[l].level
             changed == [l \in Registered |-> [all[l] EXCEPT !.level = level(l)]]
  <2>1. \A l \in Registered : level(l) \in AllLevels
    BY <1>2, RegistryAssumption DEF Logger, AllLevels
  <2>2. ForRegistered(changed)
    BY <1>5 DEF SetLevels
  <2> HIDE DEF level
  <2>3. \A l \in Registered : changed[l] \in Logger /\ changed[l].name = all[l].name
    BY <1>2, <2>1 DEF Logger
  <2> HIDE DEF changed
  <2> QED BY <1>1, <2>2, <2>3, LoopStep
<1> QED BY <1>3, <1>4, <1>5

(* The map stays well-formed and has the default logger, whatever is        *)
(* called (registry-inl.h:55-126, 141-242).                                 *)
LEMMA MapStep ==
    ASSUME MapInv, ConfigOK, PoolOK, [Next]_vars
    PROVE  MapInv'
<1>1. CASE UNCHANGED <<mapVars, todo>>
  BY <1>1 DEF mapVars, MapInv, MapOK, DefaultIsRegistered
<1>2. ASSUME NEW t \in Threads, Calling(t)
      PROVE  MapInv'
  <2>1. CASE \E n \in Names : Create(t, n)
    <3>1. PICK n \in Names : Create(t, n)
      BY <2>1
    <3> QED BY <3>1, InitializeStep DEF Create, Atomic
  <2>2. CASE \E n \in Names : MakeLogger(t, n)
    BY <2>2, MakeLoggerStep
  <2>3. CASE \/ \E n \in Names : Drop(t, n)
             \/ \E l \in 1 .. Len(all) : RegisterLogger(t, l) \/ SetDefaultLogger(t, l)
             \/ SetNoDefaultLogger(t) \/ DropAll(t)
    BY <2>3, RegisteringStep
  <2>4. CASE \/ \E level \in Levels : SetLevel(t, level) \/ FlushOn(t, level)
             \/ \E table \in Tables, global \in Levels \cup {NoLevel} :
                   SetLevels(t, table, global)
    BY <2>4, SettingStep
  <2>5. CASE (\E n \in Names : CreateAsync(t, n)) \/ InitThreadPool(t) \/ Shutdown(t)
    BY <1>1, <2>5 DEF CreateAsync, InitThreadPool, Shutdown
  <2>6. CASE \/ \E on \in BOOLEAN : SetAutomaticRegistration(t, on)
             \/ \E interval \in {0, 1} : FlushEvery(t, interval)
    BY <1>1, <2>6 DEF SetAutomaticRegistration, FlushEvery, Atomic
  <2> QED BY <1>2, <2>1, <2>2, <2>3, <2>4, <2>5, <2>6 DEF Calling
<1>3. ASSUME NEW t \in Threads, Running(t) \/ SinkThrows(t)
      PROVE  MapInv'
  <2>1. CASE InitializeAsync(t)
    <3>1. Initialize(arg[t], tp_) /\ arg[t] \in Names /\ tp_ \in Nat /\ UNCHANGED todo
      BY <2>1 DEF InitializeAsync, PoolOK
    <3> QED BY <3>1, InitializeStep
  <2>2. CASE ShutdownMap(t)
    BY <2>2, RegisteringStep
  <2>3. CASE StopClear(t) \/ StopNotify(t) \/ StopJoin(t) \/ ShutdownPool(t) \/ SinkThrows(t)
    BY <1>1, <2>3 DEF StopClear, StopNotify, StopJoin, ShutdownPool, SinkThrows
  <2> QED BY <1>3, <2>1, <2>2, <2>3 DEF Running
<1>4. ASSUME NEW w \in Workers, Working(w) \/ Waiting(w)
      PROVE  MapInv'
  <2>1. UNCHANGED mapVars /\ todo' \subseteq Names
    BY <1>4 DEF Working, Looping, Waiting, BeginPass, FlushLogger, FlushThrows, EndPass,
                MapInv, MapOK
  <2> QED BY <2>1 DEF mapVars, MapInv, MapOK, DefaultIsRegistered
<1> QED BY <1>1, <1>2, <1>3, <1>4 DEF Next, Step, Stopped, vars

-----------------------------------------------------------------------------
(* The invariant of the flushers: a thread that runs has an owner.         *)
WorkerInv == WorkerOK /\ FlusherIsOwned

Stops(t, w) == pc[t] \in {"clear", "notify", "join"} /\ arg[t] = w

(* A step of a thread that does not stop a flusher, before or after.       *)
LEMMA ElsewhereStep ==
    ASSUME WorkerInv, NEW t \in Threads, NEW place, NEW value,
           UNCHANGED <<workerVars, periodic_flusher_, shutting>>,
           pc[t] \notin {"clear", "notify", "join"},
           pc' = [pc EXCEPT ![t] = place], arg' = [arg EXCEPT ![t] = value],
           place \in Places \ {"clear", "notify", "join"}
    PROVE  WorkerInv'
<1>1. WorkerOK'
  BY DEF WorkerInv, WorkerOK, workerVars
<1>2. FlusherIsOwned'
  BY DEF WorkerInv, WorkerOK, workerVars, FlusherIsOwned
<1> QED BY <1>1, <1>2 DEF WorkerInv

(* A flusher is replaced: either it has no thread, or the thread of the     *)
(* call will stop it (registry-inl.h:192-197, 247-250).                    *)
LEMMA ReplacedStep ==
    ASSUME WorkerInv, NEW t \in Threads,
           (\E interval \in {0, 1} : FlushEvery(t, interval)) \/ Shutdown(t)
    PROVE  WorkerInv'
<1>1. pc[t] = "idle"
  BY DEF FlushEvery, Shutdown, Call
<1>2. /\ constructed \in Nat /\ MaxWorkers \in Nat
      /\ constructed' \in {constructed, constructed + 1}
      /\ constructed' <= MaxWorkers
      /\ periodic_flusher_' \in {0, constructed'}
      /\ \A w \in Workers : w # constructed' \/ constructed' = constructed
            => wpc'[w] = wpc[w]
  BY RegistryAssumption DEF FlushEvery, Shutdown, ConstructWorker, WorkerInv, WorkerOK, workerVars,
     Workers
<1>3. /\ active_' \in [Workers -> BOOLEAN]
      /\ wpc' \in [Workers -> {"none", "lock", "wait", "timeout", "callback", "flushing",
                                "terminate", "gone"}]
  <2>1. CASE Shutdown(t)
    BY <2>1 DEF Shutdown, WorkerInv, WorkerOK, workerVars
  <2>2. ASSUME NEW interval \in {0, 1}, FlushEvery(t, interval)
        PROVE  /\ active_' \in [Workers -> BOOLEAN]
               /\ wpc' \in [Workers -> {"none", "lock", "wait", "timeout", "callback",
                                         "flushing", "terminate", "gone"}]
    <3>1. ConstructWorker(interval) /\ interval \in Int /\ (interval > 0) \in BOOLEAN
      BY <2>2 DEF FlushEvery
    <3>2. active_' = [active_ EXCEPT ![constructed'] = interval > 0]
      BY <3>1 DEF ConstructWorker
    <3>3. wpc' = [wpc EXCEPT ![constructed'] = IF interval > 0 THEN "lock" ELSE "none"]
      BY <3>1 DEF ConstructWorker
    <3>4. active_' \in [Workers -> BOOLEAN]
      BY <3>1, <3>2, Zenon DEF WorkerInv, WorkerOK
    <3>5. wpc' \in [Workers -> {"none", "lock", "wait", "timeout", "callback",
                                "flushing", "terminate", "gone"}]
      BY <3>3 DEF WorkerInv, WorkerOK
    <3> QED BY <3>4, <3>5
  <2> QED BY <2>1, <2>2
<1>4. /\ pc' \in [Threads -> Places] /\ arg' = [s \in Threads |-> arg'[s]]
      /\ shutting' \in [Threads -> BOOLEAN]
      /\ \A s \in Threads \ {t} : pc'[s] = pc[s] /\ arg'[s] = arg[s]
  BY DEF FlushEvery, Shutdown, Goto, placeVars, WorkerInv, WorkerOK, Places
<1>5. pc'[t] \in {"clear", "notify", "join"} =>
          arg'[t] = periodic_flusher_ /\ periodic_flusher_ # 0
  BY <1>1 DEF FlushEvery, Shutdown, Goto, placeVars, WorkerInv, WorkerOK
<1>6. WorkerOK'
  BY <1>2, <1>3, <1>4, <1>5 DEF WorkerInv, WorkerOK
<1>7. FlusherIsOwned'
  <2> SUFFICES ASSUME NEW w \in Workers, wpc'[w] \notin {"none", "gone", "terminate"}
               PROVE  w = periodic_flusher_' \/ \E s \in Threads : Stops(s, w)'
    BY DEF FlusherIsOwned, Stops
  <2>1. CASE constructed' # constructed /\ w = constructed'
    <3>1. periodic_flusher_' = constructed'
      BY <2>1 DEF FlushEvery, Shutdown, workerVars
    <3> QED BY <2>1, <3>1
  <2>2. CASE ~ (constructed' # constructed /\ w = constructed')
    <3>1. wpc'[w] = wpc[w]
      BY <1>2, <2>2
    <3>2. CASE w = periodic_flusher_
      <4>1. periodic_flusher_ # 0 /\ Joinable(periodic_flusher_)
        BY <3>1, <3>2, RegistryAssumption DEF Joinable, Workers
      <4>2. pc'[t] = "clear" /\ arg'[t] = periodic_flusher_
        BY <4>1 DEF FlushEvery, Shutdown, Goto, WorkerInv, WorkerOK
      <4> QED BY <3>2, <4>2 DEF Stops
    <3>3. CASE w # periodic_flusher_
      <4>1. PICK s \in Threads : Stops(s, w)
        BY <3>1, <3>3 DEF WorkerInv, FlusherIsOwned, Stops
      <4>2. s # t
        BY <1>1, <4>1 DEF Stops
      <4> QED BY <1>4, <4>1, <4>2 DEF Stops
    <3> QED BY <3>2, <3>3
  <2> QED BY <2>1, <2>2
<1> QED BY <1>6, <1>7 DEF WorkerInv

(* The destructor's steps; it has joined the thread when it returns         *)
(* (periodic_worker-inl.h:35-46).                                          *)
LEMMA StoppingStep ==
    ASSUME WorkerInv, NEW t \in Threads, StopClear(t) \/ StopNotify(t) \/ StopJoin(t)
    PROVE  WorkerInv'
<1>1. arg[t] \in 1 .. constructed /\ constructed \in 0 .. MaxWorkers /\ arg[t] \in Workers
  BY RegistryAssumption DEF StopClear, StopNotify, StopJoin, WorkerInv, WorkerOK, Workers
<1>2. CASE StopClear(t) \/ StopNotify(t)
  <2>1. /\ UNCHANGED <<constructed, periodic_flusher_, shutting>>
        /\ arg' = [arg EXCEPT ![t] = arg[t]]
        /\ \E place \in {"notify", "join"} : pc' = [pc EXCEPT ![t] = place]
    BY <1>2 DEF StopClear, StopNotify, ClearActive, Notify, Goto
  <2>2. /\ active_' \in [Workers -> BOOLEAN]
        /\ wpc' \in [Workers -> {"none", "lock", "wait", "timeout", "callback", "flushing",
                                  "terminate", "gone"}]
        /\ \A w \in Workers : wpc'[w] \notin {"none", "gone", "terminate"} =>
              wpc[w] \notin {"none", "gone", "terminate"}
    BY <1>2 DEF StopClear, StopNotify, ClearActive, Notify, WorkerInv, WorkerOK
  <2>3. WorkerOK'
    BY <1>1, <2>1, <2>2 DEF WorkerInv, WorkerOK, Places
  <2>4. \A s \in Threads, w \in Workers : Stops(s, w) => Stops(s, w)'
    BY <2>1 DEF Stops, WorkerInv, WorkerOK
  <2>5. FlusherIsOwned'
    BY <2>1, <2>2, <2>4 DEF WorkerInv, FlusherIsOwned, Stops
  <2> QED BY <2>3, <2>5 DEF WorkerInv
<1>3. CASE StopJoin(t)
  <2>1. /\ UNCHANGED <<workerVars, periodic_flusher_, shutting>>
        /\ arg' = [arg EXCEPT ![t] = 0]
        /\ \E place \in {"drop_all", "idle"} : pc' = [pc EXCEPT ![t] = place]
        /\ wpc[arg[t]] \in {"none", "gone"}
    BY <1>3 DEF StopJoin, Goto, Joined
  <2>2. WorkerOK'
    BY <2>1 DEF WorkerInv, WorkerOK, Places, workerVars
  <2>3. \A s \in Threads, w \in Workers : Stops(s, w) =>
            Stops(s, w)' \/ wpc[w] \in {"none", "gone"}
    BY <2>1 DEF Stops, WorkerInv, WorkerOK
  <2>4. FlusherIsOwned'
    BY <2>1, <2>3 DEF WorkerInv, FlusherIsOwned, Stops, workerVars
  <2> QED BY <2>2, <2>4 DEF WorkerInv
<1> QED BY <1>2, <1>3

(* The steps of a flusher's thread: none comes back once it has returned   *)
(* (periodic_worker-inl.h:21-31).                                          *)
LEMMA WorkingStep ==
    ASSUME WorkerInv, NEW w \in Workers, Working(w) \/ Waiting(w)
    PROVE  WorkerInv'
<1>1. UNCHANGED <<active_, constructed, periodic_flusher_, placeVars>>
  BY DEF Working, Waiting, Looping, BeginPass, FlushLogger, FlushThrows, EndPass, workerVars,
         Evaluate, AfterTimeout, WaitEnds
<1>2. /\ wpc' \in [Workers -> {"none", "lock", "wait", "timeout", "callback", "flushing",
                                "terminate", "gone"}]
      /\ \A v \in Workers : wpc'[v] \notin {"none", "gone", "terminate"} =>
            wpc[v] \notin {"none", "gone", "terminate"}
  BY DEF Working, Waiting, Looping, BeginPass, FlushLogger, FlushThrows, EndPass, workerVars,
         Evaluate, AfterTimeout, WaitEnds, CallbackReturns, WorkerInv, WorkerOK
<1> QED BY <1>1, <1>2 DEF WorkerInv, WorkerOK, FlusherIsOwned, placeVars

(* A flusher runs only while somebody owns it or waits for it.             *)
LEMMA WorkerStep ==
    ASSUME WorkerInv, [Next]_vars
    PROVE  WorkerInv'
<1>1. CASE UNCHANGED <<workerVars, periodic_flusher_, placeVars>>
  BY <1>1 DEF workerVars, placeVars, WorkerInv, WorkerOK, FlusherIsOwned
<1>2. ASSUME NEW t \in Threads, Calling(t)
      PROVE  WorkerInv'
  <2>1. CASE \E n \in Names : Create(t, n) \/ MakeLogger(t, n) \/ Drop(t, n)
    BY <1>1, <2>1 DEF Create, MakeLogger, Drop, Atomic, Registering
  <2>2. CASE \E n \in Names : CreateAsync(t, n)
    <3>1. PICK n \in Names : CreateAsync(t, n)
      BY <2>2
    <3>2. pc[t] = "idle" /\ Goto(t, "initialize", n)
      BY <3>1 DEF CreateAsync, Call
    <3> QED BY <3>1, <3>2, ElsewhereStep DEF CreateAsync, Goto, Places
  <2>3. CASE \/ \E l \in 1 .. Len(all) : RegisterLogger(t, l) \/ SetDefaultLogger(t, l)
             \/ SetNoDefaultLogger(t) \/ DropAll(t)
    BY <1>1, <2>3 DEF RegisterLogger, SetDefaultLogger, SetNoDefaultLogger, DropAll, Registering
  <2>4. CASE \/ \E level \in Levels : SetLevel(t, level) \/ FlushOn(t, level)
             \/ \E table \in Tables, global \in Levels \cup {NoLevel} :
                   SetLevels(t, table, global)
             \/ \E on \in BOOLEAN : SetAutomaticRegistration(t, on)
    BY <1>1, <2>4 DEF SetLevel, FlushOn, SetLevels, SetAutomaticRegistration, Atomic
  <2>5. CASE InitThreadPool(t)
    BY <1>1, <2>5 DEF InitThreadPool
  <2>6. CASE (\E interval \in {0, 1} : FlushEvery(t, interval)) \/ Shutdown(t)
    BY <2>6, ReplacedStep
  <2> QED BY <1>2, <2>1, <2>2, <2>3, <2>4, <2>5, <2>6 DEF Calling
<1>3. ASSUME NEW t \in Threads, Running(t) \/ SinkThrows(t)
      PROVE  WorkerInv'
  <2>1. CASE InitializeAsync(t) \/ SinkThrows(t)
    <3>1. pc[t] = "initialize" /\ Goto(t, "idle", 0) /\ UNCHANGED <<workerVars, periodic_flusher_>>
      BY <2>1 DEF InitializeAsync, SinkThrows
    <3> QED BY <3>1, ElsewhereStep DEF Goto, Places
  <2>2. CASE ShutdownMap(t)
    <3>1. pc[t] = "drop_all" /\ Goto(t, "release_pool", 0)
          /\ UNCHANGED <<workerVars, periodic_flusher_>>
      BY <2>2 DEF ShutdownMap
    <3> QED BY <3>1, ElsewhereStep DEF Goto, Places
  <2>3. CASE ShutdownPool(t)
    BY <2>3 DEF ShutdownPool, WorkerInv, WorkerOK, FlusherIsOwned, Places, workerVars
  <2>4. CASE StopClear(t) \/ StopNotify(t) \/ StopJoin(t)
    BY <2>4, StoppingStep
  <2> QED BY <1>3, <2>1, <2>2, <2>3, <2>4 DEF Running
<1>4. ASSUME NEW w \in Workers, Working(w) \/ Waiting(w)
      PROVE  WorkerInv'
  BY <1>4, WorkingStep
<1> QED BY <1>1, <1>2, <1>3, <1>4 DEF Next, Step, Stopped, vars

-----------------------------------------------------------------------------
(* Settings agree as before when the map gets no logger but ones that the  *)
(* user registers, and no logger in it changes.                            *)
LEMMA SettingsKept ==
    ASSUME SettingsAgree, UNCHANGED <<configVars, overridden>>, byHand \subseteq byHand',
           \A n \in Names : loggers_'[n] \in {0, loggers_[n]} \cup byHand',
           \A n \in Names : loggers_[n] # 0 => all'[loggers_[n]] = all[loggers_[n]]
    PROVE  SettingsAgree'
  BY DEF SettingsAgree, LevelFor, configVars

(* A logger is made with the settings of that moment, under the mutex      *)
(* (registry-inl.h:63-87).                                                 *)
LEMMA SettingsOfNew ==
    ASSUME MapInv, ConfigOK, SettingsAgree, NEW name \in Names, NEW pool \in Nat,
           Initialize(name, pool)
    PROVE  SettingsAgree'
<1>1. UNCHANGED <<configVars, byHand, overridden>>
  BY DEF Initialize
<1>2. CASE UNCHANGED <<all, loggers_>>
  BY <1>1, <1>2, SettingsKept
<1>3. CASE ~ (automatic_registration_ /\ loggers_[name] # 0)
  <2> DEFINE r == [name |-> name, level |-> LevelFor(name), flush |-> flush_level_, pool |-> pool]
  <2>1. r \in Logger /\ all' = Append(all, r) /\ r.level = LevelFor(name) /\ r.flush = flush_level_
    BY <1>3 DEF Initialize, Logger, LevelFor, ConfigOK, AllLevels
  <2> HIDE DEF r
  <2>2. /\ Len(all) \in Nat /\ Len(all') = Len(all) + 1
        /\ \A l \in 1 .. Len(all) : all'[l] = all[l]
        /\ all'[Len(all) + 1] = r
    BY <2>1, MadeFacts DEF MapInv
  <2>3. loggers_' \in {loggers_, [loggers_ EXCEPT ![name] = Len(all) + 1]}
    BY <1>3, <2>2 DEF Initialize
  <2>4. loggers_ \in [Names -> 0 .. Len(all)]
    BY DEF MapInv, MapOK
  <2>5. \A n \in Names : \/ loggers_'[n] = loggers_[n]
                         \/ n = name /\ loggers_'[n] = Len(all) + 1
    BY <2>3, <2>4
  <2>6. \A n \in Names : LevelFor(n)' = LevelFor(n)
    BY <1>1 DEF LevelFor, configVars
  <2> SUFFICES ASSUME NEW n \in Names, loggers_'[n] \notin byHand' \cup {0}
               PROVE  /\ all'[loggers_'[n]].flush = flush_level_'
                      /\ loggers_'[n] \notin overridden' =>
                            all'[loggers_'[n]].level = LevelFor(n)'
    BY DEF SettingsAgree
  <2>7. CASE loggers_'[n] = loggers_[n]
    BY <1>1, <2>2, <2>4, <2>6, <2>7 DEF SettingsAgree, configVars
  <2>8. CASE n = name /\ loggers_'[n] = Len(all) + 1
    BY <1>1, <2>1, <2>2, <2>6, <2>8 DEF configVars
  <2> QED BY <2>5, <2>7, <2>8
<1> QED BY <1>2, <1>3 DEF Initialize

(* The settings of all registered loggers change together with those for   *)
(* loggers to come (registry-inl.h:172-190, 271-290).                      *)
LEMMA SettingsChanged ==
    ASSUME MapInv, SettingsAgree, NEW t \in Threads,
           \/ \E level \in Levels : SetLevel(t, level) \/ FlushOn(t, level)
           \/ \E table \in Tables, global \in Levels \cup {NoLevel} : SetLevels(t, table, global)
    PROVE  SettingsAgree'
<1>1. UNCHANGED <<loggers_, byHand>>
  BY DEF SetLevel, FlushOn, SetLevels
<1>2. \A l \in Registered : all[l] \in Logger /\ l \in 1 .. Len(all)
  BY RegisteredFacts DEF MapInv
<1>3. \A n \in Names : loggers_[n] # 0 =>
          loggers_[n] \in Registered /\ all[loggers_[n]].name = n
  BY DEF Registered, MapInv, MapOK
<1> SUFFICES ASSUME NEW n \in Names, NEW l, l = loggers_[n], l \notin byHand \cup {0}
             PROVE  /\ all'[l].flush = flush_level_'
                    /\ l \notin overridden' => all'[l].level = LevelFor(n)'
  BY <1>1 DEF SettingsAgree
<1>4. /\ l \in Registered /\ l \in 1 .. Len(all) /\ all[l] \in Logger /\ all[l].name = n
      /\ all[l].flush = flush_level_
      /\ l \notin overridden => all[l].level = LevelFor(n)
  BY <1>2, <1>3 DEF SettingsAgree
<1>5. ASSUME NEW level \in Levels, SetLevel(t, level)
      PROVE  all'[l].flush = flush_level_' /\ (l \notin overridden' => all'[l].level = LevelFor(n)')
  <2>1. all'[l] = [all[l] EXCEPT !.level = level]
    BY <1>4, <1>5 DEF SetLevel, ForRegistered
  <2>2. all'[l].flush = all[l].flush /\ all'[l].level = level
    BY <1>4, <2>1 DEF Logger
  <2> QED BY <1>4, <1>5, <2>2 DEF SetLevel, LevelFor
<1>6. ASSUME NEW level \in Levels, FlushOn(t, level)
      PROVE  all'[l].flush = flush_level_' /\ (l \notin overridden' => all'[l].level = LevelFor(n)')
  <2>1. all'[l] = [all[l] EXCEPT !.flush = level]
    BY <1>4, <1>6 DEF FlushOn, ForRegistered
  <2>2. all'[l].flush = level /\ all'[l].level = all[l].level
    BY <1>4, <2>1 DEF Logger
  <2> QED BY <1>4, <1>6, <2>2 DEF FlushOn, LevelFor
<1>7. ASSUME NEW table \in Tables, NEW global \in Levels \cup {NoLevel}, SetLevels(t, table, global)
      PROVE  all'[l].flush = flush_level_' /\ (l \notin overridden' => all'[l].level = LevelFor(n)')
  <2> DEFINE new == IF table[all[l].name] # NoLevel THEN table[all[l].name]
                    ELSE IF global # NoLevel THEN global ELSE all[l].level
  <2>1. all'[l] = [all[l] EXCEPT !.level = new]
    BY <1>4, <1>7 DEF SetLevels, ForRegistered
  <2>2. all'[l].flush = all[l].flush /\ all'[l].level = new
    BY <1>4, <2>1 DEF Logger
  <2>3. /\ log_levels_' = table /\ UNCHANGED flush_level_
        /\ global_log_level_' = IF global # NoLevel THEN global ELSE global_log_level_
        /\ l \in overridden' <=> /\ table[n] = NoLevel /\ global = NoLevel
                                 /\ l \in overridden \/ log_levels_[n] # NoLevel
    BY <1>4, <1>7 DEF SetLevels
  <2> QED BY <1>4, <2>2, <2>3 DEF LevelFor
<1> QED BY <1>5, <1>6, <1>7

(* Whatever is called, the settings agree. *)
LEMMA SettingsStep ==
    ASSUME MapInv, ConfigOK, PoolOK, SettingsAgree, [Next]_vars
    PROVE  SettingsAgree'
<1>1. CASE UNCHANGED <<loggers_, all, configVars, byHand, overridden>>
  BY <1>1 DEF SettingsAgree, LevelFor, configVars
<1>2. /\ Len(all) \in Nat /\ loggers_ \in [Names -> 0 .. Len(all)]
      /\ \A l \in Registered : loggers_[all[l].name] = l
      /\ \A l \in 1 .. Len(all) : all[l].name \in Names
  BY RegisteredFacts DEF MapInv, MapOK, Logger
<1>3. ASSUME NEW t \in Threads, Calling(t)
      PROVE  SettingsAgree'
  <2>1. CASE \E n \in Names : Create(t, n)
    BY <2>1, SettingsOfNew DEF Create
  <2>2. CASE \E n \in Names : MakeLogger(t, n)
    <3>1. PICK n \in Names : MakeLogger(t, n)
      BY <2>2
    <3> DEFINE r == [name |-> n, level |-> Info, flush |-> Off, pool |-> 0]
    <3>2. r \in Logger /\ all' = Append(all, r)
          /\ UNCHANGED <<loggers_, configVars, byHand, overridden>>
      BY <3>1 DEF MakeLogger, Logger, AllLevels, history
    <3>3. \A l \in 1 .. Len(all) : all'[l] = all[l]
      BY <3>2, MadeFacts DEF MapInv
    <3> QED BY <1>2, <3>2, <3>3, SettingsKept
  <2>3. CASE (\E n \in Names : Drop(t, n)) \/ SetNoDefaultLogger(t) \/ DropAll(t)
    <3>1. UNCHANGED <<all, configVars, byHand, overridden>>
      BY <2>3 DEF Drop, SetNoDefaultLogger, DropAll, Registering, history
    <3>2. \A n \in Names : loggers_'[n] \in {0, loggers_[n]}
      BY <1>2, <2>3 DEF Drop, SetNoDefaultLogger, DropAll, Erase, DefaultErased, ClearMap
    <3> QED BY <3>1, <3>2, SettingsKept
  <2>4. ASSUME NEW l \in 1 .. Len(all), RegisterLogger(t, l) \/ SetDefaultLogger(t, l)
        PROVE  SettingsAgree'
    <3>1. /\ UNCHANGED <<all, configVars, overridden>>
          /\ byHand \subseteq byHand' /\ l \in Registered \cup byHand'
      BY <2>4 DEF RegisterLogger, SetDefaultLogger, Registering, RegisterByHand
    <3>2. /\ DOMAIN loggers_' = Names
          /\ \A n \in Names : \/ loggers_'[n] \in {0, loggers_[n]}
                              \/ n = all[l].name /\ loggers_'[n] = l
      BY <1>2, <2>4 DEF RegisterLogger, SetDefaultLogger, Erase, DefaultErased
    <3>3. \A n \in Names : loggers_'[n] \in {0, loggers_[n]} \cup byHand'
      BY <1>2, <3>1, <3>2
    <3> QED BY <3>1, <3>3, SettingsKept
  <2>5. CASE \/ \E level \in Levels : SetLevel(t, level) \/ FlushOn(t, level)
             \/ \E table \in Tables, global \in Levels \cup {NoLevel} :
                   SetLevels(t, table, global)
    BY <2>5, SettingsChanged
  <2>6. CASE \E on \in BOOLEAN : SetAutomaticRegistration(t, on)
    BY <2>6 DEF SetAutomaticRegistration, mapVars, SettingsAgree, LevelFor
  <2>7. CASE \/ (\E n \in Names : CreateAsync(t, n)) \/ InitThreadPool(t) \/ Shutdown(t)
             \/ \E interval \in {0, 1} : FlushEvery(t, interval)
    BY <1>1, <2>7 DEF CreateAsync, InitThreadPool, Shutdown, FlushEvery, mapVars, history
  <2> QED BY <1>3, <2>1, <2>2, <2>3, <2>4, <2>5, <2>6, <2>7 DEF Calling
<1>4. ASSUME NEW t \in Threads, Running(t) \/ SinkThrows(t)
      PROVE  SettingsAgree'
  <2>1. CASE InitializeAsync(t)
    <3>1. Initialize(arg[t], tp_) /\ arg[t] \in Names /\ tp_ \in Nat
      BY <2>1 DEF InitializeAsync, PoolOK
    <3> QED BY <3>1, SettingsOfNew
  <2>2. CASE ShutdownMap(t)
    <3>1. UNCHANGED <<all, configVars, byHand, overridden>> /\ \A n \in Names : loggers_'[n] = 0
      BY <2>2 DEF ShutdownMap, ClearMap, history
    <3> QED BY <3>1, SettingsKept
  <2>3. CASE StopClear(t) \/ StopNotify(t) \/ StopJoin(t) \/ ShutdownPool(t) \/ SinkThrows(t)
    BY <1>1, <2>3 DEF StopClear, StopNotify, StopJoin, ShutdownPool, SinkThrows, mapVars, history
  <2> QED BY <1>4, <2>1, <2>2, <2>3 DEF Running
<1>5. ASSUME NEW w \in Workers, Working(w) \/ Waiting(w)
      PROVE  SettingsAgree'
  BY <1>1, <1>5 DEF Working, Looping, Waiting, BeginPass, FlushLogger, FlushThrows, EndPass,
                    mapVars, history
<1> QED BY <1>1, <1>3, <1>4, <1>5 DEF Next, Step, Stopped, vars, mapVars, history

-----------------------------------------------------------------------------
(* What a shutdown in progress has cleaned stays clean while others go on: *)
(* its flusher's thread does not come back, and no logger that it has      *)
(* dropped comes back by itself.                                           *)
ShutdownInv ==
    /\ before \in [Threads -> [loggers : SUBSET (1 .. Len(all)), worker : 0 .. constructed,
                               pool : Nat]]
    /\ \A t \in Threads : shutting[t] =>
          /\ pc[t] \in {"clear", "notify", "join", "drop_all", "release_pool"}
          /\ pc[t] \in {"clear", "notify", "join"} => arg[t] = before[t].worker
          /\ pc[t] \in {"drop_all", "release_pool"} /\ before[t].worker # 0 =>
                wpc[before[t].worker] \in {"none", "gone"}
          /\ pc[t] = "release_pool" => before[t].loggers \cap Registered = {}

(* It survives what other threads do: no logger is forgotten, none that    *)
(* exists is registered without being taken from the list, and a thread    *)
(* that has returned is not started.                                       *)
LEMMA ShutdownKept ==
    ASSUME ShutdownInv, Len(all') >= Len(all), Len(all) \in Nat, Len(all') \in Nat,
           constructed \in Nat, constructed' \in Nat, constructed' >= constructed,
           before' \in [Threads -> [loggers : SUBSET (1 .. Len(all)), worker : 0 .. constructed,
                                    pool : Nat]],
           \A t \in Threads : shutting'[t] =>
              /\ shutting[t] /\ pc'[t] = pc[t] /\ arg'[t] = arg[t]
              /\ before'[t].worker = before[t].worker
              /\ before'[t].loggers \subseteq before[t].loggers
              /\ before'[t].loggers \cap Registered' \subseteq Registered,
           \A w \in 1 .. constructed :
              wpc[w] \in {"none", "gone"} => wpc'[w] \in {"none", "gone"}
    PROVE  ShutdownInv'
<1>1. before' \in [Threads -> [loggers : SUBSET (1 .. Len(all')), worker : 0 .. constructed',
                               pool : Nat]]
  <2> SUFFICES ASSUME NEW t \in Threads
               PROVE  before'[t] \in [loggers : SUBSET (1 .. Len(all')),
                                      worker : 0 .. constructed', pool : Nat]
    BY Zenon
  <2>1. before'[t] \in [loggers : SUBSET (1 .. Len(all)), worker : 0 .. constructed, pool : Nat]
    OBVIOUS
  <2>2. 1 .. Len(all) \subseteq 1 .. Len(all') /\ 0 .. constructed \subseteq 0 .. constructed'
    OBVIOUS
  <2> QED BY <2>1, <2>2
<1>2. ASSUME NEW t \in Threads, shutting'[t]
      PROVE  /\ pc'[t] \in {"clear", "notify", "join", "drop_all", "release_pool"}
             /\ pc'[t] \in {"clear", "notify", "join"} => arg'[t] = before'[t].worker
             /\ pc'[t] \in {"drop_all", "release_pool"} /\ before'[t].worker # 0 =>
                   wpc'[before'[t].worker] \in {"none", "gone"}
             /\ pc'[t] = "release_pool" => before'[t].loggers \cap Registered' = {}
  <2>1. /\ pc'[t] = pc[t] /\ arg'[t] = arg[t] /\ before'[t].worker = before[t].worker
        /\ before'[t].loggers \subseteq before[t].loggers
        /\ before'[t].loggers \cap Registered' \subseteq Registered
    BY <1>2
  <2>2. /\ pc[t] \in {"clear", "notify", "join", "drop_all", "release_pool"}
        /\ pc[t] \in {"clear", "notify", "join"} => arg[t] = before[t].worker
        /\ pc[t] \in {"drop_all", "release_pool"} /\ before[t].worker # 0 =>
              wpc[before[t].worker] \in {"none", "gone"}
        /\ pc[t] = "release_pool" => before[t].loggers \cap Registered = {}
    BY <1>2 DEF ShutdownInv
  <2>3. before[t].worker \in 0 .. constructed
    BY DEF ShutdownInv
  <2> QED BY <2>1, <2>2, <2>3
<1> QED BY <1>1, <1>2 DEF ShutdownInv

(* A step of a thread that is not in shutdown, or of a flusher: what it     *)
(* must do for the clean to stay clean.                                    *)
Undisturbed ==
    /\ Len(all') \in Nat /\ Len(all') >= Len(all)
    /\ \A l \in Registered' : l \in Registered \/ l > Len(all)
                              \/ \A t \in Threads : l \notin before'[t].loggers
    /\ \/ UNCHANGED before
       \/ \E l \in 1 .. Len(all) : RegisteredAgain(l)

(* A call of another operation is such a step (registry-inl.h:55-290).     *)
LEMMA CallUndisturbed ==
    ASSUME MapInv, ShutdownInv, NEW t \in Threads, Calling(t), ~ Shutdown(t)
    PROVE  Undisturbed
<1>1. /\ Len(all) \in Nat /\ loggers_ \in [Names -> 0 .. Len(all)]
      /\ \A l \in 1 .. Len(all) : all[l] \in Logger
  BY RegisteredFacts DEF MapInv, MapOK
<1>2. ASSUME UNCHANGED before, Len(all') = Len(all), Registered' \subseteq Registered
      PROVE  Undisturbed
  BY <1>1, <1>2 DEF Undisturbed
<1>3. CASE \E n \in Names : Create(t, n) \/ MakeLogger(t, n)
  <2>1. PICK n \in Names : Create(t, n) \/ MakeLogger(t, n)
    BY <1>3
  <2>2. UNCHANGED before
    BY <2>1 DEF Create, Atomic, MakeLogger, history
  <2>3. \/ UNCHANGED <<all, loggers_>>
        \/ /\ \E r : all' = Append(all, r)
           /\ Len(all') = Len(all) + 1
           /\ loggers_' \in {loggers_, [loggers_ EXCEPT ![n] = Len(all')]}
    BY <1>1, <2>1, AppendProperties DEF Create, MakeLogger, Initialize, MapInv, MapOK
  <2>4. CASE UNCHANGED <<all, loggers_>>
    BY <1>2, <2>2, <2>4 DEF Registered
  <2>5. CASE Len(all') = Len(all) + 1 /\ loggers_' \in {loggers_, [loggers_ EXCEPT ![n] = Len(all')]}
    <3>1. \A l \in Registered' : l \in Registered \/ l > Len(all)
      BY <1>1, <2>5 DEF Registered
    <3> QED BY <1>1, <2>2, <2>5, <3>1 DEF Undisturbed
  <2> QED BY <2>3, <2>4, <2>5
<1>4. CASE (\E n \in Names : Drop(t, n)) \/ SetNoDefaultLogger(t) \/ DropAll(t)
  <2>1. UNCHANGED <<all, before>>
    BY <1>4 DEF Drop, SetNoDefaultLogger, DropAll, Registering, history
  <2>2. \A n \in Names : loggers_'[n] \in {0, loggers_[n]}
    BY <1>1, <1>4 DEF Drop, SetNoDefaultLogger, DropAll, Erase, DefaultErased, ClearMap
  <2> QED BY <1>2, <2>1, <2>2 DEF Registered
<1>5. ASSUME NEW l \in 1 .. Len(all), RegisterLogger(t, l) \/ SetDefaultLogger(t, l)
      PROVE  Undisturbed
  <2>1. UNCHANGED all /\ RegisteredAgain(l)
    BY <1>5 DEF RegisterLogger, SetDefaultLogger, Registering, RegisterByHand
  <2>2. \A n \in Names : loggers_'[n] \in {0, loggers_[n], l}
    BY <1>1, <1>5 DEF RegisterLogger, SetDefaultLogger, Erase, DefaultErased
  <2>3. \A s \in Threads : l \notin before'[s].loggers
    BY <2>1 DEF RegisteredAgain, ShutdownInv
  <2>4. \A k \in Registered' : k \in Registered \/ k = l
    BY <2>2 DEF Registered
  <2> QED BY <1>1, <2>1, <2>3, <2>4 DEF Undisturbed
<1>6. CASE \/ \E level \in Levels : SetLevel(t, level) \/ FlushOn(t, level)
           \/ \E table \in Tables, global \in Levels \cup {NoLevel} : SetLevels(t, table, global)
  <2>1. UNCHANGED <<before, loggers_>>
    BY <1>6 DEF SetLevel, FlushOn, SetLevels, Atomic
  <2>2. \E changed : all' = [l \in 1 .. Len(all) |-> IF l \in Registered THEN changed[l] ELSE all[l]]
    BY <1>6 DEF SetLevel, FlushOn, SetLevels, ForRegistered
  <2>3. Len(all') = Len(all)
    BY <1>1, <2>2
  <2> QED BY <1>2, <2>1, <2>3 DEF Registered
<1>7. CASE \/ \E on \in BOOLEAN : SetAutomaticRegistration(t, on)
           \/ (\E n \in Names : CreateAsync(t, n)) \/ InitThreadPool(t)
           \/ \E interval \in {0, 1} : FlushEvery(t, interval)
  <2>1. UNCHANGED <<before, loggers_, all>>
    BY <1>7 DEF SetAutomaticRegistration, CreateAsync, InitThreadPool, FlushEvery, Atomic,
                mapVars, history
  <2> QED BY <1>2, <2>1 DEF Registered
<1> QED BY <1>3, <1>4, <1>5, <1>6, <1>7 DEF Calling

(* The clean stays clean in any such step. *)
LEMMA UndisturbedStep ==
    ASSUME MapInv, WorkerInv, WorkerInv', ShutdownInv, Undisturbed,
           constructed' >= constructed,
           \A t \in Threads : shutting'[t] => shutting[t] /\ pc'[t] = pc[t] /\ arg'[t] = arg[t],
           \A w \in 1 .. constructed :
              wpc[w] \in {"none", "gone"} => wpc'[w] \in {"none", "gone"}
    PROVE  ShutdownInv'
<1>1. /\ Len(all) \in Nat /\ Len(all') \in Nat /\ Len(all') >= Len(all)
      /\ constructed \in Nat /\ constructed' \in Nat
  BY RegisteredFacts, RegistryAssumption DEF MapInv, Undisturbed, WorkerInv, WorkerOK
<1>2. \A t \in Threads :
         /\ before'[t].worker = before[t].worker
         /\ before'[t].loggers \subseteq before[t].loggers
         /\ before'[t] \in [loggers : SUBSET (1 .. Len(all)), worker : 0 .. constructed, pool : Nat]
  <2>1. CASE UNCHANGED before
    BY <2>1 DEF ShutdownInv
  <2>2. ASSUME NEW l \in 1 .. Len(all), RegisteredAgain(l), NEW t \in Threads
        PROVE  /\ before'[t].worker = before[t].worker
               /\ before'[t].loggers \subseteq before[t].loggers
               /\ before'[t] \in [loggers : SUBSET (1 .. Len(all)), worker : 0 .. constructed,
                                   pool : Nat]
    <3>1. before'[t] = [before[t] EXCEPT !.loggers = before[t].loggers \ {l}]
      BY <2>2 DEF RegisteredAgain
    <3>2. before[t] \in [loggers : SUBSET (1 .. Len(all)), worker : 0 .. constructed, pool : Nat]
      BY DEF ShutdownInv
    <3> QED BY <3>1, <3>2
  <2> QED BY <2>1, <2>2 DEF Undisturbed
<1>3. before' \in [Threads -> [loggers : SUBSET (1 .. Len(all)), worker : 0 .. constructed,
                               pool : Nat]]
  <2>1. before' = [t \in Threads |-> before'[t]]
    BY DEF Undisturbed, RegisteredAgain, ShutdownInv
  <2> QED BY <1>2, <2>1
<1>4. \A t \in Threads : before'[t].loggers \cap Registered' \subseteq Registered
  <2> SUFFICES ASSUME NEW t \in Threads, NEW l \in before'[t].loggers, l \in Registered'
               PROVE  l \in Registered
    OBVIOUS
  <2>1. l \in 1 .. Len(all)
    BY <1>2
  <2> QED BY <1>1, <2>1 DEF Undisturbed
<1> QED BY <1>1, <1>2, <1>3, <1>4, ShutdownKept

(* shutdown itself, step by step (registry-inl.h:245-258).                 *)
LEMMA ShutdownsOwnStep ==
    ASSUME MapInv, WorkerInv, ShutdownInv, PoolOK, NEW t \in Threads,
           \/ Shutdown(t) \/ StopClear(t) \/ StopNotify(t) \/ StopJoin(t)
           \/ ShutdownMap(t) \/ ShutdownPool(t)
    PROVE  ShutdownInv'
<1>1. /\ Len(all) \in Nat /\ Registered \subseteq 1 .. Len(all)
      /\ constructed \in Nat /\ periodic_flusher_ \in 0 .. constructed
      /\ tp_ \in Nat
      /\ \A w \in 1 .. constructed : w \in Workers
      /\ pc \in [Threads -> Places] /\ arg = [s \in Threads |-> arg[s]]
      /\ shutting \in [Threads -> BOOLEAN]
  BY RegisteredFacts, RegistryAssumption DEF MapInv, WorkerInv, WorkerOK, PoolOK, Workers
<1>2. CASE Shutdown(t)
  <2>1. /\ UNCHANGED <<all, loggers_, constructed, wpc>>
        /\ shutting' = [shutting EXCEPT ![t] = TRUE]
        /\ before' = [before EXCEPT ![t] =
                        [loggers |-> Registered, worker |-> periodic_flusher_, pool |-> tp_]]
        /\ \A s \in Threads \ {t} : pc'[s] = pc[s] /\ arg'[s] = arg[s]
    BY <1>1, <1>2 DEF Shutdown, mapVars, workerVars
  <2>2. \/ pc'[t] = "clear" /\ arg'[t] = periodic_flusher_
        \/ /\ pc'[t] = "drop_all"
           /\ periodic_flusher_ # 0 => wpc[periodic_flusher_] = "none"
    BY <1>1, <1>2 DEF Shutdown, Joinable
  <2> QED BY <1>1, <2>1, <2>2 DEF ShutdownInv, Registered
<1>3. CASE StopClear(t) \/ StopNotify(t)
  <2>1. /\ UNCHANGED <<all, loggers_, constructed, shutting, before>>
        /\ arg' = [arg EXCEPT ![t] = arg[t]]
        /\ pc[t] \in {"clear", "notify"}
        /\ \E place \in {"notify", "join"} : pc' = [pc EXCEPT ![t] = place]
    BY <1>3 DEF StopClear, StopNotify, ClearActive, Notify, Goto, mapVars, history
  <2>2. \A w \in 1 .. constructed : wpc[w] \in {"none", "gone"} => wpc'[w] = wpc[w]
    BY <1>1, <1>3 DEF StopClear, StopNotify, ClearActive, Notify, WorkerInv, WorkerOK
  <2>3. before' \in [Threads -> [loggers : SUBSET (1 .. Len(all')), worker : 0 .. constructed',
                                 pool : Nat]]
    BY <2>1 DEF ShutdownInv
  <2>4. ASSUME NEW s \in Threads, shutting'[s]
        PROVE  /\ pc'[s] \in {"clear", "notify", "join", "drop_all", "release_pool"}
               /\ pc'[s] \in {"clear", "notify", "join"} => arg'[s] = before'[s].worker
               /\ pc'[s] \in {"drop_all", "release_pool"} /\ before'[s].worker # 0 =>
                     wpc'[before'[s].worker] \in {"none", "gone"}
               /\ pc'[s] = "release_pool" => before'[s].loggers \cap Registered' = {}
    <3>1. Registered' = Registered /\ shutting[s] /\ arg'[s] = arg[s] /\ before'[s] = before[s]
      BY <1>1, <2>1, <2>4 DEF Registered
    <3>2. before[s].worker \in 0 .. constructed
      BY DEF ShutdownInv
    <3>3. CASE s = t
      BY <1>1, <2>1, <3>1, <3>3 DEF ShutdownInv
    <3>4. CASE s # t
      <4>1. pc'[s] = pc[s]
        BY <1>1, <2>1, <3>4
      <4> QED BY <1>1, <2>2, <3>1, <3>2, <4>1 DEF ShutdownInv
    <3> QED BY <3>3, <3>4
  <2> QED BY <2>3, <2>4 DEF ShutdownInv
<1>4. CASE StopJoin(t)
  <2>1. /\ UNCHANGED <<all, loggers_, constructed, wpc, shutting, before>>
        /\ arg' = [arg EXCEPT ![t] = 0]
        /\ pc[t] = "join" /\ wpc[arg[t]] \in {"none", "gone"}
        /\ pc' = [pc EXCEPT ![t] = IF shutting[t] THEN "drop_all" ELSE "idle"]
    BY <1>4 DEF StopJoin, Joined, Goto, mapVars, history, workerVars
  <2> QED BY <1>1, <2>1 DEF ShutdownInv, Registered
<1>5. CASE ShutdownMap(t)
  <2>1. /\ UNCHANGED <<all, constructed, wpc, shutting, before>>
        /\ arg' = [arg EXCEPT ![t] = 0]
        /\ pc[t] = "drop_all" /\ pc' = [pc EXCEPT ![t] = "release_pool"]
        /\ loggers_' = [n \in Names |-> 0]
    BY <1>5 DEF ShutdownMap, ClearMap, Goto, history, workerVars
  <2>2. Registered' = {}
    BY <2>1 DEF Registered
  <2> QED BY <1>1, <2>1, <2>2 DEF ShutdownInv
<1>6. CASE ShutdownPool(t)
  <2>1. /\ UNCHANGED <<all, loggers_, constructed, wpc, arg>>
        /\ pc' = [pc EXCEPT ![t] = "idle"] /\ shutting' = [shutting EXCEPT ![t] = FALSE]
        /\ before' = [before EXCEPT ![t] = Nothing]
    BY <1>6 DEF ShutdownPool, mapVars, workerVars
  <2> QED BY <1>1, <2>1 DEF ShutdownInv, Registered, Nothing
<1> QED BY <1>2, <1>3, <1>4, <1>5, <1>6

(* The clean stays clean, and is made, in every step. *)
LEMMA ShutdownStep ==
    ASSUME MapInv, WorkerInv, WorkerInv', PoolOK, ShutdownInv, [Next]_vars
    PROVE  ShutdownInv'
<1>1. /\ Len(all) \in Nat /\ constructed \in Nat
      /\ \A w \in 1 .. constructed : w \in Workers
  BY RegisteredFacts, RegistryAssumption DEF MapInv, WorkerInv, WorkerOK, Workers
<1>2. CASE UNCHANGED vars
  <2>1. UNCHANGED <<all, loggers_, before, pc, arg, shutting, wpc, constructed>>
    BY <1>2 DEF vars, mapVars, placeVars, history, workerVars
  <2> QED BY <1>1, <2>1, UndisturbedStep DEF Undisturbed, Registered
<1>3. ASSUME NEW t \in Threads, Calling(t), ~ Shutdown(t)
      PROVE  ShutdownInv'
  <2>1. Undisturbed
    BY <1>3, CallUndisturbed
  <2>2. pc[t] = "idle" /\ ~ shutting[t] /\ UNCHANGED shutting
    <3>1. pc[t] = "idle" /\ UNCHANGED shutting
      BY <1>3 DEF Calling, Create, CreateAsync, MakeLogger, Drop, RegisterLogger,
                  SetDefaultLogger, SetNoDefaultLogger, DropAll, SetLevel, FlushOn, SetLevels,
                  SetAutomaticRegistration, InitThreadPool, FlushEvery, Atomic, Registering,
                  Call, Goto, placeVars
    <3> QED BY <3>1 DEF ShutdownInv
  <2>3. \A s \in Threads \ {t} : pc'[s] = pc[s] /\ arg'[s] = arg[s]
    BY <1>3 DEF Calling, Create, CreateAsync, MakeLogger, Drop, RegisterLogger,
                SetDefaultLogger, SetNoDefaultLogger, DropAll, SetLevel, FlushOn, SetLevels,
                SetAutomaticRegistration, InitThreadPool, FlushEvery, Atomic, Registering,
                Goto, placeVars, WorkerInv, WorkerOK
  <2>4. /\ constructed' >= constructed
        /\ \A w \in 1 .. constructed : wpc'[w] = wpc[w]
    <3>1. CASE UNCHANGED workerVars
      BY <1>1, <3>1 DEF workerVars
    <3>2. ASSUME NEW interval \in {0, 1}, FlushEvery(t, interval)
          PROVE  /\ constructed' >= constructed
                 /\ \A w \in 1 .. constructed : wpc'[w] = wpc[w]
      BY <1>1, <3>2 DEF FlushEvery, ConstructWorker, WorkerInv, WorkerOK
    <3> QED BY <1>3, <3>1, <3>2
            DEF Calling, Create, CreateAsync, MakeLogger, Drop, RegisterLogger,
                SetDefaultLogger, SetNoDefaultLogger, DropAll, SetLevel, FlushOn, SetLevels,
                SetAutomaticRegistration, InitThreadPool, Atomic, Registering
  <2> QED BY <2>1, <2>2, <2>3, <2>4, UndisturbedStep
<1>4. ASSUME NEW t \in Threads, InitializeAsync(t) \/ SinkThrows(t)
      PROVE  ShutdownInv'
  <2>1. /\ pc[t] = "initialize" /\ UNCHANGED <<shutting, wpc, constructed, before>>
        /\ \A s \in Threads \ {t} : pc'[s] = pc[s] /\ arg'[s] = arg[s]
    BY <1>4 DEF InitializeAsync, SinkThrows, Goto, WorkerInv, WorkerOK, workerVars, history
  <2>2. ~ shutting[t]
    BY <2>1 DEF ShutdownInv
  <2>3. \/ UNCHANGED <<all, loggers_>>
        \/ /\ Len(all') = Len(all) + 1
           /\ loggers_' \in {loggers_, [loggers_ EXCEPT ![arg[t]] = Len(all')]}
    BY <1>4, AppendProperties DEF InitializeAsync, SinkThrows, Initialize, mapVars, MapInv, MapOK
  <2>4. Undisturbed
    <3>1. CASE UNCHANGED <<all, loggers_>>
      BY <1>1, <2>1, <3>1 DEF Undisturbed, Registered
    <3>2. CASE /\ Len(all') = Len(all) + 1
               /\ loggers_' \in {loggers_, [loggers_ EXCEPT ![arg[t]] = Len(all')]}
      <4>1. \A l \in Registered' : l \in Registered \/ l > Len(all)
        BY <1>1, <3>2 DEF Registered, MapInv, MapOK
      <4> QED BY <1>1, <2>1, <3>2, <4>1 DEF Undisturbed
    <3> QED BY <2>3, <3>1, <3>2
  <2> QED BY <1>1, <2>1, <2>2, <2>4, UndisturbedStep
<1>5. ASSUME NEW t \in Threads,
             \/ Shutdown(t) \/ StopClear(t) \/ StopNotify(t) \/ StopJoin(t)
             \/ ShutdownMap(t) \/ ShutdownPool(t)
      PROVE  ShutdownInv'
  BY <1>5, ShutdownsOwnStep
<1>6. ASSUME NEW w \in Workers, Working(w) \/ Waiting(w)
      PROVE  ShutdownInv'
  <2>1. UNCHANGED <<all, loggers_, before, pc, arg, shutting, constructed>>
    BY <1>6 DEF Working, Waiting, Looping, BeginPass, FlushLogger, FlushThrows, EndPass,
                workerVars, mapVars, placeVars, history, Evaluate, AfterTimeout, WaitEnds
  <2>2. \A v \in 1 .. constructed : wpc[v] \in {"none", "gone"} => wpc'[v] = wpc[v]
    BY <1>1, <1>6 DEF Working, Waiting, Looping, BeginPass, FlushLogger, FlushThrows, EndPass,
                workerVars, Evaluate, AfterTimeout, WaitEnds, CallbackReturns, WorkerInv, WorkerOK
  <2> QED BY <1>1, <2>1, <2>2, UndisturbedStep DEF Undisturbed, Registered
<1> QED BY <1>2, <1>3, <1>4, <1>5, <1>6 DEF Next, Step, Stopped, Running

-----------------------------------------------------------------------------
IInv == ConfigOK /\ PoolOK /\ MapInv /\ WorkerInv /\ SettingsAgree /\ ShutdownInv

(* The registry as its constructor leaves it satisfies the invariant ...   *)
LEMMA InitIInv == Init => IInv
<1> SUFFICES ASSUME Init
             PROVE  IInv
  OBVIOUS
<1> USE RegistryAssumption DEF Init
<1>1. ConfigOK /\ PoolOK
  BY DEF ConfigOK, PoolOK, AllLevels, Places
<1>2. /\ all \in Seq(Logger) /\ Len(all) = 1
      /\ all[1] = [name |-> DefaultName, level |-> Info, flush |-> Off, pool |-> 0]
  BY DEF Logger, AllLevels
<1>3. MapInv
  BY <1>2 DEF MapInv, MapOK, DefaultIsRegistered
<1>4. WorkerInv
  BY DEF WorkerInv, WorkerOK, FlusherIsOwned, WorkerInit, Places, Workers
<1>5. SettingsAgree
  BY <1>2 DEF SettingsAgree, LevelFor
<1>6. ShutdownInv
  BY <1>2 DEF ShutdownInv, Nothing, WorkerInit
<1> QED BY <1>1, <1>3, <1>4, <1>5, <1>6 DEF IInv

(* ... and every step keeps it. *)
LEMMA NextIInv == IInv /\ [Next]_vars => IInv'
<1> SUFFICES ASSUME IInv, [Next]_vars
             PROVE  IInv'
  OBVIOUS
<1>1. arg = [t \in Threads |-> arg[t]]
  BY DEF IInv, WorkerInv, WorkerOK
<1>2. ConfigOK' /\ PoolOK'
  BY <1>1, ConfigStep, PoolStep DEF IInv
<1>3. MapInv' /\ WorkerInv' /\ SettingsAgree'
  BY MapStep, WorkerStep, SettingsStep DEF IInv
<1>4. ShutdownInv'
  BY <1>3, ShutdownStep DEF IInv
<1> QED BY <1>2, <1>3, <1>4 DEF IInv

(* The invariant holds in every state. *)
THEOREM Invariant == Spec => []IInv
  BY InitIInv, NextIInv, PTL DEF Spec

(* Every variable keeps its type: among others, the map's entries are      *)
(* loggers of their names, a factory in progress finds its pool still      *)
(* there, and a thread stops a flusher that exists (registry-inl.h,        *)
(* async.h:44-57).                                                         *)
THEOREM TypeCorrect == Spec => []TypeOK
<1>1. IInv => TypeOK
  BY DEF IInv, ConfigOK, PoolOK, MapInv, MapOK, WorkerInv, WorkerOK, TypeOK, Logger
<1> QED BY <1>1, Invariant, PTL

(* The default logger is in the map under its name (registry-inl.h:110-126, *)
(* 227-242).                                                               *)
THEOREM DefaultRegistered == Spec => []DefaultIsRegistered
<1>1. IInv => DefaultIsRegistered
  BY DEF IInv, MapInv
<1> QED BY <1>1, Invariant, PTL

(* Loggers that the registry made have the settings that one made now would *)
(* get, except where the table and set_level differ on its level           *)
(* (registry-inl.h:61-87, 172-190, 271-290).                               *)
THEOREM SettingsAlwaysAgree == Spec => []SettingsAgree
<1>1. IInv => SettingsAgree
  BY DEF IInv
<1> QED BY <1>1, Invariant, PTL

(* A flusher's thread runs only while the registry owns its worker or a    *)
(* thread waits for it to stop (periodic_worker-inl.h:35-46).              *)
THEOREM FlusherAlwaysOwned == Spec => []FlusherIsOwned
<1>1. IInv => FlusherIsOwned
  BY DEF IInv, WorkerInv
<1> QED BY <1>1, Invariant, PTL

(* When shutdown returns, what was registered when it was called is not,   *)
(* unless it has been registered again, and the flusher and the pool of    *)
(* that time are gone (registry-inl.h:245-258).                            *)
THEOREM ShutdownAlwaysCleans == Spec => ShutdownCleans
<1> DEFINE Cleans ==
        \A t \in Threads : shutting[t] /\ ~ shutting'[t] =>
           /\ before[t].loggers \cap Registered' = {}
           /\ default_logger_' \notin before[t].loggers
           /\ before[t].worker # 0 => wpc'[before[t].worker] \in {"none", "gone"}
           /\ before[t].pool # 0 => tp_' # before[t].pool
<1>1. ASSUME IInv, [Next]_vars
      PROVE  [Cleans]_vars
  <2> SUFFICES ASSUME NEW t \in Threads, shutting[t], ~ shutting'[t]
               PROVE  /\ before[t].loggers \cap Registered' = {}
                      /\ default_logger_' \notin before[t].loggers
                      /\ before[t].worker # 0 => wpc'[before[t].worker] \in {"none", "gone"}
                      /\ before[t].pool # 0 => tp_' # before[t].pool
    OBVIOUS
  <2>1. ShutdownPool(t)
    <3>1. shutting \in [Threads -> BOOLEAN]
      BY <1>1 DEF IInv, WorkerInv, WorkerOK
    <3>2. CASE UNCHANGED shutting
      BY <3>2
    <3>3. CASE \E s \in Threads : Calling(s)
      BY <3>1, <3>2, <3>3 DEF Calling, Create, CreateAsync, MakeLogger, Drop, RegisterLogger,
                  SetDefaultLogger, SetNoDefaultLogger, DropAll, SetLevel, FlushOn, SetLevels,
                  SetAutomaticRegistration, InitThreadPool, FlushEvery, Shutdown, Atomic,
                  Registering, Goto, placeVars
    <3>4. CASE \E s \in Threads : Running(s) \/ SinkThrows(s)
      BY <3>1, <3>2, <3>4 DEF Running, SinkThrows, InitializeAsync, StopClear, StopNotify,
                  StopJoin, ShutdownMap, ShutdownPool, Goto
    <3>5. CASE \E w \in Workers : Working(w) \/ Waiting(w)
      BY <3>2, <3>5 DEF Working, Waiting, Looping, BeginPass, FlushLogger, FlushThrows, EndPass,
                  placeVars
    <3>6. CASE UNCHANGED vars
      BY <3>2, <3>6 DEF vars, placeVars
    <3> QED BY <1>1, <3>3, <3>4, <3>5, <3>6 DEF Next, Step, Stopped
  <2>2. /\ UNCHANGED <<loggers_, default_logger_, all, wpc>> /\ tp_' = 0
        /\ pc[t] = "release_pool"
    BY <2>1 DEF ShutdownPool, mapVars, workerVars
  <2>3. /\ before[t].loggers \cap Registered = {}
        /\ before[t].worker # 0 => wpc[before[t].worker] \in {"none", "gone"}
        /\ before[t].loggers \subseteq 1 .. Len(all)
    BY <1>1, <2>2 DEF IInv, ShutdownInv
  <2>4. default_logger_ = 0 \/ default_logger_ \in Registered
    <3> SUFFICES ASSUME default_logger_ # 0
                 PROVE  default_logger_ \in Registered
      OBVIOUS
    <3>1. default_logger_ \in 1 .. Len(all)
      BY <1>1, RegisteredFacts DEF IInv, MapInv, MapOK
    <3>2. all[default_logger_].name \in Names
      BY <1>1, <3>1, RegisteredFacts DEF IInv, MapInv, Logger
    <3> QED BY <1>1, <3>2 DEF IInv, MapInv, DefaultIsRegistered, Registered
  <2> QED BY <2>2, <2>3, <2>4 DEF Registered
<1>2. ShutdownCleans <=> [][Cleans]_vars
  BY DEF ShutdownCleans
<1> HIDE DEF Cleans
<1> QED BY <1>1, <1>2, Invariant, PTL DEF Spec
=============================================================================
