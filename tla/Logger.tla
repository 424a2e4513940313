------------------------------- MODULE Logger -------------------------------
(***************************************************************************)
(* A synchronous logger (logger.h, logger-inl.h) with its backtracer, in   *)
(* the build with structured parameters, where log() returns an executor   *)
(* (details/executor-inl.h) and the message is delivered when the executor *)
(* is destroyed.  Threads share the logger; other threads change its       *)
(* levels and its backtrace.                                               *)
(*                                                                         *)
(* A sink may throw.  The error handler then runs in the thread of the     *)
(* call, wherever that is, and may itself call the logger, return or       *)
(* throw: a thread has a stack of calls.                                   *)
(*                                                                         *)
(* calls, got, flushed, pushed, lost, failed and returned record what was  *)
(* asked for and what became of it; the program keeps no such state.       *)
(***************************************************************************)
EXTENDS Backtracer, FiniteSets

CONSTANTS
    Threads,
    NumSinks,       \* sinks_ has the places 1 .. NumSinks
    SinkLevel,      \* the level of each sink
    Levels,         \* the levels of messages, and those given to set_level
    FlushLevels,    \* levels given to flush_on
    Sizes,          \* sizes given to enable_backtrace
    Keys,           \* the structured parameters
    MaxObjects,     \* bound: executors that one message is moved through
    MaxCalls,       \* bound: calls of log
    MaxDumps,       \* bound: calls of dump_backtrace
    MaxUpsets       \* bound: changes of the configuration, calls of flush and
                    \* exceptions thrown by sinks and by formatting

Info == 2           \* level::info, which a new logger and the marks have
Off == 6            \* level::off

ASSUME LoggerAssumption ==
    /\ Nobody \notin Threads
    /\ NumSinks \in Nat /\ SinkLevel \in [1 .. NumSinks -> Nat]
    /\ Levels \subseteq 0 .. Off /\ FlushLevels \subseteq 0 .. Off
    /\ Sizes \subseteq Nat
    /\ {MaxObjects, MaxCalls, MaxDumps, MaxUpsets} \subseteq Nat

VARIABLES
    level_, flush_level_,
    stack,          \* the calls that each thread is in, the innermost last
    dumps,          \* calls of dump_backtrace so far
    upsets,         \* changes, calls of flush and exceptions so far
    calls,          \* what each call of log was given and has read
    got,            \* what each sink was given, in order
    flushed,        \* how much of that it has flushed
    pushed,         \* the numbers of the traced messages, in order
    lost,           \* those that the tracer has overrun or forgotten
    failed,         \* <<number, sink, for>>: the sink threw on the message
    returned        \* numbers of the messages whose call has returned

settings == <<level_, flush_level_, dumps>>
history == <<calls, got, flushed, pushed, lost, failed, returned>>
vars == <<tracerVars, settings, stack, upsets, history>>

Sinks == 1 .. NumSinks

(* log_msg: the call it comes from (0 for the marks of a backtrace).  An   *)
(* executor: whether it has a context, and the parameters in it.           *)
Message(id, level) == [id |-> id, level |-> level, params |-> {}]
Executor(params) == [ctx |-> TRUE, params |-> params]
MovedFrom == [ctx |-> FALSE, params |-> {}]

(* A call in progress: where it is; its message; what log() has read; the  *)
(* executors in the caller's hands; who called sink_it_ (or flush_), how   *)
(* far its loop is; and whether the error handler runs for an exception.   *)
Frame(at, m, for) ==
    [at |-> at, msg |-> m, log |-> FALSE, trace |-> FALSE, objs |-> <<>>,
     for |-> for, nth |-> 1, error |-> FALSE]

(* The logger as its threads find it: as constructed, or with flush_on and *)
(* enable_backtrace already called.                                        *)
Init ==
    /\ TracerInit \/ \E size \in Sizes : TracerEnabled(size)
    /\ level_ = Info /\ flush_level_ \in {Off} \cup FlushLevels
    /\ stack = [t \in Threads |-> <<>>]
    /\ dumps = 0 /\ upsets = 0
    /\ calls = <<>> /\ got = [i \in Sinks |-> <<>>]
    /\ flushed = [i \in Sinks |-> 0]
    /\ pushed = <<>> /\ lost = {} /\ failed = {} /\ returned = {}

-----------------------------------------------------------------------------
Depth(t) == Len(stack[t])
Top(t) == stack[t][Depth(t)]
At(t, place) == Depth(t) > 0 /\ Top(t).at = place /\ ~ Top(t).error
InHandler(t) == Depth(t) > 0 /\ Top(t).error

Call(t, frame) == stack' = [stack EXCEPT ![t] = Append(@, frame)]
Goto(t, frame) == stack' = [stack EXCEPT ![t][Depth(t)] = frame]
Return(t) == stack' = [stack EXCEPT ![t] = SubSeq(@, 1, Depth(t) - 1)]

(* The user calls from outside, an error handler from inside a call. *)
MayCall(t) == Depth(t) = 0 \/ InHandler(t)

(* should_log *)
should_log(level) == level >= level_

(* log(), log_(): the level is read first ... *)
CallLog(t, level) ==
    /\ MayCall(t) /\ Len(calls) < MaxCalls
    /\ LET id == Len(calls) + 1
       IN  Call(t, [Frame("enter", Message(id, level), "log")
                        EXCEPT !.log = should_log(level)])
    /\ calls' = Append(calls, [level |-> level, log |-> should_log(level),
                               trace |-> FALSE, params |-> {}, flush |-> FALSE])
    /\ UNCHANGED <<tracerVars, settings, upsets,
                   got, flushed, pushed, lost, failed, returned>>

(* ... then the tracer's flag; with neither there is nothing to do, and an *)
(* executor without context is returned.                                   *)
ReadEnabled(t) ==
    /\ At(t, "enter")
    /\ IF Top(t).log \/ enabled_
       THEN /\ Goto(t, [Top(t) EXCEPT !.at = "hold", !.trace = enabled_,
                                      !.objs = <<Executor({})>>])
            /\ calls' = [calls EXCEPT ![Top(t).msg.id].trace = enabled_]
       ELSE Return(t) /\ UNCHANGED calls
    /\ UNCHANGED <<tracerVars, settings, upsets,
                   got, flushed, pushed, lost, failed, returned>>

(* Formatting throws fmt::format_error: log_ reports it and delivers nothing. *)
FormatThrows(t) ==
    /\ At(t, "enter") /\ upsets < MaxUpsets
    /\ Top(t).log \/ enabled_
    /\ upsets' = upsets + 1
    /\ Goto(t, [Top(t) EXCEPT !.error = TRUE])
    /\ UNCHANGED <<tracerVars, settings, history>>

-----------------------------------------------------------------------------
Latest(objs) == objs[Len(objs)]

(* executor::operator(): parameters are added to the context, if any. *)
AddParams(t, k) ==
    /\ At(t, "hold")
    /\ LET n == Len(Top(t).objs)
       IN  /\ Top(t).objs[n].ctx /\ k \notin Top(t).objs[n].params
           /\ Goto(t, [Top(t) EXCEPT !.objs[n].params = @ \cup {k}])
    /\ calls' = [calls EXCEPT ![Top(t).msg.id].params = @ \cup {k}]
    /\ UNCHANGED <<tracerVars, settings, upsets, got, flushed, pushed, lost, failed, returned>>

(* Fault: the executor that was moved from keeps its context. *)
MoveExecutor_keeps_source(t) ==
    /\ At(t, "hold") /\ Len(Top(t).objs) < MaxObjects
    /\ Goto(t, [Top(t) EXCEPT !.objs = Append(@, Latest(@))])
    /\ UNCHANGED <<tracerVars, settings, upsets, history>>

(* The move constructor, as for returning an executor from a function: the *)
(* context moves, the source has none.                                     *)
MoveExecutor(t) ==
    /\ At(t, "hold") /\ Len(Top(t).objs) < MaxObjects
    /\ Goto(t, [Top(t) EXCEPT !.objs = Append([@ EXCEPT ![Len(@)] = MovedFrom], Latest(@))])
    /\ UNCHANGED <<tracerVars, settings, upsets, history>>

(* The numbers of a sequence of messages. *)
Numbers(messages) == {messages[n].id : n \in 1 .. Len(messages)}

(* What is left of a call of log once an executor has been destroyed: the  *)
(* executors that remain, or nothing.                                      *)
BackToCaller(t, frame) ==
    IF frame.objs = <<>>
    THEN Return(t) /\ returned' = returned \cup {frame.msg.id}
    ELSE Goto(t, [frame EXCEPT !.at = "hold"]) /\ UNCHANGED returned

(* Fault: the destructor asks again whether the level is enabled. *)
Destroy_asks_again(t) ==
    /\ At(t, "hold")
    /\ LET e == Head(Top(t).objs)
           rest == [Top(t) EXCEPT !.objs = Tail(@)]
       IN  IF ~ e.ctx THEN BackToCaller(t, rest)
           ELSE /\ Goto(t, [rest EXCEPT !.msg.params = e.params, !.nth = 1,
                             !.at = IF should_log(rest.msg.level) THEN "sinks" ELSE "push"])
                /\ UNCHANGED returned
    /\ UNCHANGED <<tracerVars, settings, upsets, calls, got, flushed, pushed, lost, failed>>

(* ~executor: one that has a context runs executor_callback, with its      *)
(* parameters and with what log() has read.  The source of a move is       *)
(* destroyed before what it was moved into.                                *)
Destroy(t) ==
    /\ At(t, "hold")
    /\ LET e == Head(Top(t).objs)
           rest == [Top(t) EXCEPT !.objs = Tail(@)]
       IN  IF ~ e.ctx THEN BackToCaller(t, rest)
           ELSE /\ Goto(t, [rest EXCEPT !.msg.params = e.params, !.nth = 1,
                             !.at = IF rest.log THEN "sinks" ELSE "push"])
                /\ UNCHANGED returned
    /\ UNCHANGED <<tracerVars, settings, upsets, calls, got, flushed, pushed, lost, failed>>

(* The rest of executor_callback: tracer_.push_back, under the mutex. *)
PushTrace(t) ==
    /\ At(t, "push")
    /\ IF Top(t).trace
       THEN /\ PushBack(Top(t).msg)
            /\ pushed' = Append(pushed, Top(t).msg.id)
            /\ lost' = lost \cup (Numbers(Append(messages_, Top(t).msg)) \ Numbers(messages_'))
       ELSE UNCHANGED <<tracerVars, pushed, lost>>
    /\ BackToCaller(t, Top(t))
    /\ UNCHANGED <<settings, upsets, calls, got, flushed, failed>>

-----------------------------------------------------------------------------
(* What follows sink_it_ in its caller: the rest of executor_callback; in  *)
(* dump_backtrace_ the loop of foreach_pop after the first mark, pop_front *)
(* after a message, and the return after the last mark.                    *)
AfterSinkIt(t) ==
    CASE Top(t).for = "log"   -> Goto(t, [Top(t) EXCEPT !.at = "push"]) /\ UNCHANGED tracerVars
      [] Top(t).for = "start" -> Goto(t, [Top(t) EXCEPT !.at = "lock"]) /\ UNCHANGED tracerVars
      [] Top(t).for = "front" -> Goto(t, [Top(t) EXCEPT !.at = "next"]) /\ PopFront
      [] Top(t).for = "end"   -> Return(t) /\ UNCHANGED tracerVars

NextSink(t) == Goto(t, [Top(t) EXCEPT !.nth = @ + 1])

(* The sink throws: the error handler is called inside the loop. *)
SinkThrows(t) ==
    /\ upsets < MaxUpsets
    /\ upsets' = upsets + 1
    /\ failed' = failed \cup {<<Top(t).msg.id, Top(t).nth,
                                 IF Top(t).at = "flush" THEN "flush" ELSE Top(t).for>>}
    /\ Goto(t, [Top(t) EXCEPT !.error = TRUE])

(* sink_it_: one sink of the loop.  (The marks are not recorded.) *)
LogToSink(t) ==
    /\ At(t, "sinks") /\ Top(t).nth <= NumSinks
    /\ LET m == Top(t).msg
           i == Top(t).nth
           entry == [id |-> m.id, params |-> m.params, dump |-> Top(t).for = "front"]
       IN  \/ /\ m.level < SinkLevel[i]
              /\ NextSink(t) /\ UNCHANGED <<got, failed, upsets>>
           \/ /\ m.level >= SinkLevel[i]
              /\ got' = IF m.id = 0 THEN got ELSE [got EXCEPT ![i] = Append(@, entry)]
              /\ NextSink(t) /\ UNCHANGED <<failed, upsets>>
           \/ /\ m.level >= SinkLevel[i]
              /\ SinkThrows(t)
              /\ UNCHANGED got
    /\ UNCHANGED <<tracerVars, settings, calls, flushed, pushed, lost, returned>>

(* should_flush_ *)
should_flush_(m) == m.level >= flush_level_ /\ m.level # Off

(* sink_it_ after the loop; the level for flushing is read now. *)
AfterSinks(t) ==
    /\ At(t, "sinks") /\ Top(t).nth > NumSinks
    /\ IF should_flush_(Top(t).msg)
       THEN /\ Goto(t, [Top(t) EXCEPT !.at = "flush", !.nth = 1])
            /\ calls' = IF Top(t).for = "log"
                        THEN [calls EXCEPT ![Top(t).msg.id].flush = TRUE] ELSE calls
            /\ UNCHANGED tracerVars
       ELSE AfterSinkIt(t) /\ UNCHANGED calls
    /\ UNCHANGED <<settings, upsets, got, flushed, pushed, lost, failed, returned>>

(* flush_: one sink of the loop. *)
FlushSink(t) ==
    /\ At(t, "flush") /\ Top(t).nth <= NumSinks
    /\ \/ /\ flushed' = [flushed EXCEPT ![Top(t).nth] = Len(got[Top(t).nth])]
          /\ NextSink(t) /\ UNCHANGED <<failed, upsets>>
       \/ /\ SinkThrows(t)
          /\ UNCHANGED flushed
    /\ UNCHANGED <<tracerVars, settings, calls, got, pushed, lost, returned>>

AfterFlush(t) ==
    /\ At(t, "flush") /\ Top(t).nth > NumSinks
    /\ IF Top(t).for = "flush" THEN Return(t) /\ UNCHANGED tracerVars ELSE AfterSinkIt(t)
    /\ UNCHANGED <<settings, upsets, history>>
-----------------------------------------------------------------------------
(* flush() *)
CallFlush(t) ==
    /\ MayCall(t) /\ upsets < MaxUpsets
    /\ upsets' = upsets + 1
    /\ Call(t, Frame("flush", Message(0, 0), "flush"))
    /\ UNCHANGED <<tracerVars, settings, history>>

(* dump_backtrace(): the flag is read, and the first mark is delivered like *)
(* any message.  Without a backtrace nothing happens.                       *)
CallDump(t) ==
    /\ MayCall(t) /\ dumps < MaxDumps /\ enabled_
    /\ dumps' = dumps + 1
    /\ Call(t, Frame("sinks", Message(0, Info), "start"))
    /\ UNCHANGED <<tracerVars, level_, flush_level_, upsets, history>>

(* foreach_pop has the mutex in this call. *)
InForeachPop(frame) == frame.at = "next" \/ frame.for = "front"

(* foreach_pop: lock_guard. *)
LockTracer(t) ==
    /\ At(t, "lock") /\ Lock(t)
    /\ Goto(t, [Top(t) EXCEPT !.at = "next"])
    /\ UNCHANGED <<settings, upsets, history>>

(* The loop: the front message goes through sink_it_ with the mutex held;  *)
(* on an empty queue the mutex is released and the last mark delivered.    *)
NextTraced(t) ==
    /\ At(t, "next")
    /\ IF messages_ # <<>>
       THEN /\ Goto(t, [Top(t) EXCEPT !.at = "sinks", !.for = "front", !.nth = 1,
                                      !.msg = Head(messages_)])
            /\ UNCHANGED tracerVars
       ELSE /\ Goto(t, [Top(t) EXCEPT !.at = "sinks", !.for = "end", !.nth = 1,
                                      !.msg = Message(0, Info)])
            /\ Unlock(t)
    /\ UNCHANGED <<settings, upsets, history>>

-----------------------------------------------------------------------------
(* err_handler_ returns after a std::exception: the loop goes on, or log_  *)
(* returns an executor without context.                                    *)
HandlerReturns(t) ==
    /\ InHandler(t)
    /\ IF Top(t).at = "enter" THEN Return(t)
       ELSE Goto(t, [Top(t) EXCEPT !.error = FALSE, !.nth = @ + 1])
    /\ UNCHANGED <<tracerVars, settings, upsets, history>>

(* Fault: foreach_pop unlocks by hand, which an exception passes by. *)
ExceptionLeaves_locked(t) ==
    /\ InHandler(t)
    /\ Return(t)
    /\ UNCHANGED <<tracerVars, settings, upsets, history>>

(* An exception leaves the call: one that is not a std::exception, or one  *)
(* that the error handler throws.  The caller is the user or an error      *)
(* handler, which may catch it or let it leave its own call too.           *)
ExceptionLeaves(t) ==
    /\ InHandler(t)
    /\ Return(t)
    /\ IF InForeachPop(Top(t)) THEN Unlock(t) ELSE UNCHANGED tracerVars
    /\ UNCHANGED <<settings, upsets, history>>

-----------------------------------------------------------------------------
(* set_level, flush_on, enable_backtrace, disable_backtrace, at any time. *)
SetLevel(level) ==
    /\ level_' = level /\ UNCHANGED <<flush_level_, tracerVars, lost>>

FlushOn(level) ==
    /\ flush_level_' = level /\ UNCHANGED <<level_, tracerVars, lost>>

EnableBacktrace(size) ==
    /\ Enable(size) /\ lost' = lost \cup Numbers(messages_)
    /\ UNCHANGED <<level_, flush_level_>>

DisableBacktrace == Disable /\ UNCHANGED <<level_, flush_level_, lost>>

Configure ==
    /\ upsets < MaxUpsets /\ upsets' = upsets + 1
    /\ \/ \E level \in Levels : SetLevel(level)
       \/ \E level \in FlushLevels : FlushOn(level)
       \/ \E size \in Sizes : EnableBacktrace(size)
       \/ DisableBacktrace
    /\ UNCHANGED <<dumps, stack, calls, got, flushed, pushed, failed, returned>>

-----------------------------------------------------------------------------
Calling(t) == (\E level \in Levels : CallLog(t, level)) \/ CallFlush(t) \/ CallDump(t)

(* What goes on without anybody's choice; an executor is destroyed when    *)
(* the statement that made it ends, and an error handler ends.             *)
Running(t) ==
    \/ ReadEnabled(t) \/ Destroy(t) \/ PushTrace(t)
    \/ LogToSink(t) \/ AfterSinks(t) \/ FlushSink(t) \/ AfterFlush(t)
    \/ LockTracer(t) \/ NextTraced(t)
    \/ HandlerReturns(t) \/ ExceptionLeaves(t)

Using(t) ==
    FormatThrows(t) \/ MoveExecutor(t) \/ \E k \in Keys : AddParams(t, k)

(* A thread that waits for the tracer's mutex and holds it itself: a sink  *)
(* failed during a dump, and the error handler traced or dumped in turn.   *)
WaitsForItself(t) ==
    /\ mutex_ = t
    /\ At(t, "lock") \/ (At(t, "push") /\ Top(t).trace)

(* The calls have all returned, or the threads wait for one of these. *)
Stopped ==
    /\ (\A t \in Threads : Depth(t) = 0) \/ \E t \in Threads : WaitsForItself(t)
    /\ UNCHANGED vars

Next ==
    \/ \E t \in Threads : Calling(t) \/ Running(t) \/ Using(t)
    \/ Configure
    \/ Stopped

Spec == Init /\ [][Next]_vars

-----------------------------------------------------------------------------
Ids == 0 .. MaxCalls
Messages == [id : Ids, level : 0 .. Off, params : SUBSET Keys]
Frames ==
    [at : {"enter", "hold", "sinks", "flush", "push", "lock", "next"},
     msg : Messages, log : BOOLEAN, trace : BOOLEAN,
     objs : Seq([ctx : BOOLEAN, params : SUBSET Keys]),
     for : {"log", "start", "front", "end", "flush"},
     nth : 1 .. NumSinks + 1, error : BOOLEAN]

TypeOK ==
    /\ enabled_ \in BOOLEAN
    /\ messages_ \in Seq(Messages) /\ Len(messages_) <= max_items_
    /\ max_items_ \in Nat
    /\ mutex_ \in Threads \cup {Nobody}
    /\ level_ \in 0 .. Off /\ flush_level_ \in 0 .. Off
    /\ stack \in [Threads -> Seq(Frames)]
    /\ failed \subseteq Ids \X Sinks \X {"log", "start", "front", "end", "flush"}
    /\ returned \subseteq 1 .. Len(calls) /\ lost \subseteq 1 .. Len(calls)

(* The executor delivers a message exactly once, however often it has been *)
(* moved, with the parameters of all calls on it, to each sink that takes  *)
(* its level and does not throw, if and only if log() found the level      *)
(* enabled, whatever the level has become since; and it is traced once if  *)
(* and only if log() found the backtrace enabled.  If its level asks for a *)
(* flush, what reached a sink is flushed there when the call returns       *)
(* (executor-inl.h:37-61, logger-inl.h:165-218).                           *)
DeliveredOnce ==
    \A id \in 1 .. Len(calls) :
        LET c == calls[id]
            Traces == {n \in 1 .. Len(pushed) : pushed[n] = id}
        IN  /\ Cardinality(Traces) <= (IF c.trace THEN 1 ELSE 0)
            /\ id \in returned /\ c.trace => Traces # {}
            /\ \A i \in Sinks :
                  LET Places == {n \in 1 .. Len(got[i]) : got[i][n].id = id /\ ~ got[i][n].dump}
                      takes == c.log /\ c.level >= SinkLevel[i]
                  IN  /\ Cardinality(Places) <= (IF takes THEN 1 ELSE 0)
                      /\ \A n \in Places : got[i][n].params = c.params
                      /\ id \in returned /\ takes /\ <<id, i, "log">> \notin failed
                            => Places # {}
                      /\ id \in returned /\ c.flush /\ <<id, i, "flush">> \notin failed
                            => \A n \in Places : n <= flushed[i]

(* The place of a traced message in the order of tracing. *)
PlaceOf(id) == CHOOSE n \in 1 .. Len(pushed) : pushed[n] = id

(* Threads that dump at the same time, and messages traced in the meantime, *)
(* do not mix: each sink is shown the traced messages in the order of       *)
(* tracing, each once, or again only after an exception has left a dump     *)
(* with the message still in front (backtracer-inl.h:57-67).                *)
BacktraceOnce ==
    \A i \in Sinks :
        LET Shown == {n \in 1 .. Len(got[i]) : got[i][n].dump}
        IN  \A m, n \in Shown : m < n =>
                \/ PlaceOf(got[i][m].id) < PlaceOf(got[i][n].id)
                \/ /\ got[i][m].id = got[i][n].id
                   /\ \E j \in Sinks, for \in {"front", "flush"} : <<got[i][m].id, j, for>> \in failed

(* A traced message is kept until it is overrun, forgotten by enable or     *)
(* shown with its parameters to every sink that takes its level and does    *)
(* not throw (backtracer-inl.h:33-67).                                      *)
BacktraceConserved ==
    \A n \in 1 .. Len(pushed) :
        LET id == pushed[n]
            takers == {i \in Sinks : calls[id].level >= SinkLevel[i]}
            ShownTo(i) == \E k \in 1 .. Len(got[i]) :
                             got[i][k] = [id |-> id, params |-> calls[id].params, dump |-> TRUE]
        IN  \/ id \in Numbers(messages_) \cup lost
            \/ \A i \in takers : ShownTo(i) \/ <<id, i, "front">> \in failed

(* What dump_backtrace shows is what was traced: in order, each message     *)
(* once, none lost (backtracer-inl.h:33-67).                                *)
BacktraceShown == BacktraceOnce /\ BacktraceConserved

(* The tracer's mutex is held exactly by the thread that is inside          *)
(* foreach_pop: on every path out of it, exceptions included, it is         *)
(* released, so that only a thread that waits for itself can wait for good  *)
(* (backtracer-inl.h:60).                                                   *)
LockedOnlyWhileDumping ==
    \A t \in Threads : mutex_ = t <=> \E d \in 1 .. Depth(t) : InForeachPop(stack[t][d])
=============================================================================
