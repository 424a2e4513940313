---------------------------- MODULE LoggerProofs ----------------------------
(***************************************************************************)
(* Theorems about a logger with its executors and its backtracer, for any  *)
(* threads, sinks, levels and parameters and any number of calls, dumps,   *)
(* changes and exceptions.                                                 *)
(***************************************************************************)
EXTENDS Logger, SequenceTheorems, FiniteSetTheorems, TLAPS

Objects == [ctx : BOOLEAN, params : SUBSET Keys]
Reasons == {"log", "start", "front", "end", "flush"}
StackOK == stack \in [Threads -> Seq(Frames)]

-----------------------------------------------------------------------------
(* The frames of a stack have the type of frames.                          *)
LEMMA StackFacts ==
    ASSUME StackOK, NEW t \in Threads
    PROVE  /\ Depth(t) \in Nat
           /\ \A d \in 1 .. Depth(t) : stack[t][d] \in Frames
           /\ Depth(t) > 0 => Top(t) \in Frames
  BY ElementOfSeq, LenProperties DEF StackOK, Depth, Top

(* A call puts a frame on top ...                                          *)
LEMMA CallFacts ==
    ASSUME StackOK, NEW t \in Threads, NEW frame \in Frames, Call(t, frame)
    PROVE  /\ StackOK'
           /\ \A s \in Threads \ {t} : stack'[s] = stack[s]
           /\ Len(stack'[t]) = Depth(t) + 1
           /\ stack'[t][Depth(t) + 1] = frame
           /\ \A d \in 1 .. Depth(t) : stack'[t][d] = stack[t][d]
<1>1. stack' = [stack EXCEPT ![t] = Append(stack[t], frame)]
  BY DEF Call
<1>2. stack[t] \in Seq(Frames)
  BY DEF StackOK
<1>3. /\ Append(stack[t], frame) \in Seq(Frames)
      /\ Len(Append(stack[t], frame)) = Len(stack[t]) + 1
      /\ Append(stack[t], frame)[Len(stack[t]) + 1] = frame
      /\ \A d \in 1 .. Len(stack[t]) : Append(stack[t], frame)[d] = stack[t][d]
  BY <1>2, AppendProperties
<1> QED BY <1>1, <1>3 DEF StackOK, Depth

(* ... a step in the innermost call replaces it ...                        *)
LEMMA GotoFacts ==
    ASSUME StackOK, NEW t \in Threads, Depth(t) > 0, NEW frame \in Frames, Goto(t, frame)
    PROVE  /\ StackOK'
           /\ \A s \in Threads \ {t} : stack'[s] = stack[s]
           /\ Len(stack'[t]) = Depth(t)
           /\ stack'[t][Depth(t)] = frame
           /\ \A d \in 1 .. (Depth(t) - 1) : stack'[t][d] = stack[t][d]
<1>1. stack[t] \in Seq(Frames) /\ Depth(t) \in Nat /\ Depth(t) \in 1 .. Len(stack[t])
  BY StackFacts DEF StackOK, Depth
<1> DEFINE new == [stack[t] EXCEPT ![Depth(t)] = frame]
<1>2. stack' = [stack EXCEPT ![t] = new]
  BY DEF Goto
<1>3. /\ new \in Seq(Frames) /\ Len(new) = Len(stack[t]) /\ new[Depth(t)] = frame
      /\ \A d \in 1 .. Len(stack[t]) : d # Depth(t) => new[d] = stack[t][d]
  BY <1>1, ExceptSeq
<1> HIDE DEF new
<1> QED BY <1>1, <1>2, <1>3 DEF StackOK, Depth

(* ... and a return takes it off.                                          *)
LEMMA ReturnFacts ==
    ASSUME StackOK, NEW t \in Threads, Depth(t) > 0, Return(t)
    PROVE  /\ StackOK'
           /\ \A s \in Threads \ {t} : stack'[s] = stack[s]
           /\ Len(stack'[t]) = Depth(t) - 1
           /\ \A d \in 1 .. (Depth(t) - 1) : stack'[t][d] = stack[t][d]
<1>1. stack[t] \in Seq(Frames) /\ Depth(t) \in Nat /\ Depth(t) = Len(stack[t])
  BY StackFacts DEF StackOK, Depth
<1> DEFINE new == SubSeq(stack[t], 1, Depth(t) - 1)
<1>2. stack' = [stack EXCEPT ![t] = new]
  BY DEF Return
<1>3. /\ new \in Seq(Frames) /\ Len(new) = Depth(t) - 1
      /\ \A d \in 1 .. (Depth(t) - 1) : new[d] = stack[t][d]
  BY <1>1, SubSeqProperties
<1> HIDE DEF new
<1> QED BY <1>1, <1>2, <1>3 DEF StackOK

-----------------------------------------------------------------------------
(* What a frame looks like in each place.  Of the executors only the last   *)
(* has a context, and none is left when a message has gone on its way.     *)
Shaped(f) ==
    /\ f.at \in {"enter", "hold", "push"} => f.for = "log"
    /\ f.at = "lock" => f.for = "start"
    /\ f.at = "next" => f.for \in {"start", "front"}
    /\ f.at = "sinks" => f.for # "flush"
    /\ f.error => f.at \in {"enter", "sinks", "flush"}
    /\ f.error /\ f.at # "enter" => f.nth <= NumSinks
    /\ IF f.at = "hold"
       THEN /\ Len(f.objs) > 0 /\ f.objs[Len(f.objs)].ctx
            /\ \A i \in 1 .. (Len(f.objs) - 1) : f.objs[i] = MovedFrom
       ELSE f.objs = <<>>
    /\ f.for = "log" => f.msg.id \in 1 .. Len(calls)

ShapeInv == \A t \in Threads : \A d \in 1 .. Depth(t) : Shaped(stack[t][d])

(* A thread is in foreach_pop at most once, exactly while it has the mutex, *)
(* and nobody else takes the message in front away.                        *)
LockInv ==
    /\ LockedOnlyWhileDumping
    /\ \A t \in Threads : \A c, d \in 1 .. Depth(t) :
          InForeachPop(stack[t][c]) /\ InForeachPop(stack[t][d]) => c = d

ShowsFront(f) == f.for = "front" /\ f.at \in {"sinks", "flush"}
FrontInv ==
    \A t \in Threads : \A d \in 1 .. Depth(t) : ShowsFront(stack[t][d]) => messages_ # <<>>

StackInv == StackOK /\ ShapeInv /\ LockInv /\ FrontInv

CallRecord ==
    [level : Levels, log : BOOLEAN, trace : BOOLEAN, params : SUBSET Keys, flush : BOOLEAN]

DataInv ==
    /\ enabled_ \in BOOLEAN
    /\ messages_ \in Seq(Messages) /\ Len(messages_) <= max_items_
    /\ \A n \in 1 .. Len(messages_) : messages_[n].id \in 1 .. Len(calls)
    /\ max_items_ \in Nat
    /\ mutex_ \in Threads \cup {Nobody}
    /\ level_ \in 0 .. Off /\ flush_level_ \in 0 .. Off
    /\ calls \in Seq(CallRecord) /\ Len(calls) <= MaxCalls
    /\ failed \subseteq Ids \X Sinks \X Reasons
    /\ returned \subseteq 1 .. Len(calls) /\ lost \subseteq 1 .. Len(calls)

Inv == StackInv /\ DataInv

(* While nobody has the mutex, no thread is in foreach_pop.                *)
LEMMA NobodyHolds ==
    ASSUME LockInv, mutex_ = Nobody
    PROVE  \A t \in Threads : \A d \in 1 .. Depth(t) : ~ InForeachPop(stack[t][d])
  BY LoggerAssumption DEF LockInv, LockedOnlyWhileDumping

(* A step in the innermost call that leaves the mutex alone, and the queue *)
(* while somebody has it.                                                  *)
LEMMA GotoStep ==
    ASSUME StackInv, DataInv, NEW t \in Threads, Depth(t) > 0,
           NEW frame \in Frames, Goto(t, frame), Shaped(frame),
           Len(calls') = Len(calls),
           UNCHANGED mutex_,
           \/ UNCHANGED messages_ \/ mutex_ = Nobody
           \/ mutex_ = t /\ InForeachPop(Top(t)) /\ ~ ShowsFront(frame),
           InForeachPop(frame) <=> InForeachPop(Top(t)),
           ShowsFront(frame) => messages_ # <<>>
    PROVE  StackInv'
<1>1. /\ StackOK'
      /\ \A s \in Threads \ {t} : stack'[s] = stack[s]
      /\ Len(stack'[t]) = Depth(t)
      /\ stack'[t][Depth(t)] = frame
      /\ \A d \in 1 .. (Depth(t) - 1) : stack'[t][d] = stack[t][d]
  BY GotoFacts DEF StackInv
<1>2. \A s \in Threads : Depth(s) \in Nat /\ Depth(s)' = Depth(s)
  BY <1>1, StackFacts DEF StackInv, Depth
<1>3. \A s \in Threads : \A d \in 1 .. Depth(s) :
          \/ stack'[s][d] = stack[s][d]
          \/ s = t /\ d = Depth(t) /\ stack'[s][d] = frame
  BY <1>1, <1>2
<1>4. \A f : Shaped(f)' <=> Shaped(f)
  BY DEF Shaped
<1>5. ShapeInv'
  BY <1>2, <1>3, <1>4 DEF StackInv, ShapeInv
<1>6. \A s \in Threads : \A d \in 1 .. Depth(s) :
          InForeachPop(stack'[s][d]) <=> InForeachPop(stack[s][d])
  BY <1>3 DEF Top
<1>7. LockInv'
  BY <1>2, <1>6 DEF StackInv, LockInv, LockedOnlyWhileDumping
<1>8. FrontInv'
  <2>1. CASE UNCHANGED messages_
    BY <1>2, <1>3, <2>1 DEF StackInv, FrontInv
  <2>2. CASE mutex_ = Nobody
    <3>1. \A s \in Threads : \A d \in 1 .. Depth(s)' : ~ InForeachPop(stack'[s][d])
      BY <1>2, <1>6, <2>2, NobodyHolds DEF StackInv
    <3> QED BY <3>1 DEF FrontInv, ShowsFront, InForeachPop
  <2>3. CASE mutex_ = t /\ InForeachPop(Top(t)) /\ ~ ShowsFront(frame)
    <3> SUFFICES ASSUME NEW s \in Threads, NEW d \in 1 .. Depth(s)', ShowsFront(stack'[s][d])
                 PROVE  FALSE
      BY DEF FrontInv
    <3>1. d \in 1 .. Depth(s) /\ InForeachPop(stack[s][d]) /\ ~ (s = t /\ d = Depth(t))
      BY <1>2, <1>3, <1>6, <2>3, <1>1 DEF ShowsFront, InForeachPop
    <3>2. mutex_ = s
      BY <3>1 DEF StackInv, LockInv, LockedOnlyWhileDumping
    <3>3. Depth(t) \in 1 .. Depth(t) /\ InForeachPop(stack[t][Depth(t)])
      BY <1>2, <2>3 DEF Top
    <3> QED BY <2>3, <3>1, <3>2, <3>3 DEF StackInv, LockInv
  <2> QED BY <2>1, <2>2, <2>3
<1> QED BY <1>1, <1>5, <1>7, <1>8 DEF StackInv

(* A call of the logger. *)
LEMMA CallStep ==
    ASSUME StackInv, DataInv, NEW t \in Threads,
           NEW frame \in Frames, Call(t, frame),
           Len(calls') \in Nat, Len(calls') >= Len(calls),
           Shaped(frame)',
           UNCHANGED <<mutex_, messages_>>,
           ~ InForeachPop(frame)
    PROVE  StackInv'
<1>1. /\ StackOK'
      /\ \A s \in Threads \ {t} : stack'[s] = stack[s]
      /\ Len(stack'[t]) = Depth(t) + 1
      /\ stack'[t][Depth(t) + 1] = frame
      /\ \A d \in 1 .. Depth(t) : stack'[t][d] = stack[t][d]
  BY CallFacts DEF StackInv
<1>2. /\ \A s \in Threads : Depth(s) \in Nat
      /\ Depth(t)' = Depth(t) + 1
      /\ \A s \in Threads \ {t} : Depth(s)' = Depth(s)
  BY <1>1, StackFacts DEF StackInv, Depth
<1>3. \A s \in Threads : \A d \in 1 .. Depth(s)' :
          \/ d \in 1 .. Depth(s) /\ stack'[s][d] = stack[s][d]
          \/ s = t /\ d = Depth(t) + 1 /\ stack'[s][d] = frame
  BY <1>1, <1>2
<1>4. \A s \in Threads : \A d \in 1 .. Depth(s) :
          d \in 1 .. Depth(s)' /\ stack'[s][d] = stack[s][d]
  BY <1>1, <1>2
<1>5. \A f : Shaped(f) => Shaped(f)'
  <2>1. Len(calls) \in Nat
    BY LenProperties DEF DataInv
  <2> QED BY <2>1 DEF Shaped
<1>6. ShapeInv'
  BY <1>3, <1>5 DEF StackInv, ShapeInv
<1>7. LockInv'
  BY <1>3, <1>4 DEF StackInv, LockInv, LockedOnlyWhileDumping
<1>8. FrontInv'
  BY <1>3 DEF StackInv, FrontInv, InForeachPop, ShowsFront
<1> QED BY <1>1, <1>6, <1>7, <1>8 DEF StackInv

(* A return from a call that is not in foreach_pop.                        *)
LEMMA ReturnStep ==
    ASSUME StackInv, DataInv, NEW t \in Threads, Depth(t) > 0, Return(t),
           Len(calls') = Len(calls),
           UNCHANGED mutex_, UNCHANGED messages_ \/ mutex_ = Nobody,
           ~ InForeachPop(Top(t))
    PROVE  StackInv'
<1>1. /\ StackOK'
      /\ \A s \in Threads \ {t} : stack'[s] = stack[s]
      /\ Len(stack'[t]) = Depth(t) - 1
      /\ \A d \in 1 .. (Depth(t) - 1) : stack'[t][d] = stack[t][d]
  BY ReturnFacts DEF StackInv
<1>2. /\ \A s \in Threads : Depth(s) \in Nat
      /\ Depth(t)' = Depth(t) - 1
      /\ \A s \in Threads \ {t} : Depth(s)' = Depth(s)
  BY <1>1, StackFacts DEF StackInv, Depth
<1>3. \A s \in Threads : \A d \in 1 .. Depth(s)' :
          d \in 1 .. Depth(s) /\ stack'[s][d] = stack[s][d]
  BY <1>1, <1>2
<1>4. \A s \in Threads : \A d \in 1 .. Depth(s) :
          InForeachPop(stack[s][d]) => d \in 1 .. Depth(s)'
  BY <1>1, <1>2 DEF Top
<1>5. \A f : Shaped(f)' <=> Shaped(f)
  BY DEF Shaped
<1>6. ShapeInv'
  BY <1>3, <1>5 DEF StackInv, ShapeInv
<1>7. LockInv'
  BY <1>3, <1>4 DEF StackInv, LockInv, LockedOnlyWhileDumping
<1>8. FrontInv'
  <2>1. CASE UNCHANGED messages_
    BY <1>3, <2>1 DEF StackInv, FrontInv
  <2>2. CASE mutex_ = Nobody
    <3>1. \A s \in Threads : \A d \in 1 .. Depth(s)' : ~ InForeachPop(stack'[s][d])
      BY <1>3, <2>2, NobodyHolds DEF StackInv
    <3> QED BY <3>1 DEF FrontInv, ShowsFront, InForeachPop
  <2> QED BY <2>1, <2>2
<1> QED BY <1>1, <1>6, <1>7, <1>8 DEF StackInv

(* The types of what a frame has.                                          *)
LEMMA TopFacts ==
    ASSUME StackInv, DataInv, NEW t \in Threads, Depth(t) > 0
    PROVE  /\ Top(t) \in Frames /\ Shaped(Top(t))
           /\ Depth(t) \in 1 .. Depth(t)
           /\ Top(t) = stack[t][Depth(t)]
           /\ InForeachPop(Top(t)) => mutex_ = t
           /\ ShowsFront(Top(t)) => messages_ # <<>>
           /\ Top(t).for = "log" => Top(t).msg.id \in 1 .. Len(calls)
           /\ Len(calls) \in Nat /\ MaxCalls \in Nat /\ NumSinks \in Nat
<1>1. Depth(t) \in 1 .. Depth(t) /\ Top(t) \in Frames
  BY StackFacts DEF StackInv
<1>2. Shaped(Top(t))
  BY <1>1 DEF StackInv, ShapeInv, Top
<1>3. /\ InForeachPop(Top(t)) => mutex_ = t
      /\ ShowsFront(Top(t)) => messages_ # <<>>
  BY <1>1 DEF StackInv, LockInv, LockedOnlyWhileDumping, FrontInv, Top
<1>4. Len(calls) \in Nat
  BY LenProperties DEF DataInv
<1> QED BY <1>1, <1>2, <1>3, <1>4, LoggerAssumption DEF Shaped, Top

(* New frames. *)
LEMMA NewFrame ==
    ASSUME NEW m \in Messages, NEW at \in {"enter", "sinks", "flush"}, NEW for \in Reasons
    PROVE  Frame(at, m, for) \in Frames
<1>1. <<>> \in Seq([ctx : BOOLEAN, params : SUBSET Keys]) /\ 1 \in 1 .. NumSinks + 1
  BY LoggerAssumption
<1> QED BY <1>1 DEF Frame, Frames, Reasons

(* A log_msg as it is made. *)
LEMMA NewMessage ==
    ASSUME NEW id \in Ids, NEW level \in 0 .. Off
    PROVE  Message(id, level) \in Messages /\ Message(id, level).id = id
  BY DEF Message, Messages

(* The user or an error handler calls log, flush or dump_backtrace.        *)
LEMMA CallingStep ==
    ASSUME Inv, NEW t \in Threads, Calling(t)
    PROVE  Inv'
<1> USE DEF Inv
<1>1. Len(calls) \in Nat /\ MaxCalls \in Nat /\ Levels \subseteq 0 .. Off /\ Info \in 0 .. Off
      /\ 0 \in 0 .. Off
  BY LenProperties, LoggerAssumption DEF DataInv, Info, Off
<1>2. ASSUME NEW level \in Levels, CallLog(t, level)
      PROVE  Inv'
  <2> DEFINE id == Len(calls) + 1
             call == [level |-> level, log |-> should_log(level), trace |-> FALSE,
                      params |-> {}, flush |-> FALSE]
  <2>0. PICK new : new = [Frame("enter", Message(id, level), "log")
                              EXCEPT !.log = should_log(level)]
    OBVIOUS
  <2>1. /\ Len(calls) < MaxCalls /\ Call(t, new) /\ calls' = Append(calls, call)
        /\ UNCHANGED <<enabled_, messages_, max_items_, mutex_, level_, flush_level_,
                       failed, returned, lost>>
    BY <1>2, <2>0 DEF CallLog, tracerVars, settings
  <2>2. should_log(level) \in BOOLEAN
    BY DEF should_log
  <2>3. call \in CallRecord
    BY <2>2 DEF CallRecord
  <2>4. Message(id, level) \in Messages /\ Message(id, level).id = id
    <3>1. id \in Ids /\ level \in 0 .. Off
      BY <1>1, <2>1 DEF Ids
    <3> QED BY <3>1, NewMessage
  <2>5. Frame("enter", Message(id, level), "log") \in Frames
    BY <2>4, NewFrame DEF Reasons
  <2>6. /\ new \in Frames /\ new.at = "enter" /\ new.for = "log" /\ new.msg.id = id
        /\ new.error = FALSE /\ new.objs = <<>>
    BY <2>0, <2>2, <2>4, <2>5 DEF Frame, Frames
  <2> HIDE DEF call
  <2>7. calls' \in Seq(CallRecord) /\ Len(calls') = Len(calls) + 1
    BY <2>1, <2>3, AppendProperties DEF DataInv
  <2>8. Shaped(new)' /\ ~ InForeachPop(new)
    BY <1>1, <2>6, <2>7 DEF Shaped, InForeachPop
  <2>9. StackInv'
    BY <1>1, <2>1, <2>6, <2>7, <2>8, CallStep
  <2>10. DataInv'
    BY <1>1, <2>1, <2>7 DEF DataInv
  <2> QED BY <2>9, <2>10
<1>3. ASSUME NEW m \in Messages, NEW at \in {"sinks", "flush"}, NEW for \in {"start", "flush"},
             at = "sinks" => for = "start",
             Call(t, Frame(at, m, for)),
             UNCHANGED <<enabled_, messages_, max_items_, mutex_, level_, flush_level_, calls,
                         failed, returned, lost>>
      PROVE  Inv'
  <2>1. /\ Frame(at, m, for) \in Frames
        /\ ~ InForeachPop(Frame(at, m, for))
        /\ Shaped(Frame(at, m, for)) /\ Shaped(Frame(at, m, for))'
    BY <1>3, NewFrame DEF Reasons, Shaped, Frame, InForeachPop
  <2>2. StackInv'
    BY <1>1, <1>3, <2>1, CallStep
  <2>3. DataInv'
    BY <1>3 DEF DataInv
  <2> QED BY <2>2, <2>3
<1>4. CASE CallFlush(t)
  <2>1. Message(0, 0) \in Messages
    BY <1>1, NewMessage DEF Ids
  <2> QED BY <1>3, <1>4, <2>1 DEF CallFlush, tracerVars, settings, history
<1>5. CASE CallDump(t)
  <2>1. Message(0, Info) \in Messages
    BY <1>1, NewMessage DEF Ids
  <2> QED BY <1>3, <1>5, <2>1 DEF CallDump, tracerVars, settings, history
<1> QED BY <1>2, <1>4, <1>5 DEF Calling

(* What log() reads, and the exceptions of formatting.                     *)
LEMMA ReadEnabledStep ==
    ASSUME Inv, NEW t \in Threads, ReadEnabled(t)
    PROVE  Inv'
<1> USE DEF Inv
<1>1. /\ Depth(t) > 0 /\ Top(t).at = "enter" /\ ~ Top(t).error
      /\ UNCHANGED <<enabled_, messages_, max_items_, mutex_, level_, flush_level_,
                     failed, returned, lost>>
  BY DEF ReadEnabled, At, tracerVars, settings
<1>2. /\ Top(t) \in Frames /\ Shaped(Top(t)) /\ Top(t).for = "log"
      /\ Top(t).msg.id \in 1 .. Len(calls) /\ ~ InForeachPop(Top(t))
  BY <1>1, TopFacts DEF Shaped, InForeachPop
<1>3. CASE Top(t).log \/ enabled_
  <2> DEFINE id == Top(t).msg.id
             objs == <<Executor({})>>
  <2>1. PICK frame : frame = [Top(t) EXCEPT !.at = "hold", !.trace = enabled_, !.objs = objs]
    OBVIOUS
  <2>2. Goto(t, frame) /\ calls' = [calls EXCEPT ![id].trace = enabled_]
    BY <1>3, <2>1 DEF ReadEnabled
  <2>3. objs \in Seq([ctx : BOOLEAN, params : SUBSET Keys]) /\ Len(objs) = 1 /\ objs[1].ctx
    BY DEF Executor
  <2>4. /\ frame \in Frames /\ frame.at = "hold" /\ frame.for = "log" /\ ~ frame.error
        /\ frame.msg = Top(t).msg /\ frame.objs = objs
    <3>1. enabled_ \in BOOLEAN
      BY DEF DataInv
    <3> HIDE DEF objs
    <3> QED BY <1>1, <1>2, <2>1, <2>3, <3>1 DEF Frames
  <2>5. Shaped(frame) /\ ~ InForeachPop(frame) /\ ~ ShowsFront(frame)
    <3> HIDE DEF objs
    <3>1. Len(frame.objs) = 1 /\ frame.objs[Len(frame.objs)].ctx
      BY <2>3, <2>4
    <3>3. \A i \in 1 .. (Len(frame.objs) - 1) : frame.objs[i] = MovedFrom
      BY <3>1
    <3>2. frame.msg.id \in 1 .. Len(calls)
      BY <1>2, <2>4
    <3> QED BY <2>4, <3>1, <3>2, <3>3 DEF Shaped, InForeachPop, ShowsFront
  <2>6. calls' \in Seq(CallRecord) /\ Len(calls') = Len(calls)
    <3>1. calls[id] \in CallRecord /\ enabled_ \in BOOLEAN /\ calls \in Seq(CallRecord)
      BY <1>2, ElementOfSeq DEF DataInv
    <3>2. [calls[id] EXCEPT !.trace = enabled_] \in CallRecord
      BY <3>1 DEF CallRecord
    <3> QED BY <1>2, <2>2, <3>1, <3>2, ExceptSeq
  <2>7. StackInv'
    BY <1>1, <1>2, <2>2, <2>4, <2>5, <2>6, GotoStep
  <2>8. DataInv'
    BY <1>1, <2>6 DEF DataInv
  <2> QED BY <2>7, <2>8
<1>4. CASE ~ (Top(t).log \/ enabled_)
  <2>1. Return(t) /\ UNCHANGED calls
    BY <1>4 DEF ReadEnabled
  <2>2. StackInv'
    BY <1>1, <1>2, <2>1, ReturnStep
  <2>3. DataInv'
    BY <1>1, <2>1 DEF DataInv
  <2> QED BY <2>2, <2>3
<1> QED BY <1>3, <1>4

(* What the error handler's start and end do to a call, and the steps of a *)
(* loop over the sinks.                                                    *)
LEMMA LoopStep ==
    ASSUME Inv, NEW t \in Threads, Depth(t) > 0, NEW frame \in Frames, Goto(t, frame),
           frame.at = Top(t).at, frame.for = Top(t).for, frame.msg = Top(t).msg,
           frame.objs = Top(t).objs,
           frame.error => frame.at \in {"enter", "sinks", "flush"},
           frame.error /\ frame.at # "enter" => frame.nth <= NumSinks,
           UNCHANGED <<enabled_, messages_, max_items_, mutex_, level_, flush_level_, calls,
                       returned, lost>>,
           failed' \subseteq Ids \X Sinks \X Reasons
    PROVE  Inv'
<1> USE DEF Inv
<1>1. Top(t) \in Frames /\ Shaped(Top(t)) /\ (ShowsFront(Top(t)) => messages_ # <<>>)
  BY TopFacts
<1>2. Shaped(frame) /\ (InForeachPop(frame) <=> InForeachPop(Top(t)))
      /\ (ShowsFront(frame) => messages_ # <<>>)
  BY <1>1 DEF Shaped, InForeachPop, ShowsFront
<1>3. StackInv'
  BY <1>2, GotoStep
<1>4. DataInv'
  BY DEF DataInv
<1> QED BY <1>3, <1>4

(* Delivering to a sink, flushing a sink, failing to do so; formatting     *)
(* fails.                                                                  *)
LEMMA SinkStep ==
    ASSUME Inv, NEW t \in Threads, LogToSink(t) \/ FlushSink(t) \/ FormatThrows(t)
    PROVE  Inv'
<1> USE DEF Inv
<1>1. /\ Depth(t) > 0 /\ ~ Top(t).error /\ NumSinks \in Nat
      /\ Top(t) \in Frames /\ Shaped(Top(t))
      /\ UNCHANGED <<enabled_, messages_, max_items_, mutex_, level_, flush_level_, calls,
                     returned, lost>>
      /\ failed \subseteq Ids \X Sinks \X Reasons
  BY TopFacts DEF LogToSink, FlushSink, FormatThrows, At, tracerVars, settings, history, DataInv
<1>2. CASE (LogToSink(t) \/ FlushSink(t)) /\ NextSink(t) /\ UNCHANGED failed
  <2>1. PICK frame : frame = [Top(t) EXCEPT !.nth = Top(t).nth + 1]
    OBVIOUS
  <2>2. Goto(t, frame) /\ Top(t).nth <= NumSinks
    BY <1>2, <2>1 DEF NextSink, LogToSink, FlushSink
  <2>3. /\ frame \in Frames /\ frame.at = Top(t).at /\ frame.for = Top(t).for
        /\ frame.msg = Top(t).msg /\ frame.objs = Top(t).objs /\ ~ frame.error
    BY <1>1, <2>1, <2>2 DEF Frames
  <2> QED BY <1>1, <1>2, <2>2, <2>3, LoopStep
<1>3. CASE (LogToSink(t) \/ FlushSink(t)) /\ SinkThrows(t)
  <2>1. PICK frame : frame = [Top(t) EXCEPT !.error = TRUE]
    OBVIOUS
  <2>2. /\ Goto(t, frame) /\ Top(t).nth <= NumSinks /\ Top(t).at \in {"sinks", "flush"}
        /\ failed' = failed \cup {<<Top(t).msg.id, Top(t).nth,
                                    IF Top(t).at = "flush" THEN "flush" ELSE Top(t).for>>}
    BY <1>3, <2>1 DEF SinkThrows, LogToSink, FlushSink, At
  <2>3. /\ frame \in Frames /\ frame.at = Top(t).at /\ frame.for = Top(t).for
        /\ frame.msg = Top(t).msg /\ frame.objs = Top(t).objs /\ frame.nth = Top(t).nth
    BY <1>1, <2>1 DEF Frames
  <2>4. Top(t).msg.id \in Ids /\ Top(t).nth \in Sinks /\ Top(t).for \in Reasons
    BY <1>1, <2>2 DEF Frames, Messages, Sinks, Reasons
  <2>5. failed' \subseteq Ids \X Sinks \X Reasons
    BY <1>1, <2>2, <2>4 DEF Reasons
  <2> QED BY <1>1, <2>2, <2>3, <2>5, LoopStep
<1>4. CASE FormatThrows(t)
  <2>1. PICK frame : frame = [Top(t) EXCEPT !.error = TRUE]
    OBVIOUS
  <2>2. Goto(t, frame) /\ Top(t).at = "enter" /\ UNCHANGED failed
    BY <1>4, <2>1 DEF FormatThrows, At, history
  <2>3. /\ frame \in Frames /\ frame.at = Top(t).at /\ frame.for = Top(t).for
        /\ frame.msg = Top(t).msg /\ frame.objs = Top(t).objs
    BY <1>1, <2>1 DEF Frames
  <2> QED BY <1>1, <2>2, <2>3, LoopStep
<1> QED BY <1>2, <1>3, <1>4 DEF LogToSink, FlushSink

(* The error handler ends. *)
LEMMA HandlerStep ==
    ASSUME Inv, NEW t \in Threads, HandlerReturns(t)
    PROVE  Inv'
<1> USE DEF Inv
<1>1. /\ Depth(t) > 0 /\ Top(t).error
      /\ UNCHANGED <<enabled_, messages_, max_items_, mutex_, level_, flush_level_, calls,
                     returned, lost, failed>>
  BY DEF HandlerReturns, InHandler, tracerVars, settings, history
<1>2. Top(t) \in Frames /\ Shaped(Top(t)) /\ NumSinks \in Nat
  BY <1>1, TopFacts
<1>3. CASE Top(t).at = "enter"
  <2>1. Return(t) /\ ~ InForeachPop(Top(t))
    BY <1>2, <1>3 DEF HandlerReturns, Shaped, InForeachPop
  <2>2. StackInv'
    BY <1>1, <2>1, ReturnStep
  <2>3. DataInv'
    BY <1>1 DEF DataInv
  <2> QED BY <2>2, <2>3
<1>4. CASE Top(t).at # "enter"
  <2>1. PICK frame : frame = [Top(t) EXCEPT !.error = FALSE, !.nth = Top(t).nth + 1]
    OBVIOUS
  <2>2. Goto(t, frame) /\ Top(t).nth <= NumSinks
    BY <1>1, <1>2, <1>4, <2>1 DEF HandlerReturns, Shaped
  <2>3. /\ frame \in Frames /\ frame.at = Top(t).at /\ frame.for = Top(t).for
        /\ frame.msg = Top(t).msg /\ frame.objs = Top(t).objs /\ ~ frame.error
    <3>1. Top(t).nth + 1 \in 1 .. NumSinks + 1
      BY <1>2, <2>2 DEF Frames
    <3>2. frame.error = FALSE
      BY <1>2, <2>1 DEF Frames
    <3> QED BY <1>2, <2>1, <3>1, <3>2 DEF Frames
  <2>4. failed \subseteq Ids \X Sinks \X Reasons
    BY DEF DataInv
  <2> QED BY <1>1, <2>2, <2>3, <2>4, LoopStep
<1> QED BY <1>3, <1>4

-----------------------------------------------------------------------------
(* A step of log() or of its executors that changes no tracer: the frame    *)
(* stays in the same call.                                                 *)
LEMMA LogFrameStep ==
    ASSUME Inv, NEW t \in Threads, Depth(t) > 0, NEW frame \in Frames, Goto(t, frame),
           Top(t).for = "log", Top(t).at \in {"hold", "push"}, frame.for = "log",
           frame.at \in {"hold", "sinks", "push"}, frame.error = FALSE,
           frame.msg.id = Top(t).msg.id,
           frame.objs \in Seq(Objects),
           IF frame.at = "hold"
           THEN /\ Len(frame.objs) > 0 /\ frame.objs[Len(frame.objs)].ctx
                /\ \A i \in 1 .. (Len(frame.objs) - 1) : frame.objs[i] = MovedFrom
           ELSE frame.objs = <<>>,
           Len(calls') = Len(calls), UNCHANGED mutex_,
           UNCHANGED messages_ \/ mutex_ = Nobody
    PROVE  StackInv'
<1> USE DEF Inv
<1>1. /\ Top(t).msg.id \in 1 .. Len(calls) /\ ~ InForeachPop(Top(t))
  BY TopFacts DEF InForeachPop
<1>2. Shaped(frame) /\ ~ InForeachPop(frame) /\ ~ ShowsFront(frame)
  BY <1>1 DEF Shaped, InForeachPop, ShowsFront
<1> QED BY <1>1, <1>2, GotoStep

(* The executors in a caller's hands.                                       *)
LEMMA HoldFacts ==
    ASSUME Inv, NEW t \in Threads, At(t, "hold")
    PROVE  /\ Depth(t) > 0 /\ Top(t).at = "hold" /\ Top(t).error = FALSE
           /\ Top(t) \in Frames /\ Top(t).for = "log" /\ Top(t).msg.id \in 1 .. Len(calls)
           /\ Top(t).objs \in Seq(Objects)
           /\ Len(Top(t).objs) \in Nat
           /\ Len(Top(t).objs) \in 1 .. Len(Top(t).objs)
           /\ Top(t).objs[Len(Top(t).objs)].ctx
           /\ \A i \in 1 .. (Len(Top(t).objs) - 1) : Top(t).objs[i] = MovedFrom
           /\ Top(t).objs[Len(Top(t).objs)] \in Objects
<1> USE DEF Inv
<1>1. Depth(t) > 0 /\ Top(t).at = "hold" /\ ~ Top(t).error
  BY DEF At
<1>2. Top(t) \in Frames /\ Shaped(Top(t))
  BY <1>1, TopFacts
<1>3. Top(t).error = FALSE /\ Top(t).objs \in Seq(Objects)
  BY <1>1, <1>2 DEF Frames, Objects
<1>4. PICK objs \in Seq(Objects) : objs = Top(t).objs
  BY <1>3
<1>5. /\ Top(t).for = "log" /\ Top(t).msg.id \in 1 .. Len(calls)
      /\ Len(objs) > 0 /\ objs[Len(objs)].ctx
      /\ \A i \in 1 .. (Len(objs) - 1) : objs[i] = MovedFrom
  BY <1>1, <1>2, <1>4 DEF Shaped
<1>6. Len(objs) \in Nat /\ Len(objs) \in 1 .. Len(objs)
  BY <1>5, LenProperties
<1>7. objs[Len(objs)] \in Objects
  BY <1>6, ElementOfSeq
<1> QED BY <1>1, <1>2, <1>3, <1>4, <1>5, <1>6, <1>7

(* Structured parameters are added.                                        *)
LEMMA AddParamsStep ==
    ASSUME Inv, NEW t \in Threads, NEW k \in Keys, AddParams(t, k)
    PROVE  Inv'
<1> USE DEF Inv
<1> DEFINE n == Len(Top(t).objs)
           id == Top(t).msg.id
<1>1. /\ Depth(t) > 0 /\ Top(t).at = "hold" /\ Top(t).error = FALSE
      /\ UNCHANGED <<enabled_, messages_, max_items_, mutex_, level_, flush_level_,
                     failed, returned, lost>>
  BY HoldFacts DEF AddParams, At, tracerVars, settings
<1>2. At(t, "hold") /\ Top(t) \in Frames /\ Top(t).for = "log" /\ id \in 1 .. Len(calls)
  <2>1. At(t, "hold")
    BY DEF AddParams
  <2> QED BY <2>1, HoldFacts
<1>3. /\ Top(t).objs \in Seq(Objects) /\ n \in 1 .. n /\ Top(t).objs[n].ctx
      /\ \A i \in 1 .. (n - 1) : Top(t).objs[i] = MovedFrom
      /\ Top(t).objs[n] \in Objects
  BY <1>2, HoldFacts
<1>4. PICK object : object = [Top(t).objs[n] EXCEPT !.params = @ \cup {k}]
  OBVIOUS
<1>5. object \in Objects /\ object.ctx
  BY <1>3, <1>4 DEF Objects
<1>6. PICK objs : objs = [Top(t).objs EXCEPT ![n] = object]
  OBVIOUS
<1>7. /\ objs \in Seq(Objects) /\ Len(objs) = n /\ objs[n].ctx
      /\ \A i \in 1 .. (n - 1) : objs[i] = MovedFrom
  <2>1. /\ objs \in Seq(Objects) /\ Len(objs) = n /\ objs[n] = object
        /\ \A i \in 1 .. n : i # n => objs[i] = Top(t).objs[i]
    BY <1>3, <1>5, <1>6, ExceptSeq
  <2> QED BY <1>3, <1>5, <2>1
<1>8. PICK frame : frame = [Top(t) EXCEPT !.objs = objs]
  OBVIOUS
<1>9. Goto(t, frame) /\ calls' = [calls EXCEPT ![id].params = @ \cup {k}]
  BY <1>4, <1>6, <1>8 DEF AddParams
<1>10. /\ frame \in Frames /\ frame.at = "hold" /\ frame.for = "log" /\ frame.error = FALSE
       /\ frame.msg = Top(t).msg /\ frame.objs = objs
  BY <1>1, <1>2, <1>7, <1>8 DEF Frames, Objects
<1>11. calls' \in Seq(CallRecord) /\ Len(calls') = Len(calls)
  <2>1. calls[id] \in CallRecord /\ calls \in Seq(CallRecord)
    BY <1>2, ElementOfSeq DEF DataInv
  <2>2. [calls[id] EXCEPT !.params = @ \cup {k}] \in CallRecord
    BY <2>1 DEF CallRecord
  <2> QED BY <1>2, <1>9, <2>1, <2>2, ExceptSeq
<1>12. StackInv'
  <2>1. n \in Nat /\ n > 0
    BY <1>3
  <2>2. /\ frame.objs \in Seq(Objects)
        /\ Len(frame.objs) > 0 /\ frame.objs[Len(frame.objs)].ctx
        /\ \A i \in 1 .. (Len(frame.objs) - 1) : frame.objs[i] = MovedFrom
    <3> HIDE DEF n
    <3> QED BY <1>7, <1>10, <2>1
  <2> QED BY <1>1, <1>2, <1>9, <1>10, <1>11, <2>2, LogFrameStep
<1>13. DataInv'
  BY <1>1, <1>11 DEF DataInv
<1> QED BY <1>12, <1>13

(* An executor is moved.                                                   *)
LEMMA MoveExecutorStep ==
    ASSUME Inv, NEW t \in Threads, MoveExecutor(t)
    PROVE  Inv'
<1> USE DEF Inv
<1> DEFINE n == Len(Top(t).objs)
<1>1. /\ Depth(t) > 0 /\ Top(t).at = "hold" /\ Top(t).error = FALSE
      /\ UNCHANGED <<enabled_, messages_, max_items_, mutex_, level_, flush_level_, calls,
                     failed, returned, lost>>
  BY HoldFacts DEF MoveExecutor, At, tracerVars, settings, history
<1>2. At(t, "hold") /\ Top(t) \in Frames /\ Top(t).for = "log"
  <2>1. At(t, "hold")
    BY DEF MoveExecutor
  <2> QED BY <2>1, HoldFacts
<1>3. /\ Top(t).objs \in Seq(Objects) /\ n \in Nat /\ n \in 1 .. n /\ Top(t).objs[n].ctx
      /\ \A i \in 1 .. (n - 1) : Top(t).objs[i] = MovedFrom
      /\ Top(t).objs[n] \in Objects
  BY <1>2, HoldFacts
<1>4. PICK emptied : emptied = [Top(t).objs EXCEPT ![n] = MovedFrom]
  OBVIOUS
<1>5. /\ emptied \in Seq(Objects) /\ Len(emptied) = n
      /\ \A i \in 1 .. n : emptied[i] = MovedFrom
  <2>1. MovedFrom \in Objects
    BY DEF MovedFrom, Objects
  <2>2. /\ emptied \in Seq(Objects) /\ Len(emptied) = n /\ emptied[n] = MovedFrom
        /\ \A i \in 1 .. n : i # n => emptied[i] = Top(t).objs[i]
    BY <1>3, <1>4, <2>1, ExceptSeq
  <2> QED BY <1>3, <2>2
<1>6. PICK objs : objs = Append(emptied, Top(t).objs[n])
  OBVIOUS
<1>7. /\ objs \in Seq(Objects) /\ Len(objs) = n + 1 /\ objs[n + 1] = Top(t).objs[n]
      /\ \A i \in 1 .. n : objs[i] = MovedFrom
  <2>1. /\ objs \in Seq(Objects) /\ Len(objs) = Len(emptied) + 1
        /\ objs[Len(emptied) + 1] = Top(t).objs[n]
        /\ \A i \in 1 .. Len(emptied) : objs[i] = emptied[i]
    BY <1>3, <1>5, <1>6, AppendProperties
  <2> QED BY <1>5, <2>1
<1>8. PICK frame : frame = [Top(t) EXCEPT !.objs = objs]
  OBVIOUS
<1>9. Goto(t, frame)
  BY <1>4, <1>6, <1>8 DEF MoveExecutor, Latest
<1>10. /\ frame \in Frames /\ frame.at = "hold" /\ frame.for = "log" /\ frame.error = FALSE
       /\ frame.msg = Top(t).msg /\ frame.objs = objs
  BY <1>1, <1>2, <1>7, <1>8 DEF Frames, Objects
<1>11. StackInv'
  <2>1. /\ Len(frame.objs) > 0 /\ frame.objs[Len(frame.objs)].ctx
        /\ \A i \in 1 .. (Len(frame.objs) - 1) : frame.objs[i] = MovedFrom
    <3> HIDE DEF n
    <3> QED BY <1>3, <1>7, <1>10
  <2>2. frame.objs \in Seq(Objects)
    BY <1>7, <1>10
  <2> QED BY <1>1, <1>2, <1>9, <1>10, <2>1, <2>2, LogFrameStep
<1>12. DataInv'
  BY <1>1 DEF DataInv
<1> QED BY <1>11, <1>12

(* What is left when the first executor is gone.                           *)
LEMMA RestFacts ==
    ASSUME Inv, NEW t \in Threads, At(t, "hold")
    PROVE  LET objs == Top(t).objs
           IN  /\ Tail(objs) \in Seq(Objects) /\ Head(objs) \in Objects
               /\ Head(objs).ctx => Tail(objs) = <<>>
               /\ ~ Head(objs).ctx =>
                     /\ Tail(objs) # <<>>
                     /\ Len(Tail(objs)) > 0 /\ Tail(objs)[Len(Tail(objs))].ctx
                     /\ \A i \in 1 .. (Len(Tail(objs)) - 1) : Tail(objs)[i] = MovedFrom
<1>1. PICK objs \in Seq(Objects) : objs = Top(t).objs
  BY HoldFacts
<1>2. /\ Len(objs) \in Nat /\ Len(objs) \in 1 .. Len(objs) /\ objs[Len(objs)].ctx
      /\ \A i \in 1 .. (Len(objs) - 1) : objs[i] = MovedFrom
  BY <1>1, HoldFacts
<1>3. objs # <<>>
  BY <1>2
<1>4. /\ Head(objs) \in Objects /\ Tail(objs) \in Seq(Objects)
      /\ Len(Tail(objs)) = Len(objs) - 1
      /\ \A i \in 1 .. Len(Tail(objs)) : Tail(objs)[i] = objs[i + 1]
  BY <1>3, HeadTailProperties
<1>5. Head(objs) = objs[1]
  BY <1>2
<1>6. ASSUME Head(objs).ctx PROVE Tail(objs) = <<>>
  <2>1. Len(objs) = 1
    <3>1. ASSUME Len(objs) # 1 PROVE objs[1] = MovedFrom
      <4>1. PICK n \in Nat : n = Len(objs) /\ n > 0
        BY <1>2
      <4>2. 1 \in 1 .. (n - 1)
        BY <3>1, <4>1
      <4> QED BY <1>2, <4>1, <4>2
    <3>2. ~ MovedFrom.ctx
      BY DEF MovedFrom
    <3> QED BY <1>5, <1>6, <3>1, <3>2
  <2>2. Len(Tail(objs)) = 0
    BY <1>4, <2>1
  <2> QED BY <1>4, <2>2, EmptySeq
<1>7. ASSUME ~ Head(objs).ctx
      PROVE  /\ Tail(objs) # <<>>
             /\ Len(Tail(objs)) > 0 /\ Tail(objs)[Len(Tail(objs))].ctx
             /\ \A i \in 1 .. (Len(Tail(objs)) - 1) : Tail(objs)[i] = MovedFrom
  <2>1. PICK tail \in Seq(Objects) : tail = Tail(objs)
    BY <1>4
  <2>2. Len(objs) > 1
    BY <1>2, <1>5, <1>7
  <2>3. Len(tail) \in Nat /\ Len(tail) > 0 /\ Len(tail) + 1 = Len(objs)
    BY <1>2, <1>4, <2>1, <2>2, LenProperties
  <2>4. tail[Len(tail)] = objs[Len(objs)] /\ \A i \in 1 .. (Len(tail) - 1) : tail[i] = MovedFrom
    BY <1>2, <1>4, <2>1, <2>3
  <2>5. tail # <<>>
    BY <2>3
  <2> QED BY <1>2, <2>1, <2>3, <2>4, <2>5
<1> QED BY <1>1, <1>4, <1>6, <1>7

(* An executor is destroyed.                                               *)
LEMMA DestroyStep ==
    ASSUME Inv, NEW t \in Threads, Destroy(t)
    PROVE  Inv'
<1> USE DEF Inv
<1>1. /\ At(t, "hold")
      /\ UNCHANGED <<enabled_, messages_, max_items_, mutex_, level_, flush_level_, calls,
                     failed, lost>>
  BY DEF Destroy, tracerVars, settings
<1>2. /\ Depth(t) > 0 /\ Top(t).at = "hold" /\ Top(t).error = FALSE
      /\ Top(t) \in Frames /\ Top(t).for = "log"
  BY <1>1, HoldFacts
<1>3. PICK e, tail : e = Head(Top(t).objs) /\ tail = Tail(Top(t).objs)
  OBVIOUS
<1>4. /\ tail \in Seq(Objects) /\ e \in Objects
      /\ e.ctx => tail = <<>>
      /\ ~ e.ctx => /\ tail # <<>>
                    /\ Len(tail) > 0 /\ tail[Len(tail)].ctx
                    /\ \A i \in 1 .. (Len(tail) - 1) : tail[i] = MovedFrom
  BY <1>1, <1>3, RestFacts
<1>5. CASE ~ e.ctx
  <2>1. PICK frame : frame = [Top(t) EXCEPT !.objs = tail, !.at = "hold"]
    OBVIOUS
  <2>2. frame \in Frames /\ frame.objs = tail /\ frame.at = "hold" /\ frame.for = "log"
        /\ frame.error = FALSE /\ frame.msg = Top(t).msg
    BY <1>2, <1>4, <2>1 DEF Frames, Objects
  <2>3. Goto(t, frame) /\ UNCHANGED returned
    <3>1. PICK rest : rest = [Top(t) EXCEPT !.objs = tail]
      OBVIOUS
    <3>2. BackToCaller(t, rest)
      BY <1>3, <1>5, <3>1 DEF Destroy
    <3>3. rest.objs # <<>> /\ frame = [rest EXCEPT !.at = "hold"]
      BY <1>2, <1>4, <1>5, <2>1, <3>1 DEF Frames
    <3> QED BY <3>2, <3>3 DEF BackToCaller
  <2>4. StackInv'
    BY <1>1, <1>2, <1>4, <1>5, <2>2, <2>3, LogFrameStep
  <2>5. DataInv'
    BY <1>1, <2>3 DEF DataInv
  <2> QED BY <2>4, <2>5
<1>6. CASE e.ctx
  <2>1. PICK place : place = IF Top(t).log THEN "sinks" ELSE "push"
    OBVIOUS
  <2>2. PICK m : m = [Top(t).msg EXCEPT !.params = e.params]
    OBVIOUS
  <2>3. m \in Messages /\ m.id = Top(t).msg.id
    BY <1>2, <1>4, <2>2 DEF Frames, Messages, Objects
  <2>4. PICK frame : frame = [Top(t) EXCEPT !.objs = tail, !.msg = m, !.nth = 1, !.at = place]
    OBVIOUS
  <2>5. frame \in Frames /\ frame.objs = <<>> /\ frame.at \in {"sinks", "push"}
        /\ frame.for = "log" /\ frame.error = FALSE /\ frame.msg.id = Top(t).msg.id
    <3>1. 1 \in 1 .. NumSinks + 1
      BY LoggerAssumption
    <3> QED BY <1>2, <1>4, <1>6, <2>1, <2>3, <2>4, <3>1 DEF Frames, Objects
  <2>6. Goto(t, frame) /\ UNCHANGED returned
    <3>1. PICK rest : rest = [Top(t) EXCEPT !.objs = tail]
      OBVIOUS
    <3>2. /\ Goto(t, [rest EXCEPT !.msg.params = e.params, !.nth = 1,
                                  !.at = IF rest.log THEN "sinks" ELSE "push"])
          /\ UNCHANGED returned
      BY <1>3, <1>6, <3>1 DEF Destroy
    <3>3. frame = [rest EXCEPT !.msg.params = e.params, !.nth = 1,
                               !.at = IF rest.log THEN "sinks" ELSE "push"]
      BY <1>2, <2>1, <2>2, <2>4, <3>1 DEF Frames
    <3> QED BY <3>2, <3>3
  <2>7. frame.objs \in Seq(Objects)
    BY <1>4, <1>6, <2>5
  <2>8. StackInv'
    BY <1>1, <1>2, <2>5, <2>6, <2>7, LogFrameStep
  <2>9. DataInv'
    BY <1>1, <2>6 DEF DataInv
  <2> QED BY <2>8, <2>9
<1> QED BY <1>5, <1>6

(* A message is traced.                                                    *)
LEMMA PushBackFacts ==
    ASSUME DataInv, NEW m \in Messages, m.id \in 1 .. Len(calls), PushBack(m)
    PROVE  /\ messages_' \in Seq(Messages) /\ Len(messages_') <= max_items_
           /\ \A n \in 1 .. Len(messages_') : messages_'[n].id \in 1 .. Len(calls)
           /\ Numbers(Append(messages_, m)) \subseteq 1 .. Len(calls)
<1>1. PICK q : q = Append(messages_, m)
  OBVIOUS
<1>2. /\ q \in Seq(Messages) /\ q # <<>> /\ Len(q) = Len(messages_) + 1
      /\ \A n \in 1 .. Len(messages_) : q[n] = messages_[n]
      /\ q[Len(messages_) + 1] = m
      /\ Len(messages_) \in Nat
  BY <1>1, AppendProperties, LenProperties DEF DataInv
<1>3. \A n \in 1 .. Len(q) : q[n].id \in 1 .. Len(calls)
  BY <1>2 DEF DataInv
<1>4. /\ Tail(q) \in Seq(Messages) /\ Len(Tail(q)) = Len(q) - 1
      /\ \A n \in 1 .. Len(Tail(q)) : Tail(q)[n] = q[n + 1]
  BY <1>2, HeadTailProperties
<1>5. messages_' = IF Len(q) > max_items_ THEN Tail(q) ELSE q
  BY <1>1 DEF PushBack
<1>6. Len(messages_) <= max_items_ /\ max_items_ \in Nat
  BY DEF DataInv
<1>7. Numbers(q) \subseteq 1 .. Len(calls)
  BY <1>3 DEF Numbers
<1>8. CASE Len(q) > max_items_
  <2>1. PICK tail \in Seq(Messages) : tail = Tail(q)
    BY <1>4
  <2>2. Len(tail) = Len(messages_) /\ \A n \in 1 .. Len(tail) : tail[n] = q[n + 1]
    BY <1>2, <1>4, <2>1
  <2>3. \A n \in 1 .. Len(tail) : n + 1 \in 1 .. Len(q)
    BY <1>2, <2>2
  <2>4. \A n \in 1 .. Len(tail) : tail[n].id \in 1 .. Len(calls)
    BY <1>3, <2>2, <2>3
  <2>5. messages_' = tail
    BY <1>5, <1>8, <2>1
  <2> QED BY <1>1, <1>6, <1>7, <2>2, <2>4, <2>5
<1>9. CASE ~ (Len(q) > max_items_)
  <2>1. messages_' = q
    BY <1>5, <1>9
  <2>2. Len(q) <= max_items_
    BY <1>2, <1>6, <1>9
  <2> QED BY <1>1, <1>2, <1>3, <1>7, <2>1, <2>2
<1> QED BY <1>8, <1>9

(* ... by the rest of executor_callback, after which the call has returned. *)
LEMMA PushTraceStep ==
    ASSUME Inv, NEW t \in Threads, PushTrace(t)
    PROVE  Inv'
<1> USE DEF Inv
<1>1. /\ Depth(t) > 0 /\ Top(t).at = "push"
      /\ UNCHANGED <<level_, flush_level_, calls, failed>>
  BY DEF PushTrace, At, settings
<1>2. /\ Top(t) \in Frames /\ Top(t).for = "log" /\ Top(t).objs = <<>>
      /\ Top(t).msg.id \in 1 .. Len(calls) /\ ~ InForeachPop(Top(t))
  BY <1>1, TopFacts DEF Shaped, InForeachPop
<1>3. Return(t) /\ returned' = returned \cup {Top(t).msg.id}
  BY <1>2 DEF PushTrace, BackToCaller
<1>4. CASE Top(t).trace
  <2>1. PushBack(Top(t).msg)
        /\ lost' = lost \cup (Numbers(Append(messages_, Top(t).msg)) \ Numbers(messages_'))
    BY <1>4 DEF PushTrace
  <2>2. Top(t).msg \in Messages
    BY <1>2 DEF Frames
  <2>3. /\ messages_' \in Seq(Messages) /\ Len(messages_') <= max_items_
        /\ \A n \in 1 .. Len(messages_') : messages_'[n].id \in 1 .. Len(calls)
        /\ Numbers(Append(messages_, Top(t).msg)) \subseteq 1 .. Len(calls)
    BY <1>2, <2>1, <2>2, PushBackFacts
  <2>4. mutex_ = Nobody /\ UNCHANGED <<enabled_, max_items_, mutex_>>
    BY <2>1 DEF PushBack
  <2>5. StackInv'
    BY <1>1, <1>2, <1>3, <2>4, ReturnStep
  <2>6. DataInv'
    BY <1>1, <1>2, <1>3, <2>1, <2>3, <2>4 DEF DataInv
  <2> QED BY <2>5, <2>6
<1>5. CASE ~ Top(t).trace
  <2>1. UNCHANGED <<enabled_, messages_, max_items_, mutex_, lost>>
    BY <1>5 DEF PushTrace, tracerVars
  <2>2. StackInv'
    BY <1>1, <1>2, <1>3, <2>1, ReturnStep
  <2>3. DataInv'
    BY <1>1, <1>2, <1>3, <2>1 DEF DataInv
  <2> QED BY <2>2, <2>3
<1> QED BY <1>4, <1>5

-----------------------------------------------------------------------------
(* The message in front is taken away.                                     *)
LEMMA PopFrontFacts ==
    ASSUME DataInv, messages_ # <<>>, PopFront
    PROVE  /\ messages_' \in Seq(Messages) /\ Len(messages_') <= max_items_
           /\ \A n \in 1 .. Len(messages_') : messages_'[n].id \in 1 .. Len(calls)
<1>1. PICK tail : tail = Tail(messages_)
  OBVIOUS
<1>2. /\ tail \in Seq(Messages) /\ Len(tail) = Len(messages_) - 1
      /\ \A n \in 1 .. Len(tail) : tail[n] = messages_[n + 1]
      /\ Len(messages_) \in Nat
  BY <1>1, HeadTailProperties, LenProperties DEF DataInv
<1>3. \A n \in 1 .. Len(tail) : n + 1 \in 1 .. Len(messages_)
  BY <1>2
<1>4. messages_' = tail
  BY <1>1 DEF PopFront
<1> QED BY <1>2, <1>3, <1>4 DEF DataInv

(* What follows a delivery in its caller.                                  *)
LEMMA AfterSinkItStep ==
    ASSUME Inv, NEW t \in Threads, Depth(t) > 0, ~ Top(t).error,
           Top(t).at \in {"sinks", "flush"}, Top(t).for # "flush", AfterSinkIt(t),
           UNCHANGED <<level_, flush_level_, calls, failed, returned, lost>>
    PROVE  Inv'
<1> USE DEF Inv
<1>1. /\ Top(t) \in Frames /\ Shaped(Top(t))
      /\ InForeachPop(Top(t)) => mutex_ = t
      /\ ShowsFront(Top(t)) => messages_ # <<>>
      /\ Top(t).objs = <<>>
      /\ Top(t).error = FALSE
  <2>1. Top(t) \in Frames /\ Shaped(Top(t))
    BY TopFacts
  <2> QED BY <2>1, TopFacts DEF Shaped, Frames
<1>2. ASSUME NEW place \in {"push", "lock", "next"}, UNCHANGED <<enabled_, max_items_, mutex_>>,
             Goto(t, [Top(t) EXCEPT !.at = place]),
             place = "push" => Top(t).for = "log",
             place = "lock" => Top(t).for = "start",
             place = "next" => Top(t).for = "front",
             IF place = "next" THEN PopFront ELSE UNCHANGED messages_
      PROVE  Inv'
  <2>1. PICK frame : frame = [Top(t) EXCEPT !.at = place]
    OBVIOUS
  <2>2. /\ frame \in Frames /\ frame.at = place /\ frame.for = Top(t).for
        /\ frame.msg = Top(t).msg /\ frame.objs = <<>> /\ frame.error = FALSE
    BY <1>1, <1>2, <2>1 DEF Frames
  <2>3. Shaped(frame) /\ ~ ShowsFront(frame)
    BY <1>1, <1>2, <2>2 DEF Shaped, ShowsFront
  <2>4. InForeachPop(frame) <=> InForeachPop(Top(t))
    BY <1>2, <2>2 DEF InForeachPop
  <2>5. \/ UNCHANGED messages_ \/ mutex_ = Nobody
        \/ mutex_ = t /\ InForeachPop(Top(t)) /\ ~ ShowsFront(frame)
    BY <1>1, <1>2, <2>3 DEF InForeachPop
  <2>6. StackInv'
    BY <1>2, <2>1, <2>2, <2>3, <2>4, <2>5, GotoStep
  <2>7. /\ messages_' \in Seq(Messages) /\ Len(messages_') <= max_items_
        /\ \A n \in 1 .. Len(messages_') : messages_'[n].id \in 1 .. Len(calls)
    <3>1. CASE place = "next"
      BY <1>1, <1>2, <3>1, PopFrontFacts DEF ShowsFront
    <3>2. CASE place # "next"
      BY <1>2, <3>2 DEF DataInv
    <3> QED BY <3>1, <3>2
  <2>8. DataInv'
    BY <1>2, <2>7 DEF DataInv
  <2> QED BY <2>6, <2>8
<1>3. CASE Top(t).for = "log"
  BY <1>2, <1>3 DEF AfterSinkIt, tracerVars
<1>4. CASE Top(t).for = "start"
  BY <1>2, <1>4 DEF AfterSinkIt, tracerVars
<1>5. CASE Top(t).for = "front"
  BY <1>2, <1>5 DEF AfterSinkIt, PopFront
<1>6. CASE Top(t).for = "end"
  <2>1. Return(t) /\ UNCHANGED <<enabled_, messages_, max_items_, mutex_>>
    BY <1>6 DEF AfterSinkIt, tracerVars
  <2>2. ~ InForeachPop(Top(t))
    BY <1>6 DEF InForeachPop
  <2>3. StackInv'
    BY <2>1, <2>2, ReturnStep
  <2>4. DataInv'
    BY <2>1 DEF DataInv
  <2> QED BY <2>3, <2>4
<1> QED BY <1>1, <1>3, <1>4, <1>5, <1>6 DEF Frames

(* The end of a loop over the sinks.                                       *)
LEMMA AfterSinksStep ==
    ASSUME Inv, NEW t \in Threads, AfterSinks(t)
    PROVE  Inv'
<1> USE DEF Inv
<1>1. /\ Depth(t) > 0 /\ Top(t).at = "sinks" /\ ~ Top(t).error
      /\ UNCHANGED <<level_, flush_level_, failed, returned, lost>>
  BY DEF AfterSinks, At, settings
<1>2. /\ Top(t) \in Frames /\ Shaped(Top(t))
      /\ ShowsFront(Top(t)) => messages_ # <<>>
      /\ Top(t).objs = <<>> /\ Top(t).for # "flush" /\ Top(t).error = FALSE
      /\ Top(t).for = "log" => Top(t).msg.id \in 1 .. Len(calls)
  <2>1. Top(t) \in Frames /\ Shaped(Top(t))
    BY <1>1, TopFacts
  <2> QED BY <1>1, <2>1, TopFacts DEF Shaped, Frames
<1>3. CASE should_flush_(Top(t).msg)
  <2>1. PICK frame : frame = [Top(t) EXCEPT !.at = "flush", !.nth = 1]
    OBVIOUS
  <2>2. /\ frame \in Frames /\ frame.at = "flush" /\ frame.for = Top(t).for
        /\ frame.msg = Top(t).msg /\ frame.objs = <<>> /\ frame.error = FALSE
    <3>1. 1 \in 1 .. NumSinks + 1
      BY LoggerAssumption
    <3> QED BY <1>2, <2>1, <3>1 DEF Frames
  <2>3. /\ Goto(t, frame) /\ UNCHANGED <<enabled_, messages_, max_items_, mutex_>>
        /\ calls' = IF Top(t).for = "log"
                    THEN [calls EXCEPT ![Top(t).msg.id].flush = TRUE] ELSE calls
    BY <1>3, <2>1 DEF AfterSinks, tracerVars
  <2>4. calls' \in Seq(CallRecord) /\ Len(calls') = Len(calls)
    <3>1. CASE Top(t).for = "log"
      <4>1. calls[Top(t).msg.id] \in CallRecord /\ calls \in Seq(CallRecord)
        BY <1>2, <3>1, ElementOfSeq DEF DataInv
      <4>2. [calls[Top(t).msg.id] EXCEPT !.flush = TRUE] \in CallRecord
        BY <4>1 DEF CallRecord
      <4> QED BY <1>2, <2>3, <3>1, <4>1, <4>2, ExceptSeq
    <3>2. CASE Top(t).for # "log"
      BY <2>3, <3>2 DEF DataInv
    <3> QED BY <3>1, <3>2
  <2>5. Shaped(frame)
    BY <1>2, <2>2 DEF Shaped
  <2>6. /\ InForeachPop(frame) <=> InForeachPop(Top(t))
        /\ ShowsFront(frame) => messages_ # <<>>
    BY <1>1, <1>2, <2>2 DEF InForeachPop, ShowsFront
  <2>7. StackInv'
    BY <1>1, <2>2, <2>3, <2>4, <2>5, <2>6, GotoStep
  <2>8. DataInv'
    BY <1>1, <2>3, <2>4 DEF DataInv
  <2> QED BY <2>7, <2>8
<1>4. CASE ~ should_flush_(Top(t).msg)
  <2>1. AfterSinkIt(t) /\ UNCHANGED calls
    BY <1>4 DEF AfterSinks
  <2> QED BY <1>1, <1>2, <2>1, AfterSinkItStep
<1> QED BY <1>3, <1>4

(* The end of a loop that flushes the sinks. *)
LEMMA AfterFlushStep ==
    ASSUME Inv, NEW t \in Threads, AfterFlush(t)
    PROVE  Inv'
<1> USE DEF Inv
<1>1. /\ Depth(t) > 0 /\ Top(t).at = "flush" /\ ~ Top(t).error
      /\ UNCHANGED <<level_, flush_level_, calls, failed, returned, lost>>
  BY DEF AfterFlush, At, settings, history
<1>2. CASE Top(t).for = "flush"
  <2>1. Return(t) /\ UNCHANGED <<enabled_, messages_, max_items_, mutex_>>
    BY <1>2 DEF AfterFlush, tracerVars
  <2>2. ~ InForeachPop(Top(t))
    BY <1>1, <1>2 DEF InForeachPop
  <2>3. StackInv'
    BY <1>1, <2>1, <2>2, ReturnStep
  <2>4. DataInv'
    BY <1>1, <2>1 DEF DataInv
  <2> QED BY <2>3, <2>4
<1>3. CASE Top(t).for # "flush"
  <2>1. AfterSinkIt(t)
    BY <1>3 DEF AfterFlush
  <2> QED BY <1>1, <1>3, <2>1, AfterSinkItStep
<1> QED BY <1>2, <1>3

-----------------------------------------------------------------------------
(* foreach_pop takes the mutex ...                                         *)
LEMMA LockTracerStep ==
    ASSUME Inv, NEW t \in Threads, LockTracer(t)
    PROVE  Inv'
<1> USE DEF Inv
<1>1. /\ Depth(t) > 0 /\ Top(t).at = "lock" /\ mutex_ = Nobody /\ mutex_' = t
      /\ UNCHANGED <<enabled_, messages_, max_items_, level_, flush_level_, calls,
                     failed, returned, lost>>
  BY DEF LockTracer, Lock, At, settings, history
<1>2. /\ Top(t) \in Frames /\ Shaped(Top(t))
  BY <1>1, TopFacts
<1>3. PICK frame : frame = [Top(t) EXCEPT !.at = "next"]
  OBVIOUS
<1>4. /\ frame \in Frames /\ frame.at = "next" /\ frame.for = Top(t).for
      /\ frame.msg = Top(t).msg /\ frame.objs = Top(t).objs /\ frame.error = Top(t).error
  BY <1>2, <1>3 DEF Frames
<1>5. Shaped(frame) /\ InForeachPop(frame) /\ ~ ShowsFront(frame)
  BY <1>1, <1>2, <1>4 DEF Shaped, InForeachPop, ShowsFront
<1>6. /\ StackOK'
      /\ \A s \in Threads \ {t} : stack'[s] = stack[s]
      /\ Len(stack'[t]) = Depth(t)
      /\ stack'[t][Depth(t)] = frame
      /\ \A d \in 1 .. (Depth(t) - 1) : stack'[t][d] = stack[t][d]
  <2>1. Goto(t, frame)
    BY <1>3 DEF LockTracer
  <2> QED BY <1>1, <1>4, <2>1, GotoFacts DEF StackInv
<1>7. \A s \in Threads : Depth(s) \in Nat /\ Depth(s)' = Depth(s)
  BY <1>6, StackFacts DEF StackInv, Depth
<1>8. \A s \in Threads : \A d \in 1 .. Depth(s) :
          \/ stack'[s][d] = stack[s][d] /\ ~ InForeachPop(stack[s][d])
          \/ s = t /\ d = Depth(t) /\ stack'[s][d] = frame
  <2>1. \A s \in Threads : \A d \in 1 .. Depth(s) : ~ InForeachPop(stack[s][d])
    BY <1>1, NobodyHolds DEF StackInv
  <2> QED BY <1>6, <1>7, <2>1
<1>9. \A f : Shaped(f)' <=> Shaped(f)
  BY <1>1 DEF Shaped
<1>10. ShapeInv'
  BY <1>5, <1>7, <1>8, <1>9 DEF StackInv, ShapeInv
<1>11. LockInv'
  <2>1. Depth(t) \in 1 .. Depth(t)
    BY <1>1, <1>7
  <2>2. \A s \in Threads : \A d \in 1 .. Depth(s)' :
            InForeachPop(stack'[s][d]) <=> s = t /\ d = Depth(t)
    BY <1>5, <1>6, <1>7, <1>8
  <2>3. LockedOnlyWhileDumping'
    BY <1>1, <1>7, <2>1, <2>2 DEF LockedOnlyWhileDumping
  <2> QED BY <2>2, <2>3 DEF LockInv
<1>12. FrontInv'
  BY <1>1, <1>5, <1>7, <1>8 DEF StackInv, FrontInv
<1>13. DataInv'
  BY <1>1 DEF DataInv
<1> QED BY <1>6, <1>10, <1>11, <1>12, <1>13 DEF StackInv

(* ... and gives it back, in its own course or when an exception leaves.   *)
LEMMA UnlockFacts ==
    ASSUME StackInv, NEW t \in Threads, Depth(t) > 0, InForeachPop(Top(t)), Unlock(t)
    PROVE  /\ mutex_ = t /\ mutex_' = Nobody
           /\ UNCHANGED <<enabled_, messages_, max_items_>>
           /\ \A s \in Threads : \A d \in 1 .. Depth(s) :
                 InForeachPop(stack[s][d]) => s = t /\ d = Depth(t)
<1>1. Depth(t) \in 1 .. Depth(t) /\ InForeachPop(stack[t][Depth(t)])
  BY StackFacts DEF StackInv, Top
<1>2. mutex_ = t
  BY <1>1 DEF StackInv, LockInv, LockedOnlyWhileDumping
<1>3. \A s \in Threads : \A d \in 1 .. Depth(s) :
          InForeachPop(stack[s][d]) => s = t /\ d = Depth(t)
  BY <1>1, <1>2 DEF StackInv, LockInv, LockedOnlyWhileDumping
<1> QED BY <1>2, <1>3 DEF Unlock, Release

(* With nobody in foreach_pop the invariant asks for nothing more.         *)
LEMMA Unlocked ==
    ASSUME StackOK', ShapeInv', mutex_' = Nobody,
           \A s \in Threads : \A d \in 1 .. Depth(s)' : ~ InForeachPop(stack'[s][d])
    PROVE  StackInv'
<1>2. LockInv'
  <2>1. \A t \in Threads : mutex_' # t
    BY LoggerAssumption
  <2> QED BY <2>1 DEF LockInv, LockedOnlyWhileDumping
<1>3. FrontInv'
  BY DEF FrontInv, ShowsFront, InForeachPop
<1> QED BY <1>2, <1>3 DEF StackInv

(* The loop of foreach_pop goes on, or ends. *)
LEMMA NextTracedStep ==
    ASSUME Inv, NEW t \in Threads, NextTraced(t)
    PROVE  Inv'
<1> USE DEF Inv
<1>1. /\ Depth(t) > 0 /\ Top(t).at = "next"
      /\ UNCHANGED <<level_, flush_level_, calls, failed, returned, lost>>
  BY DEF NextTraced, At, settings, history
<1>2. /\ Top(t) \in Frames /\ Top(t).error = FALSE /\ Top(t).objs = <<>>
      /\ InForeachPop(Top(t)) /\ 1 \in 1 .. NumSinks + 1
  <2>1. Top(t) \in Frames /\ Shaped(Top(t))
    BY <1>1, TopFacts
  <2> QED BY <1>1, <2>1, LoggerAssumption DEF Shaped, Frames, InForeachPop
<1>3. CASE messages_ # <<>>
  <2>1. PICK frame : frame = [Top(t) EXCEPT !.at = "sinks", !.for = "front", !.nth = 1,
                                            !.msg = Head(messages_)]
    OBVIOUS
  <2>2. Head(messages_) \in Messages
    BY <1>3, HeadTailProperties DEF DataInv
  <2>3. /\ frame \in Frames /\ frame.at = "sinks" /\ frame.for = "front"
        /\ frame.objs = <<>> /\ frame.error = FALSE
    BY <1>2, <2>1, <2>2 DEF Frames
  <2>4. Goto(t, frame) /\ UNCHANGED <<enabled_, messages_, max_items_, mutex_>>
    BY <1>3, <2>1 DEF NextTraced, tracerVars
  <2>5. Shaped(frame) /\ InForeachPop(frame)
    BY <2>3 DEF Shaped, InForeachPop
  <2>6. StackInv'
    BY <1>1, <1>2, <1>3, <2>3, <2>4, <2>5, GotoStep
  <2>7. DataInv'
    BY <1>1, <2>4 DEF DataInv
  <2> QED BY <2>6, <2>7
<1>4. CASE messages_ = <<>>
  <2>1. PICK frame : frame = [Top(t) EXCEPT !.at = "sinks", !.for = "end", !.nth = 1,
                                            !.msg = Message(0, Info)]
    OBVIOUS
  <2>2. Message(0, Info) \in Messages
    BY NewMessage, LoggerAssumption DEF Ids, Info, Off
  <2>3. /\ frame \in Frames /\ frame.at = "sinks" /\ frame.for = "end"
        /\ frame.objs = <<>> /\ frame.error = FALSE
    BY <1>2, <2>1, <2>2 DEF Frames
  <2>4. Goto(t, frame) /\ Unlock(t)
    BY <1>4, <2>1 DEF NextTraced
  <2>5. Shaped(frame) /\ ~ InForeachPop(frame)
    BY <2>3 DEF Shaped, InForeachPop
  <2>6. /\ mutex_' = Nobody /\ UNCHANGED <<enabled_, messages_, max_items_>>
        /\ \A s \in Threads : \A d \in 1 .. Depth(s) :
              InForeachPop(stack[s][d]) => s = t /\ d = Depth(t)
    BY <1>1, <1>2, <2>4, UnlockFacts
  <2>7. /\ StackOK'
        /\ \A s \in Threads \ {t} : stack'[s] = stack[s]
        /\ Len(stack'[t]) = Depth(t)
        /\ stack'[t][Depth(t)] = frame
        /\ \A d \in 1 .. (Depth(t) - 1) : stack'[t][d] = stack[t][d]
    BY <1>1, <2>3, <2>4, GotoFacts DEF StackInv
  <2>8. \A s \in Threads : Depth(s) \in Nat /\ Depth(s)' = Depth(s)
    BY <2>7, StackFacts DEF StackInv, Depth
  <2>9. \A s \in Threads : \A d \in 1 .. Depth(s)' :
            Shaped(stack'[s][d]) /\ ~ InForeachPop(stack'[s][d])
    BY <2>5, <2>6, <2>7, <2>8 DEF StackInv, ShapeInv
  <2>10. \A f : Shaped(f)' <=> Shaped(f)
    BY <1>1 DEF Shaped
  <2>11. StackInv'
    <3>1. ShapeInv'
      BY <2>9, <2>10 DEF ShapeInv
    <3> QED BY <2>6, <2>7, <2>9, <3>1, Unlocked
  <2>12. DataInv'
    BY <1>1, <2>6, LoggerAssumption DEF DataInv
  <2> QED BY <2>11, <2>12
<1> QED BY <1>3, <1>4

(* An exception leaves a call, which may be inside foreach_pop. *)
LEMMA ExceptionLeavesStep ==
    ASSUME Inv, NEW t \in Threads, ExceptionLeaves(t)
    PROVE  Inv'
<1> USE DEF Inv
<1>1. /\ Depth(t) > 0 /\ Return(t)
      /\ UNCHANGED <<level_, flush_level_, calls, failed, returned, lost>>
  BY DEF ExceptionLeaves, InHandler, settings, history
<1>2. CASE InForeachPop(Top(t))
  <2>1. Unlock(t)
    BY <1>2 DEF ExceptionLeaves
  <2>2. /\ mutex_' = Nobody /\ UNCHANGED <<enabled_, messages_, max_items_>>
        /\ \A s \in Threads : \A d \in 1 .. Depth(s) :
              InForeachPop(stack[s][d]) => s = t /\ d = Depth(t)
    BY <1>1, <1>2, <2>1, UnlockFacts
  <2>3. /\ StackOK'
        /\ \A s \in Threads \ {t} : stack'[s] = stack[s]
        /\ Len(stack'[t]) = Depth(t) - 1
        /\ \A d \in 1 .. (Depth(t) - 1) : stack'[t][d] = stack[t][d]
    BY <1>1, ReturnFacts DEF StackInv
  <2>4. /\ \A s \in Threads : Depth(s) \in Nat
        /\ Depth(t)' = Depth(t) - 1
        /\ \A s \in Threads \ {t} : Depth(s)' = Depth(s)
    BY <2>3, StackFacts DEF StackInv, Depth
  <2>5. \A s \in Threads : \A d \in 1 .. Depth(s)' :
            d \in 1 .. Depth(s) /\ stack'[s][d] = stack[s][d] /\ ~ (s = t /\ d = Depth(t))
    BY <2>3, <2>4
  <2>6. \A s \in Threads : \A d \in 1 .. Depth(s)' :
            Shaped(stack'[s][d]) /\ ~ InForeachPop(stack'[s][d])
    BY <2>2, <2>5 DEF StackInv, ShapeInv
  <2>7. \A f : Shaped(f)' <=> Shaped(f)
    BY <1>1 DEF Shaped
  <2>8. StackInv'
    <3>1. ShapeInv'
      BY <2>6, <2>7 DEF ShapeInv
    <3> QED BY <2>2, <2>3, <2>6, <3>1, Unlocked
  <2>9. DataInv'
    BY <1>1, <2>2, LoggerAssumption DEF DataInv
  <2> QED BY <2>8, <2>9
<1>3. CASE ~ InForeachPop(Top(t))
  <2>1. UNCHANGED <<enabled_, messages_, max_items_, mutex_>>
    BY <1>3 DEF ExceptionLeaves, tracerVars
  <2>2. StackInv'
    BY <1>1, <1>3, <2>1, ReturnStep
  <2>3. DataInv'
    BY <1>1, <2>1 DEF DataInv
  <2> QED BY <2>2, <2>3
<1> QED BY <1>2, <1>3

-----------------------------------------------------------------------------
(* The settings and the backtrace are changed.                             *)
LEMMA ConfigureStep ==
    ASSUME Inv, Configure
    PROVE  Inv'
<1> USE DEF Inv
<1>1. UNCHANGED <<stack, calls, failed, returned>>
  BY DEF Configure
<1>2. \A f : Shaped(f)' <=> Shaped(f)
  BY <1>1 DEF Shaped
<1>3. ASSUME UNCHANGED mutex_, UNCHANGED messages_ \/ mutex_ = Nobody
      PROVE  StackInv'
  <2>1. StackOK' /\ ShapeInv' /\ LockInv'
    BY <1>1, <1>2, <1>3
    DEF StackInv, StackOK, ShapeInv, LockInv, LockedOnlyWhileDumping, Depth
  <2>2. FrontInv'
    <3>1. CASE UNCHANGED messages_
      BY <1>1, <3>1 DEF StackInv, FrontInv, Depth
    <3>2. CASE mutex_ = Nobody
      <4>1. \A s \in Threads : \A d \in 1 .. Depth(s) : ~ InForeachPop(stack[s][d])
        BY <3>2, NobodyHolds DEF StackInv
      <4> QED BY <1>1, <4>1 DEF FrontInv, ShowsFront, InForeachPop, Depth
    <3> QED BY <1>3, <3>1, <3>2
  <2> QED BY <2>1, <2>2 DEF StackInv
<1>4. ASSUME NEW level \in Levels, SetLevel(level) PROVE Inv'
  <2>1. level \in 0 .. Off
    BY LoggerAssumption
  <2> QED BY <1>1, <1>3, <1>4, <2>1 DEF SetLevel, tracerVars, DataInv
<1>5. ASSUME NEW level \in FlushLevels, FlushOn(level) PROVE Inv'
  <2>1. level \in 0 .. Off
    BY LoggerAssumption
  <2> QED BY <1>1, <1>3, <1>5, <2>1 DEF FlushOn, tracerVars, DataInv
<1>6. ASSUME NEW size \in Sizes, EnableBacktrace(size) PROVE Inv'
  <2>1. /\ mutex_ = Nobody /\ enabled_' = TRUE /\ messages_' = <<>> /\ max_items_' = size
        /\ UNCHANGED <<mutex_, level_, flush_level_>>
        /\ lost' = lost \cup Numbers(messages_)
    BY <1>6 DEF EnableBacktrace, Enable
  <2>2. size \in Nat
    BY LoggerAssumption
  <2>3. Numbers(messages_) \subseteq 1 .. Len(calls)
    BY DEF Numbers, DataInv
  <2>4. /\ messages_' \in Seq(Messages) /\ Len(messages_') = 0
        /\ \A n \in 1 .. Len(messages_') : messages_'[n].id \in 1 .. Len(calls)
    BY <2>1
  <2>5. max_items_' \in Nat /\ Len(messages_') <= max_items_' /\ enabled_' \in BOOLEAN
    BY <2>1, <2>2, <2>4
  <2>6. lost' \subseteq 1 .. Len(calls)
    BY <2>1, <2>3 DEF DataInv
  <2>7. DataInv'
    BY <1>1, <2>1, <2>4, <2>5, <2>6 DEF DataInv
  <2> QED BY <1>3, <2>1, <2>7
<1>7. CASE DisableBacktrace
  <2>1. mutex_ = Nobody /\ enabled_' = FALSE
        /\ UNCHANGED <<messages_, max_items_, mutex_, level_, flush_level_, lost>>
    BY <1>7 DEF DisableBacktrace, Disable
  <2>2. DataInv'
    BY <1>1, <2>1 DEF DataInv
  <2> QED BY <1>3, <2>1, <2>2
<1> QED BY <1>4, <1>5, <1>6, <1>7 DEF Configure

(* The invariant holds at first ...                                        *)
LEMMA InitInv == Init => Inv
<1> SUFFICES ASSUME Init PROVE Inv
  OBVIOUS
<1>1. /\ stack = [t \in Threads |-> <<>>] /\ calls = <<>> /\ lost = {} /\ failed = {}
      /\ returned = {} /\ level_ = Info /\ flush_level_ \in {Off} \cup FlushLevels
  BY DEF Init
<1>2. /\ enabled_ \in BOOLEAN /\ messages_ = <<>> /\ max_items_ \in Nat /\ mutex_ = Nobody
  <2>1. CASE TracerInit
    BY <2>1 DEF TracerInit
  <2>2. ASSUME NEW size \in Sizes, TracerEnabled(size)
        PROVE  /\ enabled_ \in BOOLEAN /\ messages_ = <<>> /\ max_items_ \in Nat
               /\ mutex_ = Nobody
    BY <2>2, LoggerAssumption DEF TracerEnabled
  <2> QED BY <2>1, <2>2 DEF Init
<1>3. StackOK
  BY <1>1 DEF StackOK
<1>4. \A t \in Threads : Depth(t) = 0
  BY <1>1 DEF Depth
<1>5. StackInv
  <2>1. \A t \in Threads : 1 .. Depth(t) = {}
    BY <1>4
  <2>2. \A t \in Threads : mutex_ # t
    BY <1>2, LoggerAssumption
  <2> QED BY <1>3, <2>1, <2>2
      DEF StackInv, ShapeInv, LockInv, LockedOnlyWhileDumping, FrontInv
<1>6. DataInv
  <2>1. messages_ \in Seq(Messages) /\ Len(messages_) = 0
        /\ calls \in Seq(CallRecord) /\ Len(calls) = 0
    BY <1>1, <1>2
  <2>2. level_ \in 0 .. Off /\ flush_level_ \in 0 .. Off
    BY <1>1, LoggerAssumption DEF Info, Off
  <2> QED BY <1>1, <1>2, <2>1, <2>2, LoggerAssumption DEF DataInv
<1> QED BY <1>5, <1>6 DEF Inv

(* ... and every step keeps it.                                            *)
LEMMA NextInv == Inv /\ [Next]_vars => Inv'
<1> SUFFICES ASSUME Inv, [Next]_vars PROVE Inv'
  OBVIOUS
<1>1. ASSUME NEW t \in Threads, Running(t) PROVE Inv'
  BY <1>1, ReadEnabledStep, DestroyStep, PushTraceStep, SinkStep, AfterSinksStep,
     AfterFlushStep, LockTracerStep, NextTracedStep, HandlerStep, ExceptionLeavesStep
  DEF Running
<1>2. ASSUME NEW t \in Threads, Using(t) PROVE Inv'
  BY <1>2, SinkStep, MoveExecutorStep, AddParamsStep DEF Using
<1>3. CASE UNCHANGED vars
  BY <1>3 DEF Inv, StackInv, StackOK, ShapeInv, Shaped, LockInv, LockedOnlyWhileDumping,
              FrontInv, DataInv, Depth, vars, tracerVars, settings, history
<1> QED BY <1>1, <1>2, <1>3, CallingStep, ConfigureStep DEF Next, Stopped

(* The invariant, as a theorem of the specification.                       *)
THEOREM Invariant == Spec => []Inv
<1>1. Init => Inv
  BY InitInv
<1>2. Inv /\ [Next]_vars => Inv'
  BY NextInv
<1> QED BY <1>1, <1>2, PTL DEF Spec

(* What the logger, its tracer and the calls in progress can be.           *)
THEOREM TypeCorrect == Spec => []TypeOK
<1>1. Inv => TypeOK
  BY DEF Inv, StackInv, StackOK, DataInv, TypeOK, Reasons
<1> QED BY <1>1, Invariant, PTL

(* The tracer's mutex is held exactly by the thread that is inside         *)
(* foreach_pop, however sinks and error handlers fail and whatever they    *)
(* call (backtracer-inl.h:60).                                             *)
THEOREM MutexFollowsDumps == Spec => []LockedOnlyWhileDumping
<1>1. Inv => LockedOnlyWhileDumping
  BY DEF Inv, StackInv, LockInv
<1> QED BY <1>1, Invariant, PTL

-----------------------------------------------------------------------------
(* Delivery.  Where a message has been put, apart from dumps, and traced.  *)
Places(i, id) == {n \in 1 .. Len(got[i]) : got[i][n].id = id /\ ~ got[i][n].dump}
Traces(id) == {n \in 1 .. Len(pushed) : pushed[n] = id}

(* Sink i should get the message; it has got it or failed on it; what it   *)
(* has got is flushed or the flush failed.                                 *)
Takes(i, id) == calls[id].log /\ calls[id].level >= SinkLevel[i]
Given(i, id) == Takes(i, id) /\ <<id, i, "log">> \notin failed => Places(i, id) # {}
Flushed(i, id) == <<id, i, "flush">> \notin failed => \A n \in Places(i, id) : n <= flushed[i]

(* What is true of a message at any time ...                               *)
Sound(id) ==
    /\ \A m, n \in Traces(id) : m = n
    /\ Traces(id) # {} => calls[id].trace
    /\ \A i \in Sinks :
          /\ \A m, n \in Places(i, id) : m = n
          /\ Places(i, id) # {} => Takes(i, id)
          /\ \A n \in Places(i, id) : got[i][n].params = calls[id].params

(* ... when its call has returned ...                                      *)
Settled(id) ==
    /\ calls[id].trace => Traces(id) # {}
    /\ \A i \in Sinks : Given(i, id) /\ (calls[id].flush => Flushed(i, id))

(* ... and while the call f carries it, place by place.                    *)
Carries(f) ==
    LET id == f.msg.id
        c == calls[id]
    IN  /\ id \notin returned /\ Traces(id) = {}
        /\ f.log = c.log /\ f.msg.level = c.level
        /\ f.at # "enter" => f.trace = c.trace
        /\ f.at \in {"enter", "hold"} => ~ c.flush /\ \A i \in Sinks : Places(i, id) = {}
        /\ f.at = "enter" => c.params = {}
        /\ f.at = "hold" => f.objs[Len(f.objs)].params = c.params
        /\ f.at \in {"sinks", "flush", "push"} => f.msg.params = c.params
        /\ f.at = "sinks" =>
              /\ c.log /\ ~ c.flush
              /\ \A i \in Sinks : IF i < f.nth THEN Given(i, id) ELSE Places(i, id) = {}
              /\ f.error => <<id, f.nth, "log">> \in failed
        /\ f.at = "flush" =>
              /\ \A i \in Sinks : Given(i, id) /\ (i < f.nth => Flushed(i, id))
              /\ f.error => <<id, f.nth, "flush">> \in failed
        /\ f.at = "push" =>
              \A i \in Sinks : Given(i, id) /\ (c.flush => Flushed(i, id))

Entries == [id : Ids, params : SUBSET Keys, dump : BOOLEAN]

RecordsOK ==
    /\ got \in [Sinks -> Seq(Entries)] /\ flushed \in [Sinks -> Nat] /\ pushed \in Seq(Ids)
    /\ \A i \in Sinks : flushed[i] <= Len(got[i])
    /\ \A i \in Sinks : \A n \in 1 .. Len(got[i]) :
          got[i][n].dump \/ got[i][n].id \in 1 .. Len(calls)
    /\ \A n \in 1 .. Len(pushed) : pushed[n] \in 1 .. Len(calls)

MessagesOK ==
    \A id \in 1 .. Len(calls) : Sound(id) /\ (id \in returned => Settled(id))

(* A message has one carrier at most; the marks have no number.            *)
CarriersOK ==
    /\ \A t \in Threads : \A d \in 1 .. Depth(t) :
          /\ stack[t][d].for = "log" => Carries(stack[t][d])
          /\ stack[t][d].for \in {"start", "end"} => stack[t][d].msg.id = 0
    /\ \A s, t \in Threads : \A c \in 1 .. Depth(s), d \in 1 .. Depth(t) :
          /\ stack[s][c].for = "log" /\ stack[t][d].for = "log"
          /\ stack[s][c].msg.id = stack[t][d].msg.id
          => s = t /\ c = d

Delivery == RecordsOK /\ MessagesOK /\ CarriersOK

(* A step that adds nothing to what has become of a message.               *)
Same(id) ==
    /\ calls'[id] = calls[id]
    /\ id \in returned' <=> id \in returned
    /\ Traces(id)' = Traces(id)
    /\ failed \subseteq failed'
    /\ \A i \in Sinks :
          /\ Places(i, id)' = Places(i, id)
          /\ \A n \in Places(i, id) : got'[i][n] = got[i][n]
          /\ flushed[i] <= flushed'[i]

(* A message that a step does not touch is as well off as before.          *)
LEMMA GivenKept ==
    ASSUME RecordsOK, RecordsOK', NEW id, Same(id), NEW i \in Sinks
    PROVE  /\ Takes(i, id)' <=> Takes(i, id)
           /\ Given(i, id) => Given(i, id)'
           /\ Flushed(i, id) => Flushed(i, id)'
<1>1. Takes(i, id)' <=> Takes(i, id)
  BY DEF Same, Takes
<1>2. Given(i, id) => Given(i, id)'
  BY <1>1 DEF Same, Given
<1>3. ASSUME Flushed(i, id), <<id, i, "flush">> \notin failed', NEW n \in Places(i, id)'
      PROVE  n <= flushed'[i]
  <2>1. n \in Places(i, id) /\ n <= flushed[i] /\ flushed[i] <= flushed'[i]
    BY <1>3 DEF Same, Flushed
  <2>2. n \in Nat /\ flushed[i] \in Nat /\ flushed'[i] \in Nat
    BY <2>1 DEF Places, RecordsOK
  <2> QED BY <2>1, <2>2
<1> QED BY <1>1, <1>2, <1>3 DEF Flushed

(* ... for whoever asks about it.                                          *)
LEMMA SameKept ==
    ASSUME RecordsOK, RecordsOK', NEW id, Same(id)
    PROVE  /\ Sound(id) => Sound(id)'
           /\ Settled(id) => Settled(id)'
           /\ \A f : f.msg.id = id /\ Carries(f) => Carries(f)'
<1>1. Sound(id) => Sound(id)'
  BY GivenKept DEF Same, Sound
<1>2. Settled(id) => Settled(id)'
  BY GivenKept DEF Same, Settled
<1>3. ASSUME NEW f, f.msg.id = id, Carries(f) PROVE Carries(f)'
  <2>1. \A i \in Sinks : /\ Given(i, id) => Given(i, id)'
                         /\ Flushed(i, id) => Flushed(i, id)'
                         /\ Places(i, id)' = Places(i, id)
    BY GivenKept DEF Same
  <2>2. calls'[id] = calls[id] /\ (id \in returned' <=> id \in returned)
        /\ Traces(id)' = Traces(id) /\ failed \subseteq failed'
    BY DEF Same
  <2> QED BY <1>3, <2>1, <2>2 DEF Carries
<1> QED BY <1>1, <1>2, <1>3

(* After a step of thread t the calls are in what they were in, and carry    *)
(* another message than own; the one in place k may be new.                *)
Others(t, own, k, frame) ==
    \A s \in Threads : \A d \in 1 .. Depth(s)' :
        \/ /\ d \in 1 .. Depth(s) /\ stack'[s][d] = stack[s][d]
           /\ stack[s][d].for = "log" =>
                 stack[s][d].msg.id # own /\ stack[s][d].msg.id \in 1 .. Len(calls)
        \/ s = t /\ d = k /\ stack'[s][d] = frame

(* A step of thread t that touches the message number own at most: the     *)
(* frames are old and carry another message, or the new one in place k.    *)
LEMMA DeliveryStep ==
    ASSUME Delivery, RecordsOK', NEW t \in Threads, NEW own, NEW k, NEW frame,
           Others(t, own, k, frame),
           frame.for = "log" => frame.msg.id = own /\ Carries(frame)',
           frame.for \in {"start", "end"} => frame.msg.id = 0,
           \A id \in 1 .. Len(calls) : id # own => Same(id),
           \A id \in 1 .. Len(calls') : id # own => id \in 1 .. Len(calls),
           own \in 1 .. Len(calls') => Sound(own)' /\ (own \in returned' => Settled(own)')
    PROVE  Delivery'
<1>1. \A id \in 1 .. Len(calls) : id # own =>
          /\ Sound(id) => Sound(id)'
          /\ Settled(id) => Settled(id)'
          /\ \A f : f.msg.id = id /\ Carries(f) => Carries(f)'
          /\ id \in returned' <=> id \in returned
  BY SameKept DEF Delivery, Same
<1>2. MessagesOK'
  BY <1>1 DEF Delivery, MessagesOK
<1>3. ASSUME NEW s \in Threads, NEW d \in 1 .. Depth(s)'
      PROVE  /\ stack'[s][d].for = "log" => Carries(stack[s][d])'
             /\ stack'[s][d].for \in {"start", "end"} => stack'[s][d].msg.id = 0
  <2>0. PICK g : g = stack'[s][d]
    OBVIOUS
  <2>1. CASE s = t /\ d = k /\ stack'[s][d] = frame
    <3>1. g = frame
      BY <2>0, <2>1
    <3>2. (g.for = "log" => Carries(g)') /\ (g.for \in {"start", "end"} => g.msg.id = 0)
      BY <3>1
    <3> QED BY <2>0, <3>2
  <2>2. CASE /\ d \in 1 .. Depth(s) /\ stack'[s][d] = stack[s][d]
             /\ stack[s][d].for = "log" =>
                   stack[s][d].msg.id # own /\ stack[s][d].msg.id \in 1 .. Len(calls)
    <3>1. g = stack[s][d]
      BY <2>0, <2>2
    <3>2. g.for = "log" => Carries(g) /\ g.msg.id # own /\ g.msg.id \in 1 .. Len(calls)
      BY <2>2, <3>1 DEF Delivery, CarriersOK
    <3>3. g.for = "log" => Carries(g)'
      BY <1>1, <3>2
    <3>4. g.for \in {"start", "end"} => g.msg.id = 0
      BY <2>2, <3>1 DEF Delivery, CarriersOK
    <3> QED BY <2>0, <3>3, <3>4
  <2> QED BY <2>1, <2>2 DEF Others
<1>4. ASSUME NEW s \in Threads, NEW r \in Threads, NEW c \in 1 .. Depth(s)', NEW d \in 1 .. Depth(r)',
             stack'[s][c].for = "log", stack'[r][d].for = "log",
             stack'[s][c].msg.id = stack'[r][d].msg.id
      PROVE  s = r /\ c = d
  <2>1. \/ /\ c \in 1 .. Depth(s) /\ stack'[s][c] = stack[s][c]
           /\ stack[s][c].msg.id # own
        \/ s = t /\ c = k /\ stack'[s][c].msg.id = own
    BY <1>4 DEF Others
  <2>2. \/ /\ d \in 1 .. Depth(r) /\ stack'[r][d] = stack[r][d]
           /\ stack[r][d].msg.id # own
        \/ r = t /\ d = k /\ stack'[r][d].msg.id = own
    BY <1>4 DEF Others
  <2>3. CASE c \in 1 .. Depth(s) /\ stack'[s][c] = stack[s][c]
             /\ d \in 1 .. Depth(r) /\ stack'[r][d] = stack[r][d]
    BY <1>4, <2>3 DEF Delivery, CarriersOK
  <2> QED BY <1>4, <2>1, <2>2, <2>3
<1>5. CarriersOK'
  BY <1>3, <1>4 DEF CarriersOK
<1> QED BY <1>2, <1>5 DEF Delivery

(* The message that the innermost call of a thread carries, if it is one    *)
(* of log.                                                                 *)
Own(t) == IF Top(t).for = "log" THEN Top(t).msg.id ELSE 0

(* What is known of it, and what the other calls carry.                    *)
LEMMA OwnFacts ==
    ASSUME Inv, Delivery, NEW t \in Threads, Depth(t) > 0
    PROVE  /\ Top(t).for # "log" => Own(t) = 0
           /\ Top(t).for \in {"start", "end"} => Top(t).msg.id = 0
           /\ Top(t).for = "log" =>
                 /\ Own(t) = Top(t).msg.id /\ Own(t) \in 1 .. Len(calls)
                 /\ Carries(Top(t)) /\ Sound(Own(t)) /\ Own(t) \notin returned
           /\ \A s \in Threads : \A d \in 1 .. Depth(s) :
                 ~ (s = t /\ d = Depth(t)) /\ stack[s][d].for = "log" =>
                    stack[s][d].msg.id # Own(t) /\ stack[s][d].msg.id \in 1 .. Len(calls)
<1>1. /\ Depth(t) \in 1 .. Depth(t) /\ Top(t) = stack[t][Depth(t)]
      /\ Top(t).for = "log" => Top(t).msg.id \in 1 .. Len(calls)
  BY TopFacts DEF Inv
<1>2. /\ Top(t).for = "log" => Carries(Top(t))
      /\ Top(t).for \in {"start", "end"} => Top(t).msg.id = 0
  BY <1>1 DEF Delivery, CarriersOK
<1>3. Top(t).for = "log" => Sound(Own(t)) /\ Own(t) \notin returned
  BY <1>1, <1>2 DEF Own, Carries, Delivery, MessagesOK
<1>4. ASSUME NEW s \in Threads, NEW d \in 1 .. Depth(s), ~ (s = t /\ d = Depth(t)),
             stack[s][d].for = "log"
      PROVE  stack[s][d].msg.id # Own(t) /\ stack[s][d].msg.id \in 1 .. Len(calls)
  <2>1. stack[s][d].msg.id \in 1 .. Len(calls)
    BY <1>4 DEF Inv, StackInv, ShapeInv, Shaped
  <2>2. CASE Top(t).for = "log"
    <3>1. stack[s][d].msg.id # Top(t).msg.id
      BY <1>1, <1>4, <2>2 DEF Delivery, CarriersOK
    <3> QED BY <2>1, <2>2, <3>1 DEF Own
  <2>3. CASE Top(t).for # "log"
    BY <2>1, <2>3 DEF Own
  <2> QED BY <2>2, <2>3
<1> QED BY <1>1, <1>2, <1>3, <1>4 DEF Own

(* A step in the innermost call.                                           *)
LEMMA GotoDelivers ==
    ASSUME Inv, Delivery, RecordsOK', NEW t \in Threads, Depth(t) > 0, NEW own, own = Own(t),
           NEW frame \in Frames, Goto(t, frame),
           Len(calls') = Len(calls),
           \A id \in 1 .. Len(calls) : id # own => Same(id),
           frame.for = "log" => frame.msg.id = own /\ Carries(frame)',
           frame.for \in {"start", "end"} => frame.msg.id = 0,
           own \in 1 .. Len(calls) => Sound(own)' /\ own \notin returned'
    PROVE  Delivery'
<1>1. /\ \A s \in Threads \ {t} : stack'[s] = stack[s]
      /\ Len(stack'[t]) = Depth(t)
      /\ stack'[t][Depth(t)] = frame
      /\ \A d \in 1 .. (Depth(t) - 1) : stack'[t][d] = stack[t][d]
  BY GotoFacts DEF Inv, StackInv
<1>2. \A s \in Threads : Depth(s) \in Nat /\ Depth(s)' = Depth(s)
  BY <1>1, StackFacts DEF Inv, StackInv, Depth
<1>3. PICK k : k = Depth(t)
  OBVIOUS
<1>4. Others(t, own, k, frame)
  <2>1. \A s \in Threads : \A d \in 1 .. Depth(s) :
            ~ (s = t /\ d = k) /\ stack[s][d].for = "log" =>
               stack[s][d].msg.id # own /\ stack[s][d].msg.id \in 1 .. Len(calls)
    BY <1>3, OwnFacts
  <2>2. ASSUME NEW s \in Threads, NEW d \in 1 .. Depth(s)'
        PROVE  \/ d \in 1 .. Depth(s) /\ stack'[s][d] = stack[s][d] /\ ~ (s = t /\ d = k)
               \/ s = t /\ d = k /\ stack'[s][d] = frame
    BY <1>1, <1>2, <1>3
  <2> QED BY <2>1, <2>2 DEF Others
<1>5. /\ \A id \in 1 .. Len(calls') : id # own => id \in 1 .. Len(calls)
      /\ own \in 1 .. Len(calls') => Sound(own)' /\ (own \in returned' => Settled(own)')
  OBVIOUS
<1> QED BY <1>4, <1>5, DeliveryStep

(* A return.                                                               *)
LEMMA ReturnDelivers ==
    ASSUME Inv, Delivery, RecordsOK', NEW t \in Threads, Depth(t) > 0, NEW own, own = Own(t), Return(t),
           Len(calls') = Len(calls),
           \A id \in 1 .. Len(calls) : id # own => Same(id),
           own \in 1 .. Len(calls) => Sound(own)' /\ (own \in returned' => Settled(own)')
    PROVE  Delivery'
<1>1. /\ \A s \in Threads \ {t} : stack'[s] = stack[s]
      /\ Len(stack'[t]) = Depth(t) - 1
      /\ \A d \in 1 .. (Depth(t) - 1) : stack'[t][d] = stack[t][d]
  BY ReturnFacts DEF Inv, StackInv
<1>2. /\ \A s \in Threads : Depth(s) \in Nat
      /\ Depth(t)' = Depth(t) - 1
      /\ \A s \in Threads \ {t} : Depth(s)' = Depth(s)
  BY <1>1, StackFacts DEF Inv, StackInv, Depth
<1>3. PICK k, frame : k = Depth(t) /\ frame = [for |-> "flush"]
  OBVIOUS
<1>4. frame.for = "flush"
  BY <1>3 DEF Frame
<1>5. Others(t, own, k, frame)
  <2>1. \A s \in Threads : \A d \in 1 .. Depth(s) :
            ~ (s = t /\ d = k) /\ stack[s][d].for = "log" =>
               stack[s][d].msg.id # own /\ stack[s][d].msg.id \in 1 .. Len(calls)
    BY <1>3, OwnFacts
  <2>2. ASSUME NEW s \in Threads, NEW d \in 1 .. Depth(s)'
        PROVE  d \in 1 .. Depth(s) /\ stack'[s][d] = stack[s][d] /\ ~ (s = t /\ d = k)
    BY <1>1, <1>2, <1>3
  <2> QED BY <2>1, <2>2 DEF Others
<1>6. /\ \A id \in 1 .. Len(calls') : id # own => id \in 1 .. Len(calls)
      /\ own \in 1 .. Len(calls') => Sound(own)' /\ (own \in returned' => Settled(own)')
  OBVIOUS
<1>7. /\ frame.for = "log" => frame.msg.id = own /\ Carries(frame)'
      /\ frame.for \in {"start", "end"} => frame.msg.id = 0
  BY <1>4
<1> QED BY <1>5, <1>6, <1>7, DeliveryStep

(* A step that adds nothing to what has become of any message.             *)
Quiet ==
    /\ UNCHANGED <<pushed, calls, returned>> /\ failed \subseteq failed'
    /\ RecordsOK'
    /\ \A id \in 1 .. Len(calls) : Same(id)

(* Most steps only add failures and flush.                                 *)
LEMMA QuietFacts ==
    ASSUME Inv, Delivery, UNCHANGED <<got, pushed, calls, returned>>, failed \subseteq failed',
           flushed' \in [Sinks -> Nat],
           \A i \in Sinks : flushed[i] <= flushed'[i] /\ flushed'[i] <= Len(got[i])
    PROVE  Quiet
<1>1. RecordsOK'
  BY DEF Delivery, RecordsOK
<1>2. \A id : Same(id)
  BY DEF Same, Places, Traces
<1> QED BY <1>1, <1>2 DEF Quiet

(* ... or not even that.                                                   *)
LEMMA NothingNew ==
    ASSUME Inv, Delivery, UNCHANGED <<got, pushed, calls, returned, flushed>>, failed \subseteq failed'
    PROVE  Quiet
<1>1. \A i \in Sinks : flushed[i] \in Nat
  BY DEF Delivery, RecordsOK
<1>2. flushed' \in [Sinks -> Nat]
      /\ \A i \in Sinks : flushed[i] <= flushed'[i] /\ flushed'[i] <= Len(got[i])
  BY <1>1 DEF Delivery, RecordsOK
<1> QED BY <1>2, QuietFacts

(* Such a step in the innermost call ...                                   *)
LEMMA QuietGoto ==
    ASSUME Inv, Delivery, Quiet, NEW t \in Threads, Depth(t) > 0,
           NEW frame \in Frames, Goto(t, frame),
           frame.for = "log" =>
              /\ Top(t).for = "log" /\ frame.msg.id = Top(t).msg.id
              /\ Carries(frame) \/ Carries(frame)',
           frame.for \in {"start", "end"} => frame.msg.id = 0
    PROVE  Delivery'
<1>1. PICK own : own = Own(t)
  OBVIOUS
<1>2. /\ Len(calls') = Len(calls) /\ RecordsOK' /\ RecordsOK
      /\ \A id \in 1 .. Len(calls) : Same(id)
  BY DEF Quiet, Delivery
<1>3. own \in 1 .. Len(calls) => Top(t).for = "log" /\ Sound(own) /\ own \notin returned /\ Same(own)
  BY <1>1, <1>2, OwnFacts
<1>4. own \in 1 .. Len(calls) => Sound(own)' /\ own \notin returned'
  BY <1>2, <1>3, SameKept DEF Same
<1>5. frame.for = "log" => own \in 1 .. Len(calls) /\ frame.msg.id = own
  BY <1>1, OwnFacts
<1>6. frame.for = "log" => Carries(frame)'
  BY <1>2, <1>3, <1>5, SameKept
<1>7. \A id \in 1 .. Len(calls) : id # own => Same(id)
  BY <1>2
<1> QED BY <1>1, <1>2, <1>4, <1>5, <1>6, <1>7, GotoDelivers

(* ... and such a return.                                                  *)
LEMMA QuietReturn ==
    ASSUME Inv, Delivery, Quiet, NEW t \in Threads, Depth(t) > 0, Return(t)
    PROVE  Delivery'
<1>1. PICK own : own = Own(t)
  OBVIOUS
<1>2. /\ Len(calls') = Len(calls) /\ RecordsOK' /\ RecordsOK
      /\ \A id \in 1 .. Len(calls) : Same(id)
  BY DEF Quiet, Delivery
<1>3. own \in 1 .. Len(calls) => Top(t).for = "log" /\ Sound(own) /\ own \notin returned /\ Same(own)
  BY <1>1, <1>2, OwnFacts
<1>4. own \in 1 .. Len(calls) => Sound(own)' /\ own \notin returned'
  BY <1>2, <1>3, SameKept DEF Same
<1>5. \A id \in 1 .. Len(calls) : id # own => Same(id)
  BY <1>2
<1> QED BY <1>1, <1>2, <1>4, <1>5, ReturnDelivers

(* A call of flush or dump_backtrace. *)
LEMMA QuietCall ==
    ASSUME Inv, Delivery, Quiet, NEW t \in Threads, NEW frame \in Frames, Call(t, frame),
           frame.for # "log", frame.for \in {"start", "end"} => frame.msg.id = 0
    PROVE  Delivery'
<1>1. /\ \A s \in Threads \ {t} : stack'[s] = stack[s]
      /\ Len(stack'[t]) = Depth(t) + 1
      /\ stack'[t][Depth(t) + 1] = frame
      /\ \A d \in 1 .. Depth(t) : stack'[t][d] = stack[t][d]
  BY CallFacts DEF Inv, StackInv
<1>2. /\ \A s \in Threads : Depth(s) \in Nat
      /\ Depth(t)' = Depth(t) + 1
      /\ \A s \in Threads \ {t} : Depth(s)' = Depth(s)
  BY <1>1, StackFacts DEF Inv, StackInv, Depth
<1>3. PICK own, k : own = 0 /\ k = Depth(t) + 1
  OBVIOUS
<1>4. Others(t, own, k, frame)
  <2>1. \A s \in Threads : \A d \in 1 .. Depth(s) :
            stack[s][d].for = "log" => stack[s][d].msg.id \in 1 .. Len(calls)
    BY DEF Inv, StackInv, ShapeInv, Shaped
  <2>2. \A n \in 1 .. Len(calls) : n # own
    BY <1>3
  <2>3. ASSUME NEW s \in Threads, NEW d \in 1 .. Depth(s)'
        PROVE  \/ d \in 1 .. Depth(s) /\ stack'[s][d] = stack[s][d]
               \/ s = t /\ d = k /\ stack'[s][d] = frame
    BY <1>1, <1>2, <1>3
  <2> QED BY <2>1, <2>2, <2>3 DEF Others
<1>5. /\ \A id \in 1 .. Len(calls) : id # own => Same(id)
      /\ \A id \in 1 .. Len(calls') : id # own => id \in 1 .. Len(calls)
      /\ own \notin 1 .. Len(calls')
      /\ RecordsOK'
  BY <1>3 DEF Quiet
<1> QED BY <1>4, <1>5, DeliveryStep

(* A step that changes the record of one call only.                        *)
LEMMA StepFacts ==
    ASSUME Inv, Delivery, NEW own, Len(calls') = Len(calls),
           \A id \in 1 .. Len(calls) : id # own => calls'[id] = calls[id],
           UNCHANGED <<got, flushed, pushed, failed, returned>>
    PROVE  RecordsOK' /\ \A id \in 1 .. Len(calls) : id # own => Same(id)
<1>1. RecordsOK'
  BY DEF Delivery, RecordsOK
<1>2. \A i \in Sinks : flushed[i] <= flushed'[i]
  BY DEF Delivery, RecordsOK
<1>3. \A id \in 1 .. Len(calls) : id # own => Same(id)
  BY <1>2 DEF Same, Places, Traces
<1> QED BY <1>1, <1>3

-----------------------------------------------------------------------------
(* The user or an error handler calls log, flush or dump_backtrace.        *)
LEMMA CallLogDelivers ==
    ASSUME Inv, Delivery, NEW t \in Threads, NEW level \in Levels, CallLog(t, level)
    PROVE  Delivery'
<1> DEFINE call == [level |-> level, log |-> should_log(level), trace |-> FALSE,
                    params |-> {}, flush |-> FALSE]
<1>1. PICK own : own = Len(calls) + 1
  OBVIOUS
<1>2. PICK new : new = [Frame("enter", Message(own, level), "log")
                            EXCEPT !.log = should_log(level)]
  OBVIOUS
<1>3. /\ Len(calls) < MaxCalls /\ Call(t, new) /\ calls' = Append(calls, call)
      /\ UNCHANGED <<got, flushed, pushed, failed, returned>>
  BY <1>1, <1>2 DEF CallLog
<1>4. /\ Len(calls) \in Nat /\ calls \in Seq(CallRecord) /\ Levels \subseteq 0 .. Off
      /\ returned \subseteq 1 .. Len(calls) /\ MaxCalls \in Nat
  BY LenProperties, LoggerAssumption DEF Inv, DataInv
<1>5. should_log(level) \in BOOLEAN /\ call \in CallRecord
  BY DEF should_log, CallRecord
<1>6. /\ new \in Frames /\ new.at = "enter" /\ new.for = "log" /\ new.msg.id = own
      /\ new.msg.level = level /\ new.log = should_log(level) /\ new.error = FALSE
  <2>1. own \in Ids /\ level \in 0 .. Off
    BY <1>1, <1>3, <1>4 DEF Ids
  <2>2. Message(own, level) \in Messages /\ Message(own, level).id = own
        /\ Message(own, level).level = level
    BY <2>1, NewMessage DEF Message
  <2>3. Frame("enter", Message(own, level), "log") \in Frames
    BY <2>2, NewFrame DEF Reasons
  <2> QED BY <1>2, <1>5, <2>2, <2>3 DEF Frame, Frames
<1>7. PICK c : c = call
  OBVIOUS
<1>8. /\ Len(calls') = Len(calls) + 1 /\ calls'[own] = c
      /\ \A id \in 1 .. Len(calls) : calls'[id] = calls[id]
  <2> HIDE DEF call
  <2> QED BY <1>1, <1>3, <1>4, <1>5, <1>7, AppendProperties
<1>9. /\ RecordsOK'
      /\ \A i \in Sinks : Places(i, own) = {}
      /\ Traces(own) = {}
  <2>1. own \notin 1 .. Len(calls) /\ \A id \in 1 .. Len(calls) : id \in 1 .. Len(calls')
    BY <1>1, <1>4, <1>8
  <2> QED BY <1>3, <2>1 DEF Delivery, RecordsOK, Places, Traces
<1>10. \A id \in 1 .. Len(calls) : Same(id)
  <2>1. \A i \in Sinks : flushed[i] <= flushed'[i]
    BY <1>3 DEF Delivery, RecordsOK
  <2> QED BY <1>3, <1>8, <2>1 DEF Same, Places, Traces
<1>11. own \notin returned' /\ own \notin 1 .. Len(calls)
  BY <1>1, <1>3, <1>4
<1>12. Sound(own)' /\ (\A i \in Sinks : Places(i, own)' = {}) /\ Traces(own)' = {}
  BY <1>3, <1>9 DEF Sound, Places, Traces
<1>13. Carries(new)'
  BY <1>6, <1>7, <1>8, <1>11, <1>12 DEF Carries
<1>14. Others(t, own, Depth(t) + 1, new)
  <2>1. /\ \A s \in Threads \ {t} : stack'[s] = stack[s]
        /\ Len(stack'[t]) = Depth(t) + 1
        /\ stack'[t][Depth(t) + 1] = new
        /\ \A d \in 1 .. Depth(t) : stack'[t][d] = stack[t][d]
    BY <1>3, <1>6, CallFacts DEF Inv, StackInv
  <2>2. /\ \A s \in Threads : Depth(s) \in Nat
        /\ Depth(t)' = Depth(t) + 1
        /\ \A s \in Threads \ {t} : Depth(s)' = Depth(s)
    BY <2>1, StackFacts DEF Inv, StackInv, Depth
  <2>3. \A s \in Threads : \A d \in 1 .. Depth(s) :
            stack[s][d].for = "log" => stack[s][d].msg.id \in 1 .. Len(calls)
    BY DEF Inv, StackInv, ShapeInv, Shaped
  <2>4. ASSUME NEW s \in Threads, NEW d \in 1 .. Depth(s)'
        PROVE  \/ d \in 1 .. Depth(s) /\ stack'[s][d] = stack[s][d]
               \/ s = t /\ d = Depth(t) + 1 /\ stack'[s][d] = new
    BY <2>1, <2>2
  <2> QED BY <1>11, <2>3, <2>4 DEF Others
<1>15. PICK k : k = Depth(t) + 1
  OBVIOUS
<1>16. /\ \A id \in 1 .. Len(calls) : id # own => Same(id)
       /\ \A id \in 1 .. Len(calls') : id # own => id \in 1 .. Len(calls)
  BY <1>1, <1>4, <1>8, <1>10
<1>17. Others(t, own, k, new)
  BY <1>14, <1>15
<1> QED BY <1>6, <1>9, <1>11, <1>12, <1>13, <1>16, <1>17, DeliveryStep

(* Flushing and dumping begin without a message of a caller's.             *)
LEMMA CallingDelivers ==
    ASSUME Inv, Delivery, NEW t \in Threads, Calling(t)
    PROVE  Delivery'
<1>1. CASE CallFlush(t)
  <2>1. PICK frame : frame = Frame("flush", Message(0, 0), "flush")
    OBVIOUS
  <2>2. frame \in Frames /\ frame.for = "flush"
    <3>1. Message(0, 0) \in Messages
      BY NewMessage, LoggerAssumption DEF Ids, Off
    <3> QED BY <2>1, <3>1, NewFrame DEF Reasons, Frame
  <2>3. Call(t, frame) /\ Quiet
    BY <1>1, <2>1, NothingNew DEF CallFlush, history
  <2> QED BY <2>2, <2>3, QuietCall
<1>2. CASE CallDump(t)
  <2>1. PICK frame : frame = Frame("sinks", Message(0, Info), "start")
    OBVIOUS
  <2>2. frame \in Frames /\ frame.for = "start" /\ frame.msg.id = 0
    <3>1. Message(0, Info) \in Messages /\ Message(0, Info).id = 0
      BY NewMessage, LoggerAssumption DEF Ids, Off, Info
    <3> QED BY <2>1, <3>1, NewFrame DEF Reasons, Frame
  <2>3. Call(t, frame) /\ Quiet
    BY <1>2, <2>1, NothingNew DEF CallDump, history
  <2> QED BY <2>2, <2>3, QuietCall
<1> QED BY <1>1, <1>2, CallLogDelivers DEF Calling

-----------------------------------------------------------------------------
(* log() reads the tracer's flag and makes the executor.                   *)
LEMMA ReadEnabledDelivers ==
    ASSUME Inv, Delivery, NEW t \in Threads, ReadEnabled(t)
    PROVE  Delivery'
<1>1. /\ Depth(t) > 0 /\ Top(t).at = "enter" /\ ~ Top(t).error
      /\ UNCHANGED <<got, flushed, pushed, failed, returned>>
  BY DEF ReadEnabled, At
<1>2. /\ Top(t) \in Frames /\ Top(t).for = "log" /\ Top(t).msg.id \in 1 .. Len(calls)
      /\ calls \in Seq(CallRecord) /\ enabled_ \in BOOLEAN
  BY <1>1, TopFacts DEF Inv, Shaped, DataInv
<1>3. PICK own : own = Top(t).msg.id
  OBVIOUS
<1>4. /\ own = Own(t) /\ own \in 1 .. Len(calls) /\ Carries(Top(t)) /\ Sound(own)
      /\ own \notin returned
  BY <1>1, <1>2, <1>3, OwnFacts
<1>5. CASE Top(t).log \/ enabled_
  <2>1. PICK objs : objs = <<Executor({})>>
    OBVIOUS
  <2>2. objs \in Seq(Objects) /\ Len(objs) = 1 /\ objs[1].params = {}
    BY <2>1 DEF Executor, Objects
  <2>3. PICK frame : frame = [Top(t) EXCEPT !.at = "hold", !.trace = enabled_, !.objs = objs]
    OBVIOUS
  <2>4. Goto(t, frame) /\ calls' = [calls EXCEPT ![own].trace = enabled_]
    BY <1>3, <1>5, <2>1, <2>3 DEF ReadEnabled
  <2>5. /\ frame \in Frames /\ frame.at = "hold" /\ frame.for = "log" /\ frame.msg = Top(t).msg
        /\ frame.objs = objs /\ frame.trace = enabled_ /\ frame.log = Top(t).log
    BY <1>2, <2>2, <2>3 DEF Frames, Objects
  <2>6. PICK c : c = [calls[own] EXCEPT !.trace = enabled_]
    OBVIOUS
  <2>7. /\ c \in CallRecord /\ c.trace = enabled_ /\ c.log = calls[own].log
        /\ c.level = calls[own].level /\ c.params = calls[own].params
        /\ c.flush = calls[own].flush
    <3>1. calls[own] \in CallRecord
      BY <1>2, <1>4, ElementOfSeq
    <3> QED BY <1>2, <2>6, <3>1 DEF CallRecord
  <2>8. /\ Len(calls') = Len(calls) /\ calls'[own] = c
        /\ \A id \in 1 .. Len(calls) : id # own => calls'[id] = calls[id]
    BY <1>2, <1>4, <2>4, <2>6, <2>7, ExceptSeq
  <2>9. RecordsOK' /\ \A id \in 1 .. Len(calls) : id # own => Same(id)
    BY <1>1, <2>8, StepFacts
  <2>10. /\ Traces(own)' = {} /\ own \notin returned'
         /\ \A i \in Sinks : Places(i, own)' = {}
    BY <1>1, <1>3, <1>4 DEF Carries, Places, Traces
  <2>11. Sound(own)'
    BY <2>10 DEF Sound
  <2>12. /\ Top(t).log = calls[own].log /\ Top(t).msg.level = calls[own].level
         /\ ~ calls[own].flush /\ calls[own].params = {}
    BY <1>1, <1>3, <1>4 DEF Carries
  <2>13. Carries(frame)' /\ frame.msg.id = own
    BY <1>3, <2>2, <2>5, <2>7, <2>8, <2>10, <2>12 DEF Carries
  <2> QED BY <1>1, <1>4, <2>4, <2>5, <2>8, <2>9, <2>10, <2>11, <2>13, GotoDelivers
<1>6. CASE ~ (Top(t).log \/ enabled_)
  <2>1. Return(t) /\ Quiet
    BY <1>1, <1>6, NothingNew DEF ReadEnabled
  <2> QED BY <1>1, <2>1, QuietReturn
<1> QED BY <1>5, <1>6

(* Parameters are added to the executor and to the message's record.       *)
LEMMA AddParamsDelivers ==
    ASSUME Inv, Delivery, NEW t \in Threads, NEW p \in Keys, AddParams(t, p)
    PROVE  Delivery'
<1>1. At(t, "hold") /\ UNCHANGED <<got, flushed, pushed, failed, returned>>
  BY DEF AddParams
<1>2. PICK own, n : own = Top(t).msg.id /\ n = Len(Top(t).objs)
  OBVIOUS
<1>3. /\ Depth(t) > 0 /\ Top(t).at = "hold" /\ Top(t) \in Frames /\ Top(t).for = "log"
      /\ own \in 1 .. Len(calls) /\ n \in Nat /\ n \in 1 .. n
      /\ Top(t).objs \in Seq(Objects) /\ Top(t).objs[n] \in Objects
      /\ calls \in Seq(CallRecord)
  BY <1>1, <1>2, HoldFacts DEF Inv, DataInv
<1>4. /\ own = Own(t) /\ Carries(Top(t)) /\ own \notin returned
  BY <1>2, <1>3, OwnFacts
<1>5. PICK object : object = [Top(t).objs[n] EXCEPT !.params = @ \cup {p}]
  OBVIOUS
<1>6. object \in Objects /\ object.params = Top(t).objs[n].params \cup {p}
  BY <1>3, <1>5 DEF Objects
<1>7. PICK objs : objs = [Top(t).objs EXCEPT ![n] = object]
  OBVIOUS
<1>8. objs \in Seq(Objects) /\ Len(objs) = n /\ objs[n] = object
  BY <1>2, <1>3, <1>6, <1>7, ExceptSeq
<1>9. PICK frame : frame = [Top(t) EXCEPT !.objs = objs]
  OBVIOUS
<1>10. Goto(t, frame) /\ calls' = [calls EXCEPT ![own].params = @ \cup {p}]
  BY <1>2, <1>5, <1>7, <1>9 DEF AddParams
<1>11. /\ frame \in Frames /\ frame.at = "hold" /\ frame.for = "log" /\ frame.msg = Top(t).msg
       /\ frame.objs = objs /\ frame.trace = Top(t).trace /\ frame.log = Top(t).log
  BY <1>3, <1>8, <1>9 DEF Frames, Objects
<1>12. PICK c : c = [calls[own] EXCEPT !.params = @ \cup {p}]
  OBVIOUS
<1>13. /\ c \in CallRecord /\ c.trace = calls[own].trace /\ c.log = calls[own].log
       /\ c.level = calls[own].level /\ c.params = calls[own].params \cup {p}
       /\ c.flush = calls[own].flush
  <2>1. calls[own] \in CallRecord
    BY <1>3, ElementOfSeq
  <2> QED BY <1>12, <2>1 DEF CallRecord
<1>14. /\ Len(calls') = Len(calls) /\ calls'[own] = c
       /\ \A id \in 1 .. Len(calls) : id # own => calls'[id] = calls[id]
  <2>1. calls' = [calls EXCEPT ![own] = c]
    BY <1>10, <1>12
  <2> QED BY <1>3, <1>13, <2>1, ExceptSeq
<1>15. RecordsOK' /\ \A id \in 1 .. Len(calls) : id # own => Same(id)
  BY <1>1, <1>14, StepFacts
<1>16. /\ Traces(own)' = {} /\ own \notin returned'
       /\ \A i \in Sinks : Places(i, own)' = {}
  BY <1>1, <1>2, <1>3, <1>4 DEF Carries, Places, Traces
<1>17. Sound(own)'
  BY <1>16 DEF Sound
<1>18. /\ Top(t).log = calls[own].log /\ Top(t).msg.level = calls[own].level
       /\ Top(t).trace = calls[own].trace /\ ~ calls[own].flush
       /\ Top(t).objs[n].params = calls[own].params
  BY <1>2, <1>3, <1>4 DEF Carries
<1>19. Carries(frame)' /\ frame.msg.id = own
  BY <1>2, <1>6, <1>8, <1>11, <1>13, <1>14, <1>16, <1>18 DEF Carries
<1> QED BY <1>3, <1>4, <1>10, <1>11, <1>14, <1>15, <1>16, <1>17, <1>19, GotoDelivers

(* Formatting fails, or an executor is moved.                              *)
LEMMA UsingDelivers ==
    ASSUME Inv, Delivery, NEW t \in Threads, Using(t)
    PROVE  Delivery'
<1>1. CASE FormatThrows(t)
  <2>1. PICK frame : frame = [Top(t) EXCEPT !.error = TRUE]
    OBVIOUS
  <2>2. Depth(t) > 0 /\ Top(t).at = "enter" /\ Goto(t, frame) /\ Quiet
    BY <1>1, <2>1, NothingNew DEF FormatThrows, At, history
  <2>3. Top(t) \in Frames /\ Top(t).for = "log" /\ Carries(Top(t))
    BY <2>2, TopFacts, OwnFacts DEF Inv, Shaped
  <2>4. /\ frame \in Frames /\ frame.at = Top(t).at /\ frame.for = Top(t).for
        /\ frame.msg = Top(t).msg /\ frame.log = Top(t).log
    BY <2>1, <2>3 DEF Frames
  <2>5. Carries(frame)
    BY <2>2, <2>3, <2>4 DEF Carries
  <2> QED BY <2>2, <2>3, <2>4, <2>5, QuietGoto
<1>2. CASE MoveExecutor(t)
  <2>1. At(t, "hold") /\ Quiet
    BY <1>2, NothingNew DEF MoveExecutor, history
  <2>2. PICK n : n = Len(Top(t).objs)
    OBVIOUS
  <2>3. /\ Depth(t) > 0 /\ Top(t).at = "hold" /\ Top(t) \in Frames /\ Top(t).for = "log"
        /\ n \in Nat /\ n \in 1 .. n
        /\ Top(t).objs \in Seq(Objects) /\ Top(t).objs[n] \in Objects
    BY <2>1, <2>2, HoldFacts
  <2>4. PICK emptied : emptied = [Top(t).objs EXCEPT ![n] = MovedFrom]
    OBVIOUS
  <2>5. emptied \in Seq(Objects) /\ Len(emptied) = n
    <3>1. MovedFrom \in Objects
      BY DEF MovedFrom, Objects
    <3> QED BY <2>2, <2>3, <2>4, <3>1, ExceptSeq
  <2>6. PICK objs : objs = Append(emptied, Top(t).objs[n])
    OBVIOUS
  <2>7. objs \in Seq(Objects) /\ Len(objs) = n + 1 /\ objs[n + 1] = Top(t).objs[n]
    BY <2>3, <2>5, <2>6, AppendProperties
  <2>8. PICK frame : frame = [Top(t) EXCEPT !.objs = objs]
    OBVIOUS
  <2>9. Goto(t, frame)
    BY <1>2, <2>2, <2>4, <2>6, <2>8 DEF MoveExecutor, Latest
  <2>10. /\ frame \in Frames /\ frame.at = "hold" /\ frame.for = "log" /\ frame.msg = Top(t).msg
         /\ frame.objs = objs /\ frame.trace = Top(t).trace /\ frame.log = Top(t).log
    BY <2>3, <2>7, <2>8 DEF Frames, Objects
  <2>11. Carries(Top(t))
    BY <2>3, OwnFacts
  <2>12. frame.objs[Len(frame.objs)].params = Top(t).objs[Len(Top(t).objs)].params
    BY <2>2, <2>7, <2>10
  <2>13. Carries(frame)
    BY <2>3, <2>10, <2>11, <2>12 DEF Carries
  <2> QED BY <2>1, <2>3, <2>9, <2>10, <2>13, QuietGoto
<1> QED BY <1>1, <1>2, AddParamsDelivers DEF Using

(* An executor is destroyed; with a context it sets the message on its way. *)
LEMMA DestroyDelivers ==
    ASSUME Inv, Delivery, NEW t \in Threads, Destroy(t)
    PROVE  Delivery'
<1>1. At(t, "hold") /\ UNCHANGED <<got, flushed, pushed, failed, calls>>
  BY DEF Destroy
<1>2. /\ Depth(t) > 0 /\ Top(t).at = "hold" /\ Top(t).error = FALSE
      /\ Top(t) \in Frames /\ Top(t).for = "log" /\ Carries(Top(t))
      /\ Len(Top(t).objs) \in 1 .. Len(Top(t).objs)
      /\ Top(t).objs \in Seq(Objects)
  BY <1>1, HoldFacts, OwnFacts
<1>3. PICK e, tail : e = Head(Top(t).objs) /\ tail = Tail(Top(t).objs)
  OBVIOUS
<1>4. /\ tail \in Seq(Objects) /\ e \in Objects
      /\ e.ctx => tail = <<>>
      /\ ~ e.ctx => tail # <<>>
      /\ tail # <<>> => tail[Len(tail)] = Top(t).objs[Len(Top(t).objs)]
      /\ tail = <<>> => e = Top(t).objs[Len(Top(t).objs)]
  <2>1. /\ tail \in Seq(Objects) /\ e \in Objects
        /\ e.ctx => tail = <<>>
        /\ ~ e.ctx => tail # <<>>
    BY <1>1, <1>3, RestFacts
  <2>2. PICK objs \in Seq(Objects) : objs = Top(t).objs
    BY <1>2
  <2>3. /\ objs # <<>> /\ Len(objs) \in Nat /\ Len(objs) > 0
    BY <1>2, <2>2
  <2>4. /\ Len(tail) = Len(objs) - 1 /\ \A i \in 1 .. Len(tail) : tail[i] = objs[i + 1]
        /\ e = objs[1]
    BY <1>3, <2>2, <2>3, HeadTailProperties
  <2>5. tail # <<>> => Len(tail) > 0 /\ Len(tail) \in 1 .. Len(tail)
    BY <2>1, <2>3, <2>4, EmptySeq
  <2>6. tail # <<>> => tail[Len(tail)] = objs[Len(objs)]
    BY <2>3, <2>4, <2>5
  <2>7. ASSUME tail = <<>> PROVE e = objs[Len(objs)]
    <3>1. Len(tail) = 0
      BY <2>7
    <3>2. Len(objs) = 1
      BY <2>3, <2>4, <3>1
    <3> QED BY <2>4, <3>2
  <2> QED BY <2>1, <2>2, <2>6, <2>7
<1>5. CASE ~ e.ctx
  <2>1. PICK frame : frame = [Top(t) EXCEPT !.objs = tail, !.at = "hold"]
    OBVIOUS
  <2>2. frame \in Frames /\ frame.objs = tail /\ frame.at = "hold" /\ frame.for = "log"
        /\ frame.log = Top(t).log /\ frame.trace = Top(t).trace /\ frame.msg = Top(t).msg
    BY <1>2, <1>4, <2>1 DEF Frames, Objects
  <2>3. Goto(t, frame) /\ UNCHANGED returned
    <3>1. PICK rest : rest = [Top(t) EXCEPT !.objs = tail]
      OBVIOUS
    <3>2. BackToCaller(t, rest)
      BY <1>3, <1>5, <3>1 DEF Destroy
    <3>3. rest.objs # <<>> /\ frame = [rest EXCEPT !.at = "hold"]
      BY <1>2, <1>4, <1>5, <2>1, <3>1 DEF Frames
    <3> QED BY <3>2, <3>3 DEF BackToCaller
  <2>4. Quiet
    BY <1>1, <2>3, NothingNew
  <2>5. Carries(frame)
    BY <1>2, <1>4, <1>5, <2>2 DEF Carries
  <2> QED BY <1>2, <2>2, <2>3, <2>4, <2>5, QuietGoto
<1>6. CASE e.ctx
  <2>1. PICK place : place = IF Top(t).log THEN "sinks" ELSE "push"
    OBVIOUS
  <2>2. PICK m : m = [Top(t).msg EXCEPT !.params = e.params]
    OBVIOUS
  <2>3. m \in Messages /\ m.id = Top(t).msg.id /\ m.level = Top(t).msg.level /\ m.params = e.params
    BY <1>2, <1>4, <2>2 DEF Frames, Messages, Objects
  <2>4. PICK frame : frame = [Top(t) EXCEPT !.objs = tail, !.msg = m, !.nth = 1, !.at = place]
    OBVIOUS
  <2>5. /\ frame \in Frames /\ frame.at = place /\ frame.for = "log" /\ frame.error = FALSE
        /\ frame.msg = m /\ frame.log = Top(t).log /\ frame.trace = Top(t).trace /\ frame.nth = 1
    <3>1. 1 \in 1 .. NumSinks + 1
      BY LoggerAssumption
    <3> QED BY <1>2, <1>4, <1>6, <2>1, <2>3, <2>4, <3>1 DEF Frames, Objects
  <2>6. Goto(t, frame) /\ UNCHANGED returned
    <3>1. PICK rest : rest = [Top(t) EXCEPT !.objs = tail]
      OBVIOUS
    <3>2. /\ Goto(t, [rest EXCEPT !.msg.params = e.params, !.nth = 1,
                                  !.at = IF rest.log THEN "sinks" ELSE "push"])
          /\ UNCHANGED returned
      BY <1>3, <1>6, <3>1 DEF Destroy
    <3>3. frame = [rest EXCEPT !.msg.params = e.params, !.nth = 1,
                               !.at = IF rest.log THEN "sinks" ELSE "push"]
      BY <1>2, <2>1, <2>2, <2>4, <3>1 DEF Frames
    <3> QED BY <3>2, <3>3
  <2>7. Quiet
    BY <1>1, <2>6, NothingNew
  <2>8. Carries(frame)
    <3>1. PICK id, c : id = Top(t).msg.id /\ c = calls[id]
      OBVIOUS
    <3>2. /\ id \notin returned /\ Traces(id) = {} /\ Top(t).log = c.log
          /\ Top(t).msg.level = c.level /\ Top(t).trace = c.trace /\ ~ c.flush
          /\ \A i \in Sinks : Places(i, id) = {}
          /\ e.params = c.params
      BY <1>2, <1>4, <1>6, <3>1 DEF Carries
    <3>3. ~ c.log => \A i \in Sinks : Given(i, id)
      BY <3>1 DEF Given, Takes
    <3>4. \A i \in Sinks : ~ (i < 1)
      BY LoggerAssumption DEF Sinks
    <3>5. CASE Top(t).log
      <4>1. frame.at = "sinks"
        BY <2>1, <2>5, <3>5
      <4> QED BY <2>3, <2>5, <3>1, <3>2, <3>4, <3>5, <4>1 DEF Carries
    <3>6. CASE ~ Top(t).log
      <4>1. frame.at = "push"
        BY <2>1, <2>5, <3>6
      <4> QED BY <2>3, <2>5, <3>1, <3>2, <3>3, <3>6, <4>1 DEF Carries
    <3> QED BY <3>5, <3>6
  <2> QED BY <1>2, <2>3, <2>5, <2>6, <2>7, <2>8, QuietGoto
<1> QED BY <1>5, <1>6

(* The message is traced if log() found the tracer enabled, and the call    *)
(* has returned.                                                           *)
LEMMA PushTraceDelivers ==
    ASSUME Inv, Delivery, NEW t \in Threads, PushTrace(t)
    PROVE  Delivery'
<1>1. /\ Depth(t) > 0 /\ Top(t).at = "push"
      /\ UNCHANGED <<calls, got, flushed, failed>>
  BY DEF PushTrace, At
<1>2. PICK own : own = Top(t).msg.id
  OBVIOUS
<1>3. /\ Top(t).for = "log" /\ Top(t).objs = <<>> /\ own \in 1 .. Len(calls)
      /\ Len(calls) \in Nat /\ Len(calls) <= MaxCalls /\ MaxCalls \in Nat
  BY <1>1, <1>2, TopFacts DEF Inv, DataInv, Shaped
<1>4. /\ own = Own(t) /\ Carries(Top(t)) /\ Sound(own) /\ own \notin returned
  BY <1>1, <1>2, <1>3, OwnFacts
<1>5. /\ Traces(own) = {} /\ Top(t).trace = calls[own].trace
      /\ \A i \in Sinks : Given(i, own) /\ (calls[own].flush => Flushed(i, own))
  BY <1>1, <1>2, <1>4 DEF Carries
<1>6. /\ Return(t) /\ returned' = returned \cup {own}
      /\ pushed' = IF Top(t).trace THEN Append(pushed, own) ELSE pushed
  BY <1>2, <1>3 DEF PushTrace, BackToCaller
<1>7. pushed \in Seq(Ids) /\ own \in Ids /\ Len(pushed) \in Nat
  BY <1>3, LenProperties DEF Delivery, RecordsOK, Ids
<1>8. /\ pushed' \in Seq(Ids)
      /\ \A n \in 1 .. Len(pushed') : n \in 1 .. Len(pushed) \/ (Top(t).trace /\ n = Len(pushed) + 1)
      /\ \A n \in 1 .. Len(pushed) : n \in 1 .. Len(pushed') /\ pushed'[n] = pushed[n]
      /\ Top(t).trace => /\ Len(pushed) + 1 \in 1 .. Len(pushed')
                         /\ pushed'[Len(pushed) + 1] = own
  <2>1. CASE Top(t).trace
    <3>1. PICK q : q = Append(pushed, own)
      OBVIOUS
    <3>2. /\ q \in Seq(Ids) /\ Len(q) = Len(pushed) + 1 /\ q[Len(pushed) + 1] = own
          /\ \A n \in 1 .. Len(pushed) : q[n] = pushed[n]
      BY <1>7, <3>1, AppendProperties
    <3>3. pushed' = q
      BY <1>6, <2>1, <3>1
    <3>4. \A n \in 1 .. Len(q) : n \in 1 .. Len(pushed) \/ n = Len(pushed) + 1
      BY <1>7, <3>2
    <3>5. /\ \A n \in 1 .. Len(pushed) : n \in 1 .. Len(q)
          /\ Len(pushed) + 1 \in 1 .. Len(q)
      BY <1>7, <3>2
    <3> QED BY <2>1, <3>2, <3>3, <3>4, <3>5
  <2>2. CASE ~ Top(t).trace
    <3>1. pushed' = pushed
      BY <1>6, <2>2
    <3> QED BY <1>7, <2>2, <3>1
  <2> QED BY <2>1, <2>2
<1>9. RecordsOK'
  BY <1>1, <1>3, <1>8 DEF Delivery, RecordsOK
<1>10. \A id \in 1 .. Len(calls) : id # own => Same(id)
  <2>1. ASSUME NEW id \in 1 .. Len(calls), id # own PROVE Traces(id)' = Traces(id)
    BY <1>8, <2>1 DEF Traces
  <2>2. \A i \in Sinks : flushed[i] <= flushed'[i]
    BY <1>1 DEF Delivery, RecordsOK
  <2> QED BY <1>1, <1>6, <2>1, <2>2 DEF Same, Places
<1>11. Traces(own)' = IF Top(t).trace THEN {Len(pushed) + 1} ELSE {}
  <2>1. \A n \in 1 .. Len(pushed) : pushed[n] # own
    BY <1>5 DEF Traces
  <2> QED BY <1>7, <1>8, <2>1 DEF Traces
<1>12. ASSUME NEW i \in Sinks
       PROVE  /\ Places(i, own)' = Places(i, own) /\ (Takes(i, own)' <=> Takes(i, own))
              /\ Given(i, own)' /\ (calls[own].flush => Flushed(i, own)')
  <2>1. Places(i, own)' = Places(i, own)
    BY <1>1 DEF Places
  <2>2. Takes(i, own)' <=> Takes(i, own)
    BY <1>1 DEF Takes
  <2>3. Given(i, own)'
    BY <1>1, <1>5, <2>1, <2>2 DEF Given
  <2>4. ASSUME calls[own].flush PROVE Flushed(i, own)'
    BY <1>1, <1>5, <2>1, <2>4 DEF Flushed
  <2> QED BY <2>1, <2>2, <2>3, <2>4
<1>13. Sound(own)'
  <2>1. /\ \A m, n \in Traces(own)' : m = n
        /\ Traces(own)' # {} => calls'[own].trace
    BY <1>1, <1>5, <1>11
  <2>2. ASSUME NEW i \in Sinks
        PROVE  /\ \A m, n \in Places(i, own)' : m = n
               /\ Places(i, own)' # {} => Takes(i, own)'
               /\ \A n \in Places(i, own)' : got'[i][n].params = calls'[own].params
    BY <1>1, <1>4, <1>12 DEF Sound
  <2> QED BY <2>1, <2>2 DEF Sound
<1>14. Settled(own)'
  <2>1. calls'[own].trace => Traces(own)' # {}
    BY <1>1, <1>5, <1>11
  <2>2. \A i \in Sinks : Given(i, own)' /\ (calls'[own].flush => Flushed(i, own)')
    BY <1>1, <1>12
  <2> QED BY <2>1, <2>2 DEF Settled
<1> QED BY <1>1, <1>4, <1>6, <1>9, <1>10, <1>13, <1>14, ReturnDelivers

-----------------------------------------------------------------------------
(* A sink throws; the loop is in the error handler.                        *)
LEMMA ThrowDelivers ==
    ASSUME Inv, Delivery, NEW t \in Threads, Depth(t) > 0, ~ Top(t).error,
           Top(t).at \in {"sinks", "flush"}, Top(t).nth <= NumSinks, SinkThrows(t),
           UNCHANGED <<got, flushed, pushed, calls, returned>>
    PROVE  Delivery'
<1>1. PICK frame : frame = [Top(t) EXCEPT !.error = TRUE]
  OBVIOUS
<1>2. /\ Goto(t, frame)
      /\ failed' = failed \cup {<<Top(t).msg.id, Top(t).nth,
                                  IF Top(t).at = "flush" THEN "flush" ELSE Top(t).for>>}
  BY <1>1 DEF SinkThrows
<1>3. Quiet
  BY <1>2, NothingNew
<1>4. /\ Top(t) \in Frames
      /\ Top(t).for = "log" => Carries(Top(t)) /\ Top(t).msg.id \in 1 .. Len(calls)
      /\ Top(t).for \in {"start", "end"} => Top(t).msg.id = 0
  BY TopFacts, OwnFacts DEF Inv
<1>5. /\ frame \in Frames /\ frame.at = Top(t).at /\ frame.for = Top(t).for /\ frame.msg = Top(t).msg
      /\ frame.log = Top(t).log /\ frame.trace = Top(t).trace /\ frame.nth = Top(t).nth
  BY <1>1, <1>4 DEF Frames
<1>6. ASSUME frame.for = "log" PROVE Carries(frame)'
  <2>1. Carries(Top(t))
    BY <1>4, <1>5, <1>6
  <2>2. PICK g : g = [Top(t) EXCEPT !.error = FALSE]
    OBVIOUS
  <2>3. /\ g.at = Top(t).at /\ g.for = Top(t).for /\ g.msg = Top(t).msg
        /\ g.log = Top(t).log /\ g.trace = Top(t).trace /\ g.nth = Top(t).nth /\ ~ g.error
    BY <1>4, <2>2 DEF Frames
  <2>4. Carries(g)
    BY <2>1, <2>3 DEF Carries
  <2>5. PICK id : id = g.msg.id
    OBVIOUS
  <2>6. Same(id) /\ RecordsOK /\ RecordsOK'
    BY <1>3, <1>4, <1>5, <1>6, <2>3, <2>5 DEF Quiet, Delivery
  <2>7. Carries(g)'
    BY <2>4, <2>5, <2>6, SameKept
  <2>8. /\ frame.at = "sinks" => <<frame.msg.id, frame.nth, "log">> \in failed'
        /\ frame.at = "flush" => <<frame.msg.id, frame.nth, "flush">> \in failed'
    BY <1>2, <1>5, <1>6
  <2> QED BY <1>5, <2>3, <2>7, <2>8 DEF Carries
<1> QED BY <1>2, <1>3, <1>4, <1>5, <1>6, QuietGoto

(* The loop goes on to the next sink, of which nothing more is asked.       *)
LEMMA NextCarries ==
    ASSUME NEW f \in Frames, NEW g \in Frames, Carries(f), f.nth \in Sinks,
           f.at \in {"sinks", "flush"}, ~ g.error,
           g.at = f.at, g.for = f.for, g.msg = f.msg, g.log = f.log, g.trace = f.trace,
           g.nth = f.nth + 1,
           f.at = "sinks" => Given(f.nth, f.msg.id),
           f.at = "flush" => Flushed(f.nth, f.msg.id)
    PROVE  Carries(g)
<1>1. \A i \in Sinks : i < g.nth <=> i < f.nth \/ i = f.nth
  BY LoggerAssumption DEF Sinks
<1> QED BY <1>1 DEF Carries

(* A sink is given a message.                                              *)
LEMMA AppendFacts ==
    ASSUME RecordsOK, NEW i \in Sinks, NEW entry \in Entries,
           got' = [got EXCEPT ![i] = Append(@, entry)]
    PROVE  /\ got' \in [Sinks -> Seq(Entries)] /\ Len(got[i]) \in Nat
           /\ Len(got'[i]) = Len(got[i]) + 1
           /\ got'[i][Len(got[i]) + 1] = entry
           /\ \A n \in 1 .. Len(got[i]) : got'[i][n] = got[i][n]
           /\ \A j \in Sinks \ {i} : got'[j] = got[j]
           /\ \A id : Places(i, id)' = IF entry.id = id /\ ~ entry.dump
                                      THEN Places(i, id) \cup {Len(got[i]) + 1}
                                      ELSE Places(i, id)
           /\ \A id : \A j \in Sinks \ {i} : Places(j, id)' = Places(j, id)
<1>1. got \in [Sinks -> Seq(Entries)] /\ got[i] \in Seq(Entries)
  BY DEF RecordsOK
<1>2. PICK q : q = Append(got[i], entry)
  OBVIOUS
<1>3. /\ q \in Seq(Entries) /\ Len(q) = Len(got[i]) + 1 /\ q[Len(got[i]) + 1] = entry
      /\ \A n \in 1 .. Len(got[i]) : q[n] = got[i][n]
      /\ Len(got[i]) \in Nat
  BY <1>1, <1>2, AppendProperties, LenProperties
<1>4. got' = [got EXCEPT ![i] = q]
  BY <1>2
<1>5. got' \in [Sinks -> Seq(Entries)] /\ got'[i] = q /\ \A j \in Sinks \ {i} : got'[j] = got[j]
  BY <1>1, <1>3, <1>4
<1>6. ASSUME NEW id
      PROVE  Places(i, id)' = IF entry.id = id /\ ~ entry.dump
                              THEN Places(i, id) \cup {Len(got[i]) + 1} ELSE Places(i, id)
  <2>1. 1 .. Len(q) = (1 .. Len(got[i])) \cup {Len(got[i]) + 1}
    BY <1>3
  <2> QED BY <1>3, <1>5, <2>1 DEF Places
<1>7. \A id : \A j \in Sinks \ {i} : Places(j, id)' = Places(j, id)
  BY <1>5 DEF Places
<1> QED BY <1>3, <1>5, <1>6, <1>7

(* The loop over the sinks goes on.                                        *)
LEMMA NextSinkFacts ==
    ASSUME Inv, Delivery, NEW t \in Threads, Depth(t) > 0, ~ Top(t).error,
           Top(t).at \in {"sinks", "flush"}, Top(t).nth <= NumSinks, NextSink(t),
           NEW frame, frame = [Top(t) EXCEPT !.nth = Top(t).nth + 1]
    PROVE  /\ Goto(t, frame) /\ frame \in Frames /\ Top(t) \in Frames /\ ~ frame.error
           /\ frame.at = Top(t).at /\ frame.for = Top(t).for /\ frame.msg = Top(t).msg
           /\ frame.log = Top(t).log /\ frame.trace = Top(t).trace
           /\ frame.nth = Top(t).nth + 1 /\ Top(t).nth \in Sinks
           /\ Top(t).for = "log" =>
                 /\ Carries(Top(t)) /\ Top(t).msg.id \in 1 .. Len(calls)
                 /\ Top(t).msg.id = Own(t)
           /\ Top(t).for \in {"start", "end"} => Top(t).msg.id = 0
<1>1. /\ Top(t) \in Frames /\ NumSinks \in Nat
      /\ Top(t).for = "log" =>
            /\ Carries(Top(t)) /\ Top(t).msg.id \in 1 .. Len(calls)
            /\ Top(t).msg.id = Own(t)
      /\ Top(t).for \in {"start", "end"} => Top(t).msg.id = 0
  BY TopFacts, OwnFacts DEF Inv
<1>2. Goto(t, frame)
  BY DEF NextSink
<1>3. Top(t).nth \in Sinks /\ Top(t).nth + 1 \in 1 .. NumSinks + 1
  BY <1>1 DEF Frames, Sinks
<1>4. /\ frame \in Frames /\ ~ frame.error
      /\ frame.at = Top(t).at /\ frame.for = Top(t).for /\ frame.msg = Top(t).msg
      /\ frame.log = Top(t).log /\ frame.trace = Top(t).trace /\ frame.nth = Top(t).nth + 1
  BY <1>1, <1>3 DEF Frames
<1> QED BY <1>1, <1>2, <1>3, <1>4

(* A sink takes a message, passes it over or throws.                       *)
LEMMA LogToSinkDelivers ==
    ASSUME Inv, Delivery, NEW t \in Threads, LogToSink(t)
    PROVE  Delivery'
<1>1. /\ Depth(t) > 0 /\ Top(t).at = "sinks" /\ ~ Top(t).error /\ Top(t).nth <= NumSinks
      /\ UNCHANGED <<calls, flushed, pushed, returned>>
  BY DEF LogToSink, At
<1>2. PICK i, m : i = Top(t).nth /\ m = Top(t).msg
  OBVIOUS
<1>3. PICK entry : entry = [id |-> m.id, params |-> m.params, dump |-> Top(t).for = "front"]
  OBVIOUS
<1>4. PICK frame : frame = [Top(t) EXCEPT !.nth = Top(t).nth + 1]
  OBVIOUS
<1>5. CASE m.level < SinkLevel[i] /\ NextSink(t) /\ UNCHANGED <<got, failed>>
  <2>1. Quiet
    BY <1>1, <1>5, NothingNew
  <2>2. /\ Goto(t, frame) /\ frame \in Frames /\ Top(t) \in Frames /\ ~ frame.error
        /\ frame.at = Top(t).at /\ frame.for = Top(t).for /\ frame.msg = Top(t).msg
        /\ frame.log = Top(t).log /\ frame.trace = Top(t).trace
        /\ frame.nth = Top(t).nth + 1 /\ Top(t).nth \in Sinks
        /\ Top(t).for = "log" => Carries(Top(t))
        /\ Top(t).for \in {"start", "end"} => Top(t).msg.id = 0
    BY <1>1, <1>4, <1>5, NextSinkFacts
  <2>3. ASSUME Top(t).for = "log" PROVE Carries(frame)
    <3>1. Top(t).msg.level = calls[Top(t).msg.id].level
      BY <2>2, <2>3 DEF Carries
    <3>2. m.level \in Nat /\ SinkLevel[i] \in Nat
      BY <1>2, <2>2, LoggerAssumption DEF Frames, Messages, Sinks, Off
    <3>3. Given(Top(t).nth, Top(t).msg.id)
      BY <1>2, <1>5, <3>1, <3>2 DEF Given, Takes
    <3> QED BY <1>1, <2>2, <2>3, <3>3, NextCarries
  <2> QED BY <1>1, <2>1, <2>2, <2>3, QuietGoto
<1>6. CASE SinkThrows(t) /\ UNCHANGED got
  BY <1>1, <1>6, ThrowDelivers
<1>7. CASE /\ m.level >= SinkLevel[i] /\ NextSink(t) /\ UNCHANGED failed
           /\ got' = IF m.id = 0 THEN got ELSE [got EXCEPT ![i] = Append(@, entry)]
  <2>2. /\ Goto(t, frame) /\ frame \in Frames /\ Top(t) \in Frames /\ ~ frame.error
        /\ frame.at = Top(t).at /\ frame.for = Top(t).for /\ frame.msg = Top(t).msg
        /\ frame.log = Top(t).log /\ frame.trace = Top(t).trace
        /\ frame.nth = Top(t).nth + 1 /\ Top(t).nth \in Sinks
        /\ Top(t).for = "log" =>
              /\ Carries(Top(t)) /\ Top(t).msg.id \in 1 .. Len(calls) /\ Top(t).msg.id = Own(t)
        /\ Top(t).for \in {"start", "end"} => Top(t).msg.id = 0
    BY <1>1, <1>4, <1>7, NextSinkFacts
  <2>3. CASE m.id = 0
    <3>1. Quiet
      BY <1>1, <1>7, <2>3, NothingNew
    <3>2. Top(t).for # "log"
      BY <1>2, <2>2, <2>3
    <3> QED BY <1>1, <2>2, <3>1, <3>2, QuietGoto
  <2>4. CASE m.id # 0
    <3>1. entry \in Entries /\ entry.id = m.id /\ entry.params = m.params /\ i \in Sinks
          /\ entry.dump = (Top(t).for = "front")
      BY <1>2, <1>3, <2>2 DEF Entries, Frames, Messages
    <3>2. RecordsOK /\ got' = [got EXCEPT ![i] = Append(@, entry)]
      BY <1>7, <2>4 DEF Delivery
    <3>3. /\ got' \in [Sinks -> Seq(Entries)] /\ Len(got[i]) \in Nat
          /\ Len(got'[i]) = Len(got[i]) + 1
          /\ got'[i][Len(got[i]) + 1] = entry
          /\ \A n \in 1 .. Len(got[i]) : got'[i][n] = got[i][n]
          /\ \A j \in Sinks \ {i} : got'[j] = got[j]
          /\ \A id : Places(i, id)' = IF entry.id = id /\ ~ entry.dump
                                     THEN Places(i, id) \cup {Len(got[i]) + 1}
                                     ELSE Places(i, id)
          /\ \A id : \A j \in Sinks \ {i} : Places(j, id)' = Places(j, id)
      BY <3>1, <3>2, AppendFacts
    <3>4. RecordsOK'
      <4>1. flushed' \in [Sinks -> Nat] /\ pushed' \in Seq(Ids)
            /\ \A n \in 1 .. Len(pushed') : pushed'[n] \in 1 .. Len(calls')
        BY <1>1, <3>2 DEF RecordsOK
      <4>2. ASSUME NEW j \in Sinks PROVE flushed'[j] <= Len(got'[j])
        <5>1. flushed[j] \in Nat /\ flushed[j] <= Len(got[j])
          BY <3>2 DEF RecordsOK
        <5>2. Len(got'[j]) = Len(got[j]) \/ (j = i /\ Len(got'[j]) = Len(got[i]) + 1)
          BY <3>3
        <5> QED BY <1>1, <3>3, <5>1, <5>2
      <4>3. entry.dump \/ entry.id \in 1 .. Len(calls)
        <5>1. Top(t).for \in {"log", "front"}
          <6>1. Top(t).for # "flush"
            BY <1>1, TopFacts DEF Inv, Shaped
          <6> QED BY <1>2, <2>2, <2>4, <6>1 DEF Frames
        <5> QED BY <1>2, <2>2, <3>1, <5>1
      <4>4. ASSUME NEW j \in Sinks, NEW n \in 1 .. Len(got'[j])
            PROVE  got'[j][n].dump \/ got'[j][n].id \in 1 .. Len(calls')
        <5>1. \/ n \in 1 .. Len(got[j]) /\ got'[j][n] = got[j][n]
              \/ got'[j][n] = entry
          BY <3>3, <4>4
        <5> QED BY <1>1, <3>2, <4>3, <5>1 DEF RecordsOK
      <4> QED BY <3>3, <4>1, <4>2, <4>4 DEF RecordsOK
    <3>5. \A id : entry.dump \/ id # entry.id => Same(id)
      <4>1. ASSUME NEW id, entry.dump \/ id # entry.id, NEW j \in Sinks
            PROVE  /\ Places(j, id)' = Places(j, id)
                   /\ \A n \in Places(j, id) : got'[j][n] = got[j][n]
                   /\ flushed[j] <= flushed'[j]
        <5>1. Places(j, id)' = Places(j, id)
          BY <3>3, <4>1
        <5>2. \A n \in Places(j, id) : n \in 1 .. Len(got[j])
          BY DEF Places
        <5>3. \A n \in Places(j, id) : got'[j][n] = got[j][n]
          BY <3>3, <5>2
        <5>4. flushed[j] <= flushed'[j]
          BY <1>1, <3>2 DEF RecordsOK
        <5> QED BY <5>1, <5>3, <5>4
      <4> QED BY <1>1, <1>7, <4>1 DEF Same, Traces
    <3>6. CASE Top(t).for # "log"
      <4>1. entry.dump
        <5>1. Top(t).for # "flush"
          BY <1>1, TopFacts DEF Inv, Shaped
        <5> QED BY <1>2, <2>2, <2>4, <3>1, <3>6, <5>1 DEF Frames
      <4>2. Quiet
        BY <1>1, <1>7, <3>4, <3>5, <4>1 DEF Quiet
      <4> QED BY <1>1, <2>2, <3>6, <4>2, QuietGoto
    <3>7. CASE Top(t).for = "log"
      <4>1. PICK own, c : own = m.id /\ c = calls[own]
        OBVIOUS
      <4>2. /\ own = Own(t) /\ own \in 1 .. Len(calls) /\ Carries(Top(t)) /\ ~ entry.dump
            /\ entry.id = own /\ own \notin returned
        BY <1>1, <1>2, <2>2, <3>1, <3>7, <4>1, OwnFacts
      <4>3. /\ Traces(own) = {} /\ Top(t).log = c.log /\ m.level = c.level
            /\ Top(t).trace = c.trace /\ m.params = c.params /\ c.log /\ ~ c.flush
            /\ \A j \in Sinks : IF j < i THEN Given(j, own) ELSE Places(j, own) = {}
        BY <1>1, <1>2, <4>1, <4>2 DEF Carries
      <4>4. /\ Places(i, own)' = {Len(got[i]) + 1}
            /\ \A j \in Sinks \ {i} : Places(j, own)' = Places(j, own)
        <5>1. ~ (i < i)
          BY <3>1 DEF Sinks
        <5> QED BY <3>1, <3>3, <4>2, <4>3, <5>1
      <4>5. \A j \in Sinks : Takes(j, own)' <=> Takes(j, own)
        BY <1>1 DEF Takes
      <4>6. Takes(i, own)
        BY <1>7, <4>1, <4>3 DEF Takes
      <4>7. Sound(own) /\ Traces(own)' = {}
        BY <1>1, <2>2, <3>7, <4>2, <4>3, OwnFacts DEF Traces
      <4>8. ASSUME NEW j \in Sinks
            PROVE  /\ \A n, k \in Places(j, own)' : n = k
                   /\ Places(j, own)' # {} => Takes(j, own)'
                   /\ \A n \in Places(j, own)' : got'[j][n].params = calls'[own].params
        <5>1. CASE j = i
          BY <1>1, <3>1, <3>3, <4>1, <4>3, <4>4, <4>5, <4>6, <5>1
        <5>2. CASE j # i
          BY <1>1, <3>3, <4>4, <4>5, <4>7, <5>2 DEF Sound
        <5> QED BY <5>1, <5>2
      <4>9. Sound(own)'
        BY <4>7, <4>8 DEF Sound
      <4>10. \A j \in Sinks : IF j < i + 1 THEN Given(j, own)' ELSE Places(j, own)' = {}
        <5>1. ASSUME NEW j \in Sinks, j < i PROVE Given(j, own)'
          <6>1. Given(j, own) /\ j # i
            BY <3>1, <4>3, <5>1 DEF Sinks
          <6> QED BY <1>7, <4>4, <4>5, <6>1 DEF Given
        <5>2. Given(i, own)'
          BY <4>4 DEF Given
        <5>3. ASSUME NEW j \in Sinks, ~ (j < i), j # i PROVE Places(j, own)' = {}
          BY <4>3, <4>4, <5>3
        <5>4. \A j \in Sinks : j < i + 1 <=> j < i \/ j = i
          BY <3>1, LoggerAssumption DEF Sinks
        <5> QED BY <5>1, <5>2, <5>3, <5>4
      <4>11. Carries(frame)' /\ frame.msg.id = own
        BY <1>1, <1>2, <2>2, <4>1, <4>2, <4>3, <4>7, <4>10 DEF Carries
      <4>12. \A id \in 1 .. Len(calls) : id # own => Same(id)
        BY <3>5, <4>2
      <4> QED BY <1>1, <2>2, <3>4, <3>7, <4>2, <4>9, <4>11, <4>12, GotoDelivers
    <3> QED BY <3>6, <3>7
  <2> QED BY <2>3, <2>4
<1> QED BY <1>2, <1>3, <1>5, <1>6, <1>7 DEF LogToSink

(* A sink is flushed or throws.                                            *)
LEMMA FlushSinkDelivers ==
    ASSUME Inv, Delivery, NEW t \in Threads, FlushSink(t)
    PROVE  Delivery'
<1>1. /\ Depth(t) > 0 /\ Top(t).at = "flush" /\ ~ Top(t).error /\ Top(t).nth <= NumSinks
      /\ UNCHANGED <<calls, got, pushed, returned>>
  BY DEF FlushSink, At
<1>2. CASE SinkThrows(t) /\ UNCHANGED flushed
  BY <1>1, <1>2, ThrowDelivers
<1>3. CASE /\ flushed' = [flushed EXCEPT ![Top(t).nth] = Len(got[Top(t).nth])]
           /\ NextSink(t) /\ UNCHANGED failed
  <2>1. PICK i, id : i = Top(t).nth /\ id = Top(t).msg.id
    OBVIOUS
  <2>2. PICK frame : frame = [Top(t) EXCEPT !.nth = Top(t).nth + 1]
    OBVIOUS
  <2>3. /\ Goto(t, frame) /\ frame \in Frames /\ Top(t) \in Frames /\ ~ frame.error
        /\ frame.at = Top(t).at /\ frame.for = Top(t).for /\ frame.msg = Top(t).msg
        /\ frame.log = Top(t).log /\ frame.trace = Top(t).trace
        /\ frame.nth = Top(t).nth + 1 /\ i \in Sinks
        /\ Top(t).for = "log" => Carries(Top(t)) /\ id \in 1 .. Len(calls)
        /\ Top(t).for \in {"start", "end"} => Top(t).msg.id = 0
    BY <1>1, <1>3, <2>1, <2>2, NextSinkFacts
  <2>4. /\ got \in [Sinks -> Seq(Entries)] /\ flushed \in [Sinks -> Nat]
        /\ \A j \in Sinks : flushed[j] <= Len(got[j]) /\ Len(got[j]) \in Nat
    BY LenProperties DEF Delivery, RecordsOK
  <2>5. /\ flushed' \in [Sinks -> Nat] /\ flushed'[i] = Len(got[i])
        /\ \A j \in Sinks : j # i => flushed'[j] = flushed[j]
    BY <1>3, <2>1, <2>3, <2>4
  <2>6. \A j \in Sinks : flushed[j] <= flushed'[j] /\ flushed'[j] <= Len(got[j])
    BY <2>3, <2>4, <2>5
  <2>7. Quiet
    BY <1>1, <1>3, <2>5, <2>6, QuietFacts
  <2>8. ASSUME Top(t).for = "log" PROVE Carries(frame)'
    <3>1. PICK g : g = Top(t)
      OBVIOUS
    <3>2. Carries(g)'
      <4>1. Same(id) /\ RecordsOK /\ RecordsOK' /\ Carries(g) /\ g.msg.id = id
        BY <2>1, <2>3, <2>7, <2>8, <3>1 DEF Quiet, Delivery
      <4> QED BY <4>1, SameKept
    <3>3. Flushed(i, id)'
      <4>1. \A n \in Places(i, id)' : n \in 1 .. Len(got[i])
        BY <1>1 DEF Places
      <4> QED BY <2>3, <2>4, <2>5, <4>1 DEF Flushed
    <3>4. \A j \in Sinks : j < i + 1 <=> j < i \/ j = i
      BY <2>3, LoggerAssumption DEF Sinks
    <3>5. /\ g.at = "flush" /\ g.nth = i /\ frame.at = g.at /\ frame.msg = g.msg
          /\ frame.log = g.log /\ frame.trace = g.trace /\ frame.nth = i + 1 /\ frame.msg.id = id
      BY <1>1, <2>1, <2>3, <3>1
    <3>6. \A j \in Sinks : Given(j, id)' /\ (j < i + 1 => Flushed(j, id)')
      BY <3>2, <3>3, <3>4, <3>5 DEF Carries
    <3> QED BY <2>3, <3>2, <3>5, <3>6 DEF Carries
  <2> QED BY <1>1, <2>3, <2>7, <2>8, QuietGoto
<1> QED BY <1>2, <1>3 DEF FlushSink

-----------------------------------------------------------------------------
(* What follows a delivery in its caller; a message is then settled but for *)
(* its trace.                                                              *)
LEMMA AfterSinkItDelivers ==
    ASSUME Inv, Delivery, Quiet, NEW t \in Threads, Depth(t) > 0, AfterSinkIt(t),
           Top(t).at \in {"sinks", "flush"}, Top(t).for # "flush",
           Top(t).for = "log" =>
              \A i \in Sinks : /\ Given(i, Top(t).msg.id)
                               /\ calls[Top(t).msg.id].flush => Flushed(i, Top(t).msg.id)
    PROVE  Delivery'
<1>1. /\ Top(t) \in Frames
      /\ Top(t).for = "log" => Carries(Top(t))
      /\ Top(t).for \in {"start", "end"} => Top(t).msg.id = 0
  BY TopFacts, OwnFacts DEF Inv
<1>2. ASSUME NEW place \in {"push", "lock", "next"},
             Goto(t, [Top(t) EXCEPT !.at = place]),
             place = "push" <=> Top(t).for = "log"
      PROVE  Delivery'
  <2>1. PICK frame : frame = [Top(t) EXCEPT !.at = place]
    OBVIOUS
  <2>2. /\ frame \in Frames /\ frame.at = place /\ frame.for = Top(t).for /\ frame.msg = Top(t).msg
        /\ frame.log = Top(t).log /\ frame.trace = Top(t).trace
    BY <1>1, <1>2, <2>1 DEF Frames
  <2>3. Goto(t, frame)
    BY <1>2, <2>1
  <2>4. ASSUME Top(t).for = "log" PROVE Carries(frame)
    <3>1. frame.at = "push"
      BY <1>2, <2>2, <2>4
    <3> QED BY <1>1, <2>2, <2>4, <3>1 DEF Carries
  <2> QED BY <1>1, <2>2, <2>3, <2>4, QuietGoto
<1>3. CASE Top(t).for = "log"
  BY <1>2, <1>3 DEF AfterSinkIt
<1>4. CASE Top(t).for = "start"
  BY <1>2, <1>4 DEF AfterSinkIt
<1>5. CASE Top(t).for = "front"
  BY <1>2, <1>5 DEF AfterSinkIt
<1>6. CASE Top(t).for = "end"
  <2>1. Return(t)
    BY <1>6 DEF AfterSinkIt
  <2> QED BY <2>1, QuietReturn
<1> QED BY <1>1, <1>3, <1>4, <1>5, <1>6 DEF Frames

(* The end of a loop over the sinks.                                       *)
LEMMA AfterSinksDelivers ==
    ASSUME Inv, Delivery, NEW t \in Threads, AfterSinks(t)
    PROVE  Delivery'
<1>1. /\ Depth(t) > 0 /\ Top(t).at = "sinks" /\ ~ Top(t).error /\ Top(t).nth > NumSinks
      /\ UNCHANGED <<got, flushed, pushed, failed, returned>>
  BY DEF AfterSinks, At
<1>2. /\ Top(t) \in Frames /\ Top(t).for # "flush"
      /\ Top(t).for = "log" => Carries(Top(t)) /\ Top(t).msg.id \in 1 .. Len(calls)
      /\ Top(t).for \in {"start", "end"} => Top(t).msg.id = 0
      /\ calls \in Seq(CallRecord)
  BY <1>1, TopFacts, OwnFacts DEF Inv, Shaped, DataInv
<1>3. PICK own : own = Top(t).msg.id
  OBVIOUS
<1>4. ASSUME Top(t).for = "log"
      PROVE  ~ calls[own].flush /\ \A i \in Sinks : Given(i, own)
  <2>1. \A i \in Sinks : i < Top(t).nth
    BY <1>1, <1>2, LoggerAssumption DEF Sinks, Frames
  <2> QED BY <1>1, <1>2, <1>3, <1>4, <2>1 DEF Carries
<1>5. CASE should_flush_(Top(t).msg)
  <2>1. PICK frame : frame = [Top(t) EXCEPT !.at = "flush", !.nth = 1]
    OBVIOUS
  <2>2. /\ frame \in Frames /\ frame.at = "flush" /\ frame.for = Top(t).for /\ frame.nth = 1
        /\ frame.msg = Top(t).msg /\ frame.log = Top(t).log /\ frame.trace = Top(t).trace
        /\ frame.error = Top(t).error
    <3>1. 1 \in 1 .. NumSinks + 1
      BY LoggerAssumption
    <3> QED BY <1>2, <2>1, <3>1 DEF Frames
  <2>3. /\ Goto(t, frame)
        /\ calls' = IF Top(t).for = "log" THEN [calls EXCEPT ![own].flush = TRUE] ELSE calls
    BY <1>3, <1>5, <2>1 DEF AfterSinks
  <2>4. CASE Top(t).for # "log"
    <3>1. Quiet
      BY <1>1, <2>3, <2>4, NothingNew
    <3> QED BY <1>1, <1>2, <2>2, <2>3, <2>4, <3>1, QuietGoto
  <2>5. CASE Top(t).for = "log"
    <3>1. PICK c : c = [calls[own] EXCEPT !.flush = TRUE]
      OBVIOUS
    <3>2. /\ c \in CallRecord /\ c.trace = calls[own].trace /\ c.log = calls[own].log
          /\ c.level = calls[own].level /\ c.params = calls[own].params
      <4>1. calls[own] \in CallRecord
        BY <1>2, <1>3, <2>5, ElementOfSeq
      <4> QED BY <3>1, <4>1 DEF CallRecord
    <3>3. /\ Len(calls') = Len(calls) /\ calls'[own] = c
          /\ \A id \in 1 .. Len(calls) : id # own => calls'[id] = calls[id]
      <4>1. calls' = [calls EXCEPT ![own] = c]
        BY <2>3, <2>5, <3>1
      <4> QED BY <1>2, <1>3, <2>5, <3>2, <4>1, ExceptSeq
    <3>4. RecordsOK' /\ \A id \in 1 .. Len(calls) : id # own => Same(id)
      BY <1>1, <3>3, StepFacts
    <3>5. /\ own = Own(t) /\ Sound(own) /\ own \notin returned /\ own \in 1 .. Len(calls)
          /\ Carries(Top(t))
      BY <1>1, <1>2, <1>3, <2>5, OwnFacts
    <3>6. ASSUME NEW i \in Sinks
          PROVE  /\ Places(i, own)' = Places(i, own) /\ (Takes(i, own)' <=> Takes(i, own))
                 /\ Given(i, own)'
      <4>1. Places(i, own)' = Places(i, own)
        BY <1>1 DEF Places
      <4>2. Takes(i, own)' <=> Takes(i, own)
        BY <3>2, <3>3 DEF Takes
      <4>3. Given(i, own)'
        BY <1>1, <1>4, <2>5, <4>1, <4>2 DEF Given
      <4> QED BY <4>1, <4>2, <4>3
    <3>7. Traces(own)' = Traces(own)
      BY <1>1 DEF Traces
    <3>8. Sound(own)'
      <4>1. /\ \A m, n \in Traces(own)' : m = n
            /\ Traces(own)' # {} => calls'[own].trace
        BY <3>2, <3>3, <3>5, <3>7 DEF Sound
      <4>2. ASSUME NEW i \in Sinks
            PROVE  /\ \A m, n \in Places(i, own)' : m = n
                   /\ Places(i, own)' # {} => Takes(i, own)'
                   /\ \A n \in Places(i, own)' : got'[i][n].params = calls'[own].params
        BY <1>1, <3>2, <3>3, <3>5, <3>6 DEF Sound
      <4> QED BY <4>1, <4>2 DEF Sound
    <3>9. Carries(frame)' /\ frame.msg.id = own
      <4>1. \A i \in Sinks : ~ (i < 1)
        BY LoggerAssumption DEF Sinks
      <4>2. /\ Traces(own) = {} /\ Top(t).log = calls[own].log
            /\ Top(t).msg.level = calls[own].level
            /\ Top(t).trace = calls[own].trace /\ Top(t).msg.params = calls[own].params
        BY <1>1, <1>3, <3>5 DEF Carries
      <4> QED BY <1>1, <1>3, <2>2, <3>2, <3>3, <3>5, <3>6, <3>7, <4>1, <4>2 DEF Carries
    <3>10. own \notin returned'
      BY <1>1, <3>5
    <3> QED BY <1>1, <2>2, <2>3, <2>5, <3>3, <3>4, <3>5, <3>8, <3>9, <3>10, GotoDelivers
  <2> QED BY <2>4, <2>5
<1>6. CASE ~ should_flush_(Top(t).msg)
  <2>1. AfterSinkIt(t) /\ Quiet
    BY <1>1, <1>6, NothingNew DEF AfterSinks
  <2> QED BY <1>1, <1>2, <1>3, <1>4, <2>1, AfterSinkItDelivers
<1> QED BY <1>5, <1>6

(* The end of a loop that flushes the sinks.                               *)
LEMMA AfterFlushDelivers ==
    ASSUME Inv, Delivery, NEW t \in Threads, AfterFlush(t)
    PROVE  Delivery'
<1>1. /\ Depth(t) > 0 /\ Top(t).at = "flush" /\ ~ Top(t).error /\ Top(t).nth > NumSinks
      /\ Quiet
  BY NothingNew DEF AfterFlush, At, history
<1>2. CASE Top(t).for = "flush"
  <2>1. Return(t)
    BY <1>2 DEF AfterFlush
  <2> QED BY <1>1, <2>1, QuietReturn
<1>3. CASE Top(t).for # "flush"
  <2>1. AfterSinkIt(t)
    BY <1>3 DEF AfterFlush
  <2>2. Top(t) \in Frames /\ (Top(t).for = "log" => Carries(Top(t)))
    BY <1>1, TopFacts, OwnFacts DEF Inv
  <2>3. \A i \in Sinks : i < Top(t).nth
    BY <1>1, <2>2, LoggerAssumption DEF Sinks, Frames
  <2>4. Top(t).for = "log" =>
           \A i \in Sinks : Given(i, Top(t).msg.id) /\ Flushed(i, Top(t).msg.id)
    BY <1>1, <2>2, <2>3 DEF Carries
  <2> QED BY <1>1, <1>3, <2>1, <2>4, AfterSinkItDelivers
<1> QED BY <1>2, <1>3

(* foreach_pop takes the mutex, and its loop goes on or ends.              *)
LEMMA DumpDelivers ==
    ASSUME Inv, Delivery, NEW t \in Threads, LockTracer(t) \/ NextTraced(t)
    PROVE  Delivery'
<1>1. /\ Depth(t) > 0 /\ Top(t).at \in {"lock", "next"} /\ Quiet
  BY NothingNew DEF LockTracer, NextTraced, At, history
<1>2. /\ Top(t) \in Frames /\ Top(t).for \in {"start", "front"}
      /\ Top(t).for = "start" => Top(t).msg.id = 0
      /\ 1 \in 1 .. NumSinks + 1
  <2>1. Top(t) \in Frames /\ Shaped(Top(t))
    BY <1>1, TopFacts DEF Inv
  <2>2. Top(t).for \in {"start", "end"} => Top(t).msg.id = 0
    BY <1>1, OwnFacts
  <2> QED BY <1>1, <2>1, <2>2, LoggerAssumption DEF Shaped
<1>3. CASE LockTracer(t)
  <2>1. PICK frame : frame = [Top(t) EXCEPT !.at = "next"]
    OBVIOUS
  <2>2. frame \in Frames /\ frame.for = Top(t).for /\ frame.msg = Top(t).msg
    BY <1>2, <2>1 DEF Frames
  <2>3. Goto(t, frame)
    BY <1>3, <2>1 DEF LockTracer
  <2> QED BY <1>1, <1>2, <2>2, <2>3, QuietGoto
<1>4. CASE NextTraced(t) /\ messages_ # <<>>
  <2>1. PICK frame : frame = [Top(t) EXCEPT !.at = "sinks", !.for = "front", !.nth = 1,
                                            !.msg = Head(messages_)]
    OBVIOUS
  <2>2. Head(messages_) \in Messages
    BY <1>4, HeadTailProperties DEF Inv, DataInv
  <2>3. frame \in Frames /\ frame.for = "front"
    BY <1>2, <2>1, <2>2 DEF Frames
  <2>4. Goto(t, frame)
    BY <1>4, <2>1 DEF NextTraced
  <2> QED BY <1>1, <2>3, <2>4, QuietGoto
<1>5. CASE NextTraced(t) /\ messages_ = <<>>
  <2>1. PICK frame : frame = [Top(t) EXCEPT !.at = "sinks", !.for = "end", !.nth = 1,
                                            !.msg = Message(0, Info)]
    OBVIOUS
  <2>2. Message(0, Info) \in Messages /\ Message(0, Info).id = 0
    BY NewMessage, LoggerAssumption DEF Ids, Info, Off
  <2>3. frame \in Frames /\ frame.for = "end" /\ frame.msg.id = 0
    BY <1>2, <2>1, <2>2 DEF Frames
  <2>4. Goto(t, frame)
    BY <1>5, <2>1 DEF NextTraced
  <2> QED BY <1>1, <2>3, <2>4, QuietGoto
<1> QED BY <1>3, <1>4, <1>5

(* The error handler returns: the loop goes on, or log_ returns.           *)
LEMMA HandlerDelivers ==
    ASSUME Inv, Delivery, NEW t \in Threads, HandlerReturns(t)
    PROVE  Delivery'
<1>1. Depth(t) > 0 /\ Top(t).error /\ Quiet
  BY NothingNew DEF HandlerReturns, InHandler, history
<1>2. /\ Top(t) \in Frames /\ Shaped(Top(t)) /\ NumSinks \in Nat
      /\ Top(t).for = "log" => Carries(Top(t))
      /\ Top(t).for \in {"start", "end"} => Top(t).msg.id = 0
  BY <1>1, TopFacts, OwnFacts DEF Inv
<1>3. CASE Top(t).at = "enter"
  <2>1. Return(t)
    BY <1>3 DEF HandlerReturns
  <2> QED BY <1>1, <2>1, QuietReturn
<1>4. CASE Top(t).at # "enter"
  <2>1. PICK frame : frame = [Top(t) EXCEPT !.error = FALSE, !.nth = Top(t).nth + 1]
    OBVIOUS
  <2>2. /\ Goto(t, frame) /\ Top(t).nth <= NumSinks /\ Top(t).at \in {"sinks", "flush"}
    BY <1>1, <1>2, <1>4, <2>1 DEF HandlerReturns, Shaped
  <2>3. Top(t).nth \in Sinks /\ Top(t).nth + 1 \in 1 .. NumSinks + 1
    BY <1>2, <2>2 DEF Frames, Sinks
  <2>4. /\ frame \in Frames /\ frame.at = Top(t).at /\ frame.for = Top(t).for
        /\ frame.msg = Top(t).msg /\ frame.log = Top(t).log /\ frame.trace = Top(t).trace
        /\ frame.nth = Top(t).nth + 1
    BY <1>2, <2>1, <2>3 DEF Frames
  <2>5. frame.error = FALSE
    BY <1>2, <2>1 DEF Frames
  <2>6. ASSUME Top(t).for = "log" PROVE Carries(frame)
    <3>1. /\ Top(t).at = "sinks" => <<Top(t).msg.id, Top(t).nth, "log">> \in failed
          /\ Top(t).at = "flush" => <<Top(t).msg.id, Top(t).nth, "flush">> \in failed
      BY <1>1, <1>2, <2>6 DEF Carries
    <3>2. /\ Top(t).at = "sinks" => Given(Top(t).nth, Top(t).msg.id)
          /\ Top(t).at = "flush" => Flushed(Top(t).nth, Top(t).msg.id)
      BY <3>1 DEF Given, Flushed
    <3> QED BY <1>2, <2>2, <2>3, <2>4, <2>5, <2>6, <3>2, NextCarries
  <2> QED BY <1>1, <1>2, <2>2, <2>4, <2>6, QuietGoto
<1> QED BY <1>3, <1>4

(* Every step keeps what is known of the messages.                         *)
LEMMA NextDelivers == Inv /\ Delivery /\ [Next]_vars => Delivery'
<1> SUFFICES ASSUME Inv, Delivery, [Next]_vars PROVE Delivery'
  OBVIOUS
<1>1. ASSUME NEW t \in Threads, ExceptionLeaves(t) PROVE Delivery'
  <2>1. Depth(t) > 0 /\ Return(t) /\ Quiet
    BY <1>1, NothingNew DEF ExceptionLeaves, InHandler, history
  <2> QED BY <2>1, QuietReturn
<1>2. ASSUME NEW t \in Threads, Running(t) PROVE Delivery'
  BY <1>1, <1>2, ReadEnabledDelivers, DestroyDelivers, PushTraceDelivers, LogToSinkDelivers,
     AfterSinksDelivers, FlushSinkDelivers, AfterFlushDelivers, DumpDelivers, HandlerDelivers
  DEF Running
<1>3. ASSUME UNCHANGED <<stack, calls, got, flushed, pushed, failed, returned>> PROVE Delivery'
  <2>1. Quiet /\ RecordsOK /\ RecordsOK'
    BY <1>3, NothingNew DEF Quiet, Delivery
  <2>2. \A id \in 1 .. Len(calls) :
            /\ Sound(id) => Sound(id)'
            /\ Settled(id) => Settled(id)'
            /\ \A f : f.msg.id = id /\ Carries(f) => Carries(f)'
    BY <2>1, SameKept DEF Quiet
  <2>3. MessagesOK'
    BY <1>3, <2>2 DEF Delivery, MessagesOK
  <2>4. ASSUME NEW t \in Threads, NEW d \in 1 .. Depth(t), stack[t][d].for = "log"
        PROVE  Carries(stack[t][d])'
    <3>1. PICK f : f = stack[t][d]
      OBVIOUS
    <3>2. Carries(f) /\ f.msg.id \in 1 .. Len(calls)
      BY <2>4, <3>1 DEF Delivery, CarriersOK, Inv, StackInv, ShapeInv, Shaped
    <3>3. Carries(f)'
      BY <2>2, <3>2
    <3> QED BY <1>3, <3>1, <3>3
  <2>5. CarriersOK'
    <3>1. \A t \in Threads : Depth(t)' = Depth(t)
      BY <1>3 DEF Depth
    <3> QED BY <1>3, <2>4, <3>1 DEF Delivery, CarriersOK
  <2> QED BY <2>1, <2>3, <2>5 DEF Delivery
<1>4. CASE Configure
  BY <1>3, <1>4 DEF Configure
<1>5. CASE UNCHANGED vars
  BY <1>3, <1>5 DEF vars, history
<1> QED BY <1>2, <1>4, <1>5, CallingDelivers, UsingDelivers DEF Next, Stopped

(* At first no message has been given.                                     *)
LEMMA InitDelivers == Init => Delivery
<1> SUFFICES ASSUME Init PROVE Delivery
  OBVIOUS
<1>1. /\ stack = [t \in Threads |-> <<>>] /\ calls = <<>> /\ pushed = <<>>
      /\ got = [i \in Sinks |-> <<>>] /\ flushed = [i \in Sinks |-> 0]
  BY DEF Init
<1>2. RecordsOK
  BY <1>1 DEF RecordsOK
<1>3. MessagesOK
  BY <1>1 DEF MessagesOK
<1>4. CarriersOK
  <2>1. \A t \in Threads : Depth(t) = 0
    BY <1>1 DEF Depth
  <2> QED BY <2>1 DEF CarriersOK
<1> QED BY <1>2, <1>3, <1>4 DEF Delivery

(* A set of places with no two different ones has one at most.             *)
LEMMA AtMostOne ==
    ASSUME NEW S, \A a, b \in S : a = b
    PROVE  IF S = {} THEN Cardinality(S) = 0 ELSE Cardinality(S) = 1
<1>1. CASE S = {}
  BY <1>1, FS_EmptySet
<1>2. CASE S # {}
  <2>1. PICK a : a \in S
    BY <1>2
  <2>2. S = {a}
    BY <2>1
  <2>3. Cardinality(S) = 1
    BY <2>2, FS_Singleton
  <2> QED BY <1>2, <2>3
<1> QED BY <1>1, <1>2

(* An executor delivers its message exactly once, to the sinks that log()  *)
(* found, with all its parameters, flushed if its level asks for it; and   *)
(* the message is traced once if log() found the backtrace enabled         *)
(* (executor-inl.h:37-61, logger-inl.h:165-218).                           *)
THEOREM Delivered == Spec => []DeliveredOnce
<1>1. Spec => []Delivery
  BY InitDelivers, NextDelivers, Invariant, PTL DEF Spec
<1>2. Inv /\ Delivery => DeliveredOnce
  <2> SUFFICES ASSUME Inv, Delivery, NEW id \in 1 .. Len(calls)
               PROVE  /\ Cardinality(Traces(id)) <= (IF calls[id].trace THEN 1 ELSE 0)
                      /\ id \in returned /\ calls[id].trace => Traces(id) # {}
                      /\ \A i \in Sinks :
                            /\ Cardinality(Places(i, id)) <= (IF Takes(i, id) THEN 1 ELSE 0)
                            /\ \A n \in Places(i, id) : got[i][n].params = calls[id].params
                            /\ id \in returned /\ Takes(i, id) /\ <<id, i, "log">> \notin failed
                                  => Places(i, id) # {}
                            /\ id \in returned /\ calls[id].flush /\ <<id, i, "flush">> \notin failed
                                  => \A n \in Places(i, id) : n <= flushed[i]
    BY DEF DeliveredOnce, Places, Traces, Takes
  <2>1. Sound(id) /\ (id \in returned => Settled(id))
    BY DEF Delivery, MessagesOK
  <2>2. /\ IF Traces(id) = {} THEN Cardinality(Traces(id)) = 0 ELSE Cardinality(Traces(id)) = 1
        /\ \A i \in Sinks : IF Places(i, id) = {} THEN Cardinality(Places(i, id)) = 0
                            ELSE Cardinality(Places(i, id)) = 1
    BY <2>1, AtMostOne DEF Sound
  <2>3. Cardinality(Traces(id)) <= (IF calls[id].trace THEN 1 ELSE 0)
    BY <2>1, <2>2 DEF Sound
  <2>4. ASSUME NEW i \in Sinks
        PROVE  Cardinality(Places(i, id)) <= (IF Takes(i, id) THEN 1 ELSE 0)
    BY <2>1, <2>2 DEF Sound
  <2> QED BY <2>1, <2>3, <2>4 DEF Sound, Settled, Given, Flushed
<1> QED BY <1>1, <1>2, Invariant, PTL

-----------------------------------------------------------------------------
(* Dumps.  A traced message, and two of them in the order of tracing.       *)
Traced(id) == Traces(id) # {}
Before(x, y) == \E m, n \in 1 .. Len(pushed) : m < n /\ pushed[m] = x /\ pushed[n] = y

(* A sink threw on a message that was shown, or at the flush after it; it   *)
(* has been shown to sink i, or sink i failed.                             *)
Excused(id) == \E j \in Sinks, for \in {"front", "flush"} : <<id, j, for>> \in failed
ShownTo(i, id) ==
    \/ \E k \in 1 .. Len(got[i]) :
          got[i][k] = [id |-> id, params |-> calls[id].params, dump |-> TRUE]
    \/ <<id, i, "front">> \in failed
ShownToAll(id) == \A i \in Sinks : calls[id].level >= SinkLevel[i] => ShownTo(i, id)

(* The calls that are showing a message, at most one; it has had its turn   *)
(* at sink i.                                                              *)
Showing ==
    {f \in Frames : ShowsFront(f) /\ \E t \in Threads : \E d \in 1 .. Depth(t) : stack[t][d] = f}
Passed(f, i) == f.at = "flush" \/ i < f.nth

(* What is in the queue has been traced, in this order, as it is.           *)
QueueOK ==
    /\ \A k \in 1 .. Len(messages_) :
          /\ Traced(messages_[k].id)
          /\ messages_[k].level = calls[messages_[k].id].level
          /\ messages_[k].params = calls[messages_[k].id].params
    /\ \A k, l \in 1 .. Len(messages_) : k < l => Before(messages_[k].id, messages_[l].id)

(* What a sink has been shown comes before what is in the queue, but for    *)
(* the message in front that is being shown, or was when a sink threw.      *)
FrontAgain(i, id) ==
    id = messages_[1].id /\ (Excused(id) \/ \E f \in Showing : Passed(f, i))
ShownOK ==
    \A i \in Sinks : \A n \in 1 .. Len(got[i]) : got[i][n].dump =>
        /\ Traced(got[i][n].id)
        /\ \A k \in 1 .. Len(messages_) :
              Before(got[i][n].id, messages_[k].id) \/ (k = 1 /\ FrontAgain(i, got[i][n].id))
OrderOK ==
    \A i \in Sinks : \A m, n \in 1 .. Len(got[i]) :
        m < n /\ got[i][m].dump /\ got[i][n].dump =>
            \/ Before(got[i][m].id, got[i][n].id)
            \/ got[i][m].id = got[i][n].id /\ Excused(got[i][m].id)

(* The front message is being shown: where it has had its turn it has been  *)
(* shown, and the exception that is being handled is recorded.              *)
Shows(f) ==
    /\ f.msg = messages_[1]
    /\ f.error => <<f.msg.id, f.nth, IF f.at = "flush" THEN "flush" ELSE "front">> \in failed
    /\ \A i \in Sinks : Passed(f, i) /\ calls[f.msg.id].level >= SinkLevel[i] => ShownTo(i, f.msg.id)

Kept == \A n \in 1 .. Len(pushed) :
           pushed[n] \in Numbers(messages_) \cup lost \/ ShownToAll(pushed[n])

Dumping == QueueOK /\ ShownOK /\ OrderOK /\ (\A f \in Showing : Shows(f)) /\ Kept

(* A frame shows the front message inside foreach_pop only: with the mutex. *)
LEMMA OneShows ==
    ASSUME Inv, NEW t \in Threads, Depth(t) > 0, InForeachPop(Top(t))
    PROVE  Showing = IF ShowsFront(Top(t)) THEN {Top(t)} ELSE {}
<1>1. /\ Top(t) \in Frames /\ Depth(t) \in 1 .. Depth(t) /\ Top(t) = stack[t][Depth(t)]
      /\ mutex_ = t
  BY TopFacts DEF Inv
<1>2. ASSUME NEW s \in Threads, NEW d \in 1 .. Depth(s), ShowsFront(stack[s][d])
      PROVE  stack[s][d] = Top(t)
  <2>1. InForeachPop(stack[s][d])
    BY <1>2 DEF ShowsFront, InForeachPop
  <2>2. s = t
    BY <1>1, <2>1 DEF Inv, StackInv, LockInv, LockedOnlyWhileDumping
  <2>3. d = Depth(t)
    BY <1>1, <2>1, <2>2 DEF Inv, StackInv, LockInv
  <2> QED BY <1>1, <2>2, <2>3
<1>3. ShowsFront(Top(t)) => Top(t) \in Showing
  BY <1>1 DEF Showing
<1> QED BY <1>2, <1>3 DEF Showing

(* ... nobody while the mutex is free, in this state and the next. *)
LEMMA NobodyShows ==
    ASSUME Inv, mutex_ = Nobody
    PROVE  Showing = {}
<1>1. \A t \in Threads : \A d \in 1 .. Depth(t) : ~ ShowsFront(stack[t][d])
  BY NobodyHolds DEF Inv, StackInv, ShowsFront, InForeachPop
<1> QED BY <1>1 DEF Showing

(* A step in the innermost call ... *)
LEMMA GotoShows ==
    ASSUME Inv, NEW t \in Threads, Depth(t) > 0, NEW frame \in Frames, Goto(t, frame)
    PROVE  Showing' = (IF ShowsFront(Top(t)) THEN {} ELSE Showing)
                          \cup (IF ShowsFront(frame) THEN {frame} ELSE {})
<1>1. /\ \A s \in Threads \ {t} : stack'[s] = stack[s]
      /\ Len(stack'[t]) = Depth(t)
      /\ stack'[t][Depth(t)] = frame
      /\ \A d \in 1 .. (Depth(t) - 1) : stack'[t][d] = stack[t][d]
  BY GotoFacts DEF Inv, StackInv
<1>2. /\ \A s \in Threads : Depth(s) \in Nat /\ Depth(s)' = Depth(s)
      /\ Depth(t) \in 1 .. Depth(t) /\ Top(t) = stack[t][Depth(t)]
  BY <1>1, StackFacts, TopFacts DEF Inv, StackInv, Depth
<1>3. ASSUME NEW s \in Threads, NEW d \in 1 .. Depth(s)
      PROVE  stack'[s][d] = IF s = t /\ d = Depth(t) THEN frame ELSE stack[s][d]
  BY <1>1, <1>2
<1>4. ShowsFront(Top(t)) => \A s \in Threads : \A d \in 1 .. Depth(s) :
          ShowsFront(stack[s][d]) => s = t /\ d = Depth(t)
  <2> SUFFICES ASSUME ShowsFront(Top(t)), NEW s \in Threads, NEW d \in 1 .. Depth(s),
                      ShowsFront(stack[s][d])
               PROVE  s = t /\ d = Depth(t)
    OBVIOUS
  <2>1. InForeachPop(stack[s][d]) /\ InForeachPop(stack[t][Depth(t)])
    BY <1>2 DEF ShowsFront, InForeachPop
  <2>2. mutex_ = s /\ mutex_ = t
    BY <1>2, <2>1 DEF Inv, StackInv, LockInv, LockedOnlyWhileDumping
  <2> QED BY <1>2, <2>1, <2>2 DEF Inv, StackInv, LockInv
<1>5. ASSUME NEW f \in Frames, ShowsFront(f)
      PROVE  (\E s \in Threads : \E d \in 1 .. Depth(s)' : stack'[s][d] = f) <=>
                \/ f = frame
                \/ ~ ShowsFront(Top(t)) /\ \E s \in Threads : \E d \in 1 .. Depth(s) : stack[s][d] = f
  <2>1. ASSUME NEW s \in Threads, NEW d \in 1 .. Depth(s)', stack'[s][d] = f
        PROVE  \/ f = frame
               \/ ~ ShowsFront(Top(t)) /\ \E r \in Threads : \E e \in 1 .. Depth(r) : stack[r][e] = f
    <3>1. d \in 1 .. Depth(s)
      BY <1>2, <2>1
    <3> QED BY <1>3, <1>4, <1>5, <2>1, <3>1
  <2>2. stack'[t][Depth(t)] = frame /\ Depth(t) \in 1 .. Depth(t)'
    BY <1>1, <1>2
  <2>3. ASSUME ~ ShowsFront(Top(t)), NEW s \in Threads, NEW d \in 1 .. Depth(s), stack[s][d] = f
        PROVE  stack'[s][d] = f /\ d \in 1 .. Depth(s)'
    BY <1>2, <1>3, <1>5, <2>3
  <2> QED BY <2>1, <2>2, <2>3
<1>6. \A f : f \in Showing' <=> f \in Frames /\ ShowsFront(f)
          /\ \E s \in Threads : \E d \in 1 .. Depth(s)' : stack'[s][d] = f
  BY DEF Showing, ShowsFront
<1>7. \A f : f \in Showing <=> f \in Frames /\ ShowsFront(f)
          /\ \E s \in Threads : \E d \in 1 .. Depth(s) : stack[s][d] = f
  BY DEF Showing
<1> QED BY <1>5, <1>6, <1>7

(* ... a return ...                                                        *)
LEMMA ReturnShows ==
    ASSUME Inv, NEW t \in Threads, Depth(t) > 0, Return(t)
    PROVE  Showing' = IF ShowsFront(Top(t)) THEN {} ELSE Showing
<1>1. /\ \A s \in Threads \ {t} : stack'[s] = stack[s]
      /\ Len(stack'[t]) = Depth(t) - 1
      /\ \A d \in 1 .. (Depth(t) - 1) : stack'[t][d] = stack[t][d]
  BY ReturnFacts DEF Inv, StackInv
<1>2. /\ \A s \in Threads : Depth(s) \in Nat
      /\ Depth(t)' = Depth(t) - 1
      /\ \A s \in Threads \ {t} : Depth(s)' = Depth(s)
      /\ Depth(t) \in 1 .. Depth(t) /\ Top(t) = stack[t][Depth(t)]
  BY <1>1, StackFacts, TopFacts DEF Inv, StackInv, Depth
<1>3. \A s \in Threads : \A d \in 1 .. Depth(s)' :
          d \in 1 .. Depth(s) /\ stack'[s][d] = stack[s][d] /\ ~ (s = t /\ d = Depth(t))
  BY <1>1, <1>2
<1>4. \A s \in Threads : \A d \in 1 .. Depth(s) :
          (s = t /\ d = Depth(t)) \/ (d \in 1 .. Depth(s)' /\ stack'[s][d] = stack[s][d])
  BY <1>1, <1>2
<1>5. \A f : f \in Showing' <=> f \in Frames /\ ShowsFront(f)
          /\ \E s \in Threads : \E d \in 1 .. Depth(s)' : stack'[s][d] = f
  BY DEF Showing, ShowsFront
<1>6. \A f : f \in Showing <=> f \in Frames /\ ShowsFront(f)
          /\ \E s \in Threads : \E d \in 1 .. Depth(s) : stack[s][d] = f
  BY DEF Showing
<1>7. CASE ShowsFront(Top(t))
  <2> SUFFICES ASSUME NEW s \in Threads, NEW d \in 1 .. Depth(s)', ShowsFront(stack'[s][d])
               PROVE  FALSE
    BY <1>5, <1>7
  <2>1. /\ d \in 1 .. Depth(s) /\ ~ (s = t /\ d = Depth(t))
        /\ InForeachPop(stack[s][d]) /\ InForeachPop(stack[t][Depth(t)])
    BY <1>2, <1>3, <1>7 DEF ShowsFront, InForeachPop
  <2>2. mutex_ = s /\ mutex_ = t
    BY <1>2, <2>1 DEF Inv, StackInv, LockInv, LockedOnlyWhileDumping
  <2> QED BY <1>2, <2>1, <2>2 DEF Inv, StackInv, LockInv
<1>8. CASE ~ ShowsFront(Top(t))
  <2>1. ASSUME NEW f \in Showing' PROVE f \in Showing
    BY <1>3, <1>5, <1>6
  <2>2. ASSUME NEW f \in Showing PROVE f \in Showing'
    BY <1>2, <1>4, <1>5, <1>6, <1>8
  <2> QED BY <1>8, <2>1, <2>2
<1> QED BY <1>7, <1>8

(* ... and a call.                                                         *)
LEMMA CallShows ==
    ASSUME Inv, NEW t \in Threads, NEW frame \in Frames, Call(t, frame), ~ ShowsFront(frame)
    PROVE  Showing' = Showing
<1>1. /\ \A s \in Threads \ {t} : stack'[s] = stack[s]
      /\ Len(stack'[t]) = Depth(t) + 1
      /\ stack'[t][Depth(t) + 1] = frame
      /\ \A d \in 1 .. Depth(t) : stack'[t][d] = stack[t][d]
  BY CallFacts DEF Inv, StackInv
<1>2. /\ \A s \in Threads : Depth(s) \in Nat
      /\ Depth(t)' = Depth(t) + 1
      /\ \A s \in Threads \ {t} : Depth(s)' = Depth(s)
  BY <1>1, StackFacts DEF Inv, StackInv, Depth
<1>3. \A s \in Threads : \A d \in 1 .. Depth(s)' :
          (d \in 1 .. Depth(s) /\ stack'[s][d] = stack[s][d]) \/ stack'[s][d] = frame
  BY <1>1, <1>2
<1>4. \A s \in Threads : \A d \in 1 .. Depth(s) :
          d \in 1 .. Depth(s)' /\ stack'[s][d] = stack[s][d]
  BY <1>1, <1>2
<1>5. \A f : f \in Showing' <=> f \in Frames /\ ShowsFront(f)
          /\ \E s \in Threads : \E d \in 1 .. Depth(s)' : stack'[s][d] = f
  BY DEF Showing, ShowsFront
<1>6. \A f : f \in Showing <=> f \in Frames /\ ShowsFront(f)
          /\ \E s \in Threads : \E d \in 1 .. Depth(s) : stack[s][d] = f
  BY DEF Showing
<1>7. \A f : f \in Showing' => f \in Showing
  BY <1>3, <1>5, <1>6
<1>8. \A f : f \in Showing => f \in Showing'
  BY <1>4, <1>5, <1>6
<1> QED BY <1>7, <1>8

-----------------------------------------------------------------------------
(* What has been traced, shown and recorded stays.                         *)
Grows ==
    /\ \A n \in 1 .. Len(pushed) : n \in 1 .. Len(pushed)' /\ pushed'[n] = pushed[n]
    /\ failed \subseteq failed'
    /\ \A id : Traced(id) => calls'[id].level = calls[id].level /\ calls'[id].params = calls[id].params
    /\ \A i \in Sinks : \A n \in 1 .. Len(got[i]) :
          n \in 1 .. Len(got[i])' /\ got'[i][n] = got[i][n]

(* ... and with it what is said of it.                                     *)
LEMMA StillSo ==
    ASSUME Grows
    PROVE  /\ \A x, y : Before(x, y) => Before(x, y)'
           /\ \A id : Traced(id) => Traced(id)'
           /\ \A id : Excused(id) => Excused(id)'
           /\ \A id : \A i \in Sinks : Traced(id) /\ ShownTo(i, id) => ShownTo(i, id)'
           /\ \A id : Traced(id) /\ ShownToAll(id) => ShownToAll(id)'
<1>1. \A x, y : Before(x, y) => Before(x, y)'
  BY DEF Grows, Before
<1>2. ASSUME NEW id, Traced(id) PROVE Traced(id)'
  <2>1. PICK n \in 1 .. Len(pushed) : pushed[n] = id
    BY <1>2 DEF Traced, Traces
  <2>2. n \in 1 .. Len(pushed)' /\ pushed'[n] = id
    BY <2>1 DEF Grows
  <2> QED BY <2>2 DEF Traced, Traces
<1>3. \A id : Excused(id) => Excused(id)'
  BY DEF Grows, Excused
<1>4. ASSUME NEW id, NEW i \in Sinks, Traced(id), ShownTo(i, id) PROVE ShownTo(i, id)'
  <2>1. calls'[id].params = calls[id].params
    BY <1>4 DEF Grows
  <2>2. CASE <<id, i, "front">> \in failed
    BY <2>2 DEF Grows, ShownTo
  <2>3. CASE \E k \in 1 .. Len(got[i]) :
                got[i][k] = [id |-> id, params |-> calls[id].params, dump |-> TRUE]
    <3>1. PICK k \in 1 .. Len(got[i]) :
              got[i][k] = [id |-> id, params |-> calls[id].params, dump |-> TRUE]
      BY <2>3
    <3>2. k \in 1 .. Len(got[i])' /\ got'[i][k] = got[i][k]
      BY DEF Grows
    <3> QED BY <2>1, <3>1, <3>2 DEF ShownTo
  <2> QED BY <1>4, <2>2, <2>3 DEF ShownTo
<1>5. \A id : Traced(id) /\ ShownToAll(id) => ShownToAll(id)'
  BY <1>4 DEF ShownToAll, Grows
<1> QED BY <1>1, <1>2, <1>3, <1>4, <1>5

(* No sink is shown anything.                                              *)
NoneShown ==
    \A i \in Sinks : \A n \in 1 .. Len(got[i])' : got'[i][n].dump => n \in 1 .. Len(got[i])

(* The queue stays, and nothing more is traced or lost.                    *)
QueueStays == UNCHANGED <<messages_, pushed, lost>>

(* The queue is as true as before ...                                      *)
LEMMA QueueKept ==
    ASSUME Grows, QueueOK, UNCHANGED messages_
    PROVE  QueueOK'
  BY StillSo DEF QueueOK, Grows

(* ... what was kept or shown still is ...                                 *)
LEMMA KeptKept ==
    ASSUME Grows, Kept, QueueStays
    PROVE  Kept'
<1> SUFFICES ASSUME NEW n \in 1 .. Len(pushed), NEW id, id = pushed[n]
             PROVE  id \in Numbers(messages_) \cup lost \/ ShownToAll(id)'
  BY DEF Kept, QueueStays, Numbers, ShownToAll, ShownTo
<1>1. Traced(id)
  BY DEF Traced, Traces
<1>2. id \in Numbers(messages_) \cup lost \/ ShownToAll(id)
  BY DEF Kept
<1> QED BY <1>1, <1>2, StillSo

(* ... and what is shown is in the same order.                             *)
LEMMA OrderKept ==
    ASSUME Grows, NoneShown, OrderOK
    PROVE  OrderOK'
<1> SUFFICES ASSUME NEW i \in Sinks, NEW m \in 1 .. Len(got[i])', NEW n \in 1 .. Len(got[i])',
                    m < n, got'[i][m].dump, got'[i][n].dump,
                    NEW x, NEW y, x = got'[i][m].id, y = got'[i][n].id
             PROVE  Before(x, y)' \/ (x = y /\ Excused(x)')
  <2>1. ASSUME NEW i \in Sinks, NEW m \in 1 .. Len(got'[i]), NEW n \in 1 .. Len(got'[i]),
               m < n, got'[i][m].dump, got'[i][n].dump
        PROVE  (\/ Before(got[i][m].id, got[i][n].id)
                \/ got[i][m].id = got[i][n].id /\ Excused(got[i][m].id))'
    <3>1. PICK x, y : x = got'[i][m].id /\ y = got'[i][n].id
      OBVIOUS
    <3>2. Before(x, y)' \/ (x = y /\ Excused(x)')
      BY <2>1, <3>1
    <3> QED BY <3>1, <3>2 DEF Before, Excused
  <2> QED BY <2>1 DEF OrderOK
<1>1. m \in 1 .. Len(got[i]) /\ n \in 1 .. Len(got[i])
  BY DEF NoneShown
<1>2. got'[i][m] = got[i][m] /\ got'[i][n] = got[i][n]
  BY <1>1 DEF Grows
<1>3. Before(x, y) \/ (x = y /\ Excused(x))
  BY <1>1, <1>2 DEF OrderOK
<1> QED BY <1>3, StillSo

(* What is shown stays before the queue, if a call that was showing the     *)
(* message in front still is or has been stopped by an exception.          *)
LEMMA ShownKept ==
    ASSUME Grows, NoneShown, ShownOK, UNCHANGED messages_,
           \A i \in Sinks : (\E f \in Showing : Passed(f, i)) /\ messages_ # <<>> =>
              Excused(messages_[1].id)' \/ \E f \in Showing' : Passed(f, i)
    PROVE  ShownOK'
<1>1. ASSUME NEW i \in Sinks, NEW n \in 1 .. Len(got'[i]), got'[i][n].dump, NEW x, x = got'[i][n].id
      PROVE  /\ Traced(x)'
             /\ \A k \in 1 .. Len(messages_) :
                   \/ Before(x, messages_[k].id)'
                   \/ k = 1 /\ x = messages_[1].id
                      /\ (Excused(x)' \/ \E f \in Showing' : Passed(f, i))
  <2>1. n \in 1 .. Len(got[i]) /\ got'[i][n] = got[i][n]
    BY <1>1 DEF NoneShown, Grows
  <2>2. /\ Traced(x)
        /\ \A k \in 1 .. Len(messages_) :
              Before(x, messages_[k].id) \/ (k = 1 /\ FrontAgain(i, x))
    BY <1>1, <2>1 DEF ShownOK
  <2>3. ASSUME NEW k \in 1 .. Len(messages_)
        PROVE  \/ Before(x, messages_[k].id)'
               \/ k = 1 /\ x = messages_[1].id
                  /\ (Excused(x)' \/ \E f \in Showing' : Passed(f, i))
    <3>1. PICK y : y = messages_[k].id
      OBVIOUS
    <3>2. CASE Before(x, y)
      <4>1. Before(x, y)'
        BY <3>2, StillSo
      <4> QED BY <3>1, <4>1 DEF Before
    <3>3. CASE k = 1 /\ FrontAgain(i, x)
      <4>1. x = messages_[1].id /\ messages_ # <<>>
            /\ (Excused(x) \/ \E f \in Showing : Passed(f, i))
        BY <3>3 DEF FrontAgain
      <4>2. Excused(x)' \/ \E f \in Showing' : Passed(f, i)
        BY <4>1, StillSo DEF Excused
      <4> QED BY <3>3, <4>1, <4>2
    <3> QED BY <2>2, <3>1, <3>2, <3>3
  <2>4. Traced(x)'
    BY <2>2, StillSo
  <2> QED BY <2>3, <2>4
<1>2. ASSUME NEW i \in Sinks, NEW n \in 1 .. Len(got'[i]), got'[i][n].dump
      PROVE  (/\ Traced(got[i][n].id)
              /\ \A k \in 1 .. Len(messages_) :
                    Before(got[i][n].id, messages_[k].id) \/ (k = 1 /\ FrontAgain(i, got[i][n].id)))'
  <2>1. PICK x : x = got'[i][n].id
    OBVIOUS
  <2>2. /\ Traced(x)'
        /\ \A k \in 1 .. Len(messages_) :
              \/ Before(x, messages_[k].id)'
              \/ k = 1 /\ x = messages_[1].id
                 /\ (Excused(x)' \/ \E f \in Showing' : Passed(f, i))
    BY <1>1, <1>2, <2>1
  <2> QED BY <2>1, <2>2 DEF Traced, Traces, Before, FrontAgain, Excused, Passed
<1> QED BY <1>2 DEF ShownOK

(* The message that is being shown is the traced one in front.             *)
LEMMA FrontFacts ==
    ASSUME Inv, Dumping, NEW f \in Showing
    PROVE  /\ messages_ # <<>> /\ 1 \in 1 .. Len(messages_) /\ f \in Frames
           /\ f.msg = messages_[1] /\ Shows(f)
           /\ Traced(f.msg.id) /\ f.msg.level = calls[f.msg.id].level
           /\ f.msg.params = calls[f.msg.id].params
<1>1. f \in Frames /\ messages_ # <<>> /\ Shows(f)
  BY DEF Showing, Inv, StackInv, FrontInv, Dumping
<1>2. 1 \in 1 .. Len(messages_)
  BY <1>1, LenProperties, EmptySeq DEF Inv, DataInv
<1> QED BY <1>1, <1>2 DEF Shows, Dumping, QueueOK

(* Most steps leave the dumps alone.                                       *)
LEMMA IdleStep ==
    ASSUME Inv, Dumping, Grows, NoneShown, QueueStays, Showing' = Showing
    PROVE  Dumping'
<1>1. QueueOK' /\ Kept' /\ OrderOK'
  BY QueueKept, KeptKept, OrderKept DEF Dumping, QueueStays
<1>2. ShownOK'
  BY ShownKept DEF Dumping, QueueStays
<1>3. ASSUME NEW f \in Showing PROVE Shows(f)'
  <2>1. /\ f.msg = messages_[1] /\ Shows(f) /\ Traced(f.msg.id)
    BY FrontFacts
  <2>2. PICK id : id = f.msg.id
    OBVIOUS
  <2>3. calls'[id].level = calls[id].level
    BY <2>1, <2>2 DEF Grows
  <2>4. \A i \in Sinks : ShownTo(i, id) => ShownTo(i, id)'
    BY <2>1, <2>2, StillSo
  <2>5. \A i \in Sinks : Passed(f, i) /\ calls'[id].level >= SinkLevel[i] => ShownTo(i, id)'
    BY <2>1, <2>2, <2>3, <2>4 DEF Shows
  <2>6. f.error => <<id, f.nth, IF f.at = "flush" THEN "flush" ELSE "front">> \in failed'
    BY <2>1, <2>2 DEF Shows, Grows
  <2> QED BY <2>1, <2>2, <2>5, <2>6 DEF Shows, QueueStays, ShownTo, Passed
<1> QED BY <1>1, <1>2, <1>3 DEF Dumping

(* The loop over the sinks goes on with the message in front.              *)
LEMMA FrontStep ==
    ASSUME Inv, Dumping, Grows, NoneShown, QueueStays, NEW f, Showing = {f}, NEW g, Showing' = {g},
           g.msg = f.msg,
           \A i \in Sinks : Passed(f, i) => Passed(g, i),
           g.error => <<f.msg.id, g.nth, IF g.at = "flush" THEN "flush" ELSE "front">> \in failed',
           \A i \in Sinks : Passed(g, i) /\ ~ Passed(f, i) /\ f.msg.level >= SinkLevel[i] =>
              ShownTo(i, f.msg.id)'
    PROVE  Dumping'
<1>1. QueueOK' /\ Kept' /\ OrderOK'
  BY QueueKept, KeptKept, OrderKept DEF Dumping, QueueStays
<1>2. ShownOK'
  BY ShownKept DEF Dumping, QueueStays
<1>3. /\ f.msg = messages_[1] /\ Shows(f) /\ Traced(f.msg.id)
      /\ f.msg.level = calls[f.msg.id].level
  BY FrontFacts
<1>4. PICK id : id = f.msg.id
  OBVIOUS
<1>5. calls'[id].level = calls[id].level
  BY <1>3, <1>4 DEF Grows
<1>6. \A i \in Sinks : ShownTo(i, id) => ShownTo(i, id)'
  BY <1>3, <1>4, StillSo
<1>7. ASSUME NEW i \in Sinks, Passed(g, i), calls'[id].level >= SinkLevel[i]
      PROVE  ShownTo(i, id)'
  <2>1. f.msg.level >= SinkLevel[i] /\ calls[id].level >= SinkLevel[i]
    BY <1>3, <1>4, <1>5, <1>7
  <2>2. CASE Passed(f, i)
    BY <1>3, <1>4, <1>6, <2>1, <2>2 DEF Shows
  <2>3. CASE ~ Passed(f, i)
    <3>1. ShownTo(i, f.msg.id)'
      BY <1>7, <2>1, <2>3
    <3> QED BY <1>4, <3>1 DEF ShownTo
  <2> QED BY <2>2, <2>3
<1>8. Shows(g)'
  BY <1>3, <1>4, <1>7 DEF Shows, QueueStays, ShownTo, Passed
<1> QED BY <1>1, <1>2, <1>8 DEF Dumping

(* An exception leaves while the message in front is being shown.          *)
LEMMA FrontLeft ==
    ASSUME Inv, Dumping, Grows, NoneShown, QueueStays, NEW f, Showing = {f}, f.error, f.nth \in Sinks,
           Showing' = {}
    PROVE  Dumping'
<1>1. QueueOK' /\ Kept' /\ OrderOK'
  BY QueueKept, KeptKept, OrderKept DEF Dumping, QueueStays
<1>2. f.msg = messages_[1] /\ Shows(f)
  BY FrontFacts
<1>3. Excused(messages_[1].id)
  BY <1>2 DEF Shows, Excused
<1>4. Excused(messages_[1].id)'
  BY <1>3 DEF Excused, Grows, QueueStays
<1>5. ShownOK'
  BY <1>4, ShownKept DEF Dumping, QueueStays
<1> QED BY <1>1, <1>5 DEF Dumping

(* The message in front has been shown to every sink, and is taken away.    *)
LEMMA FrontPopped ==
    ASSUME Inv, Dumping, NEW f, Showing = {f}, \A i \in Sinks : Passed(f, i),
           PopFront, Showing' = {},
           UNCHANGED <<got, pushed, lost, failed>>, Grows
    PROVE  Dumping'
<1>1. /\ messages_ # <<>> /\ f.msg = messages_[1] /\ Shows(f) /\ Traced(f.msg.id)
  BY FrontFacts
<1>2. messages_ \in Seq(Messages)
  BY DEF Inv, DataInv
<1>3. PICK tail : tail = Tail(messages_)
  OBVIOUS
<1>4. /\ tail \in Seq(Messages) /\ Len(tail) = Len(messages_) - 1
      /\ \A n \in 1 .. Len(tail) : tail[n] = messages_[n + 1]
      /\ Len(messages_) \in Nat /\ Len(messages_) > 0
  BY <1>1, <1>2, <1>3, HeadTailProperties, LenProperties, EmptySeq
<1>5. messages_' = tail
  BY <1>3 DEF PopFront
<1>6. \A n \in 1 .. Len(tail) : n + 1 \in 1 .. Len(messages_) /\ n + 1 # 1
  BY <1>4
<1>7. QueueOK'
  <2>1. ASSUME NEW k \in 1 .. Len(tail)
        PROVE  (/\ Traced(tail[k].id)
                /\ tail[k].level = calls[tail[k].id].level
                /\ tail[k].params = calls[tail[k].id].params)
    BY <1>4, <1>6 DEF Dumping, QueueOK
  <2>2. ASSUME NEW k \in 1 .. Len(tail)
        PROVE  /\ Traced(messages_[k].id)'
               /\ messages_'[k].level = calls'[messages_'[k].id].level
               /\ messages_'[k].params = calls'[messages_'[k].id].params
    <3>1. PICK x : x = tail[k].id
      OBVIOUS
    <3>2. Traced(x)' /\ calls'[x].level = calls[x].level /\ calls'[x].params = calls[x].params
      BY <2>1, <3>1, StillSo DEF Grows
    <3> QED BY <1>5, <2>1, <3>1, <3>2 DEF Traced, Traces
  <2>3. ASSUME NEW k \in 1 .. Len(tail), NEW l \in 1 .. Len(tail), k < l
        PROVE  Before(messages_[k].id, messages_[l].id)'
    <3>1. Before(messages_[k + 1].id, messages_[l + 1].id)
      BY <1>6, <2>3 DEF Dumping, QueueOK
    <3>2. messages_'[k] = messages_[k + 1] /\ messages_'[l] = messages_[l + 1]
      BY <1>4, <1>5
    <3> QED BY <3>1, <3>2 DEF Before
  <2> QED BY <1>5, <2>2, <2>3 DEF QueueOK
<1>8. OrderOK'
  BY OrderKept DEF Dumping, NoneShown
<1>9. ShownOK'
  <2>1. ASSUME NEW i \in Sinks, NEW n \in 1 .. Len(got[i]), got[i][n].dump
        PROVE  /\ Traced(got[i][n].id)
               /\ \A k \in 1 .. Len(tail) : Before(got[i][n].id, tail[k].id)
    BY <1>4, <1>6, <2>1 DEF Dumping, ShownOK
  <2>2. ASSUME NEW i \in Sinks, NEW n \in 1 .. Len(got[i]), got[i][n].dump
        PROVE  (/\ Traced(got[i][n].id)
                /\ \A k \in 1 .. Len(messages_) :
                      Before(got[i][n].id, messages_[k].id) \/ (k = 1 /\ FrontAgain(i, got[i][n].id)))'
    BY <1>5, <2>1, <2>2 DEF Traced, Traces, Before
  <2> QED BY <2>2 DEF ShownOK
<1>10. Kept'
  <2>1. PICK top : top = f.msg.id
    OBVIOUS
  <2>2. ShownToAll(top)
    BY <1>1, <2>1 DEF Shows, ShownToAll
  <2>3. Numbers(messages_) \subseteq {top} \cup Numbers(tail)
    <3> SUFFICES ASSUME NEW n \in 1 .. Len(messages_), n # 1
                 PROVE  messages_[n].id \in Numbers(tail)
      BY <1>1, <2>1 DEF Numbers
    <3>1. n - 1 \in 1 .. Len(tail) /\ tail[n - 1] = messages_[(n - 1) + 1] /\ (n - 1) + 1 = n
      BY <1>4
    <3> QED BY <3>1 DEF Numbers
  <2>4. ASSUME NEW n \in 1 .. Len(pushed), NEW id, id = pushed[n]
        PROVE  id \in Numbers(tail) \cup lost \/ ShownToAll(id)'
    <3>1. Traced(id)
      BY <2>4 DEF Traced, Traces
    <3>2. id \in Numbers(tail) \cup lost \/ ShownToAll(id)
      BY <2>2, <2>3, <2>4 DEF Dumping, Kept
    <3> QED BY <3>1, <3>2, StillSo
  <2> QED BY <1>5, <2>4 DEF Kept, Numbers, ShownToAll, ShownTo
<1> QED BY <1>7, <1>8, <1>9, <1>10 DEF Dumping

(* The message in front is given to a sink.                                *)
LEMMA FrontGiven ==
    ASSUME Inv, Delivery, Dumping, NEW f, Showing = {f}, NEW i \in Sinks,
           f.at = "sinks", f.nth = i, NEW g, Showing' = {g}, g.msg = f.msg, ~ g.error,
           g.at = "sinks", g.nth = i + 1,
           NEW entry \in Entries,
           entry.id = f.msg.id, entry.params = f.msg.params, entry.dump = TRUE,
           got' = [got EXCEPT ![i] = Append(@, entry)],
           QueueStays, UNCHANGED <<calls, failed>>
    PROVE  Dumping'
<1>1. /\ messages_ # <<>> /\ 1 \in 1 .. Len(messages_) /\ f \in Frames
      /\ f.msg = messages_[1] /\ Shows(f)
      /\ Traced(f.msg.id) /\ f.msg.level = calls[f.msg.id].level
      /\ f.msg.params = calls[f.msg.id].params
  BY FrontFacts
<1>2. entry = [id |-> f.msg.id, params |-> f.msg.params, dump |-> TRUE]
  BY DEF Entries
<1>3. /\ Len(got[i]) \in Nat
      /\ Len(got'[i]) = Len(got[i]) + 1
      /\ got'[i][Len(got[i]) + 1] = entry
      /\ \A n \in 1 .. Len(got[i]) : got'[i][n] = got[i][n]
      /\ \A j \in Sinks \ {i} : got'[j] = got[j]
  BY AppendFacts DEF Delivery
<1>4. Grows
  BY <1>3 DEF Grows, QueueStays
<1>5. PICK id, new : id = f.msg.id /\ new = Len(got[i]) + 1
  OBVIOUS
<1>6. /\ entry.id = id /\ entry.dump /\ entry.params = calls[id].params
      /\ new \in 1 .. Len(got'[i]) /\ got'[i][new] = entry
  BY <1>1, <1>3, <1>5
<1>7. \A j \in Sinks : \A n \in 1 .. Len(got'[j]) :
          \/ n \in 1 .. Len(got[j]) /\ got'[j][n] = got[j][n]
          \/ j = i /\ n = new
  BY <1>3, <1>5
<1>8. QueueOK' /\ Kept'
  BY <1>4, QueueKept, KeptKept DEF Dumping, QueueStays
<1>9. Sinks \subseteq Nat /\ ~ Passed(f, i) /\ \A j \in Sinks : Passed(g, j) <=> Passed(f, j) \/ j = i
  BY LoggerAssumption DEF Passed, Sinks
<1>10. ASSUME NEW n \in 1 .. Len(got[i]), got[i][n].dump
       PROVE  Before(got[i][n].id, id) \/ (got[i][n].id = id /\ Excused(id))
  <2>1. Before(got[i][n].id, id) \/ FrontAgain(i, got[i][n].id)
    BY <1>1, <1>5, <1>10 DEF Dumping, ShownOK
  <2>2. FrontAgain(i, got[i][n].id) => got[i][n].id = id /\ Excused(got[i][n].id)
    BY <1>1, <1>5, <1>9 DEF FrontAgain
  <2> QED BY <2>1, <2>2
<1>11. OrderOK'
  <2>1. ASSUME NEW j \in Sinks, NEW m \in 1 .. Len(got'[j]), NEW n \in 1 .. Len(got'[j]),
               m < n, got'[j][m].dump, got'[j][n].dump
        PROVE  \/ Before(got[j][m].id, got[j][n].id)'
               \/ got'[j][m].id = got'[j][n].id /\ (Excused(got[j][m].id))'
    <3>1. PICK x, y : x = got'[j][m].id /\ y = got'[j][n].id
      OBVIOUS
    <3>2. Before(x, y) \/ (x = y /\ Excused(x))
      <4>1. CASE n \in 1 .. Len(got[j]) /\ got'[j][n] = got[j][n]
        <5>1. m \in 1 .. Len(got[j]) /\ got'[j][m] = got[j][m]
          BY <1>3, <1>5, <1>7, <2>1, <4>1
        <5> QED BY <2>1, <3>1, <4>1, <5>1 DEF Dumping, OrderOK
      <4>2. CASE j = i /\ n = new
        <5>1. m \in 1 .. Len(got[i]) /\ got'[i][m] = got[i][m]
          BY <1>3, <1>5, <2>1, <4>2
        <5> QED BY <1>6, <1>10, <2>1, <3>1, <4>2, <5>1
      <4> QED BY <1>7, <4>1, <4>2
    <3>3. Before(x, y)' \/ (x = y /\ Excused(x)')
      BY <1>4, <3>2, StillSo
    <3> QED BY <3>1, <3>3 DEF Before, Excused
  <2> QED BY <2>1 DEF OrderOK
<1>12. ShownOK'
  <2>1. ASSUME NEW j \in Sinks, NEW n \in 1 .. Len(got'[j]), got'[j][n].dump, NEW x, x = got'[j][n].id
        PROVE  /\ Traced(x)
               /\ \A k \in 1 .. Len(messages_) :
                     Before(x, messages_[k].id) \/ (k = 1 /\ x = id /\ (Excused(x) \/ Passed(g, j)))
    <3>1. CASE n \in 1 .. Len(got[j]) /\ got'[j][n] = got[j][n]
      <4>1. /\ Traced(x)
            /\ \A k \in 1 .. Len(messages_) :
                  Before(x, messages_[k].id) \/ (k = 1 /\ FrontAgain(j, x))
        BY <2>1, <3>1 DEF Dumping, ShownOK
      <4>2. FrontAgain(j, x) => x = id /\ (Excused(x) \/ Passed(g, j))
        BY <1>1, <1>5, <1>9 DEF FrontAgain
      <4> QED BY <4>1, <4>2
    <3>2. CASE j = i /\ n = new
      <4>1. x = id /\ Passed(g, i)
        BY <1>6, <1>9, <2>1, <3>2
      <4>2. \A k \in 1 .. Len(messages_) : k = 1 \/ Before(id, messages_[k].id)
        BY <1>1, <1>5, LenProperties DEF Dumping, QueueOK, Inv, DataInv
      <4> QED BY <1>1, <1>5, <3>2, <4>1, <4>2
    <3> QED BY <1>7, <3>1, <3>2
  <2>2. ASSUME NEW j \in Sinks, NEW n \in 1 .. Len(got'[j]), got'[j][n].dump
        PROVE  (/\ Traced(got[j][n].id)
                /\ \A k \in 1 .. Len(messages_) :
                      Before(got[j][n].id, messages_[k].id) \/ (k = 1 /\ FrontAgain(j, got[j][n].id)))'
    <3>1. PICK x : x = got'[j][n].id
      OBVIOUS
    <3>2. /\ Traced(x)
          /\ \A k \in 1 .. Len(messages_) :
                Before(x, messages_[k].id) \/ (k = 1 /\ x = id /\ (Excused(x) \/ Passed(g, j)))
      BY <2>1, <2>2, <3>1
    <3>3. UNCHANGED <<messages_, pushed, failed>>
      BY DEF QueueStays
    <3> QED BY <1>1, <1>5, <3>1, <3>2, <3>3 DEF Traced, Traces, Before, FrontAgain, Excused, Passed
  <2> QED BY <2>2 DEF ShownOK
<1>13. Shows(g)'
  <2>1. ShownTo(i, id)'
    BY <1>1, <1>2, <1>5, <1>6 DEF ShownTo
  <2>2. \A j \in Sinks : ShownTo(j, id) => ShownTo(j, id)'
    BY <1>1, <1>4, <1>5, StillSo
  <2>3. \A j \in Sinks : Passed(g, j) /\ calls[id].level >= SinkLevel[j] => ShownTo(j, id)'
    BY <1>1, <1>5, <1>9, <2>1, <2>2 DEF Shows
  <2> QED BY <1>1, <1>5, <2>3 DEF Shows, QueueStays, ShownTo, Passed
<1> QED BY <1>8, <1>11, <1>12, <1>13 DEF Dumping

(* A message is traced: behind the others, of which the first may go.       *)
LEMMA TraceStep ==
    ASSUME Inv, Delivery, Dumping, mutex_ = Nobody,
           NEW m \in Messages, PushBack(m), NEW own, own = m.id,
           m.level = calls[own].level, m.params = calls[own].params, own \in Ids,
           pushed' = Append(pushed, own),
           lost' = lost \cup (Numbers(Append(messages_, m)) \ Numbers(messages_')),
           UNCHANGED <<calls, got, failed>>, Showing' = Showing
    PROVE  Dumping'
<1>1. Showing = {} /\ messages_ \in Seq(Messages) /\ pushed \in Seq(Ids)
  BY NobodyShows DEF Inv, DataInv, Delivery, RecordsOK
<1>2. /\ Len(pushed) \in Nat /\ Len(pushed') = Len(pushed) + 1
      /\ pushed'[Len(pushed) + 1] = own
      /\ \A n \in 1 .. Len(pushed) : pushed'[n] = pushed[n]
  BY <1>1, AppendProperties, LenProperties
<1>3. Grows
  BY <1>2 DEF Grows
<1>4. /\ Traced(own)'
      /\ \A x : Traced(x) => Before(x, own)'
  <2>1. Len(pushed) + 1 \in 1 .. Len(pushed')
    BY <1>2
  <2>2. Traced(own)'
    BY <1>2, <2>1 DEF Traced, Traces
  <2>3. ASSUME NEW x, Traced(x) PROVE Before(x, own)'
    <3>1. PICK n \in 1 .. Len(pushed) : pushed[n] = x
      BY <2>3 DEF Traced, Traces
    <3>2. n \in 1 .. Len(pushed') /\ n < Len(pushed) + 1 /\ pushed'[n] = x
      BY <1>2, <3>1
    <3> QED BY <1>2, <2>1, <3>2 DEF Before
  <2> QED BY <2>2, <2>3
<1>5. PICK q, len : q = Append(messages_, m) /\ len = Len(messages_)
  OBVIOUS
<1>6. /\ q \in Seq(Messages) /\ q # <<>> /\ len \in Nat /\ Len(q) = len + 1 /\ q[len + 1] = m
      /\ \A k \in 1 .. len : q[k] = messages_[k]
  BY <1>1, <1>5, AppendProperties, LenProperties
<1>7. /\ \A k \in 1 .. Len(q) :
            /\ Traced(q[k].id)'
            /\ q[k].level = calls[q[k].id].level
            /\ q[k].params = calls[q[k].id].params
      /\ \A k, l \in 1 .. Len(q) : k < l => Before(q[k].id, q[l].id)'
  <2>1. ASSUME NEW k \in 1 .. len
        PROVE  /\ Traced(q[k].id)
               /\ q[k].level = calls[q[k].id].level
               /\ q[k].params = calls[q[k].id].params
    BY <1>5, <1>6 DEF Dumping, QueueOK
  <2>2. ASSUME NEW k \in 1 .. Len(q)
        PROVE  /\ Traced(q[k].id)'
               /\ q[k].level = calls[q[k].id].level
               /\ q[k].params = calls[q[k].id].params
    <3>1. CASE k \in 1 .. len
      <4>1. PICK x : x = q[k].id
        OBVIOUS
      <4>2. Traced(x)'
        BY <1>3, <2>1, <3>1, <4>1, StillSo
      <4> QED BY <2>1, <3>1, <4>1, <4>2
    <3>2. CASE k = len + 1
      BY <1>4, <1>6, <3>2
    <3> QED BY <1>6, <3>1, <3>2
  <2>3. ASSUME NEW k \in 1 .. Len(q), NEW l \in 1 .. Len(q), k < l
        PROVE  Before(q[k].id, q[l].id)'
    <3>1. k \in 1 .. len
      BY <1>6, <2>3
    <3>2. PICK x, y : x = q[k].id /\ y = q[l].id
      OBVIOUS
    <3>3. Before(x, y)'
      <4>1. CASE l \in 1 .. len
        <5>1. Before(messages_[k].id, messages_[l].id)
          BY <1>5, <2>3, <3>1, <4>1 DEF Dumping, QueueOK
        <5>2. Before(x, y)
          BY <1>6, <3>1, <3>2, <4>1, <5>1
        <5> QED BY <1>3, <5>2, StillSo
      <4>2. CASE l = len + 1
        <5>1. Traced(x) /\ y = own
          BY <1>6, <2>1, <3>1, <3>2, <4>2
        <5>2. Before(x, own)'
          BY <1>4, <5>1
        <5> QED BY <5>1, <5>2 DEF Before
      <4> QED BY <1>6, <4>1, <4>2
    <3> QED BY <3>2, <3>3
  <2> QED BY <2>2, <2>3
<1>8. PICK d \in {0, 1} :
          \A k \in 1 .. Len(messages_') : k + d \in 1 .. Len(q) /\ messages_'[k] = q[k + d]
  <2>1. /\ Tail(q) \in Seq(Messages) /\ Len(Tail(q)) = Len(q) - 1
        /\ \A k \in 1 .. Len(Tail(q)) : Tail(q)[k] = q[k + 1]
    BY <1>6, HeadTailProperties
  <2>2. PICK tail : tail = Tail(q)
    OBVIOUS
  <2>3. messages_' = tail \/ messages_' = q
    BY <1>5, <2>2 DEF PushBack
  <2>4. CASE messages_' = tail
    BY <1>6, <2>1, <2>2, <2>4
  <2>5. CASE messages_' = q
    BY <1>6, <2>5
  <2> QED BY <2>3, <2>4, <2>5
<1>9. QueueOK'
  <2>1. ASSUME NEW k \in 1 .. Len(messages_')
        PROVE  /\ Traced(messages_[k].id)'
               /\ messages_'[k].level = calls'[messages_'[k].id].level
               /\ messages_'[k].params = calls'[messages_'[k].id].params
    <3>1. PICK e : e = q[k + d]
      OBVIOUS
    <3>2. /\ messages_'[k] = e
          /\ Traced(e.id)' /\ e.level = calls[e.id].level /\ e.params = calls[e.id].params
      BY <1>7, <1>8, <3>1
    <3> QED BY <3>2 DEF Traced, Traces
  <2>2. ASSUME NEW k \in 1 .. Len(messages_'), NEW l \in 1 .. Len(messages_'), k < l
        PROVE  Before(messages_[k].id, messages_[l].id)'
    <3>1. k + d \in 1 .. Len(q) /\ l + d \in 1 .. Len(q) /\ k + d < l + d
      BY <1>8, <2>2
    <3>2. PICK x, y : x = q[k + d] /\ y = q[l + d]
      OBVIOUS
    <3>3. messages_'[k] = x /\ messages_'[l] = y /\ Before(x.id, y.id)'
      BY <1>7, <1>8, <3>1, <3>2
    <3> QED BY <3>3 DEF Before
  <2> QED BY <2>1, <2>2 DEF QueueOK
<1>10. OrderOK'
  BY <1>3, OrderKept DEF Dumping, NoneShown
<1>11. ShownOK'
  <2>1. ASSUME NEW i \in Sinks, NEW n \in 1 .. Len(got[i]), got[i][n].dump, NEW x, x = got[i][n].id
        PROVE  /\ Traced(x)'
               /\ \A k \in 1 .. Len(q) :
                     \/ Before(x, q[k].id)'
                     \/ k = 1 /\ x = q[1].id /\ Excused(x)
    <3>1. /\ Traced(x)
          /\ \A k \in 1 .. len : Before(x, messages_[k].id)
                \/ (k = 1 /\ x = messages_[1].id /\ Excused(x))
      BY <1>1, <1>5, <2>1 DEF Dumping, ShownOK, FrontAgain
    <3>2. ASSUME NEW k \in 1 .. Len(q)
          PROVE  \/ Before(x, q[k].id)'
                 \/ k = 1 /\ x = q[1].id /\ Excused(x)
      <4>1. PICK y : y = q[k].id
        OBVIOUS
      <4>2. CASE k \in 1 .. len
        <5>1. Before(x, y) \/ (k = 1 /\ x = q[1].id /\ Excused(x))
          BY <1>6, <3>1, <4>1, <4>2
        <5>2. Before(x, y)' \/ (k = 1 /\ x = q[1].id /\ Excused(x))
          BY <1>3, <5>1, StillSo
        <5> QED BY <4>1, <5>2
      <4>3. CASE k = len + 1
        <5>1. Before(x, own)' /\ q[k].id = own
          BY <1>4, <1>6, <3>1, <4>3
        <5> QED BY <5>1
      <4> QED BY <1>6, <4>2, <4>3
    <3>3. Traced(x)'
      BY <1>3, <3>1, StillSo
    <3> QED BY <3>2, <3>3
  <2>2. ASSUME NEW i \in Sinks, NEW n \in 1 .. Len(got[i]), got[i][n].dump
        PROVE  (/\ Traced(got[i][n].id)
                /\ \A k \in 1 .. Len(messages_) :
                      Before(got[i][n].id, messages_[k].id) \/ (k = 1 /\ FrontAgain(i, got[i][n].id)))'
    <3>1. PICK x : x = got[i][n].id
      OBVIOUS
    <3>2. ASSUME NEW k \in 1 .. Len(messages_')
          PROVE  \/ Before(x, messages_[k].id)'
                 \/ k = 1 /\ x = messages_'[1].id /\ Excused(x)'
      <4>1. PICK j, y : j = k + d /\ y = q[j].id
        OBVIOUS
      <4>2. j \in 1 .. Len(q) /\ messages_'[k] = q[j]
        BY <1>8, <4>1
      <4>3. Before(x, y)' \/ (j = 1 /\ x = q[1].id /\ Excused(x))
        BY <2>1, <2>2, <3>1, <4>1, <4>2
      <4>4. CASE Before(x, y)'
        BY <4>1, <4>2, <4>4 DEF Before
      <4>5. CASE j = 1 /\ x = q[1].id /\ Excused(x)
        <5>1. k = 1 /\ messages_'[1] = q[1]
          BY <4>1, <4>2, <4>5
        <5> QED BY <4>5, <5>1 DEF Excused
      <4> QED BY <4>3, <4>4, <4>5
    <3>3. Traced(x)'
      BY <2>1, <2>2, <3>1
    <3>4. got' = got
      OBVIOUS
    <3>5. ASSUME NEW k \in 1 .. Len(messages_')
          PROVE  (Before(got[i][n].id, messages_[k].id) \/ (k = 1 /\ FrontAgain(i, got[i][n].id)))'
      <4>1. CASE Before(x, messages_[k].id)'
        BY <3>1, <3>4, <4>1 DEF Before
      <4>2. CASE k = 1 /\ x = messages_'[1].id /\ Excused(x)'
        BY <3>1, <3>4, <4>2 DEF FrontAgain, Excused
      <4> QED BY <3>2, <4>1, <4>2
    <3>6. Traced(got[i][n].id)'
      BY <3>1, <3>3, <3>4 DEF Traced, Traces
    <3> QED BY <3>5, <3>6
  <2> QED BY <2>2 DEF ShownOK
<1>12. Kept'
  <2>1. Numbers(messages_) \cup {own} \subseteq Numbers(q)
    <3>1. \A k \in 1 .. len : k \in 1 .. Len(q)
      BY <1>6
    <3>2. len + 1 \in 1 .. Len(q)
      BY <1>6
    <3> QED BY <1>5, <1>6, <3>1, <3>2 DEF Numbers
  <2>2. lost \cup Numbers(q) \subseteq lost' \cup Numbers(messages_')
    BY <1>5
  <2>3. ASSUME NEW n \in 1 .. Len(pushed'), NEW id, id = pushed'[n]
        PROVE  id \in Numbers(messages_') \cup lost' \/ ShownToAll(id)'
    <3>1. CASE n \in 1 .. Len(pushed)
      <4>1. id = pushed[n]
        BY <1>2, <2>3, <3>1
      <4>2. Traced(id)
        BY <3>1, <4>1 DEF Traced, Traces
      <4>3. id \in Numbers(messages_) \cup lost \/ ShownToAll(id)
        BY <3>1, <4>1 DEF Dumping, Kept
      <4>4. ShownToAll(id) => ShownToAll(id)'
        BY <1>3, <4>2, StillSo
      <4> QED BY <2>1, <2>2, <4>3, <4>4
    <3>2. CASE n = Len(pushed) + 1
      BY <1>2, <2>1, <2>2, <2>3, <3>2
    <3> QED BY <1>2, <3>1, <3>2
  <2>4. \A id : ShownToAll(id)' <=> ShownToAll(id)
    BY DEF ShownToAll, ShownTo
  <2> QED BY <2>3, <2>4 DEF Kept, Numbers
<1>13. \A f \in Showing' : Shows(f)'
  BY <1>1
<1> QED BY <1>9, <1>10, <1>11, <1>12, <1>13 DEF Dumping

(* enable forgets the queue.                                               *)
LEMMA ForgetStep ==
    ASSUME Inv, Dumping, mutex_ = Nobody, messages_' = <<>>,
           lost' = lost \cup Numbers(messages_),
           UNCHANGED <<pushed, calls, got, failed>>, Showing' = Showing
    PROVE  Dumping'
<1>1. Showing = {} /\ Len(messages_') = 0
  BY NobodyShows
<1>2. Grows
  BY DEF Grows
<1>3. OrderOK'
  BY <1>2, OrderKept DEF Dumping, NoneShown
<1>4. QueueOK'
  BY <1>1 DEF QueueOK
<1>5. ShownOK'
  <2>1. \A i \in Sinks : \A n \in 1 .. Len(got[i]) : got[i][n].dump => Traced(got[i][n].id)
    BY DEF Dumping, ShownOK
  <2> QED BY <1>1, <2>1 DEF ShownOK, Traced, Traces
<1>6. Kept'
  BY DEF Dumping, Kept, Numbers, ShownToAll, ShownTo
<1> QED BY <1>1, <1>3, <1>4, <1>5, <1>6 DEF Dumping

(* The message in front is taken up.                                       *)
LEMMA FrontTaken ==
    ASSUME Inv, Dumping, Showing = {}, messages_ # <<>>, UNCHANGED <<got, failed, calls>>, QueueStays,
           NEW g, Showing' = {g}, g.msg = messages_[1], ~ g.error, g.at = "sinks", g.nth = 1
    PROVE  Dumping'
<1>1. Grows
  BY DEF Grows, QueueStays
<1>2. NoneShown
  BY DEF NoneShown
<1>3. QueueOK' /\ Kept' /\ OrderOK'
  BY <1>1, <1>2, QueueKept, KeptKept, OrderKept DEF Dumping, QueueStays
<1>4. ShownOK'
  BY <1>1, <1>2, ShownKept DEF Dumping, QueueStays
<1>5. \A i \in Sinks : ~ Passed(g, i)
  BY LoggerAssumption DEF Passed, Sinks
<1>6. Shows(g)'
  BY <1>5 DEF Shows, QueueStays, Passed
<1> QED BY <1>3, <1>4, <1>6 DEF Dumping

-----------------------------------------------------------------------------
(* What a step puts on a stack that has the type of stacks is a frame.      *)
LEMMA NewTop ==
    ASSUME Inv, Inv', NEW t \in Threads, Depth(t) > 0, NEW frame, Goto(t, frame)
    PROVE  frame \in Frames
<1>1. stack[t] \in Seq(Frames) /\ stack'[t] \in Seq(Frames) /\ Depth(t) \in 1 .. Len(stack[t])
  BY StackFacts DEF Inv, StackInv, StackOK, Depth
<1>2. stack'[t] = [stack[t] EXCEPT ![Depth(t)] = frame]
  BY DEF Goto, Inv, StackInv, StackOK
<1>3. DOMAIN stack'[t] = DOMAIN stack[t] /\ stack'[t][Depth(t)] = frame
  BY <1>1, <1>2
<1>4. Depth(t) \in 1 .. Len(stack'[t])
  BY <1>1, <1>3
<1> QED BY <1>1, <1>3, <1>4, ElementOfSeq

(* Steps that only record failures, and what is not about traced messages. *)
LEMMA NothingShown ==
    ASSUME UNCHANGED <<got, pushed>>, failed \subseteq failed',
           \A id : Traced(id) => calls'[id].level = calls[id].level /\ calls'[id].params = calls[id].params
    PROVE  Grows /\ NoneShown
  BY DEF Grows, NoneShown

(* A step of a call that does not show the front message ...               *)
LEMMA IdleGoto ==
    ASSUME Inv, Inv', Dumping, Grows, NoneShown, QueueStays, NEW t \in Threads, Depth(t) > 0,
           NEW frame, Goto(t, frame), ~ ShowsFront(Top(t)), ~ ShowsFront(frame)
    PROVE  Dumping'
<1>1. frame \in Frames
  BY NewTop
<1>2. Showing' = Showing
  BY <1>1, GotoShows
<1> QED BY <1>2, IdleStep

(* ... and its return.                                                     *)
LEMMA IdleReturn ==
    ASSUME Inv, Dumping, Grows, NoneShown, QueueStays, NEW t \in Threads, Depth(t) > 0,
           Return(t), ~ ShowsFront(Top(t))
    PROVE  Dumping'
<1>1. Showing' = Showing
  BY ReturnShows
<1> QED BY <1>1, IdleStep

(* The user or an error handler calls log, flush or dump_backtrace.        *)
LEMMA CallingDumps ==
    ASSUME Inv, Delivery, Dumping, NEW t \in Threads, Calling(t)
    PROVE  Dumping'
<1>1. UNCHANGED <<messages_, pushed, lost, got, failed>>
  BY DEF Calling, CallLog, CallFlush, CallDump, tracerVars, history
<1>2. \A id : Traced(id) => calls'[id] = calls[id]
  <2>1. CASE UNCHANGED calls
    BY <2>1
  <2>2. ASSUME NEW level \in Levels, CallLog(t, level),  NEW id, Traced(id) PROVE calls'[id] = calls[id]
    <3>1. calls \in Seq(CallRecord) /\ Len(calls) \in Nat /\ id \in 1 .. Len(calls)
      BY <2>2, LenProperties DEF Inv, DataInv, Delivery, RecordsOK, Traced, Traces
    <3>2. PICK call : calls' = Append(calls, call)
      BY <2>2 DEF CallLog
    <3> QED BY <3>1, <3>2
  <2> QED BY <2>1, <2>2 DEF Calling, CallFlush, CallDump, history
<1>3. Grows /\ NoneShown /\ QueueStays
  BY <1>1, <1>2, NothingShown DEF QueueStays
<1>4. PICK frame : Call(t, frame) /\ frame.for \in {"log", "start", "flush"} /\ frame \in Frames
  <2>1. ASSUME NEW level \in Levels, CallLog(t, level)
        PROVE  \E frame \in Frames : Call(t, frame) /\ frame.for = "log"
    <3>1. Len(calls) + 1 \in Ids /\ level \in 0 .. Off
      BY <2>1, LoggerAssumption, LenProperties DEF CallLog, Ids, Inv, DataInv
    <3>2. Message(Len(calls) + 1, level) \in Messages
      BY <3>1, NewMessage
    <3>3. Frame("enter", Message(Len(calls) + 1, level), "log") \in Frames
      BY <3>2, NewFrame DEF Reasons
    <3>4. PICK new : new = Frame("enter", Message(Len(calls) + 1, level), "log")
      OBVIOUS
    <3>5. new \in Frames /\ new.for = "log" /\ should_log(level) \in BOOLEAN
      BY <3>3, <3>4 DEF Frame, should_log
    <3>6. PICK frame : frame = [new EXCEPT !.log = should_log(level)]
      OBVIOUS
    <3>7. frame \in Frames /\ frame.for = "log"
      BY <3>5, <3>6 DEF Frames
    <3>8. Call(t, frame)
      BY <2>1, <3>4, <3>6 DEF CallLog
    <3> QED BY <3>7, <3>8
  <2>2. 0 \in Ids /\ 0 \in 0 .. Off /\ Info \in 0 .. Off
    BY LoggerAssumption DEF Ids, Off, Info
  <2>3. Message(0, 0) \in Messages /\ Message(0, Info) \in Messages
    BY <2>2, NewMessage
  <2>4. /\ Frame("flush", Message(0, 0), "flush") \in Frames
        /\ Frame("sinks", Message(0, Info), "start") \in Frames
    BY <2>3, NewFrame DEF Reasons
  <2>5. Frame("flush", Message(0, 0), "flush").for = "flush"
        /\ Frame("sinks", Message(0, Info), "start").for = "start"
    BY DEF Frame
  <2>6. CallFlush(t) => Call(t, Frame("flush", Message(0, 0), "flush"))
    BY DEF CallFlush
  <2>7. CallDump(t) => Call(t, Frame("sinks", Message(0, Info), "start"))
    BY DEF CallDump
  <2> QED BY <2>1, <2>4, <2>5, <2>6, <2>7 DEF Calling
<1>5. ~ ShowsFront(frame)
  BY <1>4 DEF ShowsFront
<1>6. Showing' = Showing
  BY <1>4, <1>5, CallShows
<1> QED BY <1>3, <1>6, IdleStep

(* A call of log that has not come to the sinks.                           *)
LEMMA EarlyDumps ==
    ASSUME Inv, Inv', Delivery, Dumping, NEW t \in Threads,
           \/ ReadEnabled(t) \/ FormatThrows(t) \/ MoveExecutor(t) \/ Destroy(t)
           \/ \E k \in Keys : AddParams(t, k)
    PROVE  Dumping'
<1>1. /\ Depth(t) > 0 /\ Top(t).at \in {"enter", "hold"}
      /\ UNCHANGED <<messages_, pushed, lost, got, failed>>
  BY DEF ReadEnabled, FormatThrows, MoveExecutor, Destroy, AddParams, At, tracerVars, history
<1>2. /\ Top(t) \in Frames /\ Top(t).for = "log" /\ ~ ShowsFront(Top(t))
      /\ Top(t).msg.id \in 1 .. Len(calls)
      /\ Carries(Top(t))
  <2>1. Top(t) \in Frames /\ Shaped(Top(t))
    BY <1>1, TopFacts DEF Inv
  <2>2. Top(t).for = "log"
    BY <1>1, <2>1 DEF Shaped
  <2> QED BY <1>1, <2>1, <2>2, OwnFacts DEF ShowsFront, Shaped
<1>3. PICK own : own = Top(t).msg.id
  OBVIOUS
<1>4. \A id : Traced(id) => calls'[id].level = calls[id].level /\ calls'[id].params = calls[id].params
  <2>1. ~ Traced(own) /\ own \in 1 .. Len(calls) /\ calls \in Seq(CallRecord)
    BY <1>2, <1>3 DEF Carries, Traced, Inv, DataInv
  <2>2. \A id \in 1 .. Len(calls) : id # own => calls'[id] = calls[id]
    <3>1. CASE ReadEnabled(t)
      BY <1>3, <2>1, <3>1 DEF ReadEnabled
    <3>2. CASE \E k \in Keys : AddParams(t, k)
      BY <1>3, <2>1, <3>2 DEF AddParams
    <3>3. CASE UNCHANGED calls
      BY <3>3
    <3> QED BY <3>1, <3>2, <3>3 DEF FormatThrows, MoveExecutor, Destroy, history
  <2>3. \A id : Traced(id) => id \in 1 .. Len(calls)
    BY DEF Traced, Traces, Delivery, RecordsOK
  <2> QED BY <2>1, <2>2, <2>3
<1>5. Grows /\ NoneShown /\ QueueStays
  BY <1>1, <1>4, NothingShown DEF QueueStays
<1>6. Return(t) \/ \E frame : Goto(t, frame) /\ frame.for = "log"
  <2>1. CASE ReadEnabled(t)
    <3>1. PICK frame : frame = [Top(t) EXCEPT !.at = "hold", !.trace = enabled_,
                                              !.objs = <<Executor({})>>]
      OBVIOUS
    <3>2. frame.for = "log"
      BY <1>2, <3>1 DEF Frames
    <3> QED BY <2>1, <3>1, <3>2 DEF ReadEnabled
  <2>2. CASE FormatThrows(t)
    BY <1>2, <2>2 DEF FormatThrows, Frames
  <2>3. CASE MoveExecutor(t)
    BY <1>2, <2>3 DEF MoveExecutor, Frames
  <2>4. ASSUME NEW k \in Keys, AddParams(t, k) PROVE \E frame : Goto(t, frame) /\ frame.for = "log"
    <3>1. PICK n, frame : /\ frame = [Top(t) EXCEPT !.objs[n].params = @ \cup {k}]
                          /\ Goto(t, frame)
      BY <2>4 DEF AddParams
    <3>2. frame.for = "log"
      BY <1>2, <3>1 DEF Frames
    <3> QED BY <3>1, <3>2
  <2>5. CASE Destroy(t)
    <3>1. PICK rest : rest = [Top(t) EXCEPT !.objs = Tail(Top(t).objs)]
      OBVIOUS
    <3>2. PICK e, place : e = Head(Top(t).objs) /\ place = IF rest.log THEN "sinks" ELSE "push"
      OBVIOUS
    <3>3. PICK new, old : /\ new = [rest EXCEPT !.msg.params = e.params, !.nth = 1, !.at = place]
                          /\ old = [rest EXCEPT !.at = "hold"]
      OBVIOUS
    <3>4. Return(t) \/ Goto(t, old) \/ Goto(t, new)
      BY <2>5, <3>1, <3>2, <3>3 DEF Destroy, BackToCaller
    <3>5. new.for = "log" /\ old.for = "log"
      BY <1>2, <3>1, <3>3 DEF Frames
    <3> QED BY <3>4, <3>5
  <2> QED BY <2>1, <2>2, <2>3, <2>4, <2>5
<1>7. CASE Return(t)
  BY <1>1, <1>2, <1>5, <1>7, IdleReturn
<1>8. CASE \E frame : Goto(t, frame) /\ frame.for = "log"
  <2>1. PICK frame : Goto(t, frame) /\ frame.for = "log"
    BY <1>8
  <2>2. ~ ShowsFront(frame)
    BY <2>1 DEF ShowsFront
  <2> QED BY <1>1, <1>2, <1>5, <2>1, <2>2, IdleGoto
<1> QED BY <1>6, <1>7, <1>8

(* The rest of executor_callback. *)
LEMMA PushTraceDumps ==
    ASSUME Inv, Delivery, Dumping, NEW t \in Threads, PushTrace(t)
    PROVE  Dumping'
<1>1. /\ Depth(t) > 0 /\ Top(t).at = "push" /\ UNCHANGED <<calls, got, failed>>
  BY DEF PushTrace, At
<1>2. PICK own : own = Top(t).msg.id
  OBVIOUS
<1>3. /\ Top(t) \in Frames /\ Top(t).for = "log" /\ Top(t).objs = <<>> /\ own \in 1 .. Len(calls)
      /\ Len(calls) \in Nat /\ Len(calls) <= MaxCalls /\ MaxCalls \in Nat
  BY <1>1, <1>2, TopFacts DEF Inv, DataInv, Shaped
<1>4. /\ Carries(Top(t)) /\ ~ ShowsFront(Top(t))
  BY <1>1, <1>3, OwnFacts DEF ShowsFront
<1>5. Return(t) /\ Showing' = Showing
  <2>1. Return(t)
    BY <1>3 DEF PushTrace, BackToCaller
  <2> QED BY <1>1, <1>4, <2>1, ReturnShows
<1>6. CASE Top(t).trace
  <2>1. PICK m : m = Top(t).msg
    OBVIOUS
  <2>2. /\ m \in Messages /\ m.level = calls[own].level /\ m.params = calls[own].params /\ own = m.id
        /\ own \in Ids
    BY <1>1, <1>2, <1>3, <1>4, <2>1 DEF Frames, Carries, Ids
  <2>3. /\ PushBack(m) /\ pushed' = Append(pushed, own)
        /\ lost' = lost \cup (Numbers(Append(messages_, m)) \ Numbers(messages_'))
    BY <1>2, <1>6, <2>1 DEF PushTrace
  <2>4. mutex_ = Nobody
    BY <2>3 DEF PushBack
  <2> QED BY <1>1, <1>5, <2>2, <2>3, <2>4, TraceStep
<1>7. CASE ~ Top(t).trace
  <2>1. QueueStays /\ UNCHANGED pushed
    BY <1>7 DEF PushTrace, tracerVars, QueueStays
  <2>2. Grows /\ NoneShown
    BY <1>1, <2>1, NothingShown
  <2> QED BY <1>5, <2>1, <2>2, IdleStep
<1> QED BY <1>6, <1>7

(* What is known of the call that shows the message in front.              *)
LEMMA ShowingTop ==
    ASSUME Inv, Dumping, NEW t \in Threads, Depth(t) > 0, ShowsFront(Top(t))
    PROVE  /\ Showing = {Top(t)} /\ Top(t) \in Frames /\ NumSinks \in Nat
           /\ Top(t).for = "front" /\ Top(t).at \in {"sinks", "flush"} /\ messages_ # <<>>
           /\ Top(t).msg \in Messages /\ Top(t).msg = messages_[1] /\ Shows(Top(t))
           /\ Top(t).msg.id \in 1 .. Len(calls) /\ Top(t).msg.level = calls[Top(t).msg.id].level
<1>1. Showing = {Top(t)}
  BY OneShows DEF ShowsFront, InForeachPop
<1>2. /\ Top(t) \in Frames /\ messages_ # <<>> /\ 1 \in 1 .. Len(messages_)
      /\ Top(t).msg = messages_[1] /\ Shows(Top(t)) /\ Top(t).msg.level = calls[Top(t).msg.id].level
  BY <1>1, FrontFacts
<1>3. messages_[1].id \in 1 .. Len(calls)
  BY <1>2 DEF Inv, DataInv
<1> QED BY <1>1, <1>2, <1>3, LoggerAssumption DEF ShowsFront, Frames

(* The loop over the sinks goes on.                                        *)
LEMMA NextSinkDumps ==
    ASSUME Inv, Inv', Dumping, Grows, NoneShown, QueueStays, NEW t \in Threads, Depth(t) > 0,
           Top(t).at \in {"sinks", "flush"}, Top(t).nth <= NumSinks,
           NEW frame, frame = [Top(t) EXCEPT !.error = FALSE, !.nth = Top(t).nth + 1], Goto(t, frame),
           ShowsFront(Top(t)) /\ Top(t).at = "sinks" /\ Top(t).msg.level >= SinkLevel[Top(t).nth] =>
              <<Top(t).msg.id, Top(t).nth, "front">> \in failed'
    PROVE  Dumping'
<1>1. Top(t) \in Frames /\ Top(t).nth \in Nat /\ NumSinks \in Nat /\ Top(t).nth \in Sinks
  <2>1. Top(t) \in Frames
    BY TopFacts DEF Inv
  <2> QED BY <2>1, LoggerAssumption DEF Frames, Sinks
<1>2. /\ frame.at = Top(t).at /\ frame.for = Top(t).for /\ frame.msg = Top(t).msg
      /\ ~ frame.error /\ frame.nth = Top(t).nth + 1
  BY <1>1 DEF Frames
<1>3. frame \in Frames /\ (ShowsFront(frame) <=> ShowsFront(Top(t)))
  BY <1>2, NewTop DEF ShowsFront
<1>4. CASE ~ ShowsFront(Top(t))
  BY <1>3, <1>4, IdleGoto
<1>5. CASE ShowsFront(Top(t))
  <2>1. PICK f : f = Top(t)
    OBVIOUS
  <2>2. Showing = {f} /\ Showing' = {frame}
    BY <1>3, <1>5, <2>1, ShowingTop, GotoShows
  <2>3. \A i \in Sinks : Passed(frame, i) <=> Passed(f, i) \/ i = f.nth
    BY <1>1, <1>2, <2>1 DEF Passed, Sinks
  <2>4. ASSUME NEW i \in Sinks, Passed(frame, i), ~ Passed(f, i), f.msg.level >= SinkLevel[i]
        PROVE  ShownTo(i, f.msg.id)'
    <3>1. i = f.nth /\ f.at = "sinks"
      BY <1>5, <2>1, <2>3, <2>4 DEF Passed, ShowsFront
    <3>2. <<f.msg.id, i, "front">> \in failed'
      BY <1>5, <2>1, <2>4, <3>1
    <3> QED BY <3>2 DEF ShownTo
  <2>5. frame.msg = f.msg /\ ~ frame.error
    BY <1>2, <2>1
  <2> QED BY <2>2, <2>3, <2>4, <2>5, FrontStep
<1> QED BY <1>4, <1>5
(* A sink throws.                                                          *)
LEMMA ThrowDumps ==
    ASSUME Inv, Inv', Dumping, NEW t \in Threads, Depth(t) > 0,
           Top(t).at \in {"sinks", "flush"}, SinkThrows(t),
           QueueStays, UNCHANGED <<got, calls>>
    PROVE  Dumping'
<1>1. Grows /\ NoneShown
  BY NothingShown DEF SinkThrows, QueueStays
<1>2. PICK f, frame : f = Top(t) /\ frame = [f EXCEPT !.error = TRUE]
  OBVIOUS
<1>3. /\ Goto(t, frame)
      /\ <<f.msg.id, f.nth, IF f.at = "flush" THEN "flush" ELSE f.for>> \in failed'
  BY <1>2 DEF SinkThrows
<1>4. f \in Frames
  BY <1>2, TopFacts DEF Inv
<1>5. /\ frame.at = f.at /\ frame.for = f.for /\ frame.msg = f.msg /\ frame.nth = f.nth
      /\ frame \in Frames /\ (ShowsFront(frame) <=> ShowsFront(f))
  BY <1>2, <1>4 DEF Frames, ShowsFront
<1>6. CASE ~ ShowsFront(f)
  BY <1>1, <1>2, <1>3, <1>5, <1>6, IdleGoto
<1>7. CASE ShowsFront(f)
  <2>1. Showing = {f} /\ Showing' = {frame}
    BY <1>2, <1>3, <1>5, <1>7, ShowingTop, GotoShows
  <2>2. \A i \in Sinks : Passed(frame, i) <=> Passed(f, i)
    BY <1>5 DEF Passed
  <2>3. <<f.msg.id, frame.nth, IF frame.at = "flush" THEN "flush" ELSE "front">> \in failed'
    BY <1>3, <1>5, <1>7 DEF ShowsFront
  <2> QED BY <1>1, <1>5, <2>1, <2>2, <2>3, FrontStep
<1> QED BY <1>6, <1>7

(* A sink takes a message, passes it over or throws.                       *)
LEMMA LogToSinkDumps ==
    ASSUME Inv, Inv', Delivery, Dumping, NEW t \in Threads, LogToSink(t)
    PROVE  Dumping'
<1>1. /\ Depth(t) > 0 /\ Top(t).at = "sinks" /\ ~ Top(t).error /\ Top(t).nth <= NumSinks
      /\ UNCHANGED calls /\ QueueStays
  BY DEF LogToSink, At, tracerVars, QueueStays
<1>2. PICK f, i, frame : /\ f = Top(t) /\ i = f.nth
                         /\ frame = [f EXCEPT !.error = FALSE, !.nth = f.nth + 1]
  OBVIOUS
<1>3. f \in Frames /\ f.error = FALSE /\ i \in Sinks /\ SinkLevel[i] \in Nat /\ f.msg.level \in Nat
  <2>1. f \in Frames
    BY <1>1, <1>2, TopFacts DEF Inv
  <2> QED BY <1>1, <1>2, <2>1, LoggerAssumption DEF Frames, Sinks, Messages, Off
<1>4. PICK entry : entry = [id |-> f.msg.id, params |-> f.msg.params, dump |-> f.for = "front"]
  OBVIOUS
<1>5. entry \in Entries /\ entry.dump = (f.for = "front") /\ entry.id = f.msg.id
      /\ entry.params = f.msg.params
  BY <1>3, <1>4 DEF Entries, Frames, Messages
<1>6. frame.at = f.at /\ frame.for = f.for /\ frame.msg = f.msg /\ ~ frame.error /\ frame.nth = i + 1
  BY <1>2, <1>3 DEF Frames
<1>7. NextSink(t) => Goto(t, frame)
  <2>1. frame = [f EXCEPT !.nth = f.nth + 1]
    BY <1>2, <1>3 DEF Frames
  <2> QED BY <1>2, <2>1 DEF NextSink
<1>8. CASE f.msg.level < SinkLevel[i] /\ NextSink(t) /\ UNCHANGED <<got, failed>>
  <2>1. Grows /\ NoneShown
    BY <1>1, <1>8, NothingShown DEF QueueStays
  <2>2. ~ (f.msg.level >= SinkLevel[i])
    BY <1>3, <1>8
  <2> QED BY <1>1, <1>2, <1>7, <1>8, <2>1, <2>2, NextSinkDumps
<1>9. CASE SinkThrows(t) /\ UNCHANGED got
  BY <1>1, <1>9, ThrowDumps
<1>10. CASE /\ NextSink(t) /\ UNCHANGED failed
            /\ got' = IF f.msg.id = 0 THEN got ELSE [got EXCEPT ![i] = Append(@, entry)]
  <2>1. CASE ShowsFront(f)
    <3>1. /\ Showing = {f} /\ f.msg.id \in 1 .. Len(calls)
      BY <1>1, <1>2, <2>1, ShowingTop
    <3>2. frame \in Frames /\ ShowsFront(frame)
      BY <1>1, <1>6, <1>7, <1>10, <2>1, NewTop DEF ShowsFront
    <3>3. Showing' = {frame}
      BY <1>1, <1>2, <1>7, <1>10, <2>1, <3>2, GotoShows
    <3>4. f.msg.id # 0
      BY <3>1
    <3>5. got' = [got EXCEPT ![i] = Append(@, entry)]
      BY <1>10, <3>4
    <3>6. entry.dump = TRUE
      BY <1>4, <2>1 DEF ShowsFront
    <3>7. f.at = "sinks" /\ f.nth = i /\ frame.at = "sinks" /\ UNCHANGED <<calls, failed>>
      BY <1>1, <1>2, <1>6, <1>10
    <3> QED BY <1>1, <1>3, <1>5, <1>6, <3>1, <3>3, <3>5, <3>6, <3>7, FrontGiven
  <2>2. CASE ~ ShowsFront(f)
    <3>1. f.for # "front" /\ entry.dump = FALSE /\ ~ ShowsFront(frame)
      BY <1>1, <1>2, <1>5, <1>6, <2>2 DEF ShowsFront
    <3>2. Grows /\ NoneShown
      <4>1. CASE UNCHANGED got
        BY <1>1, <1>10, <4>1, NothingShown DEF QueueStays
      <4>2. CASE got' = [got EXCEPT ![i] = Append(@, entry)]
        <5>1. /\ Len(got[i]) \in Nat
              /\ Len(got'[i]) = Len(got[i]) + 1
              /\ got'[i][Len(got[i]) + 1] = entry
              /\ \A n \in 1 .. Len(got[i]) : got'[i][n] = got[i][n]
              /\ \A j \in Sinks \ {i} : got'[j] = got[j]
          BY <1>3, <1>5, <4>2, AppendFacts DEF Delivery
        <5>2. Grows
          BY <1>1, <1>10, <5>1 DEF Grows, QueueStays
        <5>3. NoneShown
          BY <3>1, <5>1 DEF NoneShown
        <5> QED BY <5>2, <5>3
      <4> QED BY <1>10, <4>1, <4>2
    <3> QED BY <1>1, <1>2, <1>7, <1>10, <2>2, <3>1, <3>2, IdleGoto
  <2> QED BY <2>1, <2>2
<1>11. \/ f.msg.level < SinkLevel[i] /\ NextSink(t) /\ UNCHANGED <<got, failed>>
       \/ SinkThrows(t) /\ UNCHANGED got
       \/ /\ NextSink(t) /\ UNCHANGED failed
          /\ got' = IF f.msg.id = 0 THEN got ELSE [got EXCEPT ![i] = Append(@, entry)]
  BY <1>2, <1>4 DEF LogToSink
<1> QED BY <1>8, <1>9, <1>10, <1>11

(* A sink is flushed or throws.                                            *)
LEMMA FlushSinkDumps ==
    ASSUME Inv, Inv', Dumping, NEW t \in Threads, FlushSink(t)
    PROVE  Dumping'
<1>1. /\ Depth(t) > 0 /\ Top(t).at = "flush" /\ ~ Top(t).error /\ Top(t).nth <= NumSinks
      /\ UNCHANGED <<calls, got>> /\ QueueStays
  BY DEF FlushSink, At, tracerVars, QueueStays
<1>2. CASE SinkThrows(t)
  BY <1>1, <1>2, ThrowDumps
<1>3. CASE NextSink(t) /\ UNCHANGED failed
  <2>1. PICK f, frame : f = Top(t) /\ frame = [f EXCEPT !.error = FALSE, !.nth = f.nth + 1]
    OBVIOUS
  <2>2. f \in Frames
    BY <1>1, <2>1, TopFacts DEF Inv
  <2>3. frame = [f EXCEPT !.nth = f.nth + 1]
    BY <1>1, <2>1, <2>2 DEF Frames
  <2>4. Goto(t, frame)
    BY <1>3, <2>1, <2>3 DEF NextSink
  <2>5. Grows /\ NoneShown
    BY <1>1, <1>3, NothingShown DEF QueueStays
  <2> QED BY <1>1, <2>1, <2>4, <2>5, NextSinkDumps
<1> QED BY <1>2, <1>3 DEF FlushSink

(* What follows a delivery: a message that was shown to every sink is       *)
(* taken from the queue.                                                   *)
LEMMA AfterSinkItDumps ==
    ASSUME Inv, Inv', Dumping, NEW t \in Threads, Depth(t) > 0,
           Top(t).at \in {"sinks", "flush"}, Top(t).for # "flush", AfterSinkIt(t),
           Top(t).at = "sinks" => Top(t).nth > NumSinks,
           UNCHANGED <<got, pushed, lost, failed, calls>>
    PROVE  Dumping'
<1>1. PICK f : f = Top(t)
  OBVIOUS
<1>2. f \in Frames /\ f.for \in {"log", "start", "front", "end"}
  <2>1. f \in Frames
    BY <1>1, TopFacts DEF Inv
  <2> QED BY <1>1, <2>1 DEF Frames
<1>3. ASSUME f.for # "front" PROVE Dumping'
  <2>1. ~ ShowsFront(f) /\ UNCHANGED messages_
    BY <1>1, <1>2, <1>3 DEF AfterSinkIt, tracerVars, ShowsFront
  <2>2. Grows /\ NoneShown /\ QueueStays
    BY <2>1, NothingShown DEF QueueStays
  <2>3. CASE f.for = "end"
    BY <1>1, <2>1, <2>2, <2>3, IdleReturn DEF AfterSinkIt
  <2>4. CASE f.for \in {"log", "start"}
    <3>1. PICK frame, place : /\ frame = [f EXCEPT !.at = place] /\ place \in {"push", "lock"}
                              /\ Goto(t, frame)
      BY <1>1, <2>4 DEF AfterSinkIt
    <3>2. frame.for = f.for
      BY <1>2, <3>1 DEF Frames
    <3>3. ~ ShowsFront(frame)
      BY <1>3, <3>2 DEF ShowsFront
    <3> QED BY <1>1, <2>1, <2>2, <3>1, <3>3, IdleGoto
  <2> QED BY <1>2, <1>3, <2>3, <2>4
<1>4. ASSUME f.for = "front" PROVE Dumping'
  <2>1. PICK frame : frame = [f EXCEPT !.at = "next"]
    OBVIOUS
  <2>2. Goto(t, frame) /\ PopFront
    BY <1>1, <1>4, <2>1 DEF AfterSinkIt
  <2>3. ShowsFront(f) /\ ~ ShowsFront(frame) /\ frame \in Frames
    BY <1>1, <1>2, <1>4, <2>1 DEF Frames, ShowsFront
  <2>4. Showing = {f} /\ Showing' = {}
    BY <1>1, <2>2, <2>3, ShowingTop, GotoShows
  <2>5. \A i \in Sinks : Passed(f, i)
    BY <1>1, <1>2, LoggerAssumption DEF Passed, Sinks, Frames
  <2>6. Grows
    BY DEF Grows
  <2> QED BY <2>2, <2>4, <2>5, <2>6, FrontPopped
<1> QED BY <1>3, <1>4

(* The end of a loop over the sinks.                                       *)
LEMMA AfterSinksDumps ==
    ASSUME Inv, Inv', Delivery, Dumping, NEW t \in Threads, AfterSinks(t)
    PROVE  Dumping'
<1>1. /\ Depth(t) > 0 /\ Top(t).at = "sinks" /\ ~ Top(t).error /\ Top(t).nth > NumSinks
      /\ UNCHANGED <<got, pushed, lost, failed>>
  BY DEF AfterSinks, At, settings
<1>2. PICK f : f = Top(t)
  OBVIOUS
<1>3. f \in Frames /\ f.for # "flush"
  <2>1. f \in Frames /\ Shaped(f)
    BY <1>1, <1>2, TopFacts DEF Inv
  <2> QED BY <1>1, <1>2, <2>1 DEF Shaped
<1>4. CASE should_flush_(f.msg)
  <2>1. PICK frame : frame = [f EXCEPT !.at = "flush", !.nth = 1]
    OBVIOUS
  <2>2. Goto(t, frame) /\ UNCHANGED messages_
    BY <1>2, <1>4, <2>1 DEF AfterSinks, tracerVars
  <2>3. frame.at = "flush" /\ frame.for = f.for /\ frame.msg = f.msg /\ ~ frame.error
    BY <1>1, <1>2, <1>3, <2>1 DEF Frames
  <2>4. \A id \in 1 .. Len(calls) :
            calls'[id].level = calls[id].level /\ calls'[id].params = calls[id].params
    <3>1. calls \in Seq(CallRecord)
      BY DEF Inv, DataInv
    <3>2. UNCHANGED calls \/ calls' = [calls EXCEPT ![f.msg.id].flush = TRUE]
      BY <1>2, <1>4 DEF AfterSinks
    <3>3. ASSUME NEW id \in 1 .. Len(calls)
          PROVE  calls'[id] = calls[id] \/ calls'[id] = [calls[id] EXCEPT !.flush = TRUE]
      <4>1. CASE UNCHANGED calls
        BY <4>1
      <4>2. CASE calls' = [calls EXCEPT ![f.msg.id].flush = TRUE]
        <5>1. PICK own : own = f.msg.id
          OBVIOUS
        <5>2. PICK new : new = [calls[own] EXCEPT !.flush = TRUE]
          OBVIOUS
        <5>3. calls' = [calls EXCEPT ![own] = new]
          BY <4>2, <5>1, <5>2
        <5>4. calls'[id] = IF id = own THEN new ELSE calls[id]
          BY <3>1, <5>3
        <5> QED BY <5>2, <5>4
      <4> QED BY <3>2, <4>1, <4>2
    <3>4. \A id \in 1 .. Len(calls) : calls[id] \in CallRecord
      BY <3>1
    <3> QED BY <3>3, <3>4 DEF CallRecord
  <2>5. \A id : Traced(id) => id \in 1 .. Len(calls)
    BY DEF Traced, Traces, Delivery, RecordsOK
  <2>6. Grows /\ NoneShown /\ QueueStays
    BY <1>1, <2>2, <2>4, <2>5, NothingShown DEF QueueStays
  <2>7. CASE ~ ShowsFront(f)
    <3>1. ~ ShowsFront(frame)
      BY <1>1, <1>2, <2>3, <2>7 DEF ShowsFront
    <3> QED BY <1>1, <1>2, <2>2, <2>6, <2>7, <3>1, IdleGoto
  <2>8. CASE ShowsFront(f)
    <3>1. ShowsFront(frame) /\ frame \in Frames
      BY <1>1, <2>2, <2>3, <2>8, NewTop DEF ShowsFront
    <3>2. Showing = {f} /\ Showing' = {frame}
      BY <1>1, <1>2, <2>2, <2>8, <3>1, ShowingTop, GotoShows
    <3>3. \A i \in Sinks : Passed(f, i) /\ Passed(frame, i)
      BY <1>1, <1>2, <1>3, <2>3, LoggerAssumption DEF Passed, Sinks, Frames
    <3> QED BY <2>3, <2>6, <3>2, <3>3, FrontStep
  <2> QED BY <2>7, <2>8
<1>5. CASE ~ should_flush_(f.msg)
  <2>1. AfterSinkIt(t) /\ UNCHANGED calls
    BY <1>2, <1>5 DEF AfterSinks
  <2> QED BY <1>1, <1>2, <1>3, <2>1, AfterSinkItDumps
<1> QED BY <1>4, <1>5

(* The end of a loop of flushes.                                           *)
LEMMA AfterFlushDumps ==
    ASSUME Inv, Inv', Dumping, NEW t \in Threads, AfterFlush(t)
    PROVE  Dumping'
<1>1. /\ Depth(t) > 0 /\ Top(t).at = "flush"
      /\ UNCHANGED <<got, pushed, lost, failed, calls>>
  BY DEF AfterFlush, At, history
<1>2. CASE Top(t).for = "flush"
  <2>1. Return(t) /\ ~ ShowsFront(Top(t)) /\ QueueStays
    BY <1>1, <1>2 DEF AfterFlush, tracerVars, ShowsFront, QueueStays
  <2>2. Grows /\ NoneShown
    BY <1>1, NothingShown
  <2> QED BY <1>1, <2>1, <2>2, IdleReturn
<1>3. CASE Top(t).for # "flush"
  <2>1. AfterSinkIt(t)
    BY <1>3 DEF AfterFlush
  <2> QED BY <1>1, <1>3, <2>1, AfterSinkItDumps
<1> QED BY <1>2, <1>3

(* foreach_pop takes the mutex, and its loop goes on or ends.              *)
LEMMA MutexDumps ==
    ASSUME Inv, Inv', Dumping, NEW t \in Threads, LockTracer(t) \/ NextTraced(t)
    PROVE  Dumping'
<1>1. /\ Depth(t) > 0 /\ Top(t).at \in {"lock", "next"} /\ ~ ShowsFront(Top(t))
      /\ UNCHANGED <<got, failed, calls>> /\ QueueStays
  BY DEF LockTracer, NextTraced, At, history, Lock, Unlock, tracerVars, QueueStays, ShowsFront
<1>2. Grows /\ NoneShown
  BY <1>1, NothingShown DEF QueueStays
<1>3. PICK f : f = Top(t) /\ f \in Frames
  BY <1>1, TopFacts DEF Inv
<1>4. CASE LockTracer(t)
  <2>1. PICK frame : frame = [f EXCEPT !.at = "next"]
    OBVIOUS
  <2>2. Goto(t, frame)
    BY <1>3, <1>4, <2>1 DEF LockTracer
  <2>3. ~ ShowsFront(frame)
    BY <1>3, <2>1 DEF Frames, ShowsFront
  <2> QED BY <1>1, <1>2, <2>2, <2>3, IdleGoto
<1>5. CASE NextTraced(t) /\ messages_ # <<>>
  <2>1. PICK frame : frame = [f EXCEPT !.at = "sinks", !.for = "front", !.nth = 1,
                                       !.msg = Head(messages_)]
    OBVIOUS
  <2>2. Goto(t, frame)
    BY <1>3, <1>5, <2>1 DEF NextTraced
  <2>3. Head(messages_) = messages_[1]
    BY <1>5, HeadTailProperties DEF Inv, DataInv
  <2>4. /\ frame.at = "sinks" /\ frame.for = "front" /\ frame.nth = 1 /\ frame.msg = messages_[1]
        /\ frame.error = f.error
    BY <1>3, <2>1, <2>3 DEF Frames
  <2>5. ~ f.error
    BY <1>3, <1>5 DEF NextTraced, At
  <2>6. frame \in Frames /\ ShowsFront(frame)
    BY <1>1, <2>2, <2>4, NewTop DEF ShowsFront
  <2>7. Showing = {}
    <3>1. InForeachPop(Top(t))
      BY <1>5 DEF NextTraced, At, InForeachPop
    <3> QED BY <1>1, <3>1, OneShows
  <2>8. Showing' = {frame}
    BY <1>1, <2>2, <2>6, <2>7, GotoShows
  <2> QED BY <1>1, <1>5, <2>4, <2>5, <2>7, <2>8, FrontTaken
<1>6. CASE NextTraced(t) /\ messages_ = <<>>
  <2>1. PICK frame : frame = [f EXCEPT !.at = "sinks", !.for = "end", !.nth = 1,
                                       !.msg = Message(0, Info)]
    OBVIOUS
  <2>2. Goto(t, frame)
    BY <1>3, <1>6, <2>1 DEF NextTraced
  <2>3. ~ ShowsFront(frame)
    BY <1>3, <2>1 DEF Frames, ShowsFront
  <2> QED BY <1>1, <1>2, <2>2, <2>3, IdleGoto
<1> QED BY <1>4, <1>5, <1>6

(* The error handler returns ...                                           *)
LEMMA HandlerDumps ==
    ASSUME Inv, Inv', Dumping, NEW t \in Threads, HandlerReturns(t)
    PROVE  Dumping'
<1>1. /\ Depth(t) > 0 /\ Top(t).error
      /\ UNCHANGED <<got, failed, calls, pushed>> /\ QueueStays
  BY DEF HandlerReturns, InHandler, history, tracerVars, QueueStays
<1>2. Grows /\ NoneShown
  BY <1>1, NothingShown
<1>3. Top(t) \in Frames /\ Shaped(Top(t))
  BY <1>1, TopFacts DEF Inv
<1>4. CASE Top(t).at = "enter"
  <2>1. Return(t) /\ ~ ShowsFront(Top(t))
    BY <1>4 DEF HandlerReturns, ShowsFront
  <2> QED BY <1>1, <1>2, <2>1, IdleReturn
<1>5. CASE Top(t).at # "enter"
  <2>1. PICK frame : frame = [Top(t) EXCEPT !.error = FALSE, !.nth = Top(t).nth + 1]
    OBVIOUS
  <2>2. Goto(t, frame) /\ Top(t).at \in {"sinks", "flush"} /\ Top(t).nth <= NumSinks
    BY <1>1, <1>3, <1>5, <2>1 DEF HandlerReturns, Shaped
  <2>3. ShowsFront(Top(t)) /\ Top(t).at = "sinks" =>
            <<Top(t).msg.id, Top(t).nth, "front">> \in failed'
    BY <1>1, ShowingTop DEF Shows
  <2> QED BY <1>1, <1>2, <2>1, <2>2, <2>3, NextSinkDumps
<1> QED BY <1>4, <1>5

(* ... or an exception leaves the call.                                    *)
LEMMA ExceptionDumps ==
    ASSUME Inv, Dumping, NEW t \in Threads, ExceptionLeaves(t)
    PROVE  Dumping'
<1>1. /\ Depth(t) > 0 /\ Top(t).error /\ Return(t)
      /\ UNCHANGED <<got, failed, calls, pushed>> /\ QueueStays
  BY DEF ExceptionLeaves, InHandler, history, tracerVars, Unlock, QueueStays
<1>2. Grows /\ NoneShown
  BY <1>1, NothingShown
<1>3. PICK f : f = Top(t)
  OBVIOUS
<1>4. CASE ~ ShowsFront(f)
  BY <1>1, <1>2, <1>3, <1>4, IdleReturn
<1>5. CASE ShowsFront(f)
  <2>1. Showing = {f} /\ Showing' = {}
    BY <1>1, <1>3, <1>5, ShowingTop, ReturnShows
  <2>2. f.nth \in Sinks
    <3>1. f \in Frames /\ Shaped(f)
      BY <1>1, <1>3, TopFacts DEF Inv
    <3> QED BY <1>1, <1>3, <1>5, <3>1, LoggerAssumption DEF Shaped, ShowsFront, Frames, Sinks
  <2> QED BY <1>1, <1>2, <1>3, <2>1, <2>2, FrontLeft
<1> QED BY <1>4, <1>5

(* The settings and the backtrace are changed.                             *)
LEMMA ConfigureDumps ==
    ASSUME Inv, Dumping, Configure
    PROVE  Dumping'
<1>1. UNCHANGED <<stack, calls, got, pushed, failed>> /\ Showing' = Showing
  BY DEF Configure, Showing, Depth
<1>2. Grows /\ NoneShown
  BY <1>1, NothingShown
<1>3. ASSUME UNCHANGED <<messages_, lost>> PROVE Dumping'
  <2>1. QueueStays
    BY <1>1, <1>3 DEF QueueStays
  <2> QED BY <1>1, <1>2, <2>1, IdleStep
<1>4. ASSUME NEW size \in Sizes, EnableBacktrace(size) PROVE Dumping'
  BY <1>1, <1>4, ForgetStep DEF EnableBacktrace, Enable
<1> QED BY <1>3, <1>4 DEF Configure, SetLevel, FlushOn, DisableBacktrace, Disable, tracerVars

(* Every step keeps what is known of the dumps.                            *)
LEMMA NextDumps == Inv /\ Inv' /\ Delivery /\ Dumping /\ [Next]_vars => Dumping'
<1> SUFFICES ASSUME Inv, Inv', Delivery, Dumping, [Next]_vars PROVE Dumping'
  OBVIOUS
<1>1. ASSUME NEW t \in Threads, Running(t) \/ Using(t) PROVE Dumping'
  BY <1>1, EarlyDumps, PushTraceDumps, LogToSinkDumps, AfterSinksDumps, FlushSinkDumps,
     AfterFlushDumps, MutexDumps, HandlerDumps, ExceptionDumps
  DEF Running, Using
<1>2. ASSUME UNCHANGED vars PROVE Dumping'
  <2>1. UNCHANGED <<stack, calls, got, pushed, failed>> /\ QueueStays /\ Showing' = Showing
    BY <1>2 DEF vars, history, tracerVars, QueueStays, Showing, Depth
  <2>2. Grows /\ NoneShown
    BY <2>1, NothingShown
  <2> QED BY <2>1, <2>2, IdleStep
<1> QED BY <1>1, <1>2, CallingDumps, ConfigureDumps DEF Next, Stopped

(* At first nothing is traced.                                             *)
LEMMA InitDumps == Init => Dumping
<1> SUFFICES ASSUME Init PROVE Dumping
  OBVIOUS
<1>1. /\ stack = [t \in Threads |-> <<>>] /\ pushed = <<>> /\ messages_ = <<>>
      /\ got = [i \in Sinks |-> <<>>]
  BY DEF Init, TracerInit, TracerEnabled
<1>2. \A t \in Threads : Depth(t) = 0
  BY <1>1 DEF Depth
<1>3. Showing = {}
  BY <1>2 DEF Showing
<1> QED BY <1>1, <1>3 DEF Dumping, QueueOK, ShownOK, OrderOK, Kept

(* What dump_backtrace shows a sink is what was traced, in order, each      *)
(* message once unless a sink has thrown on it; and none is lost that has   *)
(* not been overrun or forgotten (backtracer-inl.h:33-67).                 *)
THEOREM BacktraceIsShown == Spec => []BacktraceShown
<1>1. Spec => []Delivery
  BY InitDelivers, NextDelivers, Invariant, PTL DEF Spec
<1>2. Spec => []Dumping
  BY InitDumps, NextDumps, Invariant, <1>1, PTL DEF Spec
<1>3. Inv /\ Delivery /\ Dumping => BacktraceOnce
  <2> SUFFICES ASSUME Inv, Delivery, Dumping, NEW i \in Sinks,
                      NEW m \in 1 .. Len(got[i]), NEW n \in 1 .. Len(got[i]),
                      got[i][m].dump, got[i][n].dump, m < n
               PROVE  \/ PlaceOf(got[i][m].id) < PlaceOf(got[i][n].id)
                      \/ got[i][m].id = got[i][n].id /\ Excused(got[i][m].id)
    BY DEF BacktraceOnce, Excused
  <2>1. PICK x, y : x = got[i][m].id /\ y = got[i][n].id
    OBVIOUS
  <2>2. Before(x, y) \/ (x = y /\ Excused(x))
    BY <2>1 DEF Dumping, OrderOK
  <2>3. ASSUME NEW j \in 1 .. Len(pushed), NEW id, pushed[j] = id
        PROVE  PlaceOf(id) = j
    <3>1. id \in 1 .. Len(calls) /\ j \in Traces(id)
      BY <2>3 DEF Delivery, RecordsOK, Traces
    <3>2. \A k \in Traces(id) : k = j
      BY <3>1 DEF Delivery, MessagesOK, Sound
    <3>3. \A k \in 1 .. Len(pushed) : pushed[k] = id => k = j
      BY <3>2 DEF Traces
    <3> QED BY <2>3, <3>3 DEF PlaceOf
  <2>4. Before(x, y) => PlaceOf(x) < PlaceOf(y)
    BY <2>3 DEF Before
  <2> QED BY <2>1, <2>2, <2>4
<1>4. Dumping => BacktraceConserved
  BY DEF Dumping, Kept, BacktraceConserved, ShownToAll, ShownTo
<1> QED BY <1>1, <1>2, <1>3, <1>4, Invariant, PTL DEF BacktraceShown
=============================================================================
